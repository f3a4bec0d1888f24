SPECIFICATION Spec
CONSTANTS
  MaxPublish = 1
  Stalling = {}
INVARIANT WebReadsLivePipelines
