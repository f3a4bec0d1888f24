SPECIFICATION FairSpec
CONSTANTS
  MaxPublish = 1
  Stalling = {}
PROPERTY PreviewInRealTime
