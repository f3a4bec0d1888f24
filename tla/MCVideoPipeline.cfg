SPECIFICATION FairSpec
CONSTANTS
  MaxUpdates = 2
  ErrorLimit = 2
INVARIANTS
  TypeOK
  PreviewNotLost
PROPERTIES
  PreviewImplementsLiveSettings
  PreviewTimely
  StopReturns
