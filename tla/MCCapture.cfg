SPECIFICATION FairSpec
CONSTANTS
  Buffers = 3
  MirrorLimit = 2
  ErrorLimit = 2
  Explicit = FALSE
  MaxLost = 3
INVARIANTS
  TypeOK
  HdmiOnce
PROPERTIES
  ShownNotRefilled
  FramesCome
  HotplugFollowed
