SPECIFICATION FairSpec
CONSTANTS
  Devices = {fb0}
  Workers = {w1, w2}
  Lists <- MCLists
  FrameChunks = 2
  PipeSize = 1
  MaxFrames = 2
  MaxBuilds = 2
  MaxCrashes = 1
INVARIANTS
  TypeOK
  OneWriter
  NothingLeft
  FramesWhole
PROPERTIES
  ShownInOrder
  SinksStop
