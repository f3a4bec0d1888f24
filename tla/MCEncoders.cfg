SPECIFICATION FairSpec
CONSTANTS
  Codecs = 2
  Pictures = 2
  MaxDeaths = 1
INVARIANTS
  TypeOK
  StampedRight
PROPERTIES
  LoopEnds
  RequestServed
