SPECIFICATION FairSpec
CONSTANTS
  Pipelines = 2
  Places = 1
  Prebuffer = 2
INVARIANTS
  TypeOK
  NoBacklog
PROPERTIES
  PlaysAgain
