SPECIFICATION FairSpec
CONSTANTS
  Inputs = {"hdmi", "trs"}
  Exclusive = {"hdmi"}
  ChannelCounts = {1, 2}
  RestartAfter = 2
INVARIANTS
  TypeOK
  NoPanicAfterStart
PROPERTIES
  SomeInputRetried
  SilenceKept
  StopReturns
