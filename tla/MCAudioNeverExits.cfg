SPECIFICATION FairSpec
CONSTANTS
  Inputs = {"hdmi", "trs"}
  Exclusive = {"hdmi"}
  ChannelCounts = {2}
  RestartAfter = 2
INVARIANT NeverExits
