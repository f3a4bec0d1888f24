SPECIFICATION ClockFairSpec
CONSTANTS
  Interval = 400
  Threshold = 50
  MaxCorrection = 10
  Skew = 2
  FailedPause = 100
  Gap = 250
  MaxUpsets = 2
INVARIANT InSync
PROPERTY Resync
