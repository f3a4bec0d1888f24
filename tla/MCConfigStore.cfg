SPECIFICATION Spec
CONSTANTS
  v1 = v1
  v2 = v2
  r1 = r1
  r2 = r2
  device = device
  queue = queue
  NoXml = NoXml
  Empty = Empty
  Invalid = Invalid
  Missing = Missing
  Truncated = Truncated
  Garbled = Garbled
  Fields <- MCFields
  Values <- MCValues
  Detected <- MCDetected
  Defaults <- MCDefaults
  Legacy <- MCLegacy
  Clamped <- MCClamped
  Requests <- MCRequests
  MaxPosts = 2
  MaxCrashes = 1
  DiskMayFail = TRUE
SYMMETRY AnyRequest
INVARIANTS
  TypeOK
  SavedAgree
PROPERTIES
  AckedSurvives
  EmptyFieldsKept
