SPECIFICATION TeachingSpec
CONSTANTS
  Session = {k1, k2}
  NoSession = NoSession
  Net = {0, 100, 200}
  Percent = 40
  MaxAttempts = 2
  MaxRows = 2
  MaxCodes = 2
  MaxCalls = 6
  MaxCrashes = 1
  Overlapping = 4
SYMMETRY Sessions
INVARIANT TypeOK
INVARIANT PaidOnce
INVARIANT SettledWithSignedPapers
CHECK_DEADLOCK FALSE
