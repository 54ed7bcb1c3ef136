SPECIFICATION ModesSpec
CONSTANTS
  s1 = s1
  c1 = c1
  c2 = c2
  c3 = c3
  j1 = j1
  Student = {s1}
  StudentOf <- SameStudent
  Course = {c1, c2, c3}
  Units <- OneUnit
  Request = {1, 2, 3}
  Items <- MCItems
  Single = {3}
  TermUnits = 2
  Job = {j1, j2}
  MaxFaults = 2
  MaxCrashes = 1
INVARIANT TypeOK
INVARIANT ProcessedIsInTranscript
INVARIANT SerialOneChargePerTerm
INVARIANT SerialChargeCoversTerm
PROPERTY EventuallyAnOutcome
PROPERTY EventuallyProcessed
CHECK_DEADLOCK FALSE
