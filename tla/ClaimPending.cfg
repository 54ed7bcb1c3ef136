SPECIFICATION ModesSpec
CONSTANTS
  s1 = s1
  c1 = c1
  c2 = c2
  c3 = c3
  j1 = j1
  Student = {s1}
  StudentOf <- SameStudent
  Course = {c1, c2, c3}
  Units <- OneUnit
  Request = {1}
  Items <- MCItems
  Single = {}
  TermUnits = 2
  Job = {j1}
  MaxFaults = 0
  MaxCrashes = 1
PROPERTY PendingIsRunAgain
CHECK_DEADLOCK FALSE
