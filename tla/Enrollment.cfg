SPECIFICATION HistorySpec
CONSTANTS
  Student = {s1, s2, s3}
  Offering = {o1}
  Capacity <- OneSeat
  HasWaitlist = {o1}
  Tick = {w1, w2}
  DropCall = {d1, d2}
  NoStudent = NoStudent
  NoOffering = NoOffering
  MaxRequests = 5
  MaxCrashes = 1
SYMMETRY Symmetry
CHECK_DEADLOCK FALSE
INVARIANT HistoryTypeOK
INVARIANT NoOverbooking
INVARIANT CountersAgree
INVARIANT WaitersInLine
INVARIANT SeatsKeptForWaiters
