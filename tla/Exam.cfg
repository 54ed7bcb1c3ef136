SPECIFICATION ExamSpec
CONSTANTS
  h1 = h1
  h2 = h2
  c1 = c1
  c2 = c2
  s1 = s1
  s2 = s2
  s3 = s3
  k1 = k1
  k2 = k2
  Hall = {h1, h2}
  Course = {c1, c2}
  Student = {s1, s2, s3}
  HallOf <- Halls
  CourseOf <- Courses
  Session = {k1, k2}
  NoSession = NoSession
  Grade = {0, 1}
  Zero = 0
  NoGrade = NoGrade
  MaxAppeals = 2
  MaxCalls = 4
  Overlapping = 3
SYMMETRY Sessions
INVARIANT TypeOK
INVARIANT VaultCountsOnce
INVARIANT DeliveredOnceThroughVault
INVARIANT OneOpenAppeal
INVARIANT HashTellsGrades
CHECK_DEADLOCK FALSE
