SPECIFICATION MCSpec
CONSTANTS
  finance = finance
  library = library
  s1 = s1
  s2 = s2
  Session = {s1, s2}
  Dept = {finance, library}
  AutoCheck <- Checks
  RequireSajjad = TRUE
  RequirePhoto = TRUE
  Fee = 1
  Opening = {0, 1}
  MaxCalls = 7
  MaxCrashes = 1
  Overlapping = 3
SYMMETRY Sessions
INVARIANT TypeOK
INVARIANT DegreeNeedsGates
INVARIANT StatusIsDue
INVARIANT GraduateHasDegree
PROPERTY HeldDossierWaits
CHECK_DEADLOCK FALSE
