-------------------------------- MODULE MCExam --------------------------------
(* Instances of ExamGrades for TLC. *)
EXTENDS ExamGrades, TLC

CONSTANTS h1, h2, c1, c2, s1, s2, s3, k1, k2

\* The first course sits in both halls.
Halls == (s1 :> h1) @@ (s2 :> h2) @@ (s3 :> h2)
Courses == (s1 :> c1) @@ (s2 :> c1) @@ (s3 :> c2)
Sessions == Permutations(Session)

\* Calls that overlap are Overlapping many, and start where the session has got to.
CONSTANT Overlapping

Signed(received) ==
  [h \in Hall |-> [signed |-> TRUE, present |-> Cardinality({s \in Student : HallOf[s] = h}), received |-> received]]
Ungraded == [s \in Student |-> [value |-> NoGrade, status |-> "NONE"]]
Final == [s \in Student |-> [value |-> 0, status |-> "FINALIZED"]]
Delivery == [course |-> c1, sheets |-> 2, status |-> "PENDING_GRADING"]

\* Everybody sat the exam, the minutes are signed; before or after the vault.
Midway ==
  /\ issued = TRUE
  /\ present = Student
  /\ packets = [c \in Course |-> [expected |-> Cardinality(Seated(c)), actual |-> 0, status |-> "NOT_STARTED"]]
  /\ \/ /\ minutes = Signed(FALSE)
        /\ collected = [c \in Course |-> [halls |-> 0, sheets |-> 0, full |-> FALSE]]
        /\ deliveries = <<>>
        /\ grade = Ungraded
     \/ /\ minutes = Signed(TRUE)
        /\ collected = (c1 :> [halls |-> 2, sheets |-> 2, full |-> TRUE])
                       @@ (c2 :> [halls |-> 1, sheets |-> 1, full |-> TRUE])
        /\ \/ deliveries = <<>> /\ grade = Ungraded
           \/ deliveries = <<Delivery>> /\ grade \in {Ungraded, Final}
  /\ holder = [h \in Hall |-> NoSession]
  /\ hash = [c \in Course |-> Totals(c, grade)]
  /\ appeals = <<>> /\ late = {}
  /\ filing = [s \in Student |-> NoSession]
  /\ call = [k \in Session |-> Idle]
  /\ overlap \in BOOLEAN
  /\ calls = IF overlap THEN MaxCalls - Overlapping ELSE 0

MCInit == Midway \/ (Init /\ ~overlap)

ExamSpec == MCInit /\ [][Next]_vars
=============================================================================
