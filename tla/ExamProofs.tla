------------------------------ MODULE ExamProofs ------------------------------
(***************************************************************************)
(* Theorems of ExamGrades and ExamCustody, for every finite set of halls    *)
(* and students, every course, and any number of overlapping calls.         *)
(***************************************************************************)
EXTENDS ExamGrades, FiniteSetTheorems, SequenceTheorems, TLAPS

DeliveryRow == [course : Course, sheets : 0..Cardinality(Student), status : DeliveryStatus]
AppealRow == [student : Student, old : Values, status : AppealStatus]
GradeRow == [value : Values, status : GradeStatus]
HashRow == [value : Values, status : GradeStatus \union {"UNTOLD"}]
Count == 0..Cardinality(Student)

\* The variables of custody; how much is collected is told by VaultCountsOnce.
CustodyOK ==
  /\ issued \in BOOLEAN /\ present \subseteq Student
  /\ minutes \in [Hall -> Minutes]
  /\ holder \in [Hall -> Session \union {NoSession}]
  /\ collected \in [Course -> [halls : Nat, sheets : Nat, full : BOOLEAN]]
  /\ packets \in [Course -> [expected : Count, actual : Count, status : PacketStatus]]
  /\ deliveries \in Seq(DeliveryRow)

\* The order of the stages: a received hall was signed for, a collected course has
\* a received hall, a delivered course is collected and delivered once.
ChainInv ==
  /\ \A h \in Hall : minutes[h].received => minutes[h].signed
  /\ \A c \in Course : collected[c].full => collected[c].halls >= 1
  /\ \A i \in DOMAIN deliveries : collected[deliveries[i].course].full
  /\ \A i, j \in DOMAIN deliveries : deliveries[i].course = deliveries[j].course => i = j

BookOK ==
  /\ grade \in [Student -> GradeRow]
  /\ DOMAIN hash = Course
  /\ \A c \in Course : hash[c] \in [Seated(c) -> HashRow]
  /\ appeals \in Seq(AppealRow)
  /\ filing \in [Student -> Session \union {NoSession}]
  /\ late \subseteq Student

\* What a call brings from one step to the next.
CustodyCallOK(k) ==
  LET x == call[k]
  IN /\ "pc" \in DOMAIN x
     /\ x.pc = "sign" => x.hall \in Hall /\ x.count \in Count
     /\ x.pc \in {"receive", "add"} =>
          /\ DOMAIN x = {"pc", "hall", "sheets"}
          /\ x.hall \in Hall
          /\ minutes[x.hall].signed
          /\ DOMAIN x.sheets = CoursesIn(x.hall)
          /\ \A c \in CoursesIn(x.hall) :
               x.sheets[c] \in Nat /\ x.sheets[c] <= Cardinality(Seats(x.hall, c))
     /\ x.pc = "add" => holder[x.hall] = k /\ ~minutes[x.hall].received
     /\ x.pc = "finalize" => x.sheets \in [Course -> Count]
     /\ x.pc = "deliver" => x.course \in Course /\ x.sheets \in Count /\ collected[x.course].full

BookCallOK(k) ==
  LET x == call[k]
  IN /\ x.pc = "file" =>
          /\ x.student \in Student /\ x.old \in Values
          /\ filing[x.student] = k
          /\ ~OpenAppealOf(x.student)
     /\ x.pc = "hash" => x.course \in Course /\ x.sheet \in [Seated(x.course) -> HashRow]
     /\ x.pc = "final" => x.course \in Course
     /\ x.pc = "resolve" =>
          x.appeal \in DOMAIN appeals /\ x.to \in {"ACCEPTED", "REJECTED"} /\ x.new \in Grade
     /\ x.pc = "regrade" => x.student \in Student /\ x.new \in Grade

CallInv ==
  /\ DOMAIN call = Session
  /\ \A k \in Session : CustodyCallOK(k) /\ BookCallOK(k)

\* The inductive invariant.
IInv == CustodyOK /\ VaultCountsOnce /\ ChainInv /\ BookOK /\ OneOpenAppeal /\ CallInv

-----------------------------------------------------------------------------
\* Every set of students and of halls the operators name is finite.
LEMMA Finite ==
  /\ Cardinality(Student) \in Nat
  /\ \A S \in SUBSET Student : IsFiniteSet(S) /\ Cardinality(S) \in Count
  /\ \A S \in SUBSET Hall : IsFiniteSet(S) /\ Cardinality(S) \in Nat
  /\ \A S \in SUBSET Hall : Cardinality(S) <= Cardinality(Hall)
  /\ Cardinality(Hall) \in Nat
<1>1. Cardinality(Student) \in Nat /\ Cardinality(Hall) \in Nat
  BY ExamAssumption, FS_CardinalityType
<1>2. ASSUME NEW S \in SUBSET Student PROVE IsFiniteSet(S) /\ Cardinality(S) \in Count
  <2>1. IsFiniteSet(S) /\ Cardinality(S) <= Cardinality(Student)
    BY ExamAssumption, FS_Subset
  <2>2. Cardinality(S) \in Nat
    BY <2>1, FS_CardinalityType
  <2> QED BY <1>1, <2>1, <2>2 DEF Count
<1>3. ASSUME NEW S \in SUBSET Hall
      PROVE  IsFiniteSet(S) /\ Cardinality(S) \in Nat /\ Cardinality(S) <= Cardinality(Hall)
  <2>1. IsFiniteSet(S) /\ Cardinality(S) <= Cardinality(Hall)
    BY ExamAssumption, FS_Subset
  <2>2. Cardinality(S) \in Nat
    BY <2>1, FS_CardinalityType
  <2> QED BY <2>1, <2>2
<1> QED BY <1>1, <1>2, <1>3

\* A hall's courses, and a course's halls and students.
LEMMA SeatTypes ==
  /\ \A h \in Hall : CoursesIn(h) \subseteq Course
  /\ \A c \in Course : HallsOf(c) \subseteq Hall /\ Seated(c) \subseteq Student
  /\ \A h \in Hall, c \in Course : Seats(h, c) \subseteq Seated(c)
  /\ \A h \in Hall, c \in Course : c \in CoursesIn(h) <=> h \in HallsOf(c)
BY ExamAssumption DEF CoursesIn, HallsOf, Seated, Seats

\* The seats of different halls are different students.
LEMMA SeatsApart ==
  ASSUME NEW H \in SUBSET Hall, NEW h \in Hall, h \notin H, NEW c \in Course
  PROVE  Cardinality(UNION {Seats(g, c) : g \in H \union {h}})
           = Cardinality(UNION {Seats(g, c) : g \in H}) + Cardinality(Seats(h, c))
<1> DEFINE A == UNION {Seats(g, c) : g \in H}
           B == Seats(h, c)
<1>1. A \subseteq Student /\ B \subseteq Student
  BY DEF Seats
<1>2. A \intersect B = {}
  BY DEF Seats
<1>3. UNION {Seats(g, c) : g \in H \union {h}} = A \union B
  OBVIOUS
<1>4. IsFiniteSet(A) /\ IsFiniteSet(B) /\ Cardinality(A) \in Nat /\ Cardinality(B) \in Nat
  BY <1>1, Finite DEF Count
<1>5. Cardinality(A \union B) = Cardinality(A) + Cardinality(B) - Cardinality(A \intersect B)
  BY <1>4, FS_Union
<1>6. Cardinality(A \intersect B) = 0
  BY <1>2, FS_EmptySet
<1>7. Cardinality(A \union B) = Cardinality(A) + Cardinality(B)
  BY <1>4, <1>5, <1>6
<1> QED BY <1>3, <1>7

\* Every delivery is of a course.
LEMMA DeliveryCourses ==
  ASSUME CustodyOK
  PROVE  \A i \in DOMAIN deliveries : deliveries[i] \in DeliveryRow /\ deliveries[i].course \in Course
<1>1. \A i \in DOMAIN deliveries : deliveries[i] \in DeliveryRow
  BY ElementOfSeq, LenProperties DEF CustodyOK
<1> QED BY <1>1 DEF DeliveryRow

\* Every appeal is a student's.
LEMMA AppealStudents ==
  ASSUME BookOK
  PROVE  \A i \in DOMAIN appeals : appeals[i].student \in Student
<1>1. \A i \in DOMAIN appeals : appeals[i] \in AppealRow
  BY ElementOfSeq, LenProperties DEF BookOK
<1> QED BY <1>1 DEF AppealRow

-----------------------------------------------------------------------------
\* A call that is not the acting one is undisturbed by a step that takes no lock
\* from it, no signature, no reception, no collection and no appeal.
LEMMA OtherCalls ==
  ASSUME NEW j \in Session, CustodyCallOK(j), BookCallOK(j),
         call'[j] = call[j],
         \A h \in Hall : minutes[h].signed => minutes'[h].signed,
         \A h \in Hall : holder[h] = j =>
           holder'[h] = j /\ (minutes'[h].received <=> minutes[h].received),
         \A c \in Course : collected[c].full => collected'[c].full,
         \A s \in Student : filing[s] = j => filing'[s] = j /\ (OpenAppealOf(s)' => OpenAppealOf(s)),
         DOMAIN appeals \subseteq DOMAIN appeals'
  PROVE  CustodyCallOK(j)' /\ BookCallOK(j)'
<1>1. CustodyCallOK(j)'
  BY DEF CustodyCallOK
<1>2. BookCallOK(j)'
  BY DEF BookCallOK
<1> QED BY <1>1, <1>2

\* An idle call brings nothing.
LEMMA IdleCall ==
  ASSUME NEW k \in Session, call'[k] = Idle
  PROVE  CustodyCallOK(k)' /\ BookCallOK(k)'
BY DEF CustodyCallOK, BookCallOK, Idle

\* Beginning or continuing a call changes that call only.
LEMMA OneCall ==
  ASSUME CallInv, NEW k \in Session, NEW x, Begin(k, x) \/ Go(k, x)
  PROVE  /\ DOMAIN call' = Session
         /\ call'[k] = x
         /\ \A j \in Session : j # k => call'[j] = call[j]
BY DEF CallInv, Begin, Go

\* The book does not change with custody.
LEMMA BookFrame ==
  ASSUME BookOK, OneOpenAppeal, UNCHANGED book
  PROVE  /\ BookOK' /\ OneOpenAppeal'
         /\ filing' = filing /\ appeals' = appeals
         /\ \A s \in Student : OpenAppealOf(s)' <=> OpenAppealOf(s)
BY DEF book, BookOK, OneOpenAppeal, OpenAppealOf

\* Custody does not change with the book.
LEMMA CustodyFrame ==
  ASSUME CustodyOK, VaultCountsOnce, ChainInv, UNCHANGED <<custody, deliveries>>
  PROVE  CustodyOK' /\ VaultCountsOnce' /\ ChainInv'
BY DEF custody, CustodyOK, VaultCountsOnce, ChainInv, Received

\* Minutes, collection and deliveries as they are keep the chain.
LEMMA ChainFrame ==
  ASSUME VaultCountsOnce, ChainInv, UNCHANGED <<minutes, collected, deliveries>>
  PROVE  VaultCountsOnce' /\ ChainInv'
<1>1. \A c : Received(c)' = Received(c)
  BY DEF Received
<1>2. VaultCountsOnce'
  BY <1>1 DEF VaultCountsOnce
<1>3. ChainInv'
  BY DEF ChainInv
<1> QED BY <1>2, <1>3

-----------------------------------------------------------------------------
\* What a step of call k must show that changes nothing but that call.
LEMMA CallOnly ==
  ASSUME IInv, NEW k \in Session, NEW x, Begin(k, x) \/ Go(k, x),
         UNCHANGED <<custody, deliveries, book>>,
         CustodyCallOK(k)', BookCallOK(k)'
  PROVE  IInv'
<1>1. CustodyOK' /\ VaultCountsOnce' /\ ChainInv'
  BY CustodyFrame DEF IInv
<1>2. BookOK' /\ OneOpenAppeal' /\ filing' = filing /\ appeals' = appeals
      /\ \A s \in Student : OpenAppealOf(s)' <=> OpenAppealOf(s)
  BY BookFrame DEF IInv
<1>3. ASSUME NEW j \in Session, j # k PROVE CustodyCallOK(j)' /\ BookCallOK(j)'
  <2>1. call'[j] = call[j] /\ CustodyCallOK(j) /\ BookCallOK(j)
    BY <1>3, OneCall DEF IInv, CallInv
  <2>2. UNCHANGED <<minutes, holder, collected>>
    BY DEF custody
  <2> QED BY <1>2, <2>1, <2>2, OtherCalls
<1>4. DOMAIN call' = Session
  BY OneCall DEF IInv
<1> QED BY <1>1, <1>2, <1>3, <1>4 DEF IInv, CallInv

\* What a step of call k must show that changes custody and not the book.
LEMMA CustodyStepInv ==
  ASSUME IInv, NEW k \in Session, NEW x, Begin(k, x) \/ Go(k, x), UNCHANGED book,
         CustodyOK', VaultCountsOnce', ChainInv',
         \A h \in Hall : minutes[h].signed => minutes'[h].signed,
         \A h \in Hall : holder[h] # k /\ holder[h] # NoSession =>
           holder'[h] = holder[h] /\ (minutes'[h].received <=> minutes[h].received),
         \A c \in Course : collected[c].full => collected'[c].full,
         CustodyCallOK(k)', BookCallOK(k)'
  PROVE  IInv'
<1>1. /\ BookOK' /\ OneOpenAppeal' /\ filing' = filing /\ appeals' = appeals
      /\ \A s \in Student : OpenAppealOf(s)' <=> OpenAppealOf(s)
  BY BookFrame DEF IInv
<1>2. ASSUME NEW j \in Session, j # k PROVE CustodyCallOK(j)' /\ BookCallOK(j)'
  <2>1. call'[j] = call[j] /\ CustodyCallOK(j) /\ BookCallOK(j)
    BY <1>2, OneCall DEF IInv, CallInv
  <2>2. \A h \in Hall : holder[h] = j =>
          holder'[h] = j /\ (minutes'[h].received <=> minutes[h].received)
    BY <1>2, ExamAssumption
  <2> QED BY <1>1, <2>1, <2>2, OtherCalls
<1>3. DOMAIN call' = Session
  BY OneCall DEF IInv
<1> QED BY <1>1, <1>2, <1>3 DEF IInv, CallInv

\* What a step of call k must show that changes the book, and of custody at most
\* the deliveries.
LEMMA BookStepInv ==
  ASSUME IInv, NEW k \in Session, NEW x, Begin(k, x) \/ Go(k, x), UNCHANGED custody,
         CustodyOK', VaultCountsOnce', ChainInv', BookOK', OneOpenAppeal',
         \A s \in Student : filing[s] # k /\ filing[s] # NoSession =>
           filing'[s] = filing[s] /\ (OpenAppealOf(s)' => OpenAppealOf(s)),
         DOMAIN appeals \subseteq DOMAIN appeals',
         CustodyCallOK(k)', BookCallOK(k)'
  PROVE  IInv'
<1>1. ASSUME NEW j \in Session, j # k PROVE CustodyCallOK(j)' /\ BookCallOK(j)'
  <2>1. call'[j] = call[j] /\ CustodyCallOK(j) /\ BookCallOK(j)
    BY <1>1, OneCall DEF IInv, CallInv
  <2>2. UNCHANGED <<minutes, holder, collected>>
    BY DEF custody
  <2>3. \A s \in Student : filing[s] = j => filing'[s] = j /\ (OpenAppealOf(s)' => OpenAppealOf(s))
    BY <1>1, ExamAssumption
  <2> QED BY <2>1, <2>2, <2>3, OtherCalls
<1>2. DOMAIN call' = Session
  BY OneCall DEF IInv
<1> QED BY <1>1, <1>2 DEF IInv, CallInv

\* Appeals as they are keep what is said of them.
LEMMA AppealFrame ==
  ASSUME OneOpenAppeal, UNCHANGED appeals
  PROVE  OneOpenAppeal' /\ \A s : OpenAppealOf(s)' <=> OpenAppealOf(s)
BY DEF OneOpenAppeal, OpenAppealOf

\* A call that ends by writing grades only.
LEMMA GradeStepInv ==
  ASSUME IInv, NEW k \in Session, Begin(k, Idle) \/ Go(k, Idle),
         UNCHANGED <<custody, deliveries, hash, appeals, filing>>,
         grade' \in [Student -> GradeRow], late' \subseteq Student
  PROVE  IInv'
<1>1. CustodyOK' /\ VaultCountsOnce' /\ ChainInv'
  BY CustodyFrame DEF IInv
<1>2. BookOK'
  BY DEF IInv, BookOK
<1>3. OneOpenAppeal' /\ \A s : OpenAppealOf(s)' <=> OpenAppealOf(s)
  BY AppealFrame DEF IInv
<1>4. CustodyCallOK(k)' /\ BookCallOK(k)'
  BY OneCall, IdleCall DEF IInv
<1> QED BY <1>1, <1>2, <1>3, <1>4, BookStepInv

\* An appeal that is closed leaves the others open or closed as they were.
LEMMA CloseAppeal ==
  ASSUME appeals \in Seq(AppealRow), OneOpenAppeal, NEW i \in DOMAIN appeals,
         NEW st \in AppealStatus \ {"OPEN"},
         appeals' = [appeals EXCEPT ![i].status = st]
  PROVE  /\ appeals' \in Seq(AppealRow) /\ DOMAIN appeals' = DOMAIN appeals
         /\ OneOpenAppeal'
         /\ \A s : OpenAppealOf(s)' => OpenAppealOf(s)
<1>1. /\ Len(appeals) \in Nat /\ DOMAIN appeals = 1..Len(appeals)
      /\ appeals \in [1..Len(appeals) -> AppealRow]
  BY LenProperties
<1>2. appeals' \in [1..Len(appeals) -> AppealRow]
  BY <1>1 DEF AppealRow
<1>3. appeals' \in Seq(AppealRow)
  BY <1>1, <1>2, SeqDef
<1>4. DOMAIN appeals' = DOMAIN appeals
  BY <1>1, <1>2
<1>5. \A j \in DOMAIN appeals : /\ appeals'[j].student = appeals[j].student
                               /\ appeals'[j].status = "OPEN" => appeals[j].status = "OPEN"
  BY <1>1 DEF AppealRow
<1>6. OneOpenAppeal'
  BY <1>4, <1>5 DEF OneOpenAppeal
<1>7. \A s : OpenAppealOf(s)' => OpenAppealOf(s)
  BY <1>4, <1>5 DEF OpenAppealOf
<1> QED BY <1>3, <1>4, <1>6, <1>7

-----------------------------------------------------------------------------
\* The initial state is a session nobody has begun.
THEOREM InitIInv == Init => IInv
<1> SUFFICES ASSUME Init PROVE IInv
  OBVIOUS
<1>1. CustodyOK /\ ChainInv
  <2>1. deliveries \in Seq(DeliveryRow) /\ DOMAIN deliveries = {}
    BY EmptySeq DEF Init, CustodyInit
  <2>2. 0 \in Count
    BY Finite DEF Count
  <2> QED BY <2>1, <2>2 DEF Init, CustodyInit, CustodyOK, ChainInv, Minutes, PacketStatus, Count
<1>2. VaultCountsOnce
  <2> SUFFICES ASSUME NEW c \in Course
               PROVE  /\ collected[c].halls = Cardinality(Received(c))
                      /\ collected[c].sheets <= Cardinality(UNION {Seats(h, c) : h \in Received(c)})
    BY DEF VaultCountsOnce
  <2>1. Received(c) = {} /\ collected[c].halls = 0 /\ collected[c].sheets = 0
    BY SeatTypes DEF Received, Init, CustodyInit
  <2>2. UNION {Seats(h, c) : h \in Received(c)} = {}
    BY <2>1
  <2> QED BY <2>1, <2>2, FS_EmptySet
<1>3. BookOK
  <2>1. appeals \in Seq(AppealRow)
    BY EmptySeq DEF Init
  <2> QED BY <2>1, SeatTypes DEF Init, BookOK, Totals, GradeRow, HashRow, GradeStatus, Values
<1>4. OneOpenAppeal
  BY EmptySeq DEF Init, OneOpenAppeal
<1>5. CallInv
  BY DEF Init, CallInv, CustodyCallOK, BookCallOK, Idle
<1> QED BY <1>1, <1>2, <1>3, <1>4, <1>5 DEF IInv

-----------------------------------------------------------------------------
\* Attendance, and counting before a transaction.
LEMMA IssueAttendanceInv ==
  ASSUME IInv, NEW k \in Session, IssueAttendance(k), UNCHANGED book
  PROVE  IInv'
<1>1. UNCHANGED <<present, minutes, holder, collected, deliveries>> /\ issued' = TRUE
  BY DEF IssueAttendance
<1>2. packets' \in [Course -> [expected : Count, actual : Count, status : PacketStatus]]
  BY Finite, SeatTypes DEF IssueAttendance, IInv, CustodyOK
<1>3. CustodyOK' /\ VaultCountsOnce' /\ ChainInv'
  BY <1>1, <1>2, ChainFrame DEF IInv, CustodyOK
<1>4. CustodyCallOK(k)' /\ BookCallOK(k)'
  BY OneCall, IdleCall DEF IssueAttendance, IInv
<1> QED BY <1>1, <1>3, <1>4, CustodyStepInv DEF IssueAttendance

\* One UPDATE of the attendance of a hall.
LEMMA VerifyAttendanceInv ==
  ASSUME IInv, NEW k \in Session, NEW h \in Hall,
         NEW checked \in SUBSET {s \in Student : HallOf[s] = h}, NEW here \in SUBSET checked,
         VerifyAttendance(k, h, checked, here), UNCHANGED book
  PROVE  IInv'
<1>1. UNCHANGED <<issued, minutes, holder, collected, packets, deliveries>>
  BY DEF VerifyAttendance
<1>2. present' \subseteq Student
  BY DEF VerifyAttendance, IInv, CustodyOK
<1>3. CustodyOK' /\ VaultCountsOnce' /\ ChainInv'
  BY <1>1, <1>2, ChainFrame DEF IInv, CustodyOK
<1>4. CustodyCallOK(k)' /\ BookCallOK(k)'
  BY OneCall, IdleCall DEF VerifyAttendance, IInv
<1> QED BY <1>1, <1>3, <1>4, CustodyStepInv DEF VerifyAttendance

\* Minutes: the hall is counted, then the row written.
LEMMA CountHallInv ==
  ASSUME IInv, NEW k \in Session, NEW h \in Hall, CountHall(k, h), UNCHANGED book
  PROVE  IInv'
<1> DEFINE x == [pc |-> "sign", hall |-> h, count |-> Cardinality({s \in present : HallOf[s] = h})]
<1>1. Begin(k, x) /\ UNCHANGED <<custody, deliveries, book>>
  BY DEF CountHall
<1>2. call'[k] = x
  BY <1>1, OneCall DEF IInv
<1>3. x.count \in Count
  BY Finite DEF IInv, CustodyOK
<1>4. CustodyCallOK(k)' /\ BookCallOK(k)'
  BY <1>2, <1>3 DEF CustodyCallOK, BookCallOK
<1> QED BY <1>1, <1>4, CallOnly

\* Signing does not touch what the vault has received.
LEMMA SignMinutesInv ==
  ASSUME IInv, NEW k \in Session, SignMinutes(k), UNCHANGED book
  PROVE  IInv'
<1> DEFINE h == call[k].hall
<1>1. /\ h \in Hall /\ call[k].count \in Count
      /\ minutes' = [minutes EXCEPT ![h] =
           [signed |-> TRUE, present |-> call[k].count, received |-> @.received]]
      /\ UNCHANGED <<issued, present, holder, collected, packets, deliveries>>
  BY DEF SignMinutes, IInv, CallInv, CustodyCallOK
<1>2. minutes' \in [Hall -> Minutes]
  BY <1>1 DEF IInv, CustodyOK, Minutes, Count
<1>3. \A g \in Hall : /\ minutes'[g].received <=> minutes[g].received
                      /\ minutes[g].signed => minutes'[g].signed
                      /\ g = h => minutes'[g].signed
  BY <1>1 DEF IInv, CustodyOK, Minutes
<1>4. \A c \in Course : Received(c)' = Received(c)
  BY <1>3, SeatTypes DEF Received
<1>5. CustodyOK'
  BY <1>1, <1>2 DEF IInv, CustodyOK
<1>6. VaultCountsOnce'
  BY <1>1, <1>4 DEF IInv, VaultCountsOnce
<1>7. ChainInv'
  BY <1>1, <1>3 DEF IInv, ChainInv
<1>8. CustodyCallOK(k)' /\ BookCallOK(k)'
  BY OneCall, IdleCall DEF SignMinutes, IInv
<1> QED BY <1>1, <1>3, <1>5, <1>6, <1>7, <1>8, CustodyStepInv DEF SignMinutes

-----------------------------------------------------------------------------
\* The vault counts the sheets of a hall that was signed for.
LEMMA CountSheetsInv ==
  ASSUME IInv, NEW k \in Session, NEW h \in Hall, CountSheets(k, h), UNCHANGED book
  PROVE  IInv'
<1> DEFINE x == [pc |-> "receive", hall |-> h, sheets |-> SheetsOf(h)]
<1>1. Begin(k, x) /\ UNCHANGED <<custody, deliveries, book>> /\ minutes[h].signed
  BY DEF CountSheets
<1>2. call'[k] = x /\ minutes' = minutes
  BY <1>1, OneCall DEF IInv, custody
<1>3. DOMAIN SheetsOf(h) = CoursesIn(h)
  BY DEF SheetsOf
<1>4. ASSUME NEW c \in CoursesIn(h)
      PROVE  SheetsOf(h)[c] \in Nat /\ SheetsOf(h)[c] <= Cardinality(Seats(h, c))
  <2>1. SheetsOf(h)[c] = Cardinality(Seats(h, c) \cap present)
    BY DEF SheetsOf
  <2>2. Seats(h, c) \in SUBSET Student
    BY DEF Seats
  <2>3. IsFiniteSet(Seats(h, c)) /\ Cardinality(Seats(h, c) \cap present) \in Nat
    BY <2>2, Finite DEF Count
  <2> QED BY <2>1, <2>3, FS_Subset
<1>5. CustodyCallOK(k)' /\ BookCallOK(k)'
  BY <1>1, <1>2, <1>3, <1>4 DEF CustodyCallOK, BookCallOK
<1> QED BY <1>1, <1>5, CallOnly

\* The lock of a hall that is not yet received.
LEMMA LockVaultInv ==
  ASSUME IInv, NEW k \in Session, LockVault(k), UNCHANGED book
  PROVE  IInv'
<1> DEFINE h == call[k].hall
           x == [call[k] EXCEPT !.pc = "add"]
<1>1. CustodyCallOK(k) /\ call[k].pc = "receive" /\ h \in Hall /\ holder[h] = NoSession
      /\ UNCHANGED <<issued, present, minutes, collected, packets, deliveries>>
  BY DEF LockVault, IInv, CallInv, CustodyCallOK
<1>2. CASE minutes[h].received
  <2>1. Go(k, Idle) /\ UNCHANGED <<custody, deliveries, book>>
    BY <1>1, <1>2 DEF LockVault, custody
  <2>2. CustodyCallOK(k)' /\ BookCallOK(k)'
    BY <2>1, OneCall, IdleCall DEF IInv
  <2> QED BY <2>1, <2>2, CallOnly
<1>3. CASE ~minutes[h].received
  <2>1. Go(k, x) /\ holder' = [holder EXCEPT ![h] = k]
    BY <1>3 DEF LockVault
  <2>2. CustodyOK' /\ VaultCountsOnce' /\ ChainInv'
    BY <1>1, <2>1, ChainFrame DEF IInv, CustodyOK
  <2>3. \A g \in Hall : holder[g] # k /\ holder[g] # NoSession => holder'[g] = holder[g]
    BY <1>1, <2>1 DEF IInv, CustodyOK
  <2>4. /\ DOMAIN x = {"pc", "hall", "sheets"} /\ x.pc = "add"
        /\ x.hall = h /\ x.sheets = call[k].sheets
    BY <1>1 DEF CustodyCallOK
  <2>5. call'[k] = x /\ holder'[h] = k
    BY <1>1, <2>1, OneCall DEF IInv, CustodyOK
  <2>6. CustodyCallOK(k)' /\ BookCallOK(k)'
    BY <1>1, <1>3, <2>4, <2>5 DEF CustodyCallOK, BookCallOK
  <2> QED BY <1>1, <2>1, <2>2, <2>3, <2>6, CustodyStepInv
<1> QED BY <1>2, <1>3

\* The totals of a hall's courses grow by the hall and its sheets.
LEMMA AddHallInv ==
  ASSUME IInv, NEW k \in Session, AddHall(k), UNCHANGED book
  PROVE  IInv'
<1> DEFINE h == call[k].hall
           sheets == call[k].sheets
<1>1. /\ h \in Hall /\ minutes[h].signed /\ ~minutes[h].received /\ holder[h] = k
      /\ DOMAIN sheets = CoursesIn(h)
      /\ \A c \in CoursesIn(h) : sheets[c] \in Nat /\ sheets[c] <= Cardinality(Seats(h, c))
  BY DEF AddHall, IInv, CallInv, CustodyCallOK
<1>2. /\ minutes' = [minutes EXCEPT ![h].received = TRUE]
      /\ holder' = [holder EXCEPT ![h] = NoSession]
      /\ UNCHANGED <<issued, present, packets, deliveries>>
  BY DEF AddHall
<1>3. minutes' \in [Hall -> Minutes] /\ holder' \in [Hall -> Session \union {NoSession}]
  BY <1>1, <1>2 DEF IInv, CustodyOK, Minutes
<1>4. \A g \in Hall : /\ minutes'[g].signed = minutes[g].signed
                      /\ minutes'[g].received = IF g = h THEN TRUE ELSE minutes[g].received
                      /\ g # h => holder'[g] = holder[g]
  BY <1>1, <1>2 DEF IInv, CustodyOK, Minutes
<1>5. ASSUME NEW c \in Course
      PROVE  /\ collected'[c] \in [halls : Nat, sheets : Nat, full : BOOLEAN]
             /\ collected'[c].full = collected[c].full
             /\ collected'[c].halls = collected[c].halls + (IF c \in CoursesIn(h) THEN 1 ELSE 0)
             /\ collected'[c].sheets = collected[c].sheets + (IF c \in CoursesIn(h) THEN sheets[c] ELSE 0)
  <2>1. collected[c] \in [halls : Nat, sheets : Nat, full : BOOLEAN]
    BY DEF IInv, CustodyOK
  <2>2. CASE c \in CoursesIn(h)
    <3>1. collected'[c] = [halls |-> collected[c].halls + 1, sheets |-> collected[c].sheets + sheets[c],
                           full |-> collected[c].full]
      BY <1>1, <2>2 DEF AddHall
    <3> QED BY <1>1, <2>1, <2>2, <3>1
  <2>3. CASE c \notin CoursesIn(h)
    <3>1. collected'[c] = collected[c]
      BY <1>1, <2>3 DEF AddHall
    <3> QED BY <2>1, <2>3, <3>1
  <2> QED BY <2>2, <2>3
<1>6. CustodyOK'
  <2>1. collected' \in [Course -> [halls : Nat, sheets : Nat, full : BOOLEAN]]
    BY <1>5 DEF AddHall
  <2> QED BY <1>2, <1>3, <2>1 DEF IInv, CustodyOK
<1>7. VaultCountsOnce'
  <2> SUFFICES ASSUME NEW c \in Course
               PROVE  /\ collected'[c].halls = Cardinality(Received(c)')
                      /\ collected'[c].sheets <= Cardinality(UNION {Seats(g, c) : g \in Received(c)'})
    BY DEF VaultCountsOnce
  <2>1. /\ collected[c].halls = Cardinality(Received(c)) /\ collected[c].sheets \in Nat
        /\ collected[c].sheets <= Cardinality(UNION {Seats(g, c) : g \in Received(c)})
    BY DEF IInv, VaultCountsOnce, CustodyOK
  <2>2. Received(c) \subseteq Hall /\ h \notin Received(c)
    BY <1>1, SeatTypes DEF Received
  <2>3. CASE c \in CoursesIn(h)
    <3>1. Received(c)' = Received(c) \union {h}
      BY <1>1, <1>4, <2>3, SeatTypes DEF Received
    <3>2. Cardinality(Received(c) \union {h}) = Cardinality(Received(c)) + 1
      BY <2>2, Finite, FS_AddElement
    <3>3. Cardinality(UNION {Seats(g, c) : g \in Received(c) \union {h}})
            = Cardinality(UNION {Seats(g, c) : g \in Received(c)}) + Cardinality(Seats(h, c))
      BY <1>1, <2>2, SeatsApart
    <3>4. /\ Cardinality(UNION {Seats(g, c) : g \in Received(c)}) \in Nat
          /\ Cardinality(Seats(h, c)) \in Nat
          /\ Cardinality(Received(c)) \in Nat
      <4>1. UNION {Seats(g, c) : g \in Received(c)} \subseteq Student /\ Seats(h, c) \subseteq Student
        BY DEF Seats
      <4> QED BY <2>2, <4>1, Finite DEF Count
    <3>5. collected'[c].halls = Cardinality(Received(c)) + 1
      BY <1>5, <2>1, <2>3
    <3>6. collected'[c].sheets <= Cardinality(UNION {Seats(g, c) : g \in Received(c)}) + Cardinality(Seats(h, c))
      BY <1>1, <1>5, <2>1, <2>3, <3>4
    <3> QED BY <3>1, <3>2, <3>3, <3>5, <3>6
  <2>4. CASE c \notin CoursesIn(h)
    <3>1. Received(c)' = Received(c)
      BY <1>1, <1>4, <2>4, SeatTypes DEF Received
    <3>2. collected'[c].halls = collected[c].halls /\ collected'[c].sheets = collected[c].sheets
      BY <1>5, <2>1, <2>4 DEF IInv, CustodyOK
    <3> QED BY <2>1, <3>1, <3>2
  <2> QED BY <2>3, <2>4
<1>8. ChainInv'
  <2>1. \A i \in DOMAIN deliveries : deliveries[i].course \in Course
    BY DeliveryCourses DEF IInv
  <2>2. \A c \in Course : collected[c].halls \in Nat
    BY DEF IInv, CustodyOK
  <2>3. \A c \in Course : collected'[c].full => collected'[c].halls >= 1
    BY <1>5, <2>2 DEF IInv, ChainInv
  <2> QED BY <1>1, <1>2, <1>4, <1>5, <2>1, <2>3 DEF IInv, ChainInv
<1>9. CustodyCallOK(k)' /\ BookCallOK(k)'
  BY OneCall, IdleCall DEF AddHall, IInv
<1>10. \A g \in Hall : holder[g] # k /\ holder[g] # NoSession =>
         holder'[g] = holder[g] /\ (minutes'[g].received <=> minutes[g].received)
  BY <1>1, <1>4
<1>11. Go(k, Idle)
  BY DEF AddHall
<1>12. /\ \A g \in Hall : minutes[g].signed => minutes'[g].signed
       /\ \A c \in Course : collected[c].full => collected'[c].full
  BY <1>4, <1>5
<1> QED BY <1>6, <1>7, <1>8, <1>9, <1>10, <1>11, <1>12, CustodyStepInv

\* The handover counts the sheets of every course, then settles the packets.
LEMMA CountPacketsInv ==
  ASSUME IInv, NEW k \in Session, CountPackets(k), UNCHANGED book
  PROVE  IInv'
<1> DEFINE x == [pc |-> "finalize", sheets |-> [c \in Course |-> Cardinality(Seated(c) \cap present)]]
<1>1. Begin(k, x) /\ UNCHANGED <<custody, deliveries, book>>
  BY DEF CountPackets
<1>2. call'[k] = x
  BY <1>1, OneCall DEF IInv
<1>3. x.sheets \in [Course -> Count]
  BY Finite, SeatTypes
<1>4. CustodyCallOK(k)' /\ BookCallOK(k)'
  BY <1>2, <1>3 DEF CustodyCallOK, BookCallOK
<1> QED BY <1>1, <1>4, CallOnly

\* Settling the packets marks courses that a hall was received of.
LEMMA FinalizeHandoverInv ==
  ASSUME IInv, NEW k \in Session, FinalizeHandover(k), UNCHANGED book
  PROVE  IInv'
<1> DEFINE n == call[k].sheets
<1>1. n \in [Course -> Count] /\ UNCHANGED <<issued, present, minutes, holder, deliveries>>
  BY DEF FinalizeHandover, IInv, CallInv, CustodyCallOK
<1>2. packets' \in [Course -> [expected : Count, actual : Count, status : PacketStatus]]
  BY <1>1 DEF FinalizeHandover, IInv, CustodyOK, PacketStatus
<1>3. ASSUME NEW c \in Course
      PROVE  /\ collected'[c] \in [halls : Nat, sheets : Nat, full : BOOLEAN]
             /\ collected'[c].halls = collected[c].halls /\ collected'[c].sheets = collected[c].sheets
             /\ collected[c].full => collected'[c].full
             /\ collected'[c].full => collected[c].full \/ collected[c].halls >= 1
  BY DEF FinalizeHandover, FullyCollected, TotalHallsCount, IInv, CustodyOK
<1>4. CustodyOK'
  <2>1. collected' \in [Course -> [halls : Nat, sheets : Nat, full : BOOLEAN]]
    BY <1>3 DEF FinalizeHandover
  <2> QED BY <1>1, <1>2, <2>1 DEF IInv, CustodyOK
<1>5. VaultCountsOnce'
  <2>1. \A c : Received(c)' = Received(c)
    BY <1>1 DEF Received
  <2> QED BY <1>3, <2>1 DEF IInv, VaultCountsOnce
<1>6. ChainInv'
  <2>1. \A i \in DOMAIN deliveries : deliveries[i].course \in Course
    BY DeliveryCourses DEF IInv
  <2> QED BY <1>1, <1>3, <2>1 DEF IInv, ChainInv
<1>7. CustodyCallOK(k)' /\ BookCallOK(k)'
  BY OneCall, IdleCall DEF FinalizeHandover, IInv
<1> QED BY <1>1, <1>3, <1>4, <1>5, <1>6, <1>7, CustodyStepInv DEF FinalizeHandover

-----------------------------------------------------------------------------
\* The papers of a collected course go out, once.
LEMMA ReadCollectedInv ==
  ASSUME IInv, NEW k \in Session, NEW c \in Course, ReadCollected(k, c), UNCHANGED book
  PROVE  IInv'
<1> DEFINE x == [pc |-> "deliver", course |-> c, sheets |-> collected[c].sheets]
<1>1. Begin(k, x) /\ UNCHANGED <<custody, deliveries, book>> /\ collected[c].full
  BY DEF ReadCollected
<1>2. call'[k] = x /\ collected' = collected
  BY <1>1, OneCall DEF IInv, custody
<1>3. x.sheets \in Count
  <2>1. /\ collected[c].sheets \in Nat
        /\ collected[c].sheets <= Cardinality(UNION {Seats(h, c) : h \in Received(c)})
    BY DEF IInv, CustodyOK, VaultCountsOnce
  <2>2. UNION {Seats(h, c) : h \in Received(c)} \subseteq Student
    BY DEF Seats
  <2>3. Cardinality(UNION {Seats(h, c) : h \in Received(c)}) \in 0..Cardinality(Student)
    BY <2>2, Finite DEF Count
  <2> QED BY <2>1, <2>3, Finite DEF Count
<1>4. CustodyCallOK(k)' /\ BookCallOK(k)'
  BY <1>1, <1>2, <1>3 DEF CustodyCallOK, BookCallOK
<1> QED BY <1>1, <1>4, CallOnly

\* A delivery of a course that has none.
LEMMA DeliverInv ==
  ASSUME IInv, NEW k \in Session, Deliver(k), UNCHANGED book
  PROVE  IInv'
<1> DEFINE c == call[k].course
           e == [course |-> c, sheets |-> call[k].sheets, status |-> "PENDING_GRADING"]
<1>1. c \in Course /\ e \in DeliveryRow /\ collected[c].full
  BY DEF Deliver, IInv, CallInv, CustodyCallOK, DeliveryRow, DeliveryStatus, Count
<1>2. UNCHANGED <<issued, present, minutes, holder, collected, packets>>
  BY DEF Deliver, custody
<1>3. CustodyCallOK(k)' /\ BookCallOK(k)'
  BY OneCall, IdleCall DEF Deliver, IInv
<1>4. VaultCountsOnce'
  <2>1. \A d : Received(d)' = Received(d)
    BY <1>2 DEF Received
  <2> QED BY <1>2, <2>1 DEF IInv, VaultCountsOnce
<1>5. CustodyOK' /\ ChainInv'
  <2>1. CASE Delivered(c)
    <3>1. deliveries' = deliveries
      BY <2>1 DEF Deliver
    <3> QED BY <1>2, <3>1 DEF IInv, CustodyOK, ChainInv
  <2>2. CASE ~Delivered(c)
    <3>1. deliveries' = Append(deliveries, e) /\ deliveries \in Seq(DeliveryRow)
      BY <2>2 DEF Deliver, IInv, CustodyOK
    <3>2. /\ deliveries' \in Seq(DeliveryRow)
          /\ DOMAIN deliveries = 1..Len(deliveries) /\ Len(deliveries) \in Nat
          /\ DOMAIN deliveries' = 1..(Len(deliveries) + 1)
          /\ deliveries'[Len(deliveries) + 1] = e
          /\ \A i \in DOMAIN deliveries : deliveries'[i] = deliveries[i]
      BY <1>1, <3>1, AppendProperties, LenProperties
    <3>3. CustodyOK'
      BY <1>2, <3>2 DEF IInv, CustodyOK
    <3>4. \A i \in DOMAIN deliveries' : collected'[deliveries'[i].course].full
      BY <1>1, <1>2, <3>2 DEF IInv, ChainInv
    <3>5. \A i \in DOMAIN deliveries : deliveries[i].course # c
      BY <2>2 DEF Delivered
    <3>6. \A i, j \in DOMAIN deliveries' : deliveries'[i].course = deliveries'[j].course => i = j
      BY <3>2, <3>5 DEF IInv, ChainInv
    <3> QED BY <1>2, <3>3, <3>4, <3>6 DEF IInv, ChainInv
  <2> QED BY <2>1, <2>2
<1> QED BY <1>2, <1>3, <1>4, <1>5, CustodyStepInv DEF Deliver

-----------------------------------------------------------------------------
\* The grades of a delivery, in one transaction.
LEMMA SubmitGradesInv ==
  ASSUME IInv, NEW k \in Session, NEW c \in Course, NEW given \in SUBSET Seated(c),
         NEW entries \in [given -> Grade], SubmitGrades(k, c, entries)
  PROVE  IInv'
<1> DEFINE i == NewestDelivery(c)
           n == Len(deliveries)
<1>1. /\ UNCHANGED <<custody, appeals, filing>> /\ Begin(k, Idle) /\ Delivered(c)
      /\ deliveries' = [deliveries EXCEPT ![i].status = "GRADES_SUBMITTED"]
      /\ late' = late \ Seated(c) \/ late' = late \union DOMAIN entries
      /\ hash' = [hash EXCEPT ![c] = Totals(c, grade')]
      /\ grade' = [s \in Student |-> IF s \in DOMAIN entries
                                       THEN [value |-> entries[s], status |-> "FINALIZED"] ELSE grade[s]]
  BY DEF SubmitGrades
<1>2. n \in Nat /\ DOMAIN deliveries = 1..n /\ deliveries \in [1..n -> DeliveryRow]
  BY LenProperties DEF IInv, CustodyOK
<1>3. i \in DOMAIN deliveries
  <2>1. PICK j \in DOMAIN deliveries : deliveries[j].course = c
    BY <1>1 DEF Delivered
  <2>2. \A m \in DOMAIN deliveries : deliveries[m].course = c => m <= j
    BY <1>2, <2>1 DEF IInv, ChainInv
  <2> QED BY <2>1, <2>2 DEF NewestDelivery
<1>4. deliveries' \in [1..n -> DeliveryRow] /\ \A j \in 1..n : deliveries'[j].course = deliveries[j].course
  <2> HIDE DEF i
  <2> QED BY <1>1, <1>2, <1>3 DEF DeliveryRow, DeliveryStatus
<1>5. deliveries' \in Seq(DeliveryRow) /\ DOMAIN deliveries' = DOMAIN deliveries
  BY <1>2, <1>4, SeqDef
<1>6. CustodyOK'
  BY <1>1, <1>5 DEF custody, IInv, CustodyOK
<1>7. VaultCountsOnce'
  BY <1>1 DEF custody, IInv, VaultCountsOnce, Received
<1>8. ChainInv'
  BY <1>1, <1>2, <1>4, <1>5 DEF custody, IInv, ChainInv
<1>9. BookOK'
  <2>1. \A s \in Student : grade'[s] \in GradeRow
    BY <1>1, SeatTypes DEF IInv, BookOK, GradeRow, GradeStatus, Values
  <2>2. grade' \in [Student -> GradeRow]
    BY <1>1, <2>1
  <2>3. Totals(c, grade') \in [Seated(c) -> HashRow]
    BY <2>2, SeatTypes DEF Totals, GradeRow, HashRow
  <2>4. DOMAIN hash' = Course /\ \A d \in Course : hash'[d] \in [Seated(d) -> HashRow]
    BY <1>1, <2>3 DEF IInv, BookOK
  <2>5. late' \subseteq Student
    BY <1>1, SeatTypes DEF IInv, BookOK
  <2> QED BY <1>1, <2>2, <2>4, <2>5 DEF IInv, BookOK
<1>10. OneOpenAppeal' /\ \A s : OpenAppealOf(s)' <=> OpenAppealOf(s)
  BY <1>1, AppealFrame DEF IInv
<1>11. CustodyCallOK(k)' /\ BookCallOK(k)'
  BY <1>1, OneCall, IdleCall DEF IInv
<1>12. \A s \in Student : filing[s] # k /\ filing[s] # NoSession =>
         filing'[s] = filing[s] /\ (OpenAppealOf(s)' => OpenAppealOf(s))
  BY <1>1, <1>10
<1>13. DOMAIN appeals \subseteq DOMAIN appeals' /\ UNCHANGED custody
  BY <1>1
<1> QED BY <1>1, <1>6, <1>7, <1>8, <1>9, <1>10, <1>11, <1>12, <1>13, BookStepInv

-----------------------------------------------------------------------------
\* An appeal is filed under the lock of the student's enrollment.
LEMMA FileAppealInv ==
  ASSUME IInv, NEW k \in Session, NEW s \in Student, FileAppeal(k, s)
  PROVE  IInv'
<1> DEFINE x == [pc |-> "file", student |-> s, old |-> grade[s].value]
<1>1. /\ Begin(k, x) /\ UNCHANGED <<custody, deliveries, grade, hash, appeals, late>>
      /\ filing' = [filing EXCEPT ![s] = k] /\ filing[s] = NoSession /\ ~OpenAppealOf(s)
  BY DEF FileAppeal
<1>2. CustodyOK' /\ VaultCountsOnce' /\ ChainInv'
  BY <1>1, CustodyFrame DEF IInv
<1>3. BookOK'
  BY <1>1 DEF IInv, BookOK
<1>4. OneOpenAppeal' /\ \A t : OpenAppealOf(t)' <=> OpenAppealOf(t)
  BY <1>1, AppealFrame DEF IInv
<1>5. call'[k] = x /\ filing'[s] = k /\ x.old \in Values
  BY <1>1, OneCall DEF IInv, BookOK, GradeRow
<1>6. CustodyCallOK(k)' /\ BookCallOK(k)'
  BY <1>1, <1>4, <1>5 DEF CustodyCallOK, BookCallOK
<1>7. \A t \in Student : filing[t] # k /\ filing[t] # NoSession =>
        filing'[t] = filing[t] /\ (OpenAppealOf(t)' => OpenAppealOf(t))
  BY <1>1, <1>4 DEF IInv, BookOK
<1> QED BY <1>1, <1>2, <1>3, <1>4, <1>6, <1>7, BookStepInv

\* The appeal of a student who has none open.
LEMMA InsertAppealInv ==
  ASSUME IInv, NEW k \in Session, InsertAppeal(k)
  PROVE  IInv'
<1> DEFINE s == call[k].student
           e == [student |-> s, old |-> call[k].old, status |-> "OPEN"]
           n == Len(appeals)
<1>1. /\ s \in Student /\ call[k].old \in Values /\ filing[s] = k /\ ~OpenAppealOf(s)
  BY DEF InsertAppeal, IInv, CallInv, BookCallOK
<1>2. /\ Go(k, Idle) /\ UNCHANGED <<custody, deliveries, grade, hash, late>>
      /\ filing' = [filing EXCEPT ![s] = NoSession] /\ appeals' = Append(appeals, e)
  BY DEF InsertAppeal
<1>3. /\ n \in Nat /\ DOMAIN appeals = 1..n /\ appeals' \in Seq(AppealRow)
      /\ DOMAIN appeals' = 1..(n + 1) /\ appeals'[n + 1] = e
      /\ \A i \in DOMAIN appeals : appeals'[i] = appeals[i]
  <2>1. e \in AppealRow /\ appeals \in Seq(AppealRow)
    BY <1>1 DEF AppealRow, AppealStatus, IInv, BookOK
  <2> QED BY <1>2, <2>1, AppendProperties, LenProperties
<1>4. CustodyOK' /\ VaultCountsOnce' /\ ChainInv'
  BY <1>2, CustodyFrame DEF IInv
<1>5. BookOK'
  BY <1>2, <1>3 DEF IInv, BookOK
<1>6. OneOpenAppeal'
  <2>1. \A i \in DOMAIN appeals : appeals[i].status = "OPEN" => appeals[i].student # s
    BY <1>1 DEF OpenAppealOf
  <2> QED BY <1>3, <2>1 DEF IInv, OneOpenAppeal
<1>7. \A t \in Student : t # s => (OpenAppealOf(t)' => OpenAppealOf(t))
  BY <1>3 DEF OpenAppealOf
<1>8. \A t \in Student : filing[t] # k /\ filing[t] # NoSession =>
        filing'[t] = filing[t] /\ (OpenAppealOf(t)' => OpenAppealOf(t))
  BY <1>1, <1>2, <1>7 DEF IInv, BookOK
<1>9. CustodyCallOK(k)' /\ BookCallOK(k)'
  BY <1>2, OneCall, IdleCall DEF IInv
<1>10. DOMAIN appeals \subseteq DOMAIN appeals' /\ UNCHANGED custody
  BY <1>2, <1>3
<1> QED BY <1>2, <1>4, <1>5, <1>6, <1>8, <1>9, <1>10, BookStepInv

\* An appeal is answered from the paper, or found open and resolved later.
LEMMA AnswerAppealInv ==
  ASSUME IInv, NEW k \in Session, NEW i \in DOMAIN appeals, NEW new \in Grade, AnswerAppeal(k, i, new)
  PROVE  IInv'
<1> DEFINE s == appeals[i].student
           st == IF new # OldGrade(i) THEN "RESOLVED_ACCEPTED" ELSE "REJECTED"
<1>1. /\ Begin(k, Idle) /\ UNCHANGED <<custody, deliveries, hash, filing>>
      /\ appeals' = [appeals EXCEPT ![i].status = st]
      /\ grade' = [grade EXCEPT ![s].value = new] \/ grade' = grade
      /\ late' = late \union {s} \/ late' = late
  BY DEF AnswerAppeal
<1>2. s \in Student
  BY AppealStudents DEF IInv
<1>3. st \in AppealStatus \ {"OPEN"} /\ appeals \in Seq(AppealRow)
  BY DEF AppealStatus, IInv, BookOK
<1>4. /\ appeals' \in Seq(AppealRow) /\ DOMAIN appeals' = DOMAIN appeals
      /\ OneOpenAppeal' /\ \A t : OpenAppealOf(t)' => OpenAppealOf(t)
  BY <1>1, <1>3, CloseAppeal DEF IInv
<1>5. grade' \in [Student -> GradeRow]
  BY <1>1, <1>2 DEF IInv, BookOK, GradeRow, Values
<1>6. BookOK'
  <2>1. UNCHANGED <<hash, filing>> /\ late' \subseteq Student
    BY <1>1, <1>2 DEF IInv, BookOK
  <2> QED BY <1>4, <1>5, <2>1 DEF IInv, BookOK
<1>7. CustodyOK' /\ VaultCountsOnce' /\ ChainInv'
  BY <1>1, CustodyFrame DEF IInv
<1>8. CustodyCallOK(k)' /\ BookCallOK(k)'
  BY <1>1, OneCall, IdleCall DEF IInv
<1> QED BY <1>1, <1>4, <1>6, <1>7, <1>8, BookStepInv

\* An open appeal found.
LEMMA FindAppealInv ==
  ASSUME IInv, NEW k \in Session, NEW i \in DOMAIN appeals, NEW new \in Grade,
         NEW to \in {"ACCEPTED", "REJECTED"}, FindAppeal(k, i, to, new)
  PROVE  IInv'
<1> DEFINE x == [pc |-> "resolve", appeal |-> i, to |-> to, new |-> new]
<1>1. Begin(k, x) /\ UNCHANGED <<custody, deliveries, book>>
  BY DEF FindAppeal
<1>2. call'[k] = x /\ appeals' = appeals
  BY <1>1, OneCall DEF IInv, book
<1>3. CustodyCallOK(k)' /\ BookCallOK(k)'
  BY <1>2 DEF CustodyCallOK, BookCallOK
<1> QED BY <1>1, <1>3, CallOnly

\* An appeal closed by its id.
LEMMA ResolveAppealInv ==
  ASSUME IInv, NEW k \in Session, ResolveAppeal(k)
  PROVE  IInv'
<1> DEFINE i == call[k].appeal
           x == IF call[k].to = "ACCEPTED"
                  THEN [pc |-> "regrade", student |-> appeals[i].student, new |-> call[k].new] ELSE Idle
<1>1. i \in DOMAIN appeals /\ call[k].to \in {"ACCEPTED", "REJECTED"} /\ call[k].new \in Grade
  BY DEF ResolveAppeal, IInv, CallInv, BookCallOK
<1>2. /\ Go(k, x) /\ UNCHANGED <<custody, deliveries, grade, hash, filing, late>>
      /\ appeals' = [appeals EXCEPT ![i].status = call[k].to]
  BY DEF ResolveAppeal
<1>3. appeals[i].student \in Student
  BY <1>1, AppealStudents DEF IInv
<1>4. call[k].to \in AppealStatus \ {"OPEN"} /\ appeals \in Seq(AppealRow)
  BY <1>1 DEF AppealStatus, IInv, BookOK
<1>5. /\ appeals' \in Seq(AppealRow) /\ DOMAIN appeals' = DOMAIN appeals
      /\ OneOpenAppeal' /\ \A t : OpenAppealOf(t)' => OpenAppealOf(t)
  BY <1>1, <1>2, <1>4, CloseAppeal DEF IInv
<1>6. BookOK'
  BY <1>2, <1>5 DEF IInv, BookOK
<1>7. CustodyOK' /\ VaultCountsOnce' /\ ChainInv'
  BY <1>2, CustodyFrame DEF IInv
<1>8. call'[k] = x
  BY <1>2, OneCall DEF IInv
<1>9. CustodyCallOK(k)' /\ BookCallOK(k)'
  BY <1>1, <1>3, <1>8 DEF CustodyCallOK, BookCallOK, Idle
<1>10. UNCHANGED <<custody, filing>>
  BY <1>2
<1> HIDE DEF x
<1> QED BY <1>2, <1>5, <1>6, <1>7, <1>9, <1>10, BookStepInv

\* The grade of an accepted appeal.
LEMMA RegradeInv ==
  ASSUME IInv, NEW k \in Session, Regrade(k)
  PROVE  IInv'
<1>1. call[k].student \in Student /\ call[k].new \in Grade
  BY DEF Regrade, IInv, CallInv, BookCallOK
<1>2. grade' \in [Student -> GradeRow]
  BY <1>1 DEF Regrade, IInv, BookOK, GradeRow, GradeStatus, Values
<1>3. late' \subseteq Student
  BY <1>1 DEF Regrade, WriteOver, IInv, BookOK
<1> QED BY <1>2, <1>3, GradeStepInv DEF Regrade

-----------------------------------------------------------------------------
\* The professor's sheet: grades saved and published.
LEMMA SaveGradeInv ==
  ASSUME IInv, NEW k \in Session, NEW s \in Student, NEW v \in Values, SaveGrade(k, s, v)
  PROVE  IInv'
<1>1. grade' \in [Student -> GradeRow]
  BY DEF SaveGrade, IInv, BookOK, GradeRow, GradeStatus
<1>2. late' \subseteq Student
  BY DEF SaveGrade, WriteOver, IInv, BookOK
<1> QED BY <1>1, <1>2, GradeStepInv DEF SaveGrade

\* The whole sheet published.
LEMMA SubmitTemporaryInv ==
  ASSUME IInv, NEW k \in Session, NEW c \in Course, SubmitTemporary(k, c)
  PROVE  IInv'
<1>1. grade' \in [Student -> GradeRow]
  BY DEF SubmitTemporary, IInv, BookOK, GradeRow, GradeStatus
<1> QED BY <1>1, GradeStepInv DEF SubmitTemporary, IInv, BookOK

\* The final lock: the sheet read, its hash stored, its rows made final.
LEMMA ReadSheetInv ==
  ASSUME IInv, NEW k \in Session, NEW c \in Course, ReadSheet(k, c)
  PROVE  IInv'
<1> DEFINE x == [pc |-> "hash", course |-> c, sheet |-> Sheet(c, grade)]
<1>1. Begin(k, x) /\ UNCHANGED <<custody, deliveries, book>>
  BY DEF ReadSheet
<1>2. call'[k] = x
  BY <1>1, OneCall DEF IInv
<1>3. Sheet(c, grade) \in [Seated(c) -> HashRow]
  BY SeatTypes DEF Sheet, IInv, BookOK, GradeRow, HashRow
<1>4. CustodyCallOK(k)' /\ BookCallOK(k)'
  BY <1>2, <1>3 DEF CustodyCallOK, BookCallOK
<1> QED BY <1>1, <1>4, CallOnly

\* The hash stored.
LEMMA StoreHashInv ==
  ASSUME IInv, NEW k \in Session, StoreHash(k)
  PROVE  IInv'
<1> DEFINE x == [pc |-> "final", course |-> call[k].course]
<1>1. call[k].course \in Course /\ call[k].sheet \in [Seated(call[k].course) -> HashRow]
  BY DEF StoreHash, IInv, CallInv, BookCallOK
<1>2. /\ Go(k, x) /\ UNCHANGED <<custody, deliveries, grade, appeals, filing>>
      /\ hash' = [hash EXCEPT ![call[k].course] = call[k].sheet]
      /\ late' \subseteq late
  BY DEF StoreHash
<1>3. BookOK'
  BY <1>1, <1>2 DEF IInv, BookOK
<1>4. CustodyOK' /\ VaultCountsOnce' /\ ChainInv'
  BY <1>2, CustodyFrame DEF IInv
<1>5. OneOpenAppeal' /\ \A s : OpenAppealOf(s)' <=> OpenAppealOf(s)
  BY <1>2, AppealFrame DEF IInv
<1>6. call'[k] = x
  BY <1>2, OneCall DEF IInv
<1>7. CustodyCallOK(k)' /\ BookCallOK(k)'
  BY <1>1, <1>6 DEF CustodyCallOK, BookCallOK
<1> QED BY <1>2, <1>3, <1>4, <1>5, <1>7, BookStepInv

\* The rows made final.
LEMMA FinalizeSheetInv ==
  ASSUME IInv, NEW k \in Session, FinalizeSheet(k)
  PROVE  IInv'
<1>1. grade' \in [Student -> GradeRow]
  BY DEF FinalizeSheet, IInv, BookOK, GradeRow, GradeStatus
<1> QED BY <1>1, GradeStepInv DEF FinalizeSheet, IInv, BookOK

\* A call that is cut off gives back its locks and leaves the tables as they are.
LEMMA CrashInv ==
  ASSUME IInv, NEW k \in Session, Crash(k)
  PROVE  IInv'
<1>1. /\ UNCHANGED <<issued, present, minutes, collected, packets, deliveries, grade, hash, appeals, late>>
      /\ Go(k, Idle)
      /\ holder' \in [Hall -> Session \union {NoSession}]
      /\ filing' \in [Student -> Session \union {NoSession}]
      /\ \A h \in Hall : holder[h] # k => holder'[h] = holder[h]
      /\ \A s \in Student : filing[s] # k => filing'[s] = filing[s]
  BY DEF Crash, IInv, CustodyOK, BookOK
<1>2. CustodyOK' /\ VaultCountsOnce' /\ ChainInv'
  BY <1>1, ChainFrame DEF IInv, CustodyOK
<1>3. BookOK'
  BY <1>1 DEF IInv, BookOK
<1>4. OneOpenAppeal' /\ \A s : OpenAppealOf(s)' <=> OpenAppealOf(s)
  BY <1>1, AppealFrame DEF IInv
<1>5. ASSUME NEW j \in Session, j # k PROVE CustodyCallOK(j)' /\ BookCallOK(j)'
  <2>1. call'[j] = call[j] /\ CustodyCallOK(j) /\ BookCallOK(j)
    BY <1>1, <1>5, OneCall DEF IInv, CallInv
  <2>2. /\ \A h \in Hall : holder[h] = j => holder'[h] = j
        /\ \A s \in Student : filing[s] = j => filing'[s] = j
    BY <1>1, <1>5
  <2> QED BY <1>1, <1>4, <2>1, <2>2, OtherCalls
<1>6. DOMAIN call' = Session /\ CustodyCallOK(k)' /\ BookCallOK(k)'
  BY <1>1, OneCall, IdleCall DEF IInv
<1> QED BY <1>2, <1>3, <1>4, <1>5, <1>6 DEF IInv, CallInv

-----------------------------------------------------------------------------
\* Every step of every call keeps the invariant.
THEOREM NextIInv == IInv /\ [Next]_vars => IInv'
<1> SUFFICES ASSUME IInv, [Next]_vars PROVE IInv'
  OBVIOUS
<1>1. ASSUME NEW k \in Session, Custody(k), UNCHANGED book PROVE IInv'
  <2>1. ASSUME Vault(k) PROVE IInv'
    BY <1>1, <2>1, IssueAttendanceInv, CountPacketsInv, CountSheetsInv, ReadCollectedInv DEF Vault
  <2>2. ASSUME CustodyStep(k) PROVE IInv'
    BY <1>1, <2>2, SignMinutesInv, LockVaultInv, AddHallInv, FinalizeHandoverInv, DeliverInv DEF CustodyStep
  <2>3. ASSUME NEW h \in Hall, Proctor(k, h) PROVE IInv'
    <3>1. ASSUME NEW checked \in SUBSET {s \in Student : HallOf[s] = h}, NEW here \in SUBSET checked,
                 VerifyAttendance(k, h, checked, here)
          PROVE  IInv'
      BY <1>1, <3>1, VerifyAttendanceInv
    <3>2. CASE CountHall(k, h)
      BY <1>1, <3>2, CountHallInv
    <3> QED BY <2>3, <3>1, <3>2 DEF Proctor
  <2> QED BY <1>1, <2>1, <2>2, <2>3 DEF Custody
<1>2. ASSUME NEW k \in Session, Professor(k) PROVE IInv'
  <2>1. ASSUME NEW c \in Course, SubmitTemporary(k, c) \/ ReadSheet(k, c) PROVE IInv'
    BY <2>1, SubmitTemporaryInv, ReadSheetInv
  <2>2. ASSUME NEW c \in Course, NEW given \in SUBSET Seated(c), NEW entries \in [given -> Grade],
               SubmitGrades(k, c, entries)
        PROVE  IInv'
    BY <2>2, SubmitGradesInv
  <2>3. ASSUME NEW s \in Student, NEW v \in Values, SaveGrade(k, s, v) PROVE IInv'
    BY <2>3, SaveGradeInv
  <2>4. ASSUME NEW i \in DOMAIN appeals, NEW new \in Grade, AnswerAppeal(k, i, new) PROVE IInv'
    BY <2>4, AnswerAppealInv
  <2>5. ASSUME NEW i \in DOMAIN appeals, NEW new \in Grade, NEW to \in {"ACCEPTED", "REJECTED"},
               FindAppeal(k, i, to, new)
        PROVE  IInv'
    BY <2>5, FindAppealInv
  <2> QED BY <1>2, <2>1, <2>2, <2>3, <2>4, <2>5 DEF Professor
<1>3. ASSUME NEW k \in Session, GradesStep(k) PROVE IInv'
  BY <1>3, InsertAppealInv, StoreHashInv, FinalizeSheetInv, ResolveAppealInv, RegradeInv, CrashInv DEF GradesStep
<1>4. ASSUME NEW k \in Session, NEW s \in Student, FileAppeal(k, s) PROVE IInv'
  BY <1>4, FileAppealInv
<1>5. CASE UNCHANGED vars
  <2>1. UNCHANGED <<custody, deliveries, book, call>>
    BY <1>5 DEF vars
  <2>2. CustodyOK' /\ VaultCountsOnce' /\ ChainInv'
    BY <2>1, CustodyFrame DEF IInv
  <2>3. /\ BookOK' /\ OneOpenAppeal' /\ filing' = filing /\ appeals' = appeals
        /\ \A s \in Student : OpenAppealOf(s)' <=> OpenAppealOf(s)
    BY <2>1, BookFrame DEF IInv
  <2>4. UNCHANGED <<minutes, holder, collected>>
    BY <2>1 DEF custody
  <2>5. CallInv'
    BY <2>1, <2>3, <2>4, OtherCalls DEF IInv, CallInv
  <2> QED BY <2>2, <2>3, <2>5 DEF IInv
<1> QED BY <1>1, <1>2, <1>3, <1>4, <1>5 DEF Next

\* The invariant holds in every state a session reaches.
THEOREM IInvHolds == Spec => []IInv
<1> QED BY InitIInv, NextIInv, PTL DEF Spec

\* What the vault has counted of a course is bounded by its halls and its students.
LEMMA IInvType == IInv => TypeOK
<1> SUFFICES ASSUME IInv PROVE TypeOK
  OBVIOUS
<1>1. collected \in [Course -> [halls : 0..Cardinality(Hall), sheets : Count, full : BOOLEAN]]
  <2> SUFFICES ASSUME NEW c \in Course
               PROVE  collected[c] \in [halls : 0..Cardinality(Hall), sheets : Count, full : BOOLEAN]
    BY DEF IInv, CustodyOK
  <2>1. /\ collected[c] \in [halls : Nat, sheets : Nat, full : BOOLEAN]
        /\ collected[c].halls = Cardinality(Received(c))
        /\ collected[c].sheets <= Cardinality(UNION {Seats(h, c) : h \in Received(c)})
    BY DEF IInv, CustodyOK, VaultCountsOnce
  <2>2. Received(c) \subseteq Hall /\ UNION {Seats(h, c) : h \in Received(c)} \subseteq Student
    BY SeatTypes DEF Received, Seats
  <2>3. Cardinality(Received(c)) \in 0..Cardinality(Hall)
    BY <2>2, Finite
  <2>4. Cardinality(UNION {Seats(h, c) : h \in Received(c)}) \in 0..Cardinality(Student)
    BY <2>2, Finite DEF Count
  <2>5. collected[c].sheets \in Count
    BY <2>1, <2>4, Finite DEF Count
  <2> QED BY <2>1, <2>3, <2>5
<1>2. CustodyTypeOK
  BY <1>1, DeliveryCourses DEF IInv, CustodyOK, CustodyTypeOK, Count, DeliveryRow
<1>3. \A k \in Session : "pc" \in DOMAIN call[k]
  BY DEF IInv, CallInv, CustodyCallOK
<1> QED BY <1>2, <1>3 DEF IInv, BookOK, TypeOK, GradeRow, HashRow, AppealRow

\* Every variable of the session and its grades keeps its type, for any halls,
\* courses, students and calls.
THEOREM TypeCorrect == Spec => []TypeOK
<1> QED BY IInvHolds, IInvType, PTL

\* A hall counts once in the totals of its courses (vaultReceiveHall).
THEOREM VaultCountsOnceHolds == Spec => []VaultCountsOnce
<1>1. IInv => VaultCountsOnce
  BY DEF IInv
<1> QED BY <1>1, IInvHolds, PTL

\* Papers reach an instructor through the vault, once (deliverToInstructor).
THEOREM DeliveredOnceThroughVaultHolds == Spec => []DeliveredOnceThroughVault
<1>1. IInv => DeliveredOnceThroughVault
  <2> SUFFICES ASSUME IInv PROVE DeliveredOnceThroughVault
    OBVIOUS
  <2>1. ASSUME NEW i \in DOMAIN deliveries
        PROVE  \E h \in Received(deliveries[i].course) : minutes[h].signed
    <3> DEFINE c == deliveries[i].course
    <3>1. c \in Course
      BY DeliveryCourses DEF IInv
    <3>2. collected[c].halls = Cardinality(Received(c)) /\ collected[c].halls >= 1
      BY <3>1 DEF IInv, ChainInv, VaultCountsOnce
    <3>3. Received(c) # {}
      BY <3>2, FS_EmptySet
    <3>4. \A h \in Received(c) : h \in Hall /\ minutes[h].received
      BY <3>1, SeatTypes DEF Received
    <3> QED BY <3>3, <3>4 DEF IInv, ChainInv
  <2> QED BY <2>1 DEF IInv, ChainInv, DeliveredOnceThroughVault
<1> QED BY <1>1, IInvHolds, PTL

\* A student has one open appeal at most (openExamAppeal).
THEOREM OneOpenAppealHolds == Spec => []OneOpenAppeal
<1>1. IInv => OneOpenAppeal
  BY DEF IInv
<1> QED BY <1>1, IInvHolds, PTL

-----------------------------------------------------------------------------
(* What the hash of a sheet tells.                                          *)

\* What a call making a sheet final has read, and what it has stored, tells every grade
\* that is not written past it.
FinalCallOK(k) ==
  LET x == call[k]
  IN /\ x.pc = "hash" => \A s \in Seated(x.course) \ late : x.sheet[s].value = grade[s].value
     /\ x.pc = "final" => \A s \in Seated(x.course) \ late : hash[x.course][s].value = grade[s].value

\* A course whose sheet is final has a hash that tells it.
Told(c) ==
  (\A s \in Seated(c) : grade[s].status = "FINALIZED") =>
    \A s \in Seated(c) \ late : hash[c][s].value = grade[s].value

\* The inductive invariant of the hashes.
HashInv == (\A k \in Session : FinalCallOK(k)) /\ \A c \in Course : Told(c)

\* The course d keeps its hash, and its grades but those past it.
Keeps(d) ==
  /\ hash'[d] = hash[d]
  /\ \A s \in Seated(d) : s \notin late' => s \notin late /\ grade'[s].value = grade[s].value

\* The course d keeps its grades but those past its hash, and its hash or one that tells
\* every grade.
Safe(d) ==
  /\ hash'[d] = hash[d] \/ \A s \in Seated(d) : hash'[d][s].value = grade'[s].value
  /\ \A s \in Seated(d) : s \notin late' => s \notin late /\ grade'[s].value = grade[s].value

\* A course whose rows, hash and late students are as they were.
LEMMA CourseSame ==
  ASSUME HashInv, NEW d \in Course, hash'[d] = hash[d],
         \A s \in Seated(d) : grade'[s] = grade[s] /\ (s \in late' <=> s \in late)
  PROVE  Told(d)' /\ Keeps(d)
<1>1. Told(d)
  BY DEF HashInv
<1> QED BY <1>1 DEF Told, Keeps

\* What a step of call k must show.
LEMMA HashStep ==
  ASSUME IInv, HashInv, NEW k \in Session, NEW x, Begin(k, x) \/ Go(k, x),
         \A d \in Course, j \in Session \ {k} : j \in Finalizers(d) => Safe(d),
         FinalCallOK(k)', \A c \in Course : Told(c)'
  PROVE  HashInv'
<1>1. ASSUME NEW j \in Session, j # k PROVE FinalCallOK(j)'
  <2> DEFINE d == call[j].course
  <2>1. call'[j] = call[j]
    BY <1>1, OneCall DEF IInv
  <2>2. FinalCallOK(j)
    BY DEF HashInv
  <2>3. CASE call[j].pc \in {"hash", "final"}
    <3>1. d \in Course /\ j \in Finalizers(d)
      BY <2>3 DEF IInv, CallInv, BookCallOK, Finalizers
    <3>2. Safe(d)
      BY <1>1, <3>1
    <3> QED BY <2>1, <2>2, <3>2 DEF FinalCallOK, Safe
  <2>4. CASE call[j].pc \notin {"hash", "final"}
    BY <2>1, <2>4 DEF FinalCallOK
  <2> QED BY <2>3, <2>4
<1> QED BY <1>1 DEF HashInv

\* A call that is not making a sheet final has nothing to keep of it.
LEMMA OtherPc ==
  ASSUME IInv, NEW k \in Session, NEW x, Begin(k, x) \/ Go(k, x), x.pc \notin {"hash", "final"}
  PROVE  FinalCallOK(k)'
<1>1. call'[k] = x
  BY OneCall DEF IInv
<1> QED BY <1>1 DEF FinalCallOK

\* A step that touches neither grades nor hashes.
LEMMA HashSame ==
  ASSUME IInv, HashInv, NEW k \in Session, NEW x, Begin(k, x) \/ Go(k, x),
         x.pc \notin {"hash", "final"}, UNCHANGED <<grade, hash, late>>
  PROVE  HashInv'
<1>1. \A d \in Course : Told(d)' /\ Keeps(d)
  BY CourseSame
<1>2. FinalCallOK(k)'
  BY OtherPc
<1>3. \A d \in Course, j \in Session \ {k} : j \in Finalizers(d) => Safe(d)
  BY <1>1 DEF Safe, Keeps
<1> QED BY <1>1, <1>2, <1>3, HashStep

\* A step of custody.
LEMMA CustodyHash ==
  ASSUME IInv, HashInv, NEW k \in Session, Custody(k), UNCHANGED book
  PROVE  HashInv'
<1> SUFFICES \E x : /\ (Begin(k, x) \/ Go(k, x))
                    /\ x.pc \notin {"hash", "final"}
  BY HashSame DEF book
<1>1. Idle.pc = "idle"
  BY DEF Idle
<1>2. CASE Vault(k)
  <2>1. CASE IssueAttendance(k)
    BY <1>1, <2>1 DEF IssueAttendance
  <2>2. CASE CountPackets(k)
    <3> DEFINE x == [pc |-> "finalize", sheets |-> [c \in Course |-> Cardinality(Seated(c) \cap present)]]
    <3>1. Begin(k, x) /\ x.pc = "finalize"
      BY <2>2 DEF CountPackets
    <3> HIDE DEF x
    <3> QED BY <3>1
  <2>3. ASSUME NEW h \in Hall, CountSheets(k, h)
        PROVE  \E x : Begin(k, x) /\ x.pc \notin {"hash", "final"}
    <3> DEFINE x == [pc |-> "receive", hall |-> h, sheets |-> SheetsOf(h)]
    <3>1. Begin(k, x) /\ x.pc = "receive"
      BY <2>3 DEF CountSheets
    <3> HIDE DEF x
    <3> QED BY <3>1
  <2>4. ASSUME NEW c \in Course, ReadCollected(k, c)
        PROVE  \E x : Begin(k, x) /\ x.pc \notin {"hash", "final"}
    <3> DEFINE x == [pc |-> "deliver", course |-> c, sheets |-> collected[c].sheets]
    <3>1. Begin(k, x) /\ x.pc = "deliver"
      BY <2>4 DEF ReadCollected
    <3> HIDE DEF x
    <3> QED BY <3>1
  <2> QED BY <1>2, <2>1, <2>2, <2>3, <2>4 DEF Vault
<1>3. CASE CustodyStep(k)
  <2>1. CASE Go(k, Idle) /\ call[k].pc \in {"sign", "receive", "add", "finalize", "deliver"}
    BY <1>1, <2>1
  <2>2. CASE Go(k, [call[k] EXCEPT !.pc = "add"]) /\ call[k].pc = "receive"
    <3> DEFINE x == [call[k] EXCEPT !.pc = "add"]
    <3>1. "pc" \in DOMAIN call[k]
      BY DEF IInv, CallInv, CustodyCallOK
    <3>2. x.pc = "add"
      BY <3>1
    <3>3. Go(k, x)
      BY <2>2
    <3> HIDE DEF x
    <3> QED BY <2>2, <3>2, <3>3
  <2> QED BY <1>3, <2>1, <2>2 DEF CustodyStep, SignMinutes, LockVault, AddHall, FinalizeHandover, Deliver
<1>4. ASSUME NEW h \in Hall, Proctor(k, h)
      PROVE  \E x : Begin(k, x) /\ x.pc \notin {"hash", "final"}
  <2>1. CASE Begin(k, Idle)
    BY <1>1, <2>1
  <2>2. CASE CountHall(k, h)
    <3> DEFINE x == [pc |-> "sign", hall |-> h, count |-> Cardinality({s \in present : HallOf[s] = h})]
    <3>1. Begin(k, x) /\ x.pc = "sign"
      BY <2>2 DEF CountHall
    <3> HIDE DEF x
    <3> QED BY <3>1
  <2> QED BY <1>4, <2>1, <2>2 DEF Proctor, VerifyAttendance
<1> QED BY <1>2, <1>3, <1>4 DEF Custody

\* The engine's grades bring their own hash.
LEMMA SubmitGradesHash ==
  ASSUME IInv, HashInv, NEW k \in Session, NEW c \in Course, NEW given \in SUBSET Seated(c),
         NEW entries \in [given -> Grade], SubmitGrades(k, c, entries)
  PROVE  HashInv'
<1>1. /\ Begin(k, Idle)
      /\ late' = IF Finalizers(c) = {} THEN late \ Seated(c) ELSE late \union DOMAIN entries
      /\ hash' = [hash EXCEPT ![c] = Totals(c, grade')]
      /\ grade' = [s \in Student |-> IF s \in DOMAIN entries
                                       THEN [value |-> entries[s], status |-> "FINALIZED"] ELSE grade[s]]
  BY DEF SubmitGrades
<1>2. \A s \in Seated(c) : hash'[c][s].value = grade'[s].value
  <2>1. hash'[c] = Totals(c, grade')
    BY <1>1 DEF IInv, BookOK
  <2> QED BY <2>1 DEF Totals
<1>3. ASSUME NEW d \in Course, d # c PROVE Told(d)' /\ Keeps(d)
  <2>1. \A s \in Seated(d) : s \in Student /\ s \notin Seated(c) /\ s \notin DOMAIN entries
    BY <1>3 DEF Seated
  <2>2. hash'[d] = hash[d] /\ \A s \in Seated(d) : grade'[s] = grade[s]
    BY <1>1, <1>3, <2>1 DEF IInv, BookOK
  <2>3. \A s \in Seated(d) : s \in late' <=> s \in late
    BY <1>1, <2>1
  <2> QED BY <2>2, <2>3, CourseSame
<1>4. ASSUME NEW j \in Session, j \in Finalizers(c) PROVE Safe(c)
  <2>1. late' = late \union DOMAIN entries
    BY <1>1, <1>4
  <2>2. \A s \in Seated(c) : s \notin late' => s \notin late /\ grade'[s].value = grade[s].value
    BY <1>1, <2>1, SeatTypes
  <2> QED BY <1>2, <2>2 DEF Safe
<1>5. \A d \in Course : Told(d)'
  <2>1. Told(c)'
    BY <1>2 DEF Told
  <2> QED BY <1>3, <2>1
<1>6. FinalCallOK(k)'
  BY <1>1, OtherPc DEF Idle
<1>7. \A d \in Course, j \in Session \ {k} : j \in Finalizers(d) => Safe(d)
  BY <1>3, <1>4 DEF Safe, Keeps
<1> QED BY <1>1, <1>5, <1>6, <1>7, HashStep

\* A grade written over takes its course's sheet out of the final ones, and is past
\* the hash when that sheet is being made final.
LEMMA OneGradeHash ==
  ASSUME IInv, HashInv, NEW k \in Session, Begin(k, Idle) \/ Go(k, Idle),
         NEW s \in Student, NEW g, grade' = [grade EXCEPT ![s] = g], g.status # "FINALIZED",
         WriteOver(s), hash' = hash
  PROVE  HashInv'
<1>1. /\ \A t \in Student : t # s => grade'[t] = grade[t] /\ (t \in late' <=> t \in late)
      /\ grade'[s].status # "FINALIZED"
  BY DEF IInv, BookOK, WriteOver
<1>2. ASSUME NEW d \in Course, s \notin Seated(d) PROVE Told(d)' /\ Keeps(d)
  <2>1. \A t \in Seated(d) : grade'[t] = grade[t] /\ (t \in late' <=> t \in late)
    BY <1>1, <1>2, SeatTypes
  <2> QED BY <2>1, CourseSame
<1>3. ASSUME NEW d \in Course, s \in Seated(d) PROVE Told(d)'
  BY <1>1, <1>3 DEF Told
<1>4. ASSUME NEW d \in Course, s \in Seated(d), NEW j \in Finalizers(d) PROVE Keeps(d)
  <2>1. CourseOf[s] = d
    BY <1>4 DEF Seated
  <2>2. late' = late \union {s}
    BY <1>4, <2>1 DEF WriteOver
  <2> QED BY <1>1, <2>2, SeatTypes DEF Keeps
<1>5. FinalCallOK(k)'
  BY OtherPc DEF Idle
<1>6. \A d \in Course, j \in Session \ {k} : j \in Finalizers(d) => Safe(d)
  BY <1>2, <1>4 DEF Safe, Keeps
<1>7. \A d \in Course : Told(d)'
  BY <1>2, <1>3
<1> QED BY <1>5, <1>6, <1>7, HashStep

\* Publishing a sheet, or making it final, changes the status of its rows and no grade.
LEMMA RowsOfStatus ==
  ASSUME IInv, NEW c \in Course, NEW st \in GradeStatus, UNCHANGED <<hash, late>>,
         grade' = [s \in Student |-> IF s \in Seated(c) THEN [grade[s] EXCEPT !.status = st] ELSE grade[s]]
  PROVE  /\ \A s \in Student : grade'[s].value = grade[s].value
         /\ \A s \in Student : s \notin Seated(c) => grade'[s] = grade[s]
         /\ \A s \in Seated(c) : grade'[s].status = st
         /\ \A d \in Course : Keeps(d)
<1>1. ASSUME NEW s \in Student
      PROVE  /\ grade'[s].value = grade[s].value
             /\ s \notin Seated(c) => grade'[s] = grade[s]
             /\ s \in Seated(c) => grade'[s].status = st
  <2>1. grade[s] \in GradeRow
    BY DEF IInv, BookOK
  <2> QED BY <2>1 DEF GradeRow
<1>2. \A d \in Course : Keeps(d)
  BY <1>1, SeatTypes DEF Keeps
<1> QED BY <1>1, <1>2, SeatTypes

\* Publishing a sheet takes it out of the final ones.
LEMMA SubmitTemporaryHash ==
  ASSUME IInv, HashInv, NEW k \in Session, NEW c \in Course, SubmitTemporary(k, c)
  PROVE  HashInv'
<1>1. /\ Begin(k, Idle) /\ UNCHANGED <<hash, late>>
      /\ grade' = [s \in Student |-> IF s \in Seated(c) THEN [grade[s] EXCEPT !.status = "TEMPORARY"] ELSE grade[s]]
  BY DEF SubmitTemporary
<1>2. /\ \A s \in Student : s \notin Seated(c) => grade'[s] = grade[s]
      /\ \A s \in Seated(c) : grade'[s].status = "TEMPORARY"
      /\ \A d \in Course : Keeps(d)
  BY <1>1, RowsOfStatus DEF GradeStatus
<1>3. ASSUME NEW d \in Course PROVE Told(d)'
  <2>1. CASE d = c
    BY <1>2, <2>1 DEF Told
  <2>2. CASE d # c
    <3>1. \A s \in Seated(d) : grade'[s] = grade[s]
      BY <1>2, <2>2 DEF Seated
    <3> QED BY <1>1, <3>1, CourseSame
  <2> QED BY <2>1, <2>2
<1>4. FinalCallOK(k)'
  BY <1>1, OtherPc DEF Idle
<1>5. \A d \in Course, j \in Session \ {k} : j \in Finalizers(d) => Safe(d)
  BY <1>2 DEF Safe, Keeps
<1> QED BY <1>1, <1>3, <1>4, <1>5, HashStep

\* The final lock reads the sheet as it is.
LEMMA ReadSheetHash ==
  ASSUME IInv, HashInv, NEW k \in Session, NEW c \in Course, ReadSheet(k, c)
  PROVE  HashInv'
<1> DEFINE x == [pc |-> "hash", course |-> c, sheet |-> Sheet(c, grade)]
<1>1. Begin(k, x) /\ UNCHANGED <<grade, hash, late>>
  BY DEF ReadSheet, book
<1>2. x.pc = "hash" /\ x.course = c /\ x.sheet = Sheet(c, grade)
  OBVIOUS
<1> HIDE DEF x
<1>3. call'[k] = x
  BY <1>1, OneCall DEF IInv
<1>4. \A s \in Seated(c) : x.sheet[s].value = grade'[s].value
  BY <1>1, <1>2 DEF Sheet
<1>5. FinalCallOK(k)'
  BY <1>2, <1>3, <1>4 DEF FinalCallOK
<1>6. \A d \in Course : Told(d)' /\ Keeps(d)
  BY <1>1, CourseSame
<1>7. \A d \in Course, j \in Session \ {k} : j \in Finalizers(d) => Safe(d)
  BY <1>6 DEF Safe, Keeps
<1> QED BY <1>1, <1>5, <1>6, <1>7, HashStep

\* The stored hash tells what the call had read.
LEMMA StoreHashHash ==
  ASSUME IInv, HashInv, NEW k \in Session, StoreHash(k)
  PROVE  HashInv'
<1> DEFINE c == call[k].course
           sheet == call[k].sheet
           x == [pc |-> "final", course |-> c]
           told == {s \in Seated(c) : sheet[s].value = grade[s].value}
<1>1. /\ Go(k, x) /\ call[k].pc = "hash" /\ grade' = grade
      /\ hash' = [hash EXCEPT ![c] = sheet]
      /\ late' = IF Finalizers(c) = {k} THEN late \ told ELSE late
  BY DEF StoreHash
<1>2. c \in Course
  BY <1>1 DEF IInv, CallInv, BookCallOK
<1>3. \A s \in Seated(c) \ late : sheet[s].value = grade[s].value
  BY <1>1 DEF HashInv, FinalCallOK
<1>4. told \subseteq Seated(c) /\ \A s \in told : sheet[s].value = grade[s].value
  OBVIOUS
<1>5. x.pc = "final" /\ x.course = c
  OBVIOUS
<1> HIDE DEF x, c, sheet, told
<1>6. \A s \in Seated(c) \ late' : sheet[s].value = grade'[s].value
  BY <1>1, <1>3, <1>4
<1>7. hash'[c] = sheet /\ \A d \in Course : d # c => hash'[d] = hash[d]
  BY <1>1, <1>2 DEF IInv, BookOK
<1>8. ASSUME NEW d \in Course, d # c PROVE Told(d)' /\ Keeps(d)
  <2>1. \A s \in Seated(d) : s \notin Seated(c)
    BY <1>8 DEF Seated
  <2>2. \A s \in Seated(d) : s \in late' <=> s \in late
    BY <1>1, <1>4, <2>1
  <2> QED BY <1>1, <1>7, <1>8, <2>2, CourseSame
<1>9. ASSUME NEW d \in Course, d = c PROVE Told(d)'
  BY <1>6, <1>7, <1>9 DEF Told
<1>10. FinalCallOK(k)'
  <2>1. call'[k] = x
    BY <1>1, OneCall DEF IInv
  <2> QED BY <1>5, <1>6, <1>7, <2>1 DEF FinalCallOK
<1>11. ASSUME NEW j \in Session \ {k}, j \in Finalizers(c) PROVE FinalCallOK(j)'
  <2>1. call'[j] = call[j] /\ call[j].course = c
    BY <1>1, <1>11, OneCall DEF IInv, Finalizers
  <2>2. late' = late
    BY <1>1, <1>11
  <2>3. FinalCallOK(j)
    BY DEF HashInv
  <2> QED BY <1>1, <1>6, <1>7, <2>1, <2>2, <2>3 DEF FinalCallOK
<1>12. ASSUME NEW j \in Session \ {k} PROVE FinalCallOK(j)'
  <2>1. call'[j] = call[j] /\ FinalCallOK(j)
    BY <1>1, <1>12, OneCall DEF IInv, HashInv
  <2>2. CASE call[j].pc \notin {"hash", "final"}
    BY <2>1, <2>2 DEF FinalCallOK
  <2>3. CASE call[j].pc \in {"hash", "final"} /\ call[j].course = c
    BY <1>11, <2>3 DEF Finalizers
  <2>4. CASE call[j].pc \in {"hash", "final"} /\ call[j].course # c
    <3>1. call[j].course \in Course
      BY <2>4 DEF IInv, CallInv, BookCallOK
    <3>2. Keeps(call[j].course)
      BY <1>8, <2>4, <3>1
    <3> QED BY <2>1, <3>2 DEF FinalCallOK, Keeps
  <2> QED BY <2>2, <2>3, <2>4
<1>13. \A d \in Course : Told(d)'
  BY <1>8, <1>9
<1> QED BY <1>10, <1>12, <1>13 DEF HashInv

\* The rows of the course become final with the grades its hash tells.
LEMMA FinalizeSheetHash ==
  ASSUME IInv, HashInv, NEW k \in Session, FinalizeSheet(k)
  PROVE  HashInv'
<1> DEFINE c == call[k].course
<1>1. /\ Go(k, Idle) /\ call[k].pc = "final" /\ UNCHANGED <<hash, late>>
      /\ grade' = [s \in Student |-> IF s \in Seated(c) THEN [grade[s] EXCEPT !.status = "FINALIZED"] ELSE grade[s]]
  BY DEF FinalizeSheet
<1>2. c \in Course
  BY <1>1 DEF IInv, CallInv, BookCallOK
<1>3. \A s \in Seated(c) \ late : hash[c][s].value = grade[s].value
  BY <1>1 DEF HashInv, FinalCallOK
<1> HIDE DEF c
<1>4. /\ \A s \in Student : grade'[s].value = grade[s].value
      /\ \A s \in Student : s \notin Seated(c) => grade'[s] = grade[s]
      /\ \A d \in Course : Keeps(d)
  BY <1>1, <1>2, RowsOfStatus DEF GradeStatus
<1>5. ASSUME NEW d \in Course PROVE Told(d)'
  <2>1. CASE d = c
    BY <1>1, <1>3, <1>4, <2>1, SeatTypes DEF Told
  <2>2. CASE d # c
    <3>1. \A s \in Seated(d) : grade'[s] = grade[s]
      BY <1>4, <2>2 DEF Seated
    <3> QED BY <1>1, <3>1, CourseSame
  <2> QED BY <2>1, <2>2
<1>6. FinalCallOK(k)'
  BY <1>1, OtherPc DEF Idle
<1>7. \A d \in Course, j \in Session \ {k} : j \in Finalizers(d) => Safe(d)
  BY <1>4 DEF Safe, Keeps
<1> QED BY <1>1, <1>5, <1>6, <1>7, HashStep

\* An appeal answered from the paper changes a grade past the hash.
LEMMA AnswerAppealHash ==
  ASSUME IInv, HashInv, NEW k \in Session, NEW i \in DOMAIN appeals, NEW new \in Grade,
         AnswerAppeal(k, i, new)
  PROVE  HashInv'
<1> DEFINE s == appeals[i].student
<1>1. /\ Begin(k, Idle) /\ hash' = hash
      /\ \/ grade' = [grade EXCEPT ![s].value = new] /\ late' = late \union {s}
         \/ grade' = grade /\ late' = late
  BY DEF AnswerAppeal
<1>2. s \in Student
  BY AppealStudents DEF IInv
<1> HIDE DEF s
<1>3. CASE grade' = grade /\ late' = late
  BY <1>1, <1>3, HashSame DEF Idle
<1>4. CASE grade' = [grade EXCEPT ![s].value = new] /\ late' = late \union {s}
  <2>1. ASSUME NEW t \in Student
        PROVE  grade'[t].status = grade[t].status /\ (t # s => grade'[t].value = grade[t].value)
    BY <1>2, <1>4 DEF IInv, BookOK, GradeRow
  <2>2. ASSUME NEW d \in Course PROVE Told(d)' /\ Keeps(d)
    <3>1. Keeps(d)
      BY <1>1, <1>4, <2>1, SeatTypes DEF Keeps
    <3> QED BY <2>1, <3>1, SeatTypes DEF HashInv, Told, Keeps
  <2>3. FinalCallOK(k)'
    BY <1>1, OtherPc DEF Idle
  <2>4. \A d \in Course, j \in Session \ {k} : j \in Finalizers(d) => Safe(d)
    BY <2>2 DEF Safe, Keeps
  <2> QED BY <1>1, <2>2, <2>3, <2>4, HashStep
<1> QED BY <1>1, <1>3, <1>4

\* The steps that touch neither a grade nor a hash.
LEMMA QuietHash ==
  ASSUME IInv, HashInv, NEW k \in Session,
         \/ \E s \in Student : FileAppeal(k, s)
         \/ \E i \in DOMAIN appeals, new \in Grade, to \in {"ACCEPTED", "REJECTED"} : FindAppeal(k, i, to, new)
         \/ InsertAppeal(k) \/ ResolveAppeal(k) \/ Crash(k)
  PROVE  HashInv'
<1> SUFFICES \E x : /\ (Begin(k, x) \/ Go(k, x))
                    /\ x.pc \notin {"hash", "final"}
  BY HashSame DEF book, FileAppeal, FindAppeal, InsertAppeal, ResolveAppeal, Crash
<1>1. Idle.pc = "idle"
  BY DEF Idle
<1>2. ASSUME NEW s \in Student, FileAppeal(k, s) PROVE \E x : Begin(k, x) /\ x.pc \notin {"hash", "final"}
  <2> DEFINE x == [pc |-> "file", student |-> s, old |-> grade[s].value]
  <2>1. Begin(k, x) /\ x.pc = "file"
    BY <1>2 DEF FileAppeal
  <2> HIDE DEF x
  <2> QED BY <2>1
<1>3. ASSUME NEW i, NEW new, NEW to, FindAppeal(k, i, to, new)
      PROVE  \E x : Begin(k, x) /\ x.pc \notin {"hash", "final"}
  <2> DEFINE x == [pc |-> "resolve", appeal |-> i, to |-> to, new |-> new]
  <2>1. Begin(k, x) /\ x.pc = "resolve"
    BY <1>3 DEF FindAppeal
  <2> HIDE DEF x
  <2> QED BY <2>1
<1>4. CASE InsertAppeal(k)
  BY <1>1, <1>4 DEF InsertAppeal
<1>5. CASE ResolveAppeal(k)
  <2> DEFINE y == [pc |-> "regrade", student |-> appeals[call[k].appeal].student, new |-> call[k].new]
             x == IF call[k].to = "ACCEPTED" THEN y ELSE Idle
  <2>1. Go(k, x) /\ call[k].pc = "resolve" /\ y.pc = "regrade"
    BY <1>5 DEF ResolveAppeal
  <2> HIDE DEF y
  <2>2. x.pc \notin {"hash", "final"}
    BY <1>1, <2>1
  <2> HIDE DEF x
  <2> QED BY <2>1, <2>2
<1>6. CASE Crash(k)
  <2>1. Go(k, Idle)
    BY <1>6 DEF Crash
  <2> QED BY <1>1, <2>1
<1> QED BY <1>2, <1>3, <1>4, <1>5, <1>6

\* Every step of every call keeps the invariant.
LEMMA HashNext ==
  ASSUME IInv, HashInv, [Next]_vars
  PROVE  HashInv'
<1>1. ASSUME NEW k \in Session, Custody(k), UNCHANGED book PROVE HashInv'
  BY <1>1, CustodyHash
<1>2. ASSUME NEW k \in Session, Professor(k) PROVE HashInv'
  <2>1. ASSUME NEW c \in Course, SubmitTemporary(k, c) \/ ReadSheet(k, c) PROVE HashInv'
    BY <2>1, SubmitTemporaryHash, ReadSheetHash
  <2>2. ASSUME NEW c \in Course, NEW given \in SUBSET Seated(c), NEW entries \in [given -> Grade],
               SubmitGrades(k, c, entries)
        PROVE  HashInv'
    BY <2>2, SubmitGradesHash
  <2>3. ASSUME NEW s \in Student, NEW v \in Values, SaveGrade(k, s, v) PROVE HashInv'
    <3> DEFINE g == [value |-> v, status |-> "DRAFT"]
    <3>1. /\ Begin(k, Idle) /\ hash' = hash /\ WriteOver(s)
          /\ grade' = [grade EXCEPT ![s] = g] /\ g.status # "FINALIZED"
      BY <2>3 DEF SaveGrade
    <3> HIDE DEF g
    <3> QED BY <3>1, OneGradeHash
  <2>4. ASSUME NEW i \in DOMAIN appeals, NEW new \in Grade, AnswerAppeal(k, i, new) PROVE HashInv'
    BY <2>4, AnswerAppealHash
  <2>5. ASSUME NEW i \in DOMAIN appeals, NEW new \in Grade, NEW to \in {"ACCEPTED", "REJECTED"},
               FindAppeal(k, i, to, new)
        PROVE  HashInv'
    BY <2>5, QuietHash
  <2> QED BY <1>2, <2>1, <2>2, <2>3, <2>4, <2>5 DEF Professor
<1>3. ASSUME NEW k \in Session, GradesStep(k) PROVE HashInv'
  <2>1. CASE Regrade(k)
    <3> DEFINE s == call[k].student
               g == [value |-> call[k].new, status |-> "TEMPORARY"]
    <3>1. /\ Go(k, Idle) /\ call[k].pc = "regrade" /\ hash' = hash /\ WriteOver(s)
          /\ grade' = [grade EXCEPT ![s] = g] /\ g.status # "FINALIZED"
      BY <2>1 DEF Regrade
    <3>2. s \in Student
      BY <3>1 DEF IInv, CallInv, BookCallOK
    <3> HIDE DEF s, g
    <3> QED BY <3>1, <3>2, OneGradeHash
  <2> QED BY <1>3, <2>1, StoreHashHash, FinalizeSheetHash, QuietHash DEF GradesStep
<1>4. ASSUME NEW k \in Session, NEW s \in Student, FileAppeal(k, s) PROVE HashInv'
  BY <1>4, QuietHash
<1>5. CASE UNCHANGED vars
  <2>1. UNCHANGED <<grade, hash, late, call>>
    BY <1>5 DEF vars, book
  <2> QED BY <2>1 DEF HashInv, FinalCallOK, Told
<1> QED BY <1>1, <1>2, <1>3, <1>4, <1>5 DEF Next

\* Once a whole sheet is final its hash tells every grade in it but those written past
\* it, of any courses and any number of calls, overlapping or cut off (submitExamGrades,
\* finalizeSignedAction, saveGradeAction, resolveAppealAction).
THEOREM HashTellsGradesHolds == Spec => []HashTellsGrades
<1>1. Init => HashInv
  <2> SUFFICES ASSUME Init PROVE HashInv
    OBVIOUS
  <2>1. \A k \in Session : FinalCallOK(k)
    BY DEF Init, FinalCallOK, Idle
  <2>2. ASSUME NEW c \in Course PROVE Told(c)
    BY SeatTypes DEF Init, Told, Totals
  <2> QED BY <2>1, <2>2 DEF HashInv
<1>2. IInv /\ HashInv /\ [Next]_vars => HashInv'
  BY HashNext
<1>3. HashInv => HashTellsGrades
  BY DEF HashInv, Told, HashTellsGrades
<1> QED BY <1>1, <1>2, <1>3, IInvHolds, PTL DEF Spec
=============================================================================
