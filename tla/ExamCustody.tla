------------------------------ MODULE ExamCustody ------------------------------
(***************************************************************************)
(* One exam session, from the attendance sheet to the delivery of the       *)
(* papers (lib/exam-engine.ts, stages 1 to 5): proctors verify attendance   *)
(* and sign the minutes of their hall, the vault receives hall by hall and  *)
(* finalizes, and the papers of a course go to its instructor.              *)
(*                                                                          *)
(* Each stage reads something outside its transaction, then opens one under *)
(* an advisory lock and the lock of the row it changes.  The read is an     *)
(* action, the transaction under its lock another; the vault's is two, so   *)
(* that what its lock excludes can be seen.                                 *)
(***************************************************************************)
EXTENDS Naturals, Sequences, FiniteSets

CONSTANTS
  Hall, Course, Student,
  HallOf, CourseOf,  \* seat_allocations: the hall and the course of a student's exam
  Session,           \* calls that may be under way at the same time
  NoSession,
  MaxCalls           \* bound: calls begun

ASSUME ExamAssumption ==
  /\ IsFiniteSet(Hall) /\ IsFiniteSet(Student)
  /\ HallOf \in [Student -> Hall]
  /\ CourseOf \in [Student -> Course]
  /\ NoSession \notin Session
  /\ MaxCalls \in Nat

VARIABLES
  issued,      \* whether exam_attendances has its rows
  present,     \* students with isPresent = 1
  minutes,     \* exam_minutes of a hall: [signed, present, received]
  holder,      \* the transaction that holds the hall's vault lock and minutes row
  collected,   \* course_exam_sessions: [halls, sheets, full]
  packets,     \* exam_course_packets: [expected, actual, status]
  deliveries,  \* instructor_deliveries: sequence of [course, sheets, status]
  call,        \* session -> the call under way
  overlap,     \* whether calls overlap in this behaviour
  calls

custody == <<issued, present, minutes, holder, collected, packets>>

Idle == [pc |-> "idle"]

Seats(h, c) == {s \in Student : HallOf[s] = h /\ CourseOf[s] = c}
Seated(c) == {s \in Student : CourseOf[s] = c}
CoursesIn(h) == {CourseOf[s] : s \in {t \in Student : HallOf[t] = h}}
HallsOf(c) == {HallOf[s] : s \in Seated(c)}

Minutes == [signed : BOOLEAN, present : 0..Cardinality(Student), received : BOOLEAN]
PacketStatus == {"NOT_STARTED", "RECEIVED_BY_VAULT", "DISCREPANCY"}
DeliveryStatus == {"PENDING_GRADING", "GRADES_SUBMITTED"}

-----------------------------------------------------------------------------
(* Beginning and continuing a call.                                         *)

\* Session k begins a call that goes on with the step next.
Begin(k, next) ==
  /\ call[k] = Idle
  /\ overlap \/ \A j \in Session : call[j] = Idle
  /\ calls < MaxCalls
  /\ calls' = calls + 1
  /\ call' = [call EXCEPT ![k] = next]
  /\ UNCHANGED overlap

\* Session k goes on to its next step; Idle ends the call.
Go(k, next) ==
  /\ call' = [call EXCEPT ![k] = next]
  /\ UNCHANGED <<overlap, calls>>

-----------------------------------------------------------------------------
(* Attendance and minutes.                                                  *)

\* issueExamAttendance: rows for every seat, once.
IssueAttendance(k) ==
  /\ ~issued
  /\ issued' = TRUE
  /\ packets' = [c \in Course |-> [packets[c] EXCEPT !.expected = Cardinality(Seated(c))]]
  /\ Begin(k, Idle)
  /\ UNCHANGED <<present, minutes, holder, collected, deliveries>>

\* proctorVerifyAttendance: one UPDATE of the students of the hall that were checked.
VerifyAttendance(k, h, checked, here) ==
  /\ issued
  /\ here \subseteq checked
  /\ \A s \in checked : HallOf[s] = h
  /\ present' = (present \ checked) \union here
  /\ Begin(k, Idle)
  /\ UNCHANGED <<issued, minutes, holder, collected, packets, deliveries>>

\* signHallMinutes counts the hall before its transaction ...
CountHall(k, h) ==
  /\ Begin(k, [pc |-> "sign", hall |-> h,
               count |-> Cardinality({s \in present : HallOf[s] = h})])
  /\ UNCHANGED <<custody, deliveries>>

\* ... which inserts or overwrites the minutes; the row may be held by the vault.
SignMinutes(k) ==
  /\ call[k].pc = "sign"
  /\ holder[call[k].hall] = NoSession
  /\ minutes' = [minutes EXCEPT ![call[k].hall] =
       [signed |-> TRUE, present |-> call[k].count, received |-> @.received]]
  /\ Go(k, Idle)
  /\ UNCHANGED <<issued, present, holder, collected, packets, deliveries>>

-----------------------------------------------------------------------------
(* The vault.                                                               *)

\* The sheets of a hall by course: students present in attendance now.
SheetsOf(h) == [c \in CoursesIn(h) |-> Cardinality(Seats(h, c) \cap present)]

\* vaultReceiveHall reads the signature and the sheets outside its transaction.
CountSheets(k, h) ==
  /\ minutes[h].signed
  /\ Begin(k, [pc |-> "receive", hall |-> h, sheets |-> SheetsOf(h)])
  /\ UNCHANGED <<custody, deliveries>>

\* Mutant: the minutes row is read without its lock.
LockVaultLoosely(k) ==
  /\ call[k].pc = "receive"
  /\ ~minutes[call[k].hall].received
  /\ Go(k, [call[k] EXCEPT !.pc = "add"])
  /\ UNCHANGED <<custody, deliveries>>

\* The advisory lock and the row's FOR UPDATE: a hall not yet received goes on.
LockVault(k) ==
  /\ call[k].pc = "receive"
  /\ holder[call[k].hall] = NoSession
  /\ IF minutes[call[k].hall].received
       THEN Go(k, Idle) /\ UNCHANGED holder
       ELSE /\ holder' = [holder EXCEPT ![call[k].hall] = k]
            /\ Go(k, [call[k] EXCEPT !.pc = "add"])
  /\ UNCHANGED <<issued, present, minutes, collected, packets, deliveries>>

\* The two updates and the commit.
AddHall(k) ==
  LET h == call[k].hall
      sheets == call[k].sheets
  IN /\ call[k].pc = "add"
     /\ minutes' = [minutes EXCEPT ![h].received = TRUE]
     /\ holder' = [holder EXCEPT ![h] = NoSession]
     /\ collected' = [c \in Course |->
          IF c \in DOMAIN sheets
            THEN [halls |-> collected[c].halls + 1, sheets |-> collected[c].sheets + sheets[c],
                  full |-> collected[c].full]
            ELSE collected[c]]
     /\ Go(k, Idle)
     /\ UNCHANGED <<issued, present, packets, deliveries>>

\* finalizeVaultHandover counts the sheets of every course before its transaction ...
CountPackets(k) ==
  /\ Begin(k, [pc |-> "finalize", sheets |-> [c \in Course |-> Cardinality(Seated(c) \cap present)]])
  /\ UNCHANGED <<custody, deliveries>>

\* course_exam_sessions.totalHallsCount: its default, which the application never
\* overwrites (a load-test seed does).
TotalHallsCount == 1

\* The mark isFullyCollected of the handover.
FullyCollected(c) == IF c.halls >= TotalHallsCount THEN [c EXCEPT !.full = TRUE] ELSE c

\* ... which settles the packets and marks the courses that are collected.
FinalizeHandover(k) ==
  /\ call[k].pc = "finalize"
  /\ packets' = [c \in Course |->
       LET n == call[k].sheets[c]
       IN IF Seated(c) = {} THEN packets[c]
          ELSE [packets[c] EXCEPT !.actual = n,
                  !.status = IF packets[c].expected = n THEN "RECEIVED_BY_VAULT" ELSE "DISCREPANCY"]]
  /\ collected' = [c \in Course |-> FullyCollected(collected[c])]
  /\ Go(k, Idle)
  /\ UNCHANGED <<issued, present, minutes, holder, deliveries>>

-----------------------------------------------------------------------------
(* Delivery to the instructor.                                              *)

\* deliverToInstructor reads the course's collection ...
ReadCollected(k, c) ==
  /\ collected[c].full
  /\ Begin(k, [pc |-> "deliver", course |-> c, sheets |-> collected[c].sheets])
  /\ UNCHANGED <<custody, deliveries>>

Delivered(c) == \E i \in DOMAIN deliveries : deliveries[i].course = c

\* Mutant: the search for an active delivery happens before the lock.
DeliverAgain(k) ==
  /\ call[k].pc = "deliver"
  /\ deliveries' = Append(deliveries,
       [course |-> call[k].course, sheets |-> call[k].sheets, status |-> "PENDING_GRADING"])
  /\ Go(k, Idle)
  /\ UNCHANGED custody

\* ... and inserts the delivery under the advisory lock unless one is active; none
\* is ever archived.
Deliver(k) ==
  /\ call[k].pc = "deliver"
  /\ deliveries' = IF Delivered(call[k].course) THEN deliveries
                   ELSE Append(deliveries, [course |-> call[k].course, sheets |-> call[k].sheets,
                                            status |-> "PENDING_GRADING"])
  /\ Go(k, Idle)
  /\ UNCHANGED custody

CustodyInit ==
  /\ issued = FALSE
  /\ present = {}
  /\ minutes = [h \in Hall |-> [signed |-> FALSE, present |-> 0, received |-> FALSE]]
  /\ holder = [h \in Hall |-> NoSession]
  /\ collected = [c \in Course |-> [halls |-> 0, sheets |-> 0, full |-> FALSE]]
  /\ packets = [c \in Course |-> [expected |-> 0, actual |-> 0, status |-> "NOT_STARTED"]]
  /\ deliveries = <<>>

Proctor(k, h) ==
  \/ \E checked \in SUBSET {s \in Student : HallOf[s] = h} :
       \E here \in SUBSET checked : checked # {} /\ VerifyAttendance(k, h, checked, here)
  \/ CountHall(k, h)

Vault(k) ==
  \/ IssueAttendance(k) \/ CountPackets(k)
  \/ \E h \in Hall : CountSheets(k, h)
  \/ \E c \in Course : ReadCollected(k, c)

CustodyStep(k) ==
  SignMinutes(k) \/ LockVault(k) \/ AddHall(k) \/ FinalizeHandover(k) \/ Deliver(k)

Custody(k) == Vault(k) \/ CustodyStep(k) \/ \E h \in Hall : Proctor(k, h)

-----------------------------------------------------------------------------
(* Properties of the custody of papers.                                     *)

CustodyTypeOK ==
  /\ issued \in BOOLEAN /\ present \subseteq Student
  /\ minutes \in [Hall -> Minutes]
  /\ holder \in [Hall -> Session \union {NoSession}]
  /\ collected \in [Course -> [halls : 0..Cardinality(Hall), sheets : 0..Cardinality(Student), full : BOOLEAN]]
  /\ packets \in [Course -> [expected : 0..Cardinality(Student), actual : 0..Cardinality(Student),
                             status : PacketStatus]]
  /\ \A i \in DOMAIN deliveries :
       deliveries[i] \in [course : Course, sheets : 0..Cardinality(Student), status : DeliveryStatus]

Received(c) == {h \in HallsOf(c) : minutes[h].received}

\* A hall counts once in the totals of each of its courses, however many times its
\* handover is requested, and no sheet is counted that nobody in a received hall
\* could have written (vaultReceiveHall: FOR UPDATE and vaultReceivedAt).
VaultCountsOnce ==
  \A c \in Course :
    /\ collected[c].halls = Cardinality(Received(c))
    /\ collected[c].sheets <= Cardinality(UNION {Seats(h, c) : h \in Received(c)})

\* Papers in an instructor's hands came through the chain: a hall of the course was
\* signed for and received, and the course has one delivery (deliverToInstructor
\* after finalizeVaultHandover after vaultReceiveHall after signHallMinutes).
DeliveredOnceThroughVault ==
  /\ \A i \in DOMAIN deliveries :
       \E h \in Received(deliveries[i].course) : minutes[h].signed
  /\ \A i, j \in DOMAIN deliveries : deliveries[i].course = deliveries[j].course => i = j
=============================================================================
