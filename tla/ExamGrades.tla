------------------------------ MODULE ExamGrades ------------------------------
(***************************************************************************)
(* From the papers to the final grade: stages 6 to 8 of lib/exam-engine.ts  *)
(* composed with the professor's grade sheet of app/professor/grades.       *)
(* Both write the same enrollments, the same hash of a course and the same  *)
(* appeals: the engine in transactions that lock the rows they decide on,   *)
(* the sheet statement by statement.                                        *)
(*                                                                          *)
(* submitExamGrades and answerExamAppeal are one action each: they lock the *)
(* rows they decide on first, and a grade saved meanwhile on a row they do  *)
(* not hold is the same as one saved just after.  openExamAppeal is two, so *)
(* that what its lock excludes can be seen.  The one-time code in front of  *)
(* the final lock of a sheet is the subject of TeachingTerm.                *)
(***************************************************************************)
EXTENDS ExamCustody

CONSTANTS
  Grade,        \* grades a student may get
  Zero,         \* the grade 0
  NoGrade,
  MaxAppeals    \* bound: appeals opened

ASSUME GradesAssumption == Zero \in Grade /\ NoGrade \notin Grade /\ MaxAppeals \in Nat

VARIABLES
  grade,     \* enrollments: student -> [value, status]
  hash,      \* course_offerings.gradesHash: the rows it was computed from, by student
  appeals,   \* grade_appeals: sequence of [student, old, status]
  filing,    \* the openExamAppeal that holds the student's enrollment
  late       \* history: students whose grade was written past the hash of their course

book == <<grade, hash, appeals, filing, late>>
vars == <<custody, deliveries, call, overlap, calls, book>>

GradeStatus == {"NONE", "DRAFT", "TEMPORARY", "FINALIZED"}
AppealStatus == {"OPEN", "RESOLVED_ACCEPTED", "ACCEPTED", "REJECTED"}
Values == Grade \union {NoGrade}

\* Mutant: the rows of every course.
SheetOfAll(c, g) == [s \in Student |-> g[s]]

\* The rows of a course as the page hashes them: the grade and the status it has
\* when they are read (the time hashed with them is stored beside the hash).
Sheet(c, g) == [s \in Seated(c) |-> g[s]]

\* The rows as the engine hashes them: the grades alone.
Totals(c, g) == [s \in Seated(c) |-> [value |-> g[s].value, status |-> "UNTOLD"]]

\* The calls that have read the sheet of the course and not yet made it final.
Finalizers(c) == {k \in Session : call[k].pc \in {"hash", "final"} /\ call[k].course = c}

\* A grade written over while its sheet is being made final is past its hash.
WriteOver(s) == late' = IF Finalizers(CourseOf[s]) = {} THEN late \ {s} ELSE late \union {s}

-----------------------------------------------------------------------------
(* The engine's side.                                                       *)

NewestDelivery(c) ==
  CHOOSE i \in DOMAIN deliveries :
    /\ deliveries[i].course = c
    /\ \A j \in DOMAIN deliveries : deliveries[j].course = c => j <= i

\* submitExamGrades: the grades of some students, all final, the hash of the course
\* and the delivery, in one transaction.
SubmitGrades(k, c, entries) ==
  LET given == [s \in Student |-> IF s \in DOMAIN entries
                                    THEN [value |-> entries[s], status |-> "FINALIZED"] ELSE grade[s]]
  IN /\ Delivered(c)
     /\ deliveries[NewestDelivery(c)].status = "PENDING_GRADING"
     /\ \A s \in DOMAIN entries : filing[s] = NoSession
     /\ grade' = given
     /\ hash' = [hash EXCEPT ![c] = Totals(c, given)]
     /\ late' = IF Finalizers(c) = {} THEN late \ Seated(c) ELSE late \union DOMAIN entries
     /\ deliveries' = [deliveries EXCEPT ![NewestDelivery(c)].status = "GRADES_SUBMITTED"]
     /\ Begin(k, Idle)
     /\ UNCHANGED <<custody, appeals, filing>>

OpenAppealOf(s) == \E i \in DOMAIN appeals : appeals[i].student = s /\ appeals[i].status = "OPEN"

\* Mutant: the search for an open appeal happens without the enrollment's lock.
FileAppealUnlocked(k, s) ==
  /\ grade[s].status = "FINALIZED"
  /\ ~OpenAppealOf(s)
  /\ Begin(k, [pc |-> "file", student |-> s, old |-> grade[s].value])
  /\ UNCHANGED <<custody, deliveries, book>>

\* openExamAppeal under the enrollment's lock: final grade, no open appeal.
FileAppeal(k, s) ==
  /\ filing[s] = NoSession
  /\ grade[s].status = "FINALIZED"
  /\ ~OpenAppealOf(s)
  /\ filing' = [filing EXCEPT ![s] = k]
  /\ Begin(k, [pc |-> "file", student |-> s, old |-> grade[s].value])
  /\ UNCHANGED <<custody, deliveries, grade, hash, appeals, late>>

\* The insert and the commit.
InsertAppeal(k) ==
  /\ call[k].pc = "file"
  /\ Len(appeals) < MaxAppeals
  /\ appeals' = Append(appeals, [student |-> call[k].student, old |-> call[k].old, status |-> "OPEN"])
  /\ filing' = [filing EXCEPT ![call[k].student] = NoSession]
  /\ Go(k, Idle)
  /\ UNCHANGED <<custody, deliveries, grade, hash, late>>

\* The grade the paper marked again is compared with: the appeal's, the row's, or 0.
OldGrade(i) ==
  LET row == grade[appeals[i].student].value
  IN CASE appeals[i].old # NoGrade -> appeals[i].old
       [] appeals[i].old = NoGrade /\ row # NoGrade -> row
       [] OTHER -> Zero

\* answerExamAppeal: a different total replaces the grade and keeps its status and
\* the course's hash.
AnswerAppeal(k, i, new) ==
  LET s == appeals[i].student
      changed == new # OldGrade(i)
  IN /\ appeals[i].status = "OPEN"
     /\ filing[s] = NoSession
     /\ appeals' = [appeals EXCEPT ![i].status = IF changed THEN "RESOLVED_ACCEPTED" ELSE "REJECTED"]
     /\ grade' = IF changed THEN [grade EXCEPT ![s].value = new] ELSE grade
     /\ late' = IF changed THEN late \union {s} ELSE late
     /\ Begin(k, Idle)
     /\ UNCHANGED <<custody, deliveries, hash, filing>>

-----------------------------------------------------------------------------
(* The professor's sheet.                                                   *)

\* saveGradeAction upserts a draft, whatever the row's status was.
SaveGrade(k, s, v) ==
  /\ filing[s] = NoSession
  /\ grade' = [grade EXCEPT ![s] = [value |-> v, status |-> "DRAFT"]]
  /\ WriteOver(s)
  /\ Begin(k, Idle)
  /\ UNCHANGED <<custody, deliveries, hash, appeals, filing>>

\* submitTemporaryAction publishes the whole sheet.
SubmitTemporary(k, c) ==
  /\ \A s \in Seated(c) : filing[s] = NoSession
  /\ grade' = [s \in Student |-> IF s \in Seated(c) THEN [grade[s] EXCEPT !.status = "TEMPORARY"] ELSE grade[s]]
  /\ Begin(k, Idle)
  /\ UNCHANGED <<custody, deliveries, hash, appeals, filing, late>>

\* finalizeSignedAction, its code accepted, reads the sheet ...
ReadSheet(k, c) ==
  /\ Begin(k, [pc |-> "hash", course |-> c, sheet |-> Sheet(c, grade)])
  /\ UNCHANGED <<custody, deliveries, book>>

\* ... stores its hash: a grade it tells is past it no longer, unless the sheet is
\* being made final once more ...
StoreHash(k) ==
  LET c == call[k].course
      sheet == call[k].sheet
  IN /\ call[k].pc = "hash"
     /\ hash' = [hash EXCEPT ![c] = sheet]
     /\ late' = IF Finalizers(c) = {k} THEN late \ {s \in Seated(c) : sheet[s].value = grade[s].value} ELSE late
     /\ Go(k, [pc |-> "final", course |-> c])
     /\ UNCHANGED <<custody, deliveries, grade, appeals, filing>>

\* ... and makes every row of the course final.
FinalizeSheet(k) ==
  LET c == call[k].course
  IN /\ call[k].pc = "final"
     /\ \A s \in Seated(c) : filing[s] = NoSession
     /\ grade' = [s \in Student |-> IF s \in Seated(c) THEN [grade[s] EXCEPT !.status = "FINALIZED"] ELSE grade[s]]
     /\ Go(k, Idle)
     /\ UNCHANGED <<custody, deliveries, hash, appeals, filing, late>>

\* resolveAppealAction finds the appeal open ...
FindAppeal(k, i, to, new) ==
  /\ appeals[i].status = "OPEN"
  /\ Begin(k, [pc |-> "resolve", appeal |-> i, to |-> to, new |-> new])
  /\ UNCHANGED <<custody, deliveries, book>>

\* ... closes it by its id ...
ResolveAppeal(k) ==
  LET i == call[k].appeal
  IN /\ call[k].pc = "resolve"
     /\ appeals' = [appeals EXCEPT ![i].status = call[k].to]
     /\ Go(k, IF call[k].to = "ACCEPTED" THEN [pc |-> "regrade", student |-> appeals[i].student, new |-> call[k].new] ELSE Idle)
     /\ UNCHANGED <<custody, deliveries, grade, hash, filing, late>>

\* Mutant: the accepted grade is written over a final one that stays final.
RegradeKeepingStatus(k) ==
  /\ call[k].pc = "regrade"
  /\ filing[call[k].student] = NoSession
  /\ grade' = [grade EXCEPT ![call[k].student].value = call[k].new]
  /\ WriteOver(call[k].student)
  /\ Go(k, Idle)
  /\ UNCHANGED <<custody, deliveries, hash, appeals, filing>>

\* ... and an accepted one writes the new grade, to be made final again.
Regrade(k) ==
  /\ call[k].pc = "regrade"
  /\ filing[call[k].student] = NoSession
  /\ grade' = [grade EXCEPT ![call[k].student] = [value |-> call[k].new, status |-> "TEMPORARY"]]
  /\ WriteOver(call[k].student)
  /\ Go(k, Idle)
  /\ UNCHANGED <<custody, deliveries, hash, appeals, filing>>

\* A server process stops in the middle of a call: its transaction rolls back.
Crash(k) ==
  /\ call[k] # Idle
  /\ holder' = [h \in Hall |-> IF holder[h] = k THEN NoSession ELSE holder[h]]
  /\ filing' = [s \in Student |-> IF filing[s] = k THEN NoSession ELSE filing[s]]
  /\ Go(k, Idle)
  /\ UNCHANGED <<issued, present, minutes, collected, packets, deliveries, grade, hash, appeals, late>>

-----------------------------------------------------------------------------
Init ==
  /\ CustodyInit
  /\ grade = [s \in Student |-> [value |-> NoGrade, status |-> "NONE"]]
  /\ hash = [c \in Course |-> Totals(c, grade)]
  /\ appeals = <<>> /\ late = {}
  /\ filing = [s \in Student |-> NoSession]
  /\ call = [k \in Session |-> Idle]
  /\ overlap \in BOOLEAN /\ calls = 0

Professor(k) ==
  \/ \E c \in Course :
       \/ SubmitTemporary(k, c) \/ ReadSheet(k, c)
       \/ \E given \in SUBSET Seated(c) \ {{}} : \E entries \in [given -> Grade] :
            SubmitGrades(k, c, entries)
  \/ \E s \in Student, v \in Values : SaveGrade(k, s, v)
  \/ \E i \in DOMAIN appeals, new \in Grade :
       \/ AnswerAppeal(k, i, new)
       \/ \E to \in {"ACCEPTED", "REJECTED"} : FindAppeal(k, i, to, new)

GradesStep(k) ==
  InsertAppeal(k) \/ StoreHash(k) \/ FinalizeSheet(k) \/ ResolveAppeal(k) \/ Regrade(k) \/ Crash(k)

Next ==
  \E k \in Session :
    \/ Custody(k) /\ UNCHANGED book
    \/ Professor(k) \/ GradesStep(k)
    \/ \E s \in Student : FileAppeal(k, s)

Spec == Init /\ [][Next]_vars

-----------------------------------------------------------------------------
(* Properties.                                                              *)

TypeOK ==
  /\ CustodyTypeOK
  /\ grade \in [Student -> [value : Values, status : GradeStatus]]
  /\ \A c \in Course : hash[c] \in [Seated(c) -> [value : Values, status : GradeStatus \union {"UNTOLD"}]]
  /\ appeals \in Seq([student : Student, old : Values, status : AppealStatus])
  /\ filing \in [Student -> Session \union {NoSession}]
  /\ late \subseteq Student
  /\ \A k \in Session : "pc" \in DOMAIN call[k]

\* A student never has two open appeals about one grade, however often the form is
\* sent (openExamAppeal's advisory lock and FOR UPDATE).
OneOpenAppeal ==
  \A i, j \in DOMAIN appeals :
    appeals[i].status = "OPEN" /\ appeals[j].status = "OPEN"
      /\ appeals[i].student = appeals[j].student => i = j

\* Once a whole sheet is final, its hash tells every grade in it but those written
\* past it: by an exam appeal since, or by anyone while the sheet was being made
\* final.  Any other change takes the row out of the final ones, however calls overlap
\* or stop (submitExamGrades, finalizeSignedAction, saveGradeAction, resolveAppealAction).
HashTellsGrades ==
  \A c \in Course :
    (\A s \in Seated(c) : grade[s].status = "FINALIZED") =>
      \A s \in Seated(c) \ late : hash[c][s].value = grade[s].value
=============================================================================
