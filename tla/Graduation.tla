------------------------------ MODULE Graduation ------------------------------
(***************************************************************************)
(* The graduation dossier of one student (lib/graduation-engine.ts and the  *)
(* actions of app/admin/graduation and app/student/graduation).             *)
(*                                                                          *)
(* Every button changes one fact of the dossier and then calls              *)
(* advanceDossier, which recomputes the dossier's status.  Nothing but the  *)
(* issue of a degree is a transaction: each statement is an action here, a  *)
(* call keeps what it read, and calls of several people interleave.         *)
(***************************************************************************)
EXTENDS Integers, FiniteSets

CONSTANTS
  Session,        \* calls that may be under way at the same time
  Dept,           \* clearance departments
  AutoCheck,      \* department -> "FINANCE_LEDGER", "HTTP_API" or "NONE"
  RequireSajjad,  \* setting GRAD_REQUIRE_SAJJAD
  RequirePhoto,   \* setting GRAD_REQUIRE_PHOTO
  Fee,            \* setting GRAD_STAMP_FEE
  Opening,        \* possible opening debts in the ledger (rows DEBIT of the migration)
  MaxCalls,       \* bound: calls begun
  MaxCrashes      \* bound: calls cut off

ASSUME GraduationAssumption ==
  /\ AutoCheck \in [Dept -> {"FINANCE_LEDGER", "HTTP_API", "NONE"}]
  /\ RequireSajjad \in BOOLEAN /\ RequirePhoto \in BOOLEAN
  /\ Fee \in Nat /\ Opening \subseteq Nat
  /\ MaxCalls \in Nat /\ MaxCrashes \in Nat

VARIABLES
  audit,     \* the graduation_audits row: status "NONE" before it exists
  rows,      \* clearance_checklist: department -> status, "NONE" without a row
  student,   \* students.status
  degrees,   \* issued_degrees: [type, coded]
  debit,     \* opening debt
  credits,   \* CREDIT rows of the stamp fee
  call,      \* session -> the call under way
  past,      \* history: departments once settled, thesis once passed
  overlap,   \* whether calls overlap in this behaviour
  calls, crashes

file == <<audit, rows, past>>
vars == <<audit, rows, student, degrees, debit, credits, call, past, overlap, calls, crashes>>

Status == {"CATALOG_REVIEW", "HEAD_APPROVAL", "IRANDOC_VERIFICATION", "CLEARANCE",
           "SAJJAD_REQUEST", "FINAL_DOCS", "READY_TO_ISSUE", "ISSUED", "ON_HOLD"}
RowStatus == {"PENDING", "CLEARED", "HAS_DEBT", "WAIVED"}
DegreeType == {"TEMPORARY", "PERMANENT", "TRANSCRIPT"}

NoAudit(thesis) ==
  [status |-> "NONE", head |-> FALSE, thesis |-> thesis, irandoc |-> "NONE",
   sajjad |-> "NONE", code |-> FALSE, photo |-> FALSE, paid |-> FALSE]

Idle == [pc |-> "idle"]
At(pc) == [pc |-> pc]

\* financeBalance sums the types DEBIT and CREDIT only.
FinanceBalance == debit - Fee * credits

-----------------------------------------------------------------------------
(* The status a dossier ought to have.                                      *)

SajjadPending(a) ==
  RequireSajjad /\ a.sajjad \notin {"SKIPPED", "CONFIRMED"} /\ ~a.code

ThesisPending(a) == a.thesis /\ a.irandoc \notin {"PASSED", "SKIPPED"}

Existing(r) == {d \in Dept : r[d] # "NONE"}
Settled(r) == {d \in Dept : r[d] \in {"CLEARED", "WAIVED"}}

FinalDocsDone(a) == (RequirePhoto => a.photo) /\ (Fee > 0 => a.paid)

\* advanceDossier's cascade: the first step whose condition is missing.
Due(a, r) ==
  CASE ~a.head -> "HEAD_APPROVAL"
    [] a.head /\ ThesisPending(a) -> "IRANDOC_VERIFICATION"
    [] a.head /\ ~ThesisPending(a) /\ (Existing(r) = {} \/ Settled(r) # Existing(r)) -> "CLEARANCE"
    [] OTHER -> IF SajjadPending(a) THEN "SAJJAD_REQUEST"
                ELSE IF FinalDocsDone(a) THEN "READY_TO_ISSUE" ELSE "FINAL_DOCS"

-----------------------------------------------------------------------------
(* Beginning and continuing a call.                                         *)

\* Session k begins a call.
Begin(k, next) ==
  /\ call[k] = Idle
  /\ overlap \/ \A j \in Session : call[j] = Idle
  /\ calls < MaxCalls
  /\ calls' = calls + 1
  /\ call' = [call EXCEPT ![k] = next]
  /\ UNCHANGED <<debit, overlap, crashes>>

\* Session k goes on to its next statement.
Go(k, next) ==
  /\ call' = [call EXCEPT ![k] = next]
  /\ UNCHANGED <<debit, overlap, calls, crashes>>

SetRow(d, to) ==
  /\ rows' = [rows EXCEPT ![d] = to]
  /\ past' = IF to \in {"CLEARED", "WAIVED"} THEN [past EXCEPT !.settled = @ \union {d}] ELSE past

Exists == audit.status # "NONE"

-----------------------------------------------------------------------------
(* Opening the dossier.                                                     *)

\* runGraduationScan: the student is eligible and the list of dossiers has none.
ScanFinds(k) ==
  /\ student \in {"ACTIVE", "PENDING_GRADUATION"}
  /\ ~Exists
  /\ Begin(k, At("open"))
  /\ UNCHANGED <<file, student, degrees, credits>>

\* Mutant: the thesis column is forgotten.
OpenWithoutThesis(k) ==
  /\ call[k].pc = "open"
  /\ audit' = IF Exists THEN audit ELSE [audit EXCEPT !.status = "HEAD_APPROVAL"]
  /\ Go(k, At("pending"))
  /\ UNCHANGED <<rows, past, student, degrees, credits>>

\* openDossier's insert, which does nothing if the row exists.
OpenDossier(k) ==
  /\ call[k].pc = "open"
  /\ audit' = IF Exists THEN audit
              ELSE [audit EXCEPT !.status = "HEAD_APPROVAL",
                                 !.irandoc = IF audit.thesis THEN "PENDING" ELSE "SKIPPED"]
  /\ Go(k, At("pending"))
  /\ UNCHANGED <<rows, past, student, degrees, credits>>

\* Then the student's status is set, whatever it is.
MarkPending(k) ==
  /\ call[k].pc = "pending"
  /\ student' = "PENDING_GRADUATION"
  /\ Go(k, Idle)
  /\ UNCHANGED <<file, degrees, credits>>

-----------------------------------------------------------------------------
(* The buttons: one fact each, then the status is recomputed.               *)

\* A call whose first statement changes the row from audit to a, and then advances.
ChangeFact(k, a) ==
  /\ Exists
  /\ audit' = a
  /\ Begin(k, At("advance"))
  /\ UNCHANGED <<rows, student, degrees, credits>>

\* Mutant: the head approves and nothing recomputes the status.
ApproveOnly(k) ==
  /\ Exists
  /\ audit' = [audit EXCEPT !.head = TRUE]
  /\ Begin(k, Idle)
  /\ UNCHANGED <<rows, past, student, degrees, credits>>

ApproveByHead(k) == ChangeFact(k, [audit EXCEPT !.head = TRUE]) /\ UNCHANGED past
SubmitSajjad(k) == ChangeFact(k, [audit EXCEPT !.code = TRUE, !.sajjad = "SUBMITTED"]) /\ UNCHANGED past
WaiveSajjad(k) == ChangeFact(k, [audit EXCEPT !.sajjad = "SKIPPED"]) /\ UNCHANGED past
SetFinalPhoto(k) == ChangeFact(k, [audit EXCEPT !.photo = TRUE]) /\ UNCHANGED past
ResumeDossier(k) == ChangeFact(k, [audit EXCEPT !.status = "CATALOG_REVIEW"]) /\ UNCHANGED past

\* The similarity check: a thesis that passes advances the dossier, a rejected one
\* only leaves its mark.
IrandocPasses(k) ==
  /\ audit.thesis
  /\ ChangeFact(k, [audit EXCEPT !.irandoc = "PASSED"])
  /\ past' = [past EXCEPT !.passed = TRUE]

IrandocRejects(k) ==
  /\ Exists /\ audit.thesis
  /\ audit' = [audit EXCEPT !.irandoc = "REJECTED"]
  /\ Begin(k, Idle)
  /\ UNCHANGED <<rows, past, student, degrees, credits>>

HoldDossier(k) ==
  /\ Exists
  /\ audit' = [audit EXCEPT !.status = "ON_HOLD"]
  /\ Begin(k, Idle)
  /\ UNCHANGED <<rows, past, student, degrees, credits>>

\* setClearance: an expert decides on a row of the checklist.
SetClearance(k, d, to) ==
  /\ rows[d] # "NONE"
  /\ SetRow(d, to)
  /\ Begin(k, At("advance"))
  /\ UNCHANGED <<audit, student, degrees, credits>>

\* The buttons that only start a procedure: status, checklist, automatic checks.
Press(k) ==
  /\ Exists
  /\ \E pc \in {"advance", "auto", "insert"} :
       Begin(k, IF pc = "insert" THEN [pc |-> pc, todo |-> Dept] ELSE At(pc))
  /\ UNCHANGED <<file, student, degrees, credits>>

\* payStampFee reads whether the fee is paid, inserts the payment, marks it paid.
PayRead(k) ==
  /\ Exists
  /\ Begin(k, At(IF Fee > 0 /\ ~audit.paid THEN "pay" ELSE "paid"))
  /\ UNCHANGED <<file, student, degrees, credits>>

PayInsert(k) ==
  /\ call[k].pc = "pay"
  /\ credits' = credits + 1
  /\ Go(k, At("paid"))
  /\ UNCHANGED <<file, student, degrees>>

PayMark(k) ==
  /\ call[k].pc = "paid"
  /\ audit' = [audit EXCEPT !.paid = TRUE]
  /\ Go(k, At("advance"))
  /\ UNCHANGED <<rows, past, student, degrees, credits>>

\* requestMinistryCode: the student's request is checked, the ministry asked, a code
\* made up if it does not answer; the dossier notes it in any case.
AskMinistry(k) ==
  /\ Exists
  /\ ~SajjadPending(audit)
  /\ Begin(k, At("confirm"))
  /\ UNCHANGED <<file, student, degrees, credits>>

ConfirmCode(k) ==
  /\ call[k].pc = "confirm"
  /\ audit' = [audit EXCEPT !.sajjad = "CONFIRMED"]
  /\ Go(k, Idle)
  /\ UNCHANGED <<rows, past, student, degrees, credits>>

-----------------------------------------------------------------------------
(* startClearance and runAutoClearance.                                     *)

\* One row per department, inserted one after the other.
InsertRow(k, d) ==
  /\ call[k].pc = "insert"
  /\ d \in call[k].todo
  /\ IF rows[d] = "NONE" THEN SetRow(d, "PENDING") ELSE UNCHANGED <<rows, past>>
  /\ Go(k, [call[k] EXCEPT !.todo = @ \ {d}])
  /\ UNCHANGED <<audit, student, degrees, credits>>

\* All rows are there: the status is CLEARANCE, whatever it was.
EnterClearance(k) ==
  /\ call[k].pc = "insert"
  /\ call[k].todo = {}
  /\ audit' = [audit EXCEPT !.status = "CLEARANCE"]
  /\ Go(k, At("auto"))
  /\ UNCHANGED <<rows, past, student, degrees, credits>>

\* The rows are read once: those not settled are checked one after the other.
ReadChecklist(k) ==
  /\ call[k].pc = "auto"
  /\ Go(k, [pc |-> "check",
            todo |-> {d \in Existing(rows) \ Settled(rows) : AutoCheck[d] # "NONE"}])
  /\ UNCHANGED <<file, student, degrees, credits>>

\* The ledger, or a service that answers or does not, decides on the row.
CheckRow(k, d) ==
  /\ call[k].pc = "check"
  /\ d \in call[k].todo
  /\ \/ AutoCheck[d] = "FINANCE_LEDGER" /\ SetRow(d, IF FinanceBalance <= 0 THEN "CLEARED" ELSE "HAS_DEBT")
     \/ AutoCheck[d] = "HTTP_API" /\ \E to \in {"CLEARED", "HAS_DEBT"} : SetRow(d, to)
     \/ AutoCheck[d] = "HTTP_API" /\ UNCHANGED <<rows, past>>
  /\ Go(k, [call[k] EXCEPT !.todo = @ \ {d}])
  /\ UNCHANGED <<audit, student, degrees, credits>>

ChecksDone(k) ==
  /\ call[k].pc = "check"
  /\ call[k].todo = {}
  /\ Go(k, At("advance"))
  /\ UNCHANGED <<file, student, degrees, credits>>

-----------------------------------------------------------------------------
(* advanceDossier.                                                          *)

\* Mutant: the status is recomputed for a dossier on hold as well.
AdvanceReadAlways(k) ==
  /\ call[k].pc = "advance"
  /\ Go(k, IF audit.status = "ISSUED" THEN Idle ELSE [pc |-> "decide", read |-> audit])
  /\ UNCHANGED <<file, student, degrees, credits>>

\* The row is read; an issued or held dossier stays as it is.
AdvanceRead(k) ==
  /\ call[k].pc = "advance"
  /\ Go(k, IF audit.status \in {"ISSUED", "ON_HOLD"} THEN Idle
           ELSE [pc |-> "decide", read |-> audit])
  /\ UNCHANGED <<file, student, degrees, credits>>

\* The checklist is read and the next status chosen; a dossier that arrives at the
\* clearance without a checklist gets one.
AdvanceDecide(k) ==
  LET a == call[k].read
      next == Due(a, rows)
      arrives == a.head /\ ~ThesisPending(a) /\ Existing(rows) = {} /\ a.status # "CLEARANCE"
  IN /\ call[k].pc = "decide"
     /\ Go(k, IF arrives THEN [pc |-> "insert", todo |-> Dept]
              ELSE IF next = a.status THEN Idle ELSE [pc |-> "write", next |-> next])
     /\ UNCHANGED <<file, student, degrees, credits>>

\* The status is written, whatever it has become.
AdvanceWrite(k) ==
  /\ call[k].pc = "write"
  /\ audit' = [audit EXCEPT !.status = call[k].next]
  /\ Go(k, Idle)
  /\ UNCHANGED <<rows, past, student, degrees, credits>>

-----------------------------------------------------------------------------
(* Issuing a degree.                                                        *)

\* Mutant: only a dossier on hold or in clearance is refused.
IssueReadLoosely(k, type, given) ==
  /\ Exists
  /\ type # "TRANSCRIPT" => audit.status \notin {"ON_HOLD", "CLEARANCE", "HEAD_APPROVAL"}
  /\ type = "PERMANENT" => given \/ \E d \in degrees : d.coded
  /\ Begin(k, [pc |-> "issue", degree |-> [type |-> type, coded |-> type = "PERMANENT" \/ given]])
  /\ UNCHANGED <<file, student, degrees, credits>>

\* issueDegree's checks; given: the expert enters the ministry's code.
IssueRead(k, type, given) ==
  /\ Exists
  /\ type # "TRANSCRIPT" => audit.status \in {"READY_TO_ISSUE", "ISSUED"}
  /\ type = "PERMANENT" => given \/ \E d \in degrees : d.coded
  /\ Begin(k, [pc |-> "issue", degree |-> [type |-> type, coded |-> type = "PERMANENT" \/ given]])
  /\ UNCHANGED <<file, student, degrees, credits>>

\* Mutant: a transcript closes the dossier as well.
IssueClosingAlways(k) ==
  /\ call[k].pc = "issue"
  /\ degrees' = degrees \union {call[k].degree}
  /\ audit' = [audit EXCEPT !.status = "ISSUED"]
  /\ student' = "GRADUATED"
  /\ Go(k, Idle)
  /\ UNCHANGED <<rows, past, credits>>

\* The transaction: the degree, and unless it is a transcript the dossier's and the
\* student's status.
IssueDegree(k) ==
  /\ call[k].pc = "issue"
  /\ degrees' = degrees \union {call[k].degree}
  /\ IF call[k].degree.type = "TRANSCRIPT" THEN UNCHANGED <<audit, student>>
     ELSE /\ audit' = [audit EXCEPT !.status = "ISSUED"]
          /\ student' = "GRADUATED"
  /\ Go(k, Idle)
  /\ UNCHANGED <<rows, past, credits>>

\* The server stops: what a call had not written is lost.
Crash(k) ==
  /\ overlap
  /\ call[k] # Idle
  /\ crashes < MaxCrashes
  /\ crashes' = crashes + 1
  /\ call' = [call EXCEPT ![k] = Idle]
  /\ UNCHANGED <<file, student, degrees, debit, credits, overlap, calls>>

-----------------------------------------------------------------------------
Init ==
  /\ \E thesis \in BOOLEAN : audit = NoAudit(thesis)
  /\ rows = [d \in Dept |-> "NONE"]
  /\ student = "ACTIVE"
  /\ degrees = {}
  /\ debit \in Opening
  /\ credits = 0
  /\ call = [k \in Session |-> Idle]
  /\ past = [settled |-> {}, passed |-> FALSE]
  /\ overlap \in BOOLEAN
  /\ calls = 0 /\ crashes = 0

Button(k) ==
  \/ ScanFinds(k) \/ ApproveByHead(k) \/ HoldDossier(k) \/ ResumeDossier(k)
  \/ IrandocPasses(k) \/ IrandocRejects(k)
  \/ \E d \in Dept, to \in RowStatus : SetClearance(k, d, to)
  \/ Press(k)
  \/ SubmitSajjad(k) \/ WaiveSajjad(k) \/ SetFinalPhoto(k) \/ PayRead(k) \/ AskMinistry(k)
  \/ \E type \in DegreeType, given \in BOOLEAN : IssueRead(k, type, given)

Continue(k) ==
  \/ OpenDossier(k) \/ MarkPending(k)
  \/ \E d \in Dept : InsertRow(k, d) \/ CheckRow(k, d)
  \/ EnterClearance(k) \/ ReadChecklist(k) \/ ChecksDone(k)
  \/ AdvanceRead(k) \/ AdvanceDecide(k) \/ AdvanceWrite(k)
  \/ PayInsert(k) \/ PayMark(k) \/ ConfirmCode(k) \/ IssueDegree(k)

Next == \E k \in Session : Button(k) \/ Continue(k) \/ Crash(k)

Spec == Init /\ [][Next]_vars

-----------------------------------------------------------------------------
CallType ==
  {At(pc) : pc \in {"idle", "open", "pending", "advance", "auto", "pay", "paid", "confirm"}}
  \union [pc : {"insert", "check"}, todo : SUBSET Dept]
  \union [pc : {"decide"}, read : [status : Status, head : BOOLEAN, thesis : BOOLEAN,
            irandoc : {"PENDING", "PASSED", "REJECTED", "SKIPPED"},
            sajjad : {"NONE", "SUBMITTED", "SKIPPED", "CONFIRMED"},
            code : BOOLEAN, photo : BOOLEAN, paid : BOOLEAN]]
  \union [pc : {"write"}, next : Status]
  \union [pc : {"issue"}, degree : [type : DegreeType, coded : BOOLEAN]]

TypeOK ==
  /\ audit \in [status : Status \union {"NONE"}, head : BOOLEAN, thesis : BOOLEAN,
       irandoc : {"NONE", "PENDING", "PASSED", "REJECTED", "SKIPPED"},
       sajjad : {"NONE", "SUBMITTED", "SKIPPED", "CONFIRMED"},
       code : BOOLEAN, photo : BOOLEAN, paid : BOOLEAN]
  /\ rows \in [Dept -> RowStatus \union {"NONE"}]
  /\ student \in {"ACTIVE", "PENDING_GRADUATION", "GRADUATED"}
  /\ degrees \subseteq [type : DegreeType, coded : BOOLEAN]
  /\ debit \in Nat /\ credits \in Nat
  /\ call \in [Session -> CallType]
  /\ past \in [settled : SUBSET Dept, passed : BOOLEAN]
  /\ overlap \in BOOLEAN /\ calls \in Nat /\ crashes \in Nat

Final == {d \in degrees : d.type # "TRANSCRIPT"}
Quiet == \A k \in Session : call[k] = Idle

\* However calls overlap and break off, a degree is issued only for a dossier the head
\* approved, whose thesis once passed, with the student's request, photo and fee, and
\* that some department settled; all of them did if calls never overlapped.
DegreeNeedsGates ==
  Final # {} =>
    /\ audit.head
    /\ audit.thesis => past.passed
    /\ ~SajjadPending(audit)
    /\ FinalDocsDone(audit)
    /\ past.settled # {}
    /\ ~overlap => past.settled = Dept

\* GRADUATION.md: with every change the status is recomputed.  Between calls that do
\* not overlap the status is the one its facts ask for; a thesis rejected after it
\* passed is the exception (runIrandoc recomputes nothing then).
StatusIsDue ==
  (~overlap /\ Quiet /\ audit.status \notin {"NONE", "ON_HOLD", "ISSUED"} /\ audit.irandoc # "REJECTED")
    => audit.status = Due(audit, rows)

\* A student is a graduate only with a degree that is not a transcript, in every
\* interleaving and after a crash; with one, the student is a graduate unless two
\* scans overlapped the whole procedure.
GraduateHasDegree ==
  /\ student = "GRADUATED" => Final # {}
  /\ ~overlap => (Final # {} => student = "GRADUATED")

\* A dossier on hold is taken up again by the resume and clearance buttons only, and
\* an issued one is reopened by the buttons only, while calls do not overlap.
HeldDossierWaits ==
  [][~overlap /\ audit.status \in {"ON_HOLD", "ISSUED"} /\ audit'.status # audit.status
       => audit'.status \in {"CATALOG_REVIEW", "CLEARANCE", "ON_HOLD"}]_vars
=============================================================================
