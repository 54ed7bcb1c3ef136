------------------------------- MODULE Workflow -------------------------------
(***************************************************************************)
(* The BPM engine of afagh-next: student requests that move through the     *)
(* steps of a process (lib/workflow-engine.ts), the staff who decide on     *)
(* them from a page they loaded earlier, the parallel clearance gateway,    *)
(* the SLA job, and the council buttons of the admin page that write the    *)
(* status column themselves (app/admin/actions.ts).                         *)
(*                                                                          *)
(* Every transaction that moves a request locks its row first, so it is     *)
(* one action here.  What is NOT atomic in the code is not atomic here: a   *)
(* decision is taken on a page loaded before (View, then Decide), and the   *)
(* SLA job takes its advisory lock, reads the due list, acts on each entry  *)
(* and releases the lock in separate statements, each on whichever pooled   *)
(* connection it is given.                                                  *)
(***************************************************************************)
EXTENDS Naturals, Sequences

CONSTANTS
  Request,      \* rows of student_requests the model may create
  Process,      \* process codes
  Template,     \* process code -> its steps, in stepOrder
  ProcessOf,    \* request -> the process it is submitted for
  Dept,         \* departments of the parallel clearance
  Expert,       \* staff with the workflow page open
  Run,          \* concurrent invocations of the SLA job
  Conn,         \* connections of the PostgreSQL pool
  NoReq, NoConn,
  MaxLogs,      \* bound: rows of request_step_logs per request
  MaxLock       \* bound: re-entrant holds of the advisory lock

ASSUME WorkflowAssumption ==
  /\ Template \in [Process -> Seq([type : STRING, timeout : STRING])]
  /\ \A p \in Process : Len(Template[p]) > 0
  /\ ProcessOf \in [Request -> Process]
  /\ NoReq \notin Request
  /\ NoConn \notin Conn
  /\ MaxLogs \in Nat
  /\ MaxLock \in Nat

VARIABLES
  status,   \* student_requests.status, "NONE" before the row exists
  step,     \* stepOrder of student_requests.currentStepId
  issued,   \* issuedAt is set: the engine issued the certificate
  logs,     \* request_step_logs of the request, in id order
  cleared,  \* departments whose request_parallel_checkpoints row is cleared
  row,      \* the request's workflow_events row: "NONE" or its status
  view,     \* what the page in front of an expert shows
  sla,      \* the SLA job: program counter and due list of each invocation
  lock      \* the session-level advisory lock: holding connection, hold count

reqVars == <<status, step, issued, logs, cleared, row>>
slaVars == <<sla, lock>>
vars == <<status, step, issued, logs, cleared, row, view, sla, lock>>

TerminalStatus == {"APPROVED", "REJECTED", "CANCELLED"}
OpenStatus == {"SUBMITTED", "IN_REVIEW", "RETURNED"}
EngineAction == {"APPROVE", "REJECT", "RETURN_FOR_REVISION", "ESCALATE"}
LogAction == EngineAction \union {"SUBMIT", "ASSIGN"}

LogRow == [step : Nat, action : LogAction, open : BOOLEAN, late : BOOLEAN]

Steps(r) == Template[ProcessOf[r]]
LastStep(r) == Len(Steps(r))

\* The one handler the registry holds: COURSE_TRANSFER_ENROLL.
HasHandler(p) == p = "COURSE_TRANSFER"

OpenLog(n, a) == [step |-> n, action |-> a, open |-> TRUE, late |-> FALSE]

\* The newest row of ls whose completedAt is null.
IsNewestOpen(ls, i) ==
  /\ ls[i].open
  /\ \A j \in DOMAIN ls : ls[j].open => j <= i

\* advanceWorkflowStep stamps the newest open row with the action taken.
CloseNewest(ls, a) ==
  [i \in DOMAIN ls |->
     IF IsNewestOpen(ls, i) THEN [ls[i] EXCEPT !.open = FALSE, !.action = a]
                            ELSE ls[i]]

\* The newest open row was opened by an escalation.
EscalationPending(ls) ==
  \E i \in DOMAIN ls : IsNewestOpen(ls, i) /\ ls[i].action = "ESCALATE"

Overdue(r) == \E i \in DOMAIN logs[r] : IsNewestOpen(logs[r], i) /\ logs[r][i].late

-----------------------------------------------------------------------------
(* submitStudentRequest: the request, its first log row and its checkpoints  *)
(* in one transaction.  Whether the student holds a current enrolment and a  *)
(* non-negative balance is the environment's choice.                         *)

Create(r, s, certified, firstLog) ==
  /\ status[r] = "NONE"
  /\ status' = [status EXCEPT ![r] = s]
  /\ step' = [step EXCEPT ![r] = 1]
  /\ issued' = [issued EXCEPT ![r] = certified]
  /\ logs' = [logs EXCEPT ![r] = <<firstLog>>]
  /\ UNCHANGED <<cleared, row, view, sla, lock>>

SubmitCertApproved(r) ==
  /\ ProcessOf[r] = "ENROLLMENT_CERT"
  /\ Create(r, "APPROVED", TRUE,
            [step |-> 1, action |-> "APPROVE", open |-> FALSE, late |-> FALSE])

SubmitForReview(r) ==
  /\ ProcessOf[r] \in {"ENROLLMENT_CERT", "GRADUATION_CHECKOUT"}
  /\ Create(r, "IN_REVIEW", FALSE, OpenLog(1, "SUBMIT"))

SubmitGeneral(r) ==
  /\ ProcessOf[r] \notin {"ENROLLMENT_CERT", "GRADUATION_CHECKOUT"}
  /\ Create(r, "SUBMITTED", FALSE, OpenLog(1, "SUBMIT"))

-----------------------------------------------------------------------------
(* advanceWorkflowStep, one disjunct per way it can end.  Each closes the    *)
(* newest open log row first.                                                *)

AlreadyFinal(r) ==
  /\ status[r] \in TerminalStatus
  /\ UNCHANGED <<status, step, issued, logs, row>>

\* Mutant: a rejection fires the event too.
RejectStepWithEvent(r) ==
  /\ status' = [status EXCEPT ![r] = "REJECTED"]
  /\ logs' = [logs EXCEPT ![r] = CloseNewest(@, "REJECT")]
  /\ row' = IF HasHandler(ProcessOf[r]) THEN [row EXCEPT ![r] = "PENDING"] ELSE row
  /\ UNCHANGED <<step, issued>>

RejectStep(r) ==
  /\ status' = [status EXCEPT ![r] = "REJECTED"]
  /\ logs' = [logs EXCEPT ![r] = CloseNewest(@, "REJECT")]
  /\ UNCHANGED <<step, issued, row>>

ReturnStep(r) ==
  /\ status' = [status EXCEPT ![r] = "RETURNED"]
  /\ logs' = [logs EXCEPT ![r] = CloseNewest(@, "RETURN_FOR_REVISION")]
  /\ UNCHANGED <<step, issued, row>>

\* Mutant: an escalation leaves the step's log row open.
EscalateStepKeepingLog(r) ==
  /\ Len(logs[r]) < MaxLogs
  /\ logs' = [logs EXCEPT ![r] = Append(@, OpenLog(step[r], "ESCALATE"))]
  /\ status' = [status EXCEPT ![r] = "IN_REVIEW"]
  /\ UNCHANGED <<step, issued, row>>

\* Escalating a step whose escalation is pending only closes that row.
EscalateStep(r) ==
  /\ \/ /\ EscalationPending(logs[r])
        /\ logs' = [logs EXCEPT ![r] = CloseNewest(@, "ESCALATE")]
        /\ UNCHANGED status
     \/ /\ ~EscalationPending(logs[r])
        /\ Len(logs[r]) < MaxLogs
        /\ logs' = [logs EXCEPT ![r] = Append(CloseNewest(@, "ESCALATE"),
                                              OpenLog(step[r], "ESCALATE"))]
        /\ status' = [status EXCEPT ![r] = "IN_REVIEW"]
  /\ UNCHANGED <<step, issued, row>>

\* Mutant: the step after the next is looked up.
MoveTwoSteps(r) ==
  /\ step[r] < LastStep(r)
  /\ status' = [status EXCEPT ![r] = "IN_REVIEW"]
  /\ step' = [step EXCEPT ![r] = @ + 2]
  /\ logs' = [logs EXCEPT ![r] = Append(CloseNewest(@, "APPROVE"),
                                        OpenLog(step[r] + 2, "ASSIGN"))]
  /\ UNCHANGED <<issued, row>>

MoveToNextStep(r) ==
  /\ step[r] < LastStep(r)
  /\ status' = [status EXCEPT ![r] = "IN_REVIEW"]
  /\ step' = [step EXCEPT ![r] = @ + 1]
  /\ logs' = [logs EXCEPT ![r] = Append(CloseNewest(@, "APPROVE"),
                                        OpenLog(step[r] + 1, "ASSIGN"))]
  /\ UNCHANGED <<issued, row>>

\* Mutant: the step before the last is taken for the last.
FinalApproveEarly(r) ==
  /\ step[r] + 1 >= LastStep(r)
  /\ status' = [status EXCEPT ![r] = "APPROVED"]
  /\ issued' = [issued EXCEPT ![r] = TRUE]
  /\ logs' = [logs EXCEPT ![r] = CloseNewest(@, "APPROVE")]
  /\ row' = IF HasHandler(ProcessOf[r]) THEN [row EXCEPT ![r] = "PENDING"] ELSE row
  /\ UNCHANGED step

\* The last step: issue the certificate and record the event for the handler.
FinalApprove(r) ==
  /\ step[r] >= LastStep(r)
  /\ status' = [status EXCEPT ![r] = "APPROVED"]
  /\ issued' = [issued EXCEPT ![r] = TRUE]
  /\ logs' = [logs EXCEPT ![r] = CloseNewest(@, "APPROVE")]
  /\ row' = IF HasHandler(ProcessOf[r]) THEN [row EXCEPT ![r] = "PENDING"] ELSE row
  /\ UNCHANGED step

Advance(r, act) ==
  \/ AlreadyFinal(r)
  \/ /\ status[r] \in OpenStatus
     /\ \/ act = "REJECT" /\ RejectStep(r)
        \/ act = "RETURN_FOR_REVISION" /\ ReturnStep(r)
        \/ act = "ESCALATE" /\ EscalateStep(r)
        \/ act = "APPROVE" /\ (MoveToNextStep(r) \/ FinalApprove(r))

-----------------------------------------------------------------------------
(* The workflow page: an expert loads it, and decides later on what it shows. *)
(* The server action gets the request's id only; it never compares the step. *)

BlankPage == [req |-> NoReq, step |-> 0, cleared |-> {}]

View(e, r) ==
  /\ view[e] = BlankPage
  /\ status[r] \in OpenStatus
  /\ view' = [view EXCEPT ![e] = [req |-> r, step |-> step[r], cleared |-> cleared[r]]]
  /\ UNCHANGED <<reqVars, slaVars>>

Decide(e, r, act) ==
  /\ view[e].req = r
  /\ Advance(r, act)
  /\ view' = [view EXCEPT ![e] = BlankPage]
  /\ UNCHANGED <<cleared, slaVars>>

\* clearParallelCheckpoint: the button is enabled while the page shows the
\* checkpoint uncleared.  When all are cleared the request is advanced in the
\* same transaction.
ClearCheckpoint(e, r, d) ==
  /\ view[e].req = r
  /\ ProcessOf[r] = "GRADUATION_CHECKOUT"
  /\ d \notin view[e].cleared
  /\ cleared' = [cleared EXCEPT ![r] = @ \union {d}]
  /\ \/ cleared'[r] = Dept /\ Advance(r, "APPROVE")
     \/ cleared'[r] # Dept /\ UNCHANGED <<status, step, issued, logs, row>>
  /\ view' = [view EXCEPT ![e] = BlankPage]
  /\ UNCHANGED slaVars

\* Mutant: the update is not conditional on the status.
CouncilDecideAlways(r, s) ==
  /\ status[r] # "NONE"
  /\ status' = [status EXCEPT ![r] = s]
  /\ UNCHANGED <<step, issued, logs, cleared, row, view, slaVars>>

\* approveRequestAction / rejectRequestAction of the admin page: a conditional
\* update of the status column, with no log row, event or certificate.
CouncilDecide(r, s) ==
  /\ status[r] \in {"SUBMITTED", "IN_REVIEW"}
  /\ status' = [status EXCEPT ![r] = s]
  /\ UNCHANGED <<step, issued, logs, cleared, row, view, slaVars>>

CouncilApprove(r) == CouncilDecide(r, "APPROVED")
CouncilReject(r) == CouncilDecide(r, "REJECTED")

-----------------------------------------------------------------------------
(* The SLA job, checkAndTriggerSlaTimeouts.                                  *)

\* Time passes: slaHours of the current step elapse on the newest open row.
Expire(r) ==
  /\ status[r] \in OpenStatus
  /\ \E i \in DOMAIN logs[r] :
       /\ IsNewestOpen(logs[r], i)
       /\ ~logs[r][i].late
       /\ logs' = [logs EXCEPT ![r][i].late = TRUE]
  /\ UNCHANGED <<status, step, issued, cleared, row, view, slaVars>>

\* Mutant: the timeoutAction is handed to the engine as it is stored.
SlaActionUnmapped(t) == t

SlaActionOf(t) ==
  CASE t = "ESCALATE" -> "ESCALATE" [] t = "AUTO_APPROVE" -> "APPROVE"
    [] t = "AUTO_REJECT" -> "REJECT" [] OTHER -> "NONE"

\* What the job's query returns, less the rows whose timeoutAction is skipped.
DueList ==
  { [req |-> r, step |-> step[r], act |-> SlaActionOf(Steps(r)[step[r]].timeout)] :
      r \in {q \in Request :
               /\ status[q] \in OpenStatus
               /\ Overdue(q)
               /\ SlaActionOf(Steps(q)[step[q]].timeout) # "NONE"} }

IdleRun == [pc |-> "idle", due |-> {}]

\* pg_try_advisory_lock on connection c: free, or already held by c's session.
SlaTryLock(u, c) ==
  /\ sla[u].pc = "idle"
  /\ lock.conn \in {NoConn, c}
  /\ lock.count < MaxLock
  /\ lock' = [conn |-> c, count |-> lock.count + 1]
  /\ sla' = [sla EXCEPT ![u].pc = "locked"]
  /\ UNCHANGED <<reqVars, view>>

SlaReadDue(u) ==
  /\ sla[u].pc = "locked"
  /\ sla' = [sla EXCEPT ![u] = [pc |-> "acting", due |-> DueList]]
  /\ UNCHANGED <<reqVars, view, lock>>

SlaAct(u, item) ==
  /\ item \in sla[u].due
  /\ Advance(item.req, item.act)
  /\ sla' = [sla EXCEPT ![u].due = @ \ {item}]
  /\ UNCHANGED <<cleared, view, lock>>

\* The transaction of one entry fails; the loop goes on with the next.
SlaActFails(u, item) ==
  /\ item \in sla[u].due
  /\ sla' = [sla EXCEPT ![u].due = @ \ {item}]
  /\ UNCHANGED <<reqVars, view, lock>>

\* pg_advisory_unlock on connection c: it releases only what c's session holds.
SlaUnlock(u, c) ==
  /\ sla[u].pc = "acting"
  /\ sla[u].due = {}
  /\ sla' = [sla EXCEPT ![u] = IdleRun]
  /\ lock' = IF lock.conn # c THEN lock
             ELSE IF lock.count = 1 THEN [conn |-> NoConn, count |-> 0]
             ELSE [lock EXCEPT !.count = @ - 1]
  /\ UNCHANGED <<reqVars, view>>

\* The pool closes an idle connection, and with it the session's lock.
CloseLockConnection ==
  /\ lock.conn # NoConn
  /\ lock' = [conn |-> NoConn, count |-> 0]
  /\ UNCHANGED <<reqVars, view, sla>>

\* The server process dies: its connections close, its jobs are lost.
ServerCrash ==
  /\ \E u \in Run : sla[u].pc # "idle"
  /\ sla' = [u \in Run |-> IdleRun]
  /\ lock' = [conn |-> NoConn, count |-> 0]
  /\ UNCHANGED <<reqVars, view>>

-----------------------------------------------------------------------------
Init ==
  /\ status = [r \in Request |-> "NONE"]
  /\ step = [r \in Request |-> 0]
  /\ issued = [r \in Request |-> FALSE]
  /\ logs = [r \in Request |-> << >>]
  /\ cleared = [r \in Request |-> {}]
  /\ row = [r \in Request |-> "NONE"]
  /\ view = [e \in Expert |-> BlankPage]
  /\ sla = [u \in Run |-> IdleRun]
  /\ lock = [conn |-> NoConn, count |-> 0]

Student(r) == SubmitCertApproved(r) \/ SubmitForReview(r) \/ SubmitGeneral(r)

Staff(e, r) ==
  \/ View(e, r)
  \/ \E act \in EngineAction : Decide(e, r, act)
  \/ \E d \in Dept : ClearCheckpoint(e, r, d)
  \/ CouncilApprove(r)
  \/ CouncilReject(r)

SlaJob(u) ==
  \/ \E c \in Conn : SlaTryLock(u, c) \/ SlaUnlock(u, c)
  \/ SlaReadDue(u)
  \/ \E item \in sla[u].due : SlaAct(u, item) \/ SlaActFails(u, item)

Next ==
  \/ \E r \in Request : Student(r) \/ Expire(r)
  \/ \E e \in Expert, r \in Request : Staff(e, r)
  \/ \E u \in Run : SlaJob(u)
  \/ CloseLockConnection
  \/ ServerCrash

Spec == Init /\ [][Next]_vars

-----------------------------------------------------------------------------
DueItem == [req : Request, step : Nat, act : EngineAction]

TypeOK ==
  /\ status \in [Request -> {"NONE"} \union OpenStatus \union TerminalStatus]
  /\ step \in [Request -> Nat]
  /\ issued \in [Request -> BOOLEAN]
  /\ logs \in [Request -> Seq(LogRow)]
  /\ cleared \in [Request -> SUBSET Dept]
  /\ row \in [Request -> {"NONE", "PENDING"}]
  /\ view \in [Expert -> [req : Request \union {NoReq}, step : Nat, cleared : SUBSET Dept]]
  /\ sla \in [Run -> [pc : {"idle", "locked", "acting"}, due : SUBSET DueItem]]
  /\ lock \in [conn : Conn \union {NoConn}, count : Nat]

\* Whoever acts on a request, and in whatever order (experts on stale pages, a
\* clearance department, overlapping SLA jobs), at most one of its log rows is
\* open, and an open row is the last one and belongs to the current step: the
\* row the SLA query measures is the row of the step it reports.
OneOpenLog ==
  \A r \in Request : \A i \in DOMAIN logs[r] :
    logs[r][i].open => i = Len(logs[r]) /\ logs[r][i].step = step[r]

\* A certificate is issued only after every step of the process was assigned to
\* someone, except the enrolment certificate the system approves by itself.
IssuedWentThroughEveryStep ==
  \A r \in Request :
    issued[r] /\ ProcessOf[r] # "ENROLLMENT_CERT" =>
      \A n \in 1..LastStep(r) : \E i \in DOMAIN logs[r] : logs[r][i].step = n

\* The outbox holds a row for a request only when the engine itself approved it
\* finally: no event for a rejected, returned or merely moved request.
EventOnlyForIssued ==
  \A r \in Request : row[r] # "NONE" =>
    status[r] = "APPROVED" /\ issued[r] /\ HasHandler(ProcessOf[r])

\* A request that reached a terminal status is never touched again: a double
\* click, a stale page, a checkpoint cleared late, an SLA entry read before the
\* decision and the council buttons all leave status, step and logs as they are.
TerminalIsFinal ==
  [][\A r \in Request : status[r] \in TerminalStatus =>
       UNCHANGED <<status[r], step[r], issued[r], logs[r], row[r]>>]_reqVars
-----------------------------------------------------------------------------
(* Refinement: the engine implements the lifecycle.                          *)

PhaseOf(s) == IF s \in OpenStatus THEN "OPEN" ELSE s

Lifecycle == INSTANCE RequestLifecycle WITH
  Last <- [r \in Request |-> LastStep(r)],
  SelfCertified <- {r \in Request : ProcessOf[r] = "ENROLLMENT_CERT"},
  Emits <- {r \in Request : HasHandler(ProcessOf[r])},
  phase <- [r \in Request |-> PhaseOf(status[r])],
  at <- step,
  certified <- issued,
  emitted <- [r \in Request |-> row[r] # "NONE"]

\* The engine with all its actors implements RequestLifecycle: steps one at a
\* time and in order, one ending, certificate only from the last step, event
\* exactly with the certificate.
LifecycleSpec == Lifecycle!LSpec
=============================================================================
