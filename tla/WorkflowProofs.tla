---------------------------- MODULE WorkflowProofs ----------------------------
(***************************************************************************)
(* Theorems of Workflow, for every set of requests, experts, departments,   *)
(* SLA invocations and process definitions.                                 *)
(***************************************************************************)
EXTENDS Workflow, SequenceTheorems, TLAPS

\* The request's step is a step of its process, every step up to it was
\* assigned to someone, and a certificate is issued from the last step only.
StepInv ==
  \A r \in Request :
    /\ status[r] # "NONE" => step[r] \in 1..LastStep(r)
    /\ \A n \in 1..step[r] : \E i \in DOMAIN logs[r] : logs[r][i].step = n
    /\ issued[r] => status[r] = "APPROVED"
    /\ issued[r] /\ ProcessOf[r] # "ENROLLMENT_CERT" => step[r] = LastStep(r)

\* The type invariant of the variables advanceWorkflowStep may write.
RequestTypeOK ==
  /\ status \in [Request -> {"NONE"} \union OpenStatus \union TerminalStatus]
  /\ step \in [Request -> Nat]
  /\ issued \in [Request -> BOOLEAN]
  /\ logs \in [Request -> Seq(LogRow)]
  /\ row \in [Request -> {"NONE", "PENDING"}]

RequestInv == RequestTypeOK /\ OneOpenLog /\ EventOnlyForIssued /\ StepInv

\* A session that holds the advisory lock holds it at least once.
LockInv == lock.conn # NoConn => lock.count > 0

\* The inductive invariant.
IInv == TypeOK /\ LockInv /\ OneOpenLog /\ EventOnlyForIssued /\ StepInv

-----------------------------------------------------------------------------
\* Every process has at least one step.
LEMMA LastStepType == \A r \in Request : LastStep(r) \in Nat \ {0}
<1> TAKE r \in Request
<1> DEFINE S == [type : STRING, timeout : STRING]
<1>1. ProcessOf[r] \in Process
  BY WorkflowAssumption
<1>2. Template[ProcessOf[r]] \in Seq(S) /\ Len(Template[ProcessOf[r]]) > 0
  BY <1>1, WorkflowAssumption
<1>3. Len(Template[ProcessOf[r]]) \in Nat
  BY <1>2, LenProperties
<1> QED BY <1>2, <1>3 DEF LastStep, Steps

\* Closing the newest open row keeps the rows, their order and their steps.
LEMMA CloseNewestType ==
  ASSUME NEW ls \in Seq(LogRow), NEW a \in LogAction
  PROVE  /\ CloseNewest(ls, a) \in Seq(LogRow)
         /\ Len(CloseNewest(ls, a)) = Len(ls)
         /\ DOMAIN CloseNewest(ls, a) = DOMAIN ls
         /\ \A i \in DOMAIN ls : CloseNewest(ls, a)[i].step = ls[i].step
<1> DEFINE c == CloseNewest(ls, a)
<1>1. Len(ls) \in Nat /\ ls \in [1..Len(ls) -> LogRow] /\ DOMAIN ls = 1..Len(ls)
  BY LenProperties
<1>2. \A i \in 1..Len(ls) :
        /\ [ls[i] EXCEPT !.open = FALSE, !.action = a] \in LogRow
        /\ [ls[i] EXCEPT !.open = FALSE, !.action = a].step = ls[i].step
  BY <1>1 DEF LogRow
<1>3. c \in [1..Len(ls) -> LogRow]
  BY <1>1, <1>2 DEF CloseNewest
<1>4. c \in Seq(LogRow)
  BY <1>1, <1>3, SeqDef
<1>5. DOMAIN c = 1..Len(ls)
  BY <1>3
<1>6. Len(c) = Len(ls)
  BY <1>1, <1>4, <1>5, LenProperties
<1>7. \A i \in DOMAIN ls : c[i].step = ls[i].step
  BY <1>1, <1>2 DEF CloseNewest
<1> QED BY <1>1, <1>4, <1>5, <1>6, <1>7

\* When at most the last row is open, closing the newest leaves none open.
LEMMA CloseNewestClosesAll ==
  ASSUME NEW ls \in Seq(LogRow), NEW a \in LogAction,
         \A i \in DOMAIN ls : ls[i].open => i = Len(ls)
  PROVE  \A i \in DOMAIN ls : ~CloseNewest(ls, a)[i].open
<1>1. Len(ls) \in Nat /\ ls \in [1..Len(ls) -> LogRow] /\ DOMAIN ls = 1..Len(ls)
  BY LenProperties
<1> TAKE i \in DOMAIN ls
<1>2. CASE ls[i].open
  <2>1. IsNewestOpen(ls, i)
    BY <1>1, <1>2 DEF IsNewestOpen
  <2>2. CloseNewest(ls, a)[i] = [ls[i] EXCEPT !.open = FALSE, !.action = a]
    BY <2>1 DEF CloseNewest
  <2> QED BY <1>1, <2>2 DEF LogRow
<1>3. CASE ~ls[i].open
  BY <1>3 DEF CloseNewest, IsNewestOpen
<1> QED BY <1>2, <1>3

\* Appending a row keeps the others and puts the new one last.
LEMMA AppendRow ==
  ASSUME NEW ls \in Seq(LogRow), NEW e \in LogRow
  PROVE  /\ Append(ls, e) \in Seq(LogRow)
         /\ Len(Append(ls, e)) = Len(ls) + 1
         /\ Len(ls) \in Nat
         /\ DOMAIN Append(ls, e) = 1..(Len(ls) + 1)
         /\ DOMAIN ls = 1..Len(ls)
         /\ \A i \in DOMAIN ls : Append(ls, e)[i] = ls[i]
         /\ Append(ls, e)[Len(ls) + 1] = e
BY LenProperties, AppendProperties

-----------------------------------------------------------------------------
\* What a step that leaves every request but r alone must show of r.
RequestOK(st, sp, iss, ls, rw, r) ==
  /\ st \in {"NONE"} \union OpenStatus \union TerminalStatus
  /\ sp \in Nat
  /\ iss \in BOOLEAN
  /\ ls \in Seq(LogRow)
  /\ rw \in {"NONE", "PENDING"}
  /\ \A i \in DOMAIN ls : ls[i].open => i = Len(ls) /\ ls[i].step = sp
  /\ rw # "NONE" => st = "APPROVED" /\ iss /\ HasHandler(ProcessOf[r])
  /\ st # "NONE" => sp \in 1..LastStep(r)
  /\ \A n \in 1..sp : \E i \in DOMAIN ls : ls[i].step = n
  /\ iss => st = "APPROVED"
  /\ iss /\ ProcessOf[r] # "ENROLLMENT_CERT" => sp = LastStep(r)

\* A step that changes one request preserves the invariant of all of them when
\* the new record of that request is well formed.
LEMMA OneRequestStep ==
  ASSUME RequestInv, NEW r \in Request,
         NEW st, NEW sp, NEW iss, NEW ls, NEW rw,
         RequestOK(st, sp, iss, ls, rw, r),
         status' = [status EXCEPT ![r] = st],
         step' = [step EXCEPT ![r] = sp],
         issued' = [issued EXCEPT ![r] = iss],
         logs' = [logs EXCEPT ![r] = ls],
         row' = [row EXCEPT ![r] = rw]
  PROVE  RequestInv'
<1>1. RequestTypeOK'
  BY DEF RequestInv, RequestTypeOK, RequestOK
<1>2. ASSUME NEW q \in Request
      PROVE  RequestOK(status[q], step[q], issued[q], logs[q], row[q], q)'
  <2>1. RequestOK(status[q], step[q], issued[q], logs[q], row[q], q)
    BY DEF RequestInv, RequestTypeOK, OneOpenLog, EventOnlyForIssued, StepInv, RequestOK
  <2>2. CASE q = r
    BY <2>2 DEF RequestInv, RequestTypeOK, RequestOK
  <2>3. CASE q # r
    <3>1. /\ status'[q] = status[q] /\ step'[q] = step[q] /\ issued'[q] = issued[q]
          /\ logs'[q] = logs[q] /\ row'[q] = row[q]
      BY <2>3 DEF RequestInv, RequestTypeOK
    <3> QED BY <2>1, <3>1 DEF RequestOK
  <2> QED BY <2>2, <2>3
<1> QED BY <1>1, <1>2 DEF RequestInv, OneOpenLog, EventOnlyForIssued, StepInv, RequestOK

\* What the invariant says of one request.
LEMMA RequestFacts ==
  ASSUME RequestInv, NEW r \in Request
  PROVE  /\ RequestOK(status[r], step[r], issued[r], logs[r], row[r], r)
         /\ status = [status EXCEPT ![r] = status[r]]
         /\ step = [step EXCEPT ![r] = step[r]]
         /\ issued = [issued EXCEPT ![r] = issued[r]]
         /\ logs = [logs EXCEPT ![r] = logs[r]]
         /\ row = [row EXCEPT ![r] = row[r]]
BY DEF RequestInv, RequestTypeOK, OneOpenLog, EventOnlyForIssued, StepInv, RequestOK

-----------------------------------------------------------------------------
(* Every way advanceWorkflowStep can end preserves the invariant.            *)

\* ls is the history of the open request r after its newest row was closed.
ClosedOK(r, ls) ==
  /\ step[r] \in 1..LastStep(r)
  /\ step[r] \in Nat
  /\ LastStep(r) \in Nat
  /\ issued[r] = FALSE
  /\ row[r] = "NONE"
  /\ ls \in Seq(LogRow)
  /\ \A i \in DOMAIN ls : ~ls[i].open
  /\ \A n \in 1..step[r] : \E i \in DOMAIN ls : ls[i].step = n

\* What the four endings share: the request is open, and closing its newest
\* row leaves a well-typed history with no open row.
LEMMA OpenRequestFacts ==
  ASSUME RequestInv, NEW r \in Request, status[r] \in OpenStatus,
         NEW a \in LogAction
  PROVE  ClosedOK(r, CloseNewest(logs[r], a))
<1>1. RequestOK(status[r], step[r], issued[r], logs[r], row[r], r)
  BY RequestFacts
<1>2. status[r] # "NONE" /\ status[r] # "APPROVED"
  BY DEF OpenStatus
<1>3. logs[r] \in Seq(LogRow)
  BY <1>1 DEF RequestOK
<1>4. \A i \in DOMAIN logs[r] : logs[r][i].open => i = Len(logs[r])
  BY <1>1 DEF RequestOK
<1>5. /\ CloseNewest(logs[r], a) \in Seq(LogRow)
      /\ DOMAIN CloseNewest(logs[r], a) = DOMAIN logs[r]
      /\ \A i \in DOMAIN logs[r] : CloseNewest(logs[r], a)[i].step = logs[r][i].step
  BY <1>3, CloseNewestType
<1>6. \A i \in DOMAIN logs[r] : ~CloseNewest(logs[r], a)[i].open
  BY <1>3, <1>4, CloseNewestClosesAll
<1>7. LastStep(r) \in Nat
  BY LastStepType
<1>8. \A n \in 1..step[r] : \E i \in DOMAIN logs[r] : logs[r][i].step = n
  BY <1>1 DEF RequestOK
<1>9. \A n \in 1..step[r] : \E i \in DOMAIN logs[r] : CloseNewest(logs[r], a)[i].step = n
  BY <1>5, <1>8
<1>10. step[r] \in 1..LastStep(r) /\ step[r] \in Nat /\ issued[r] = FALSE /\ row[r] = "NONE"
  BY <1>1, <1>2 DEF RequestOK
<1> QED BY <1>5, <1>6, <1>7, <1>9, <1>10 DEF ClosedOK

\* ls is a history whose only open row is its last, for step m, with rows for
\* all the steps up to m.
NewRowOK(ls, m) ==
  /\ ls \in Seq(LogRow)
  /\ \A i \in DOMAIN ls : ls[i].open => i = Len(ls) /\ ls[i].step = m
  /\ \A n \in 1..m : \E i \in DOMAIN ls : ls[i].step = n

\* A new open row for step m, after the newest was closed.
LEMMA NewRowFacts ==
  ASSUME RequestInv, NEW r \in Request, status[r] \in OpenStatus,
         NEW a \in LogAction, NEW m \in Nat, NEW b \in LogAction,
         m = step[r] \/ m = step[r] + 1
  PROVE  NewRowOK(Append(CloseNewest(logs[r], a), OpenLog(m, b)), m)
<1> DEFINE c == CloseNewest(logs[r], a)
           e == OpenLog(m, b)
           ls == Append(c, e)
<1>1. /\ c \in Seq(LogRow)
      /\ \A i \in DOMAIN c : ~c[i].open
      /\ \A n \in 1..step[r] : \E i \in DOMAIN c : c[i].step = n
      /\ step[r] \in Nat
  BY OpenRequestFacts DEF ClosedOK
<1>2. e \in LogRow /\ e.step = m
  BY DEF OpenLog, LogRow
<1> HIDE DEF c, e
<1>3. /\ ls \in Seq(LogRow)
      /\ Len(ls) = Len(c) + 1
      /\ Len(c) \in Nat
      /\ DOMAIN ls = 1..(Len(c) + 1)
      /\ DOMAIN c = 1..Len(c)
      /\ \A i \in DOMAIN c : ls[i] = c[i]
      /\ ls[Len(c) + 1] = e
  BY <1>1, <1>2, AppendRow
<1> HIDE DEF ls
<1>4. \A i \in DOMAIN ls : ls[i].open => i = Len(ls) /\ ls[i].step = m
  BY <1>1, <1>2, <1>3
<1>5. ASSUME NEW n \in 1..m
      PROVE  \E i \in DOMAIN ls : ls[i].step = n
  <2>1. CASE n \in 1..step[r]
    BY <1>1, <1>3, <2>1
  <2>2. CASE n \notin 1..step[r]
    <3>1. n = m
      BY <1>1, <2>2
    <3>2. Len(c) + 1 \in DOMAIN ls
      BY <1>3
    <3> QED BY <1>2, <1>3, <3>1, <3>2
  <2> QED BY <2>1, <2>2
<1>6. NewRowOK(ls, m)
  BY <1>3, <1>4, <1>5 DEF NewRowOK
<1> QED BY <1>6 DEF ls, c, e

LEMMA RejectStepInv ==
  ASSUME RequestInv, NEW r \in Request, status[r] \in OpenStatus, RejectStep(r)
  PROVE  RequestInv'
<1> DEFINE c == CloseNewest(logs[r], "REJECT")
<1>1. "REJECT" \in LogAction
  BY DEF LogAction, EngineAction
<1>2. ClosedOK(r, c)
  BY <1>1, OpenRequestFacts
<1> HIDE DEF c
<1>3. RequestOK("REJECTED", step[r], issued[r], c, row[r], r)
  BY <1>2 DEF ClosedOK, RequestOK, TerminalStatus
<1>4. /\ status' = [status EXCEPT ![r] = "REJECTED"]
      /\ step' = [step EXCEPT ![r] = step[r]]
      /\ issued' = [issued EXCEPT ![r] = issued[r]]
      /\ logs' = [logs EXCEPT ![r] = c]
      /\ row' = [row EXCEPT ![r] = row[r]]
  BY RequestFacts DEF RejectStep, c
<1> QED BY <1>3, <1>4, OneRequestStep

LEMMA ReturnStepInv ==
  ASSUME RequestInv, NEW r \in Request, status[r] \in OpenStatus, ReturnStep(r)
  PROVE  RequestInv'
<1> DEFINE c == CloseNewest(logs[r], "RETURN_FOR_REVISION")
<1>1. "RETURN_FOR_REVISION" \in LogAction
  BY DEF LogAction, EngineAction
<1>2. ClosedOK(r, c)
  BY <1>1, OpenRequestFacts
<1> HIDE DEF c
<1>3. RequestOK("RETURNED", step[r], issued[r], c, row[r], r)
  BY <1>2 DEF ClosedOK, RequestOK, OpenStatus
<1>4. /\ status' = [status EXCEPT ![r] = "RETURNED"]
      /\ step' = [step EXCEPT ![r] = step[r]]
      /\ issued' = [issued EXCEPT ![r] = issued[r]]
      /\ logs' = [logs EXCEPT ![r] = c]
      /\ row' = [row EXCEPT ![r] = row[r]]
  BY RequestFacts DEF ReturnStep, c, c
<1> QED BY <1>3, <1>4, OneRequestStep

LEMMA EscalateStepInv ==
  ASSUME RequestInv, NEW r \in Request, status[r] \in OpenStatus, EscalateStep(r)
  PROVE  RequestInv'
<1> DEFINE c == CloseNewest(logs[r], "ESCALATE")
           ls == Append(c, OpenLog(step[r], "ESCALATE"))
<1>1. "ESCALATE" \in LogAction
  BY DEF LogAction, EngineAction
<1>2. ClosedOK(r, c)
  BY <1>1, OpenRequestFacts
<1>3. NewRowOK(ls, step[r])
  <2>1. step[r] \in Nat
    BY <1>2 DEF ClosedOK
  <2> QED BY <1>1, <2>1, NewRowFacts
<1>4. /\ step' = [step EXCEPT ![r] = step[r]]
      /\ issued' = [issued EXCEPT ![r] = issued[r]]
      /\ row' = [row EXCEPT ![r] = row[r]]
      /\ status = [status EXCEPT ![r] = status[r]]
  BY RequestFacts DEF EscalateStep
<1>5. \/ logs' = [logs EXCEPT ![r] = c] /\ status' = [status EXCEPT ![r] = status[r]]
      \/ logs' = [logs EXCEPT ![r] = ls] /\ status' = [status EXCEPT ![r] = "IN_REVIEW"]
  BY <1>4 DEF EscalateStep, c, ls
<1> HIDE DEF c, ls
<1>6. RequestOK(status[r], step[r], issued[r], c, row[r], r)
  BY <1>2 DEF ClosedOK, RequestOK, OpenStatus
<1>7. RequestOK("IN_REVIEW", step[r], issued[r], ls, row[r], r)
  BY <1>2, <1>3 DEF ClosedOK, NewRowOK, RequestOK, OpenStatus
<1> QED BY <1>4, <1>5, <1>6, <1>7, OneRequestStep

LEMMA MoveToNextStepInv ==
  ASSUME RequestInv, NEW r \in Request, status[r] \in OpenStatus, MoveToNextStep(r)
  PROVE  RequestInv'
<1> DEFINE c == CloseNewest(logs[r], "APPROVE")
           ls == Append(c, OpenLog(step[r] + 1, "ASSIGN"))
<1>1. "APPROVE" \in LogAction /\ "ASSIGN" \in LogAction
  BY DEF LogAction, EngineAction
<1>2. ClosedOK(r, c)
  BY <1>1, OpenRequestFacts
<1>3. step[r] + 1 \in Nat /\ step[r] + 1 \in 1..LastStep(r)
  BY <1>2 DEF ClosedOK, MoveToNextStep
<1>4. NewRowOK(ls, step[r] + 1)
  BY <1>1, <1>3, NewRowFacts
<1>5. /\ status' = [status EXCEPT ![r] = "IN_REVIEW"]
      /\ step' = [step EXCEPT ![r] = step[r] + 1]
      /\ issued' = [issued EXCEPT ![r] = issued[r]]
      /\ logs' = [logs EXCEPT ![r] = ls]
      /\ row' = [row EXCEPT ![r] = row[r]]
  BY RequestFacts DEF MoveToNextStep, ls, c
<1> HIDE DEF c, ls
<1>6. RequestOK("IN_REVIEW", step[r] + 1, issued[r], ls, row[r], r)
  BY <1>2, <1>3, <1>4 DEF ClosedOK, NewRowOK, RequestOK, OpenStatus
<1> QED BY <1>5, <1>6, OneRequestStep

LEMMA FinalApproveInv ==
  ASSUME RequestInv, NEW r \in Request, status[r] \in OpenStatus, FinalApprove(r)
  PROVE  RequestInv' /\ step[r] = LastStep(r)
<1> DEFINE c == CloseNewest(logs[r], "APPROVE")
           rw == IF HasHandler(ProcessOf[r]) THEN "PENDING" ELSE row[r]
<1>1. "APPROVE" \in LogAction
  BY DEF LogAction, EngineAction
<1>2. ClosedOK(r, c)
  BY <1>1, OpenRequestFacts
<1>3. step[r] = LastStep(r)
  BY <1>2 DEF ClosedOK, FinalApprove
<1>4. /\ status' = [status EXCEPT ![r] = "APPROVED"]
      /\ step' = [step EXCEPT ![r] = step[r]]
      /\ issued' = [issued EXCEPT ![r] = TRUE]
      /\ logs' = [logs EXCEPT ![r] = c]
      /\ row' = [row EXCEPT ![r] = rw]
  BY RequestFacts DEF FinalApprove, c, rw
<1>5. /\ rw \in {"NONE", "PENDING"}
      /\ rw # "NONE" => HasHandler(ProcessOf[r])
  BY <1>2 DEF ClosedOK, rw
<1> HIDE DEF c, rw
<1>6. RequestOK("APPROVED", step[r], TRUE, c, rw, r)
  BY <1>2, <1>3, <1>5 DEF ClosedOK, RequestOK, TerminalStatus
<1> QED BY <1>3, <1>4, <1>6, OneRequestStep

\* advanceWorkflowStep as a whole.
LEMMA AdvanceInv ==
  ASSUME RequestInv, NEW r \in Request, NEW act \in EngineAction, Advance(r, act)
  PROVE  RequestInv'
<1>1. CASE AlreadyFinal(r)
  BY <1>1 DEF AlreadyFinal, RequestInv, RequestTypeOK, OneOpenLog, EventOnlyForIssued, StepInv
<1>2. CASE status[r] \in OpenStatus /\ RejectStep(r)
  BY <1>2, RejectStepInv
<1>3. CASE status[r] \in OpenStatus /\ ReturnStep(r)
  BY <1>3, ReturnStepInv
<1>4. CASE status[r] \in OpenStatus /\ EscalateStep(r)
  BY <1>4, EscalateStepInv
<1>5. CASE status[r] \in OpenStatus /\ MoveToNextStep(r)
  BY <1>5, MoveToNextStepInv
<1>6. CASE status[r] \in OpenStatus /\ FinalApprove(r)
  BY <1>6, FinalApproveInv
<1> QED BY <1>1, <1>2, <1>3, <1>4, <1>5, <1>6 DEF Advance

-----------------------------------------------------------------------------
(* The other actions that write a request.                                   *)

LEMMA CreateInv ==
  ASSUME RequestInv, NEW r \in Request,
         NEW s \in OpenStatus \union {"APPROVED"}, NEW certified \in BOOLEAN,
         NEW first \in LogRow, first.step = 1,
         certified => s = "APPROVED" /\ ProcessOf[r] = "ENROLLMENT_CERT",
         Create(r, s, certified, first)
  PROVE  RequestInv'
<1>1. /\ status[r] = "NONE"
      /\ status' = [status EXCEPT ![r] = s]
      /\ step' = [step EXCEPT ![r] = 1]
      /\ issued' = [issued EXCEPT ![r] = certified]
      /\ logs' = [logs EXCEPT ![r] = <<first>>]
      /\ row' = [row EXCEPT ![r] = row[r]]
  BY RequestFacts DEF Create
<1>2. row[r] = "NONE"
  BY <1>1, RequestFacts DEF RequestOK
<1>3. LastStep(r) \in Nat \ {0}
  BY LastStepType
<1> DEFINE ls == <<first>>
<1>4. ls \in Seq(LogRow) /\ Len(ls) = 1 /\ DOMAIN ls = {1} /\ ls[1] = first
  OBVIOUS
<1> HIDE DEF ls
<1>5. RequestOK(s, 1, certified, ls, row[r], r)
  <2>1. \A n \in 1..1 : \E i \in DOMAIN ls : ls[i].step = n
    BY <1>4
  <2> QED BY <1>2, <1>3, <1>4, <2>1 DEF RequestOK, OpenStatus, TerminalStatus
<1> QED BY <1>1, <1>5, OneRequestStep DEF ls

LEMMA CouncilDecideInv ==
  ASSUME RequestInv, NEW r \in Request, NEW s \in {"APPROVED", "REJECTED"},
         CouncilDecide(r, s)
  PROVE  RequestInv'
<1>1. /\ status' = [status EXCEPT ![r] = s]
      /\ step' = [step EXCEPT ![r] = step[r]]
      /\ issued' = [issued EXCEPT ![r] = issued[r]]
      /\ logs' = [logs EXCEPT ![r] = logs[r]]
      /\ row' = [row EXCEPT ![r] = row[r]]
  BY RequestFacts DEF CouncilDecide
<1>2. RequestOK(s, step[r], issued[r], logs[r], row[r], r)
  BY RequestFacts DEF CouncilDecide, RequestOK, TerminalStatus
<1> QED BY <1>1, <1>2, OneRequestStep

LEMMA ExpireInv ==
  ASSUME RequestInv, NEW r \in Request, Expire(r)
  PROVE  RequestInv'
<1>1. PICK i \in DOMAIN logs[r] : logs' = [logs EXCEPT ![r][i].late = TRUE]
  BY DEF Expire
<1> DEFINE e == [logs[r][i] EXCEPT !.late = TRUE]
           ls == [logs[r] EXCEPT ![i] = e]
<1>2. RequestOK(status[r], step[r], issued[r], logs[r], row[r], r)
  BY RequestFacts
<1>3. logs[r] \in Seq(LogRow)
  BY <1>2 DEF RequestOK
<1>4. logs[r][i] \in LogRow
  BY <1>3
<1>5. e \in LogRow /\ e.open = logs[r][i].open /\ e.step = logs[r][i].step
  BY <1>4 DEF LogRow
<1>6. logs' = [logs EXCEPT ![r] = ls]
  BY <1>1
<1> HIDE DEF e
<1>7. /\ ls \in Seq(LogRow)
      /\ Len(ls) = Len(logs[r])
      /\ DOMAIN ls = DOMAIN logs[r]
      /\ \A j \in DOMAIN ls : ls[j].open = logs[r][j].open /\ ls[j].step = logs[r][j].step
  BY <1>3, <1>5
<1> HIDE DEF ls
<1>8. RequestOK(status[r], step[r], issued[r], ls, row[r], r)
  BY <1>2, <1>7 DEF RequestOK
<1>9. /\ status' = [status EXCEPT ![r] = status[r]]
      /\ step' = [step EXCEPT ![r] = step[r]]
      /\ issued' = [issued EXCEPT ![r] = issued[r]]
      /\ row' = [row EXCEPT ![r] = row[r]]
  BY RequestFacts DEF Expire
<1> QED BY <1>6, <1>8, <1>9, OneRequestStep

-----------------------------------------------------------------------------
(* The inductive invariant.                                                  *)

\* The part of the invariant about the actors around the requests.
ActorInv ==
  /\ cleared \in [Request -> SUBSET Dept]
  /\ view \in [Expert -> [req : Request \union {NoReq}, step : Nat, cleared : SUBSET Dept]]
  /\ sla \in [Run -> [pc : {"idle", "locked", "acting"}, due : SUBSET DueItem]]
  /\ lock \in [conn : Conn \union {NoConn}, count : Nat]
  /\ LockInv

LEMMA IInvParts ==
  /\ IInv <=> RequestInv /\ ActorInv
  /\ IInv' <=> RequestInv' /\ ActorInv'
BY DEF IInv, LockInv, TypeOK, RequestInv, RequestTypeOK, ActorInv

LEMMA UnchangedRequestInv ==
  ASSUME RequestInv, UNCHANGED <<status, step, issued, logs, row>>
  PROVE  RequestInv'
<1>1. /\ status' = status /\ step' = step /\ issued' = issued
      /\ logs' = logs /\ row' = row
  OBVIOUS
<1>2. RequestTypeOK'
  BY <1>1 DEF RequestInv, RequestTypeOK
<1>3. OneOpenLog'
  BY <1>1 DEF RequestInv, OneOpenLog
<1>4. EventOnlyForIssued'
  BY <1>1 DEF RequestInv, EventOnlyForIssued
<1>5. StepInv'
  BY <1>1 DEF RequestInv, StepInv, LastStep, Steps
<1> QED BY <1>2, <1>3, <1>4, <1>5 DEF RequestInv

LEMMA InitIInv == Init => IInv
<1> SUFFICES ASSUME Init PROVE IInv
  OBVIOUS
<1>1. << >> \in Seq(LogRow) /\ DOMAIN << >> = {}
  OBVIOUS
<1>2. RequestInv
  BY <1>1 DEF Init, RequestInv, RequestTypeOK, OneOpenLog, EventOnlyForIssued, StepInv
<1>3. ActorInv
  BY DEF Init, ActorInv, LockInv, BlankPage, IdleRun
<1> QED BY <1>2, <1>3, IInvParts

LEMMA StudentInv ==
  ASSUME IInv, NEW r \in Request, Student(r)
  PROVE  IInv'
<1>1. RequestInv /\ ActorInv
  BY IInvParts
<1>2. ActorInv'
  BY <1>1 DEF Student, SubmitCertApproved, SubmitForReview, SubmitGeneral, Create, ActorInv, LockInv
<1>3. /\ [step |-> 1, action |-> "APPROVE", open |-> FALSE, late |-> FALSE] \in LogRow
      /\ OpenLog(1, "SUBMIT") \in LogRow
      /\ OpenLog(1, "SUBMIT").step = 1
  BY DEF LogRow, LogAction, EngineAction, OpenLog
<1>4. CASE SubmitCertApproved(r)
  <2> DEFINE e == [step |-> 1, action |-> "APPROVE", open |-> FALSE, late |-> FALSE]
  <2>1. e \in LogRow /\ e.step = 1
    BY <1>3
  <2>2. Create(r, "APPROVED", TRUE, e) /\ ProcessOf[r] = "ENROLLMENT_CERT"
    BY <1>4 DEF SubmitCertApproved
  <2> HIDE DEF e
  <2>3. RequestInv'
    BY <1>1, <2>1, <2>2, CreateInv
  <2> QED BY <1>2, <2>3, IInvParts
<1>5. CASE SubmitForReview(r)
  <2>1. "IN_REVIEW" \in OpenStatus \union {"APPROVED"}
    BY DEF OpenStatus
  <2>2. Create(r, "IN_REVIEW", FALSE, OpenLog(1, "SUBMIT"))
    BY <1>5 DEF SubmitForReview
  <2>3. RequestInv'
    BY <1>1, <1>3, <2>1, <2>2, CreateInv
  <2> QED BY <1>2, <2>3, IInvParts
<1>6. CASE SubmitGeneral(r)
  <2>1. "SUBMITTED" \in OpenStatus \union {"APPROVED"}
    BY DEF OpenStatus
  <2>2. Create(r, "SUBMITTED", FALSE, OpenLog(1, "SUBMIT"))
    BY <1>6 DEF SubmitGeneral
  <2>3. RequestInv'
    BY <1>1, <1>3, <2>1, <2>2, CreateInv
  <2> QED BY <1>2, <2>3, IInvParts
<1> QED BY <1>4, <1>5, <1>6 DEF Student

LEMMA ViewInv ==
  ASSUME IInv, NEW e \in Expert, NEW r \in Request, View(e, r)
  PROVE  IInv'
<1>1. RequestInv /\ ActorInv
  BY IInvParts
<1>2. RequestInv'
  BY <1>1, UnchangedRequestInv DEF View, reqVars
<1>3. ActorInv'
  BY <1>1 DEF View, ActorInv, LockInv, RequestInv, RequestTypeOK, reqVars, slaVars
<1> QED BY <1>2, <1>3, IInvParts

LEMMA DecideInv ==
  ASSUME IInv, NEW e \in Expert, NEW r \in Request, NEW act \in EngineAction,
         Decide(e, r, act)
  PROVE  IInv'
<1>1. RequestInv /\ ActorInv
  BY IInvParts
<1>2. RequestInv'
  BY <1>1, AdvanceInv DEF Decide
<1>3. ActorInv'
  BY <1>1 DEF Decide, ActorInv, LockInv, BlankPage, slaVars
<1> QED BY <1>2, <1>3, IInvParts

LEMMA ClearCheckpointInv ==
  ASSUME IInv, NEW e \in Expert, NEW r \in Request, NEW d \in Dept,
         ClearCheckpoint(e, r, d)
  PROVE  IInv'
<1>1. RequestInv /\ ActorInv
  BY IInvParts
<1>2. "APPROVE" \in EngineAction
  BY DEF EngineAction
<1>3. RequestInv'
  BY <1>1, <1>2, AdvanceInv, UnchangedRequestInv DEF ClearCheckpoint
<1>4. ActorInv'
  BY <1>1 DEF ClearCheckpoint, ActorInv, LockInv, BlankPage, slaVars
<1> QED BY <1>3, <1>4, IInvParts

LEMMA StaffInv ==
  ASSUME IInv, NEW e \in Expert, NEW r \in Request, Staff(e, r)
  PROVE  IInv'
<1>1. RequestInv /\ ActorInv
  BY IInvParts
<1>2. CASE CouncilApprove(r) \/ CouncilReject(r)
  <2>1. PICK s \in {"APPROVED", "REJECTED"} : CouncilDecide(r, s)
    BY <1>2 DEF CouncilApprove, CouncilReject
  <2>2. RequestInv'
    BY <1>1, <2>1, CouncilDecideInv
  <2>3. ActorInv'
    BY <1>1, <2>1 DEF CouncilDecide, ActorInv, LockInv, slaVars
  <2> QED BY <2>2, <2>3, IInvParts
<1> QED BY <1>2, ViewInv, DecideInv, ClearCheckpointInv DEF Staff

\* What the SLA job reads is a set of well-formed entries.
LEMMA DueListType == RequestInv => DueList \subseteq DueItem
<1> SUFFICES ASSUME RequestInv, NEW q \in Request,
                    SlaActionOf(Steps(q)[step[q]].timeout) # "NONE"
             PROVE  [req |-> q, step |-> step[q],
                     act |-> SlaActionOf(Steps(q)[step[q]].timeout)] \in DueItem
  BY DEF DueList
<1>1. SlaActionOf(Steps(q)[step[q]].timeout) \in EngineAction
  BY DEF SlaActionOf, EngineAction
<1>2. step[q] \in Nat
  BY DEF RequestInv, RequestTypeOK
<1> QED BY <1>1, <1>2 DEF DueItem

LEMMA SlaJobInv ==
  ASSUME IInv, NEW u \in Run, SlaJob(u)
  PROVE  IInv'
<1>1. RequestInv /\ ActorInv
  BY IInvParts
<1>2. CASE \E c \in Conn : SlaTryLock(u, c) \/ SlaUnlock(u, c)
  <2>1. RequestInv'
    BY <1>1, <1>2, UnchangedRequestInv DEF SlaTryLock, SlaUnlock, reqVars
  <2>2. PICK c \in Conn : SlaTryLock(u, c) \/ SlaUnlock(u, c)
    BY <1>2
  <2>3. UNCHANGED <<cleared, view>>
    BY <2>2 DEF SlaTryLock, SlaUnlock, reqVars
  <2>4. CASE SlaTryLock(u, c)
    <3>1. ActorInv'
      BY <1>1, <2>3, <2>4 DEF SlaTryLock, ActorInv, LockInv
    <3> QED BY <2>1, <3>1, IInvParts
  <2>5. CASE SlaUnlock(u, c)
    <3>1. lock' \in [conn : Conn \union {NoConn}, count : Nat] /\ LockInv'
      <4> USE WorkflowAssumption
      <4>1. CASE lock.conn # c
        BY <1>1, <2>5, <4>1 DEF SlaUnlock, ActorInv, LockInv
      <4>2. CASE lock.conn = c /\ lock.count = 1
        BY <1>1, <2>5, <4>2 DEF SlaUnlock, ActorInv, LockInv
      <4>3. CASE lock.conn = c /\ lock.count # 1
        <5>1. lock' = [lock EXCEPT !.count = lock.count - 1]
          BY <2>5, <4>3 DEF SlaUnlock
        <5>2. lock.count \in Nat /\ lock.count > 0 /\ lock.count - 1 \in Nat
          BY <1>1, <4>3 DEF ActorInv, LockInv
        <5>3. lock.count - 1 > 0
          BY <4>3, <5>2
        <5>4. lock' \in [conn : Conn \union {NoConn}, count : Nat]
          BY <1>1, <5>1, <5>2 DEF ActorInv
        <5>5. lock'.count = lock.count - 1
          BY <1>1, <5>1 DEF ActorInv
        <5> QED BY <5>3, <5>4, <5>5 DEF LockInv
      <4> QED BY <4>1, <4>2, <4>3
    <3>2. sla' \in [Run -> [pc : {"idle", "locked", "acting"}, due : SUBSET DueItem]]
      BY <1>1, <2>5 DEF SlaUnlock, ActorInv, LockInv, IdleRun
    <3>3. ActorInv'
      BY <1>1, <2>3, <3>1, <3>2 DEF ActorInv
    <3> QED BY <2>1, <3>3, IInvParts
  <2> QED BY <2>2, <2>4, <2>5
<1>3. CASE SlaReadDue(u)
  <2>1. RequestInv'
    BY <1>1, <1>3, UnchangedRequestInv DEF SlaReadDue, reqVars
  <2>2. ActorInv'
    BY <1>1, <1>3, DueListType DEF SlaReadDue, ActorInv, LockInv, reqVars
  <2> QED BY <2>1, <2>2, IInvParts
<1>4. CASE \E item \in sla[u].due : SlaAct(u, item) \/ SlaActFails(u, item)
  <2>1. PICK item \in sla[u].due : SlaAct(u, item) \/ SlaActFails(u, item)
    BY <1>4
  <2>2. item.req \in Request /\ item.act \in EngineAction
    BY <1>1, <2>1 DEF ActorInv, LockInv, DueItem
  <2>3. RequestInv'
    BY <1>1, <2>1, <2>2, AdvanceInv, UnchangedRequestInv DEF SlaAct, SlaActFails, reqVars
  <2>4. /\ sla' = [sla EXCEPT ![u].due = @ \ {item}]
        /\ UNCHANGED <<cleared, view, lock>>
    BY <2>1 DEF SlaAct, SlaActFails, reqVars
  <2>5. ActorInv'
    BY <1>1, <2>4 DEF ActorInv, LockInv
  <2> QED BY <2>3, <2>5, IInvParts
<1> QED BY <1>2, <1>3, <1>4 DEF SlaJob

LEMMA NextIInv == IInv /\ [Next]_vars => IInv'
<1> SUFFICES ASSUME IInv, [Next]_vars PROVE IInv'
  OBVIOUS
<1>1. RequestInv /\ ActorInv
  BY IInvParts
<1>2. CASE UNCHANGED vars
  BY <1>1, <1>2, UnchangedRequestInv, IInvParts DEF vars, ActorInv, LockInv
<1>3. ASSUME NEW r \in Request, Expire(r)
      PROVE  IInv'
  BY <1>1, <1>3, ExpireInv, IInvParts DEF Expire, ActorInv, LockInv, slaVars
<1>4. CASE CloseLockConnection
  <2>1. RequestInv'
    BY <1>1, <1>4, UnchangedRequestInv DEF CloseLockConnection, reqVars
  <2>2. ActorInv'
    BY <1>1, <1>4 DEF CloseLockConnection, ActorInv, LockInv, reqVars
  <2> QED BY <2>1, <2>2, IInvParts
<1>5. CASE ServerCrash
  <2>1. RequestInv'
    BY <1>1, <1>5, UnchangedRequestInv DEF ServerCrash, reqVars
  <2>2. ActorInv'
    BY <1>1, <1>5 DEF ServerCrash, ActorInv, LockInv, IdleRun, reqVars
  <2> QED BY <2>1, <2>2, IInvParts
<1> QED BY <1>2, <1>3, <1>4, <1>5, StudentInv, StaffInv, SlaJobInv DEF Next

LEMMA SpecIInv == Spec => []IInv
BY InitIInv, NextIInv, PTL DEF Spec

-----------------------------------------------------------------------------
(* The theorems.                                                             *)

\* Every reachable state of the engine is well typed, SLA due lists included.
THEOREM TypeCorrect == Spec => []TypeOK
<1>1. IInv => TypeOK
  BY DEF IInv
<1> QED BY <1>1, SpecIInv, PTL

\* At most one log row of a request is open, and it is that of its current step,
\* however many experts, departments and SLA jobs act on it.
THEOREM OneOpenLogHolds == Spec => []OneOpenLog
<1>1. IInv => OneOpenLog
  BY DEF IInv
<1> QED BY <1>1, SpecIInv, PTL

\* The outbox holds rows of finally approved requests only.
THEOREM EventOnlyForIssuedHolds == Spec => []EventOnlyForIssued
<1>1. IInv => EventOnlyForIssued
  BY DEF IInv
<1> QED BY <1>1, SpecIInv, PTL

\* No step of any process can be skipped on the way to a certificate.
THEOREM IssuedWentThroughEveryStepHolds == Spec => []IssuedWentThroughEveryStep
<1>1. IInv => IssuedWentThroughEveryStep
  BY DEF IInv, StepInv, IssuedWentThroughEveryStep
<1> QED BY <1>1, SpecIInv, PTL

-----------------------------------------------------------------------------
(* Terminal requests.                                                        *)

\* A step leaves every request in a terminal status as it is.
KeepsTerminal ==
  \A q \in Request : status[q] \in TerminalStatus =>
    UNCHANGED <<status[q], step[q], issued[q], logs[q], row[q]>>

\* A step that writes an open or absent request r only keeps the terminal ones.
LEMMA OtherRequestsKept ==
  ASSUME RequestInv, NEW r \in Request, status[r] \notin TerminalStatus,
         \A q \in Request \ {r} :
           UNCHANGED <<status[q], step[q], issued[q], logs[q], row[q]>>
  PROVE  KeepsTerminal
BY DEF KeepsTerminal

LEMMA AdvanceKeepsTerminal ==
  ASSUME RequestInv, NEW r \in Request, NEW act \in EngineAction, Advance(r, act)
  PROVE  KeepsTerminal
<1>1. CASE AlreadyFinal(r)
  BY <1>1 DEF AlreadyFinal, KeepsTerminal
<1>2. CASE status[r] \in OpenStatus
  <2>1. status[r] \notin TerminalStatus
    BY <1>2 DEF OpenStatus, TerminalStatus
  <2>2. ASSUME NEW q \in Request \ {r}
        PROVE  UNCHANGED <<status[q], step[q], issued[q], logs[q], row[q]>>
    BY DEF Advance, AlreadyFinal, RejectStep, ReturnStep, EscalateStep, MoveToNextStep,
           FinalApprove, RequestInv, RequestTypeOK
  <2> QED BY <2>1, <2>2, OtherRequestsKept
<1> QED BY <1>1, <1>2 DEF Advance

LEMMA NextKeepsTerminal == IInv /\ [Next]_vars => KeepsTerminal
<1> SUFFICES ASSUME IInv, [Next]_vars PROVE KeepsTerminal
  OBVIOUS
<1>1. RequestInv /\ ActorInv
  BY IInvParts
<1>2. CASE UNCHANGED <<status, step, issued, logs, row>>
  BY <1>2 DEF KeepsTerminal
<1>3. ASSUME NEW r \in Request, Student(r) \/ Expire(r)
                                \/ CouncilApprove(r) \/ CouncilReject(r)
      PROVE  KeepsTerminal
  <2>1. status[r] \notin TerminalStatus
    BY <1>3 DEF Student, SubmitCertApproved, SubmitForReview, SubmitGeneral, Create, Expire,
             CouncilApprove, CouncilReject, CouncilDecide, OpenStatus, TerminalStatus
  <2>2. ASSUME NEW q \in Request \ {r}
        PROVE  UNCHANGED <<status[q], step[q], issued[q], logs[q], row[q]>>
    BY <1>1, <1>3 DEF Student, SubmitCertApproved, SubmitForReview, SubmitGeneral, Create,
             Expire, CouncilApprove, CouncilReject, CouncilDecide, RequestInv, RequestTypeOK
  <2> QED BY <1>1, <2>1, <2>2, OtherRequestsKept
<1>4. ASSUME NEW e \in Expert, NEW r \in Request, Staff(e, r)
      PROVE  KeepsTerminal
  <2>1. CASE View(e, r)
    BY <1>2, <2>1 DEF View, reqVars
  <2>2. CASE \E act \in EngineAction : Decide(e, r, act)
    BY <1>1, <2>2, AdvanceKeepsTerminal DEF Decide
  <2>3. CASE \E d \in Dept : ClearCheckpoint(e, r, d)
    BY <1>1, <1>2, <2>3, AdvanceKeepsTerminal DEF ClearCheckpoint, EngineAction
  <2> QED BY <1>3, <1>4, <2>1, <2>2, <2>3 DEF Staff
<1>5. ASSUME NEW u \in Run, SlaJob(u)
      PROVE  KeepsTerminal
  <2>1. CASE \E item \in sla[u].due : SlaAct(u, item)
    <3>1. PICK item \in sla[u].due : SlaAct(u, item)
      BY <2>1
    <3>2. item.req \in Request /\ item.act \in EngineAction
      BY <1>1, <3>1 DEF ActorInv, DueItem
    <3> QED BY <1>1, <3>1, <3>2, AdvanceKeepsTerminal DEF SlaAct
  <2> QED BY <1>2, <1>5, <2>1 DEF SlaJob, SlaTryLock, SlaUnlock, SlaReadDue, SlaActFails, reqVars
<1>6. CASE CloseLockConnection \/ ServerCrash
  BY <1>2, <1>6 DEF CloseLockConnection, ServerCrash, reqVars
<1>7. CASE UNCHANGED vars
  BY <1>2, <1>7 DEF vars
<1> QED BY <1>3, <1>4, <1>5, <1>6, <1>7 DEF Next

\* No interleaving of staff, students, council and SLA jobs touches a request
\* that reached a terminal status.
THEOREM TerminalIsFinalHolds == Spec => TerminalIsFinal
<1>1. IInv /\ [Next]_vars =>
        [\A r \in Request : status[r] \in TerminalStatus =>
           UNCHANGED <<status[r], step[r], issued[r], logs[r], row[r]>>]_reqVars
  BY NextKeepsTerminal DEF KeepsTerminal
<1> QED BY <1>1, SpecIInv, PTL DEF Spec, TerminalIsFinal

-----------------------------------------------------------------------------
(* Refinement: the engine implements RequestLifecycle.                       *)

\* The mapped phase, for a step that rewrites the status of request r.
LEMMA PhaseStep ==
  ASSUME RequestInv, NEW r \in Request, NEW st,
         status' = [status EXCEPT ![r] = st]
  PROVE  [q \in Request |-> PhaseOf(status[q])]'
           = [[q \in Request |-> PhaseOf(status[q])] EXCEPT ![r] = PhaseOf(st)]
BY DEF RequestInv, RequestTypeOK

\* The mapped event flag, for a step that rewrites the outbox row of request r.
LEMMA EventStep ==
  ASSUME RequestInv, NEW r \in Request, NEW rw,
         row' = [row EXCEPT ![r] = rw]
  PROVE  [q \in Request |-> row[q] # "NONE"]'
           = [[q \in Request |-> row[q] # "NONE"] EXCEPT ![r] = (rw # "NONE")]
BY DEF RequestInv, RequestTypeOK

\* A step that writes neither phase, step, certificate nor event is a stutter.
LEMMA LifecycleStutter ==
  ASSUME UNCHANGED <<status, step, issued, row>>
  PROVE  UNCHANGED Lifecycle!lifecycleVars
BY DEF Lifecycle!lifecycleVars

LStep == Lifecycle!LNext \/ UNCHANGED Lifecycle!lifecycleVars

\* The request ends, or stays where it is.
LEMMA StatusOnlyStep ==
  ASSUME RequestInv, NEW r \in Request, status[r] \in OpenStatus,
         NEW st \in OpenStatus \union {"APPROVED", "REJECTED"},
         status' = [status EXCEPT ![r] = st],
         UNCHANGED <<step, issued, row>>
  PROVE  LStep
<1> DEFINE ph == [q \in Request |-> PhaseOf(status[q])]
<1>1. ph' = [ph EXCEPT ![r] = PhaseOf(st)]
  BY DEF RequestInv, RequestTypeOK
<1>2. ph[r] = "OPEN" /\ ph = [ph EXCEPT ![r] = "OPEN"]
  BY DEF PhaseOf
<1>3. UNCHANGED <<step, issued, [q \in Request |-> row[q] # "NONE"]>>
  OBVIOUS
<1>4. CASE st \in OpenStatus
  <2>1. PhaseOf(st) = "OPEN"
    BY <1>4 DEF PhaseOf
  <2>2. ph' = ph
    BY <1>1, <1>2, <2>1
  <2> QED BY <1>3, <2>2 DEF LStep, Lifecycle!lifecycleVars
<1>5. CASE st \in {"APPROVED", "REJECTED"}
  <2>1. PhaseOf(st) = st
    BY <1>5 DEF PhaseOf, OpenStatus
  <2>2. ph' = [ph EXCEPT ![r] = st]
    BY <1>1, <2>1
  <2>3. Lifecycle!End(r)
    BY <1>2, <1>3, <1>5, <2>2 DEF Lifecycle!End
  <2> QED BY <2>3 DEF LStep, Lifecycle!LNext
<1> QED BY <1>4, <1>5

LEMMA AdvanceRefines ==
  ASSUME RequestInv, NEW r \in Request, NEW act \in EngineAction, Advance(r, act)
  PROVE  LStep
<1>1. CASE AlreadyFinal(r)
  BY <1>1, LifecycleStutter DEF AlreadyFinal, LStep
<1>2. CASE status[r] \in OpenStatus /\ RejectStep(r)
  BY <1>2, StatusOnlyStep DEF RejectStep
<1>3. CASE status[r] \in OpenStatus /\ ReturnStep(r)
  BY <1>3, StatusOnlyStep DEF ReturnStep, OpenStatus
<1>4. CASE status[r] \in OpenStatus /\ EscalateStep(r)
  <2>1. CASE status' = status
    BY <1>4, <2>1, LifecycleStutter DEF EscalateStep, LStep
  <2>2. CASE status' = [status EXCEPT ![r] = "IN_REVIEW"]
    BY <1>4, <2>2, StatusOnlyStep DEF EscalateStep, OpenStatus
  <2> QED BY <1>4, <2>1, <2>2 DEF EscalateStep
<1>5. CASE status[r] \in OpenStatus /\ MoveToNextStep(r)
  <2>1. status' = [status EXCEPT ![r] = "IN_REVIEW"] /\ row' = [row EXCEPT ![r] = row[r]]
    BY <1>5, RequestFacts DEF MoveToNextStep
  <2>2. PhaseOf(status[r]) = "OPEN" /\ PhaseOf("IN_REVIEW") = "OPEN"
    BY <1>5 DEF PhaseOf, OpenStatus
  <2>3. [q \in Request |-> PhaseOf(status[q])]'
          = [[q \in Request |-> PhaseOf(status[q])] EXCEPT ![r] = PhaseOf("IN_REVIEW")]
    BY <2>1, PhaseStep
  <2>4. UNCHANGED [q \in Request |-> PhaseOf(status[q])]
    BY <2>2, <2>3
  <2>5. Lifecycle!NextStage(r)
    BY <1>5, <2>2, <2>4 DEF MoveToNextStep, Lifecycle!NextStage
  <2> QED BY <2>5 DEF LStep, Lifecycle!LNext
<1>6. CASE status[r] \in OpenStatus /\ FinalApprove(r)
  <2> DEFINE Em == [q \in Request |-> row[q] # "NONE"]
             emits == r \in {q \in Request : HasHandler(ProcessOf[q])}
  <2>1. row[r] = "NONE"
    BY <1>6, RequestFacts DEF RequestOK, OpenStatus
  <2>2. PhaseOf(status[r]) = "OPEN" /\ PhaseOf("APPROVED") = "APPROVED"
    BY <1>6 DEF PhaseOf, OpenStatus
  <2>3. step[r] = LastStep(r)
    BY <1>6, FinalApproveInv
  <2>4. [q \in Request |-> PhaseOf(status[q])]'
          = [[q \in Request |-> PhaseOf(status[q])] EXCEPT ![r] = PhaseOf("APPROVED")]
    BY <1>6, PhaseStep DEF FinalApprove
  <2>5. CASE HasHandler(ProcessOf[r])
    <3>1. Em' = [Em EXCEPT ![r] = ("PENDING" # "NONE")]
      BY <1>6, <2>5, EventStep DEF FinalApprove
    <3>2. emits = ("PENDING" # "NONE")
      BY <2>5
    <3>3. Lifecycle!Certify(r)
      BY <1>6, <2>2, <2>3, <2>4, <3>1, <3>2 DEF FinalApprove, Lifecycle!Certify
    <3> QED BY <3>3 DEF LStep, Lifecycle!LNext
  <2>6. CASE ~HasHandler(ProcessOf[r])
    <3>1. Em' = [Em EXCEPT ![r] = FALSE]
      BY <1>6, <2>1, <2>6 DEF FinalApprove
    <3>2. emits = FALSE
      BY <2>6
    <3>3. Lifecycle!Certify(r)
      BY <1>6, <2>2, <2>3, <2>4, <3>1, <3>2 DEF FinalApprove, Lifecycle!Certify
    <3> QED BY <3>3 DEF LStep, Lifecycle!LNext
  <2> QED BY <2>5, <2>6
<1> QED BY <1>1, <1>2, <1>3, <1>4, <1>5, <1>6 DEF Advance

\* Creating a request opens it, or certifies it at once.
LEMMA CreateRefines ==
  ASSUME RequestInv, NEW r \in Request,
         NEW s \in OpenStatus \union {"APPROVED"}, NEW certified \in BOOLEAN, NEW first,
         s = "APPROVED" <=> certified,
         certified => ProcessOf[r] = "ENROLLMENT_CERT",
         Create(r, s, certified, first)
  PROVE  LStep
<1>1. /\ status[r] = "NONE"
      /\ status' = [status EXCEPT ![r] = s]
      /\ step' = [step EXCEPT ![r] = 1]
      /\ issued' = [issued EXCEPT ![r] = certified]
      /\ UNCHANGED row
  BY DEF Create
<1>2. issued[r] = FALSE /\ issued = [issued EXCEPT ![r] = issued[r]]
  BY <1>1, RequestFacts DEF RequestOK
<1>3. [q \in Request |-> PhaseOf(status[q])]'
        = [[q \in Request |-> PhaseOf(status[q])] EXCEPT ![r] = PhaseOf(s)]
  BY <1>1, PhaseStep
<1>4. PhaseOf(status[r]) = "NONE"
  BY <1>1 DEF PhaseOf, OpenStatus
<1>5. CASE certified
  <2>1. PhaseOf(s) = "APPROVED"
    BY <1>5 DEF PhaseOf, OpenStatus
  <2>2. Lifecycle!CertifyAtOnce(r)
    BY <1>1, <1>3, <1>4, <1>5, <2>1 DEF Lifecycle!CertifyAtOnce
  <2> QED BY <2>2 DEF LStep, Lifecycle!LNext
<1>6. CASE ~certified
  <2>1. PhaseOf(s) = "OPEN"
    BY <1>6 DEF PhaseOf
  <2>2. UNCHANGED issued
    BY <1>1, <1>2, <1>6
  <2>3. Lifecycle!Open(r)
    BY <1>1, <1>3, <1>4, <2>1, <2>2 DEF Lifecycle!Open
  <2> QED BY <2>3 DEF LStep, Lifecycle!LNext
<1> QED BY <1>5, <1>6

LEMMA StudentRefines ==
  ASSUME RequestInv, NEW r \in Request, Student(r)
  PROVE  LStep
<1>1. CASE SubmitCertApproved(r)
  <2> DEFINE e == [step |-> 1, action |-> "APPROVE", open |-> FALSE, late |-> FALSE]
  <2>1. Create(r, "APPROVED", TRUE, e) /\ ProcessOf[r] = "ENROLLMENT_CERT"
    BY <1>1 DEF SubmitCertApproved
  <2> HIDE DEF e
  <2> QED BY <2>1, CreateRefines
<1>2. CASE SubmitForReview(r)
  <2>1. "IN_REVIEW" \in OpenStatus \union {"APPROVED"} /\ "IN_REVIEW" # "APPROVED"
    BY DEF OpenStatus
  <2>2. Create(r, "IN_REVIEW", FALSE, OpenLog(1, "SUBMIT"))
    BY <1>2 DEF SubmitForReview
  <2> QED BY <2>1, <2>2, CreateRefines
<1>3. CASE SubmitGeneral(r)
  <2>1. "SUBMITTED" \in OpenStatus \union {"APPROVED"} /\ "SUBMITTED" # "APPROVED"
    BY DEF OpenStatus
  <2>2. Create(r, "SUBMITTED", FALSE, OpenLog(1, "SUBMIT"))
    BY <1>3 DEF SubmitGeneral
  <2> QED BY <2>1, <2>2, CreateRefines
<1> QED BY <1>1, <1>2, <1>3 DEF Student

LEMMA NextRefines == IInv /\ [Next]_vars => LStep
<1> SUFFICES ASSUME IInv, [Next]_vars PROVE LStep
  OBVIOUS
<1>1. RequestInv /\ ActorInv
  BY IInvParts
<1>2. CASE UNCHANGED <<status, step, issued, row>>
  BY <1>2, LifecycleStutter DEF LStep
<1>3. ASSUME NEW e \in Expert, NEW r \in Request, Staff(e, r)
      PROVE  LStep
  <2>1. CASE View(e, r)
    BY <1>2, <2>1 DEF View, reqVars
  <2>2. CASE \E act \in EngineAction : Decide(e, r, act)
    BY <1>1, <2>2, AdvanceRefines DEF Decide
  <2>3. CASE \E d \in Dept : ClearCheckpoint(e, r, d)
    BY <1>1, <1>2, <2>3, AdvanceRefines DEF ClearCheckpoint, EngineAction
  <2>4. CASE CouncilApprove(r) \/ CouncilReject(r)
    <3>1. PICK s \in {"APPROVED", "REJECTED"} : CouncilDecide(r, s)
      BY <2>4 DEF CouncilApprove, CouncilReject
    <3>2. status[r] \in OpenStatus
      BY <3>1 DEF CouncilDecide, OpenStatus
    <3> QED BY <1>1, <3>1, <3>2, StatusOnlyStep DEF CouncilDecide
  <2> QED BY <1>3, <2>1, <2>2, <2>3, <2>4 DEF Staff
<1>4. ASSUME NEW u \in Run, SlaJob(u)
      PROVE  LStep
  <2>1. CASE \E item \in sla[u].due : SlaAct(u, item)
    <3>1. PICK item \in sla[u].due : SlaAct(u, item)
      BY <2>1
    <3>2. item.req \in Request /\ item.act \in EngineAction
      BY <1>1, <3>1 DEF ActorInv, DueItem
    <3> QED BY <1>1, <3>1, <3>2, AdvanceRefines DEF SlaAct
  <2> QED BY <1>2, <1>4, <2>1 DEF SlaJob, SlaTryLock, SlaUnlock, SlaReadDue, SlaActFails, reqVars
<1>5. ASSUME NEW r \in Request, Expire(r)
      PROVE  LStep
  BY <1>2, <1>5 DEF Expire
<1>6. CASE CloseLockConnection \/ ServerCrash
  BY <1>2, <1>6 DEF CloseLockConnection, ServerCrash, reqVars
<1>7. CASE UNCHANGED vars
  BY <1>2, <1>7 DEF vars
<1> QED BY <1>1, <1>3, <1>4, <1>5, <1>6, <1>7, StudentRefines DEF Next

LEMMA InitRefines == Init => Lifecycle!LInit
BY DEF Init, Lifecycle!LInit, PhaseOf, OpenStatus

\* Whatever staff, students, departments and SLA jobs do, and whatever the
\* processes, each request lives the life RequestLifecycle describes.
THEOREM ImplementsLifecycle == Spec => LifecycleSpec
<1>1. IInv /\ [Next]_vars => [Lifecycle!LNext]_Lifecycle!lifecycleVars
  BY NextRefines DEF LStep
<1> QED BY <1>1, InitRefines, SpecIInv, PTL DEF Spec, LifecycleSpec, Lifecycle!LSpec
=============================================================================
