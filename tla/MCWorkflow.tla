------------------------------ MODULE MCWorkflow ------------------------------
(***************************************************************************)
(* Instance of Workflow for TLC.  One behaviour is about the requests of    *)
(* one group only: a course transfer among experts and one SLA job, a       *)
(* graduation checkout among experts and departments, or a certificate and  *)
(* an emergency drop under two overlapping SLA jobs.                        *)
(***************************************************************************)
EXTENDS Workflow, WorkflowTemplates, FiniteSets, TLC

CONSTANTS
  transfer, checkout, cert, drop, u1, c1,
  MaxTransferLogs   \* bound: log rows of the transfer, the largest group

MCProcess == DOMAIN BuiltinProcesses

ProcessOfRequest ==
  transfer :> "COURSE_TRANSFER" @@ checkout :> "GRADUATION_CHECKOUT" @@
  cert :> "ENROLLMENT_CERT" @@ drop :> "EMERGENCY_DROP"

\* A process definition saved from the admin panel: the first step of the
\* certificate is rejected when it is overdue.
AutoRejectTemplate ==
  [BuiltinProcesses EXCEPT !.ENROLLMENT_CERT[1].timeout = "AUTO_REJECT"]

Submitted == {r \in Request : status[r] # "NONE"}
NoExpert == \A e \in Expert : view[e] = BlankPage
Working == {u \in Run : sla[u].pc # "idle"}

OneGroup ==
  \/ Submitted \subseteq {transfer} /\ Working \subseteq {u1} /\ lock.conn \in {NoConn, c1}
     /\ lock.count <= 1 /\ Len(logs[transfer]) <= MaxTransferLogs
  \/ Submitted \subseteq {checkout} /\ Working = {} /\ lock.conn = NoConn
  \/ Submitted \subseteq {cert, drop} /\ NoExpert

MCSpec == Init /\ [][Next /\ OneGroup']_vars

StaffSymmetry == Permutations(Expert) \union Permutations(Dept)
=============================================================================
