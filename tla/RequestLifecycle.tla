--------------------------- MODULE RequestLifecycle ---------------------------
(***************************************************************************)
(* What the workflow engine promises of a request, whoever acts on it: it   *)
(* goes through the steps of its process one at a time and in order, it     *)
(* ends at most once, a certificate is issued only from the last step, and  *)
(* the event for the handler is emitted exactly when it is.                 *)
(***************************************************************************)
EXTENDS Naturals

CONSTANTS
  Request,
  Last,         \* request -> number of steps of its process
  SelfCertified,\* requests the system may approve when they are submitted
  Emits         \* requests whose final approval is an event for a handler

VARIABLES phase, at, certified, emitted

lifecycleVars == <<phase, at, certified, emitted>>

LInit ==
  /\ phase = [r \in Request |-> "NONE"]
  /\ at = [r \in Request |-> 0]
  /\ certified = [r \in Request |-> FALSE]
  /\ emitted = [r \in Request |-> FALSE]

Open(r) ==
  /\ phase[r] = "NONE"
  /\ phase' = [phase EXCEPT ![r] = "OPEN"]
  /\ at' = [at EXCEPT ![r] = 1]
  /\ UNCHANGED <<certified, emitted>>

CertifyAtOnce(r) ==
  /\ r \in SelfCertified
  /\ phase[r] = "NONE"
  /\ phase' = [phase EXCEPT ![r] = "APPROVED"]
  /\ at' = [at EXCEPT ![r] = 1]
  /\ certified' = [certified EXCEPT ![r] = TRUE]
  /\ UNCHANGED emitted

NextStage(r) ==
  /\ phase[r] = "OPEN"
  /\ at[r] < Last[r]
  /\ at' = [at EXCEPT ![r] = @ + 1]
  /\ UNCHANGED <<phase, certified, emitted>>

Certify(r) ==
  /\ phase[r] = "OPEN"
  /\ at[r] = Last[r]
  /\ phase' = [phase EXCEPT ![r] = "APPROVED"]
  /\ certified' = [certified EXCEPT ![r] = TRUE]
  /\ emitted' = [emitted EXCEPT ![r] = r \in Emits]
  /\ UNCHANGED at

\* Ended by decision: rejected, or approved by the council without certificate.
End(r) ==
  /\ phase[r] = "OPEN"
  /\ phase' \in {[phase EXCEPT ![r] = p] : p \in {"APPROVED", "REJECTED"}}
  /\ UNCHANGED <<at, certified, emitted>>

LNext == \E r \in Request :
  Open(r) \/ CertifyAtOnce(r) \/ NextStage(r) \/ Certify(r) \/ End(r)

LSpec == LInit /\ [][LNext]_lifecycleVars
=============================================================================
