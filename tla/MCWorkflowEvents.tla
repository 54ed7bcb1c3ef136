--------------------------- MODULE MCWorkflowEvents ---------------------------
(***************************************************************************)
(* Instance of WorkflowEvents for TLC.  A behaviour is of one of two modes: *)
(* jobs that overlap, on two forms of one student, or one job at a time, on *)
(* three forms and with one more fault.                                     *)
(***************************************************************************)
EXTENDS WorkflowEventsClaims

CONSTANTS s1, c1, c2, c3, j1

VARIABLE mode   \* "overlap" or "serial", chosen once

OneUnit == [c \in Course |-> 1]
SameStudent == [r \in Request |-> s1]

\* Two forms of one student, of two terms and of one, and a one-course form.
MCItems == [r \in Request |->
  CASE r = 1 -> <<c1, c2, c3>> [] r = 2 -> <<c3>> [] OTHER -> <<c1>>]

WithinMode ==
  \/ mode = "overlap" /\ faults <= 1 /\ \A r \in Single : ev[r] = "NONE"
  \/ mode = "serial" /\ \A j \in Job \ {j1} : job[j] = IdleJob

ModesInit == mode \in {"overlap", "serial"} /\ Init

ModesSpec ==
  /\ ModesInit
  /\ [][UNCHANGED mode /\ Next /\ WithinMode']_<<vars, mode>>
  /\ Fairness

\* Running an event again after an error, a restart or a charge that failed never
\* charges a term of a student twice (chargeTermTuition looks for the charge
\* first), as long as one job runs at a time.
SerialOneChargePerTerm == mode = "serial" => OneChargePerTerm

\* As long as one job runs at a time, once no event is left to run every
\* equivalence term is charged for all its courses, those of the student's
\* other form included (computeTermTuition reads the term, not the form).
SerialChargeCoversTerm == mode = "serial" => ChargeCoversTerm
=============================================================================
