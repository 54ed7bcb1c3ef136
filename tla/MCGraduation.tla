----------------------------- MODULE MCGraduation -----------------------------
(* Instances of Graduation for TLC. *)
EXTENDS Graduation, TLC

CONSTANTS finance, library, s1, s2
Checks == (finance :> "FINANCE_LEDGER") @@ (library :> "HTTP_API")
Sessions == Permutations(Session)

\* Calls that overlap start from a dossier some quiet calls have led to, and are
\* Overlapping many; calls that do not overlap start from the beginning.
CONSTANT Overlapping

Dossier(t, status, head, code, photo, paid) ==
  [status |-> status, head |-> head, thesis |-> t,
   irandoc |-> IF ~t THEN "SKIPPED" ELSE IF status = "HEAD_APPROVAL" THEN "PENDING" ELSE "PASSED",
   sajjad |-> IF code THEN "SUBMITTED" ELSE "NONE", code |-> code, photo |-> photo, paid |-> paid]

AllRows(to) == [d \in Dept |-> to]

QuietFile(t) ==
  \/ audit = NoAudit(t) /\ rows = AllRows("NONE")
  \/ audit = Dossier(t, "HEAD_APPROVAL", FALSE, FALSE, FALSE, FALSE) /\ rows = AllRows("NONE")
  \/ audit = Dossier(t, "CLEARANCE", TRUE, FALSE, FALSE, FALSE) /\ rows \in {AllRows("PENDING"), AllRows("HAS_DEBT")}
  \/ audit = Dossier(t, "SAJJAD_REQUEST", TRUE, FALSE, TRUE, FALSE) /\ rows = AllRows("CLEARED")
  \/ audit = Dossier(t, "FINAL_DOCS", TRUE, TRUE, TRUE, FALSE) /\ rows = AllRows("CLEARED")
  \/ audit = Dossier(t, "READY_TO_ISSUE", TRUE, TRUE, TRUE, TRUE) /\ rows = AllRows("CLEARED")

MCInit ==
  \/ Init /\ ~overlap
  \/ /\ overlap = TRUE
     /\ \E t \in BOOLEAN : QuietFile(t)
     /\ student = IF audit.status = "NONE" THEN "ACTIVE" ELSE "PENDING_GRADUATION"
     /\ degrees = {}
     /\ debit \in Opening
     /\ credits = IF audit.paid THEN 1 ELSE 0
     /\ call = [k \in Session |-> Idle]
     /\ past = [settled |-> Settled(rows), passed |-> audit.irandoc = "PASSED"]
     /\ calls = MaxCalls - Overlapping /\ crashes = 0

MCSpec == MCInit /\ [][Next]_vars
=============================================================================
