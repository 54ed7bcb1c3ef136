------------------------------ MODULE MCTeaching ------------------------------
(* Instances of TeachingTerm for TLC. *)
EXTENDS TeachingTerm, TLC

CONSTANT Overlapping  \* calls of a behaviour in which calls overlap

Sessions == Permutations(Session)

Paper(signed) == [signed |-> signed, signatures |-> IF signed THEN 1 ELSE 0]
Draft(net) == [contract |-> 1, status |-> "DRAFT", net |-> net, midterm |-> 0, final |-> 0]

\* The start of a term, or a term with a contract and perhaps a statement; two
\* page loads at once have left two contracts and two documents.
MCInit ==
  /\ overlap \in BOOLEAN
  /\ \/ contracts = 0 /\ docs = <<>> /\ statements = <<>>
     \/ /\ contracts = 1
        /\ docs \in {<<Paper(FALSE)>>, <<Paper(TRUE)>>}
        /\ statements \in {<<>>, <<Draft(100)>>}
     \/ /\ overlap = TRUE
        /\ contracts = 2
        /\ docs = <<Paper(TRUE), Paper(FALSE)>>
        /\ statements = <<Draft(100)>>
  /\ codes = <<>> /\ holder = NoSession /\ held = {} /\ payments = <<>>
  /\ gradesFinal \in BOOLEAN
  /\ call = [k \in Session |-> Idle]
  /\ crashes = 0
  /\ calls = IF overlap THEN MaxCalls - Overlapping ELSE 0

TeachingSpec == MCInit /\ [][Next]_vars
=============================================================================
