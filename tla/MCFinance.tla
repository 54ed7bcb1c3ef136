------------------------------ MODULE MCFinance ------------------------------
(* Instances of FinanceDesk for TLC. *)
EXTENDS FinanceDesk, TLC

CONSTANTS q1, d1, d2, p1, n1

AllKinds ==
  [r \in Record |-> CASE r = q1 -> "CHEQUE" [] r = p1 -> "SPONSORSHIP"
                      [] r = n1 -> "LOAN" [] OTHER -> "DISCOUNT"]

\* A student with at most one row, of any table, or with a cheque and a discount.
FewRows ==
  LET live == {r \in Record : status[r] # "NONE" \/ holder[r] # NoClerk}
  IN \/ \E r \in Record : live \subseteq {r}
     \/ live \subseteq {q1, d1}

DeskSpec == Init /\ [][Next /\ FewRows']_vars /\ Fairness
=============================================================================
