------------------------- MODULE StudentAccountClaims -------------------------
(* What the comments of finance-engine.ts say of the account and the code does  *)
(* not do.                                                                      *)
EXTENDS MCAccount

\* listFinanceStudents: "the balance is summed from the ledger: debt minus payment",
\* and a cheque is a payment once it is cleared; so clearing a cheque lowers the
\* balance by its amount.
ChequeCountsOnce ==
  [][\A c \in Cheque :
       cheques[c] = "PENDING" /\ cheques'[c] = "CLEARED"
         => StatementBalance' = StatementBalance - c.amount]_vars
=============================================================================
