------------------------------ MODULE MCAccount ------------------------------
(* Instances of StudentAccount for TLC. *)
EXTENDS StudentAccount

D(id, t, k, v) == [id |-> id, term |-> t, kind |-> k, value |-> v]
SomeDiscounts == {D(1, 1, "PERCENT", 25), D(2, 0, "FIXED", 60), D(3, 0, "PERCENT", 90)}
SomeSponsorships == {D(1, 1, "PERCENT", 50), D(2, 0, "FIXED", 45)}
SomeCheques == {[id |-> 1, term |-> 1, amount |-> 70]}
SomeLoans == {[id |-> 1, term |-> 0, amount |-> 30]}

F(id, degree, from, priority) ==
  [id |-> id, active |-> TRUE, degree |-> degree, major |-> 0, from |-> from, to |-> 0,
   priority |-> priority, fixed |-> IF id = 1 THEN 0 ELSE 20, theory |-> id * 10, practical |-> 15, general |-> 5]
SomeFormulas == {F(1, 0, 0, 2), F(2, 0, 1402, 1), F(3, 1, 0, 1), [F(4, 2, 0, 0) EXCEPT !.active = FALSE]}
SomeStudents == {[degree |-> 1, major |-> 1, year |-> 1403], [degree |-> 2, major |-> 1, year |-> 0]}
SomeCourses == {[units |-> 3, theory |-> 1, practical |-> 1, general |-> FALSE],
                [units |-> 2, theory |-> 0, practical |-> 3, general |-> FALSE],
                [units |-> 2, theory |-> 2, practical |-> 0, general |-> TRUE]}

\* The size of an account: bound on the rows of all tables together.
CONSTANT MaxRows
Rows == Len(ledger) + Len(discounts) + Len(sponsors) + Cardinality(taken)
        + Cardinality({c \in Cheque : cheques[c] # "NONE"})
        + Cardinality({l \in Loan : loans[l] # "NONE"})

\* The order of the formulas matters to the charge by formula only: an account with
\* other rows is explored for one order and one student.
Plain ==
  /\ \A i, j \in DOMAIN formulas : i < j => formulas[i].id < formulas[j].id
  /\ student.degree = 1
FewRows ==
  /\ Rows <= MaxRows
  /\ \/ Plain
     \/ /\ Rows = Len(ledger) + Cardinality(taken)
        /\ \A i \in DOMAIN ledger : ledger[i].type = "TUITION_CHARGE"

AccountSpec == Init /\ [][Next /\ FewRows']_vars
=============================================================================
