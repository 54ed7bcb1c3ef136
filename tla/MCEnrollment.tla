----------------------------- MODULE MCEnrollment -----------------------------
(* Instances of EnrollmentRaces for TLC. *)
EXTENDS EnrollmentRaces, TLC

OneSeat == [o \in Offering |-> 1]

Symmetry == Permutations(Student) \union Permutations(Tick) \union Permutations(DropCall)
=============================================================================
