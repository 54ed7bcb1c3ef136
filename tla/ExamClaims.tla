------------------------------ MODULE ExamClaims ------------------------------
(* What the comments of lib/exam-engine.ts say and the code does not do. *)
EXTENDS MCExam

\* finalizeVaultHandover marks a course fully collected when its papers have come
\* from all its halls (exam-engine.ts:382 and :415).  The count it compares with,
\* totalHallsCount, no code of the application writes (only a load-test seed does): it
\* is 1 for a course that sits in two halls.
CollectedFromEveryHall ==
  \A c \in Course : collected[c].full => Received(c) = HallsOf(c)
=============================================================================
