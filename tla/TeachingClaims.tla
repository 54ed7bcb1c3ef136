---------------------------- MODULE TeachingClaims ----------------------------
(* What the messages of lib/contract-engine.ts say and the code does not do. *)
EXTENDS MCTeaching

Live(d) == {i \in CodesOf("PAGE", d) : Usable(i)}

\* signContract tells the professor whose code has expired to get a new one
\* (contract-engine.ts:231, and :230 likewise).  It looks at the oldest unused code,
\* which stays the expired one: the new code is never looked at.
NewCodeIsLookedAt ==
  \A k \in Session, d \in DOMAIN docs :
    call[k].pc = "check" /\ call[k].kind = "PAGE" /\ call[k].doc = d /\ Live(d) # {}
      => Picked("PAGE", d) \subseteq Live(d)
=============================================================================
