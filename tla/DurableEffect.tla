---------------------------- MODULE DurableEffect ----------------------------
(***************************************************************************)
(* What the runtime promises about a side effect on a remote system that    *)
(* it can neither roll back nor perform in a local transaction: opening a   *)
(* pull request, posting the report comment, moving the issue.  The intent  *)
(* is on disk before the effect can happen, the effect happens at most      *)
(* once, and success is on disk only after the effect happened -- across    *)
(* crashes, restarts, timeouts and late answers.                            *)
(***************************************************************************)
EXTENDS Naturals

VARIABLES
  intended,   \* the intent is durable
  effects,    \* how often the remote system performed the effect
  recorded    \* its success is durable

Init == intended = FALSE /\ effects = 0 /\ recorded = FALSE

Intend == ~intended /\ intended' = TRUE /\ UNCHANGED <<effects, recorded>>

Perform == intended /\ effects = 0 /\ effects' = 1 /\ UNCHANGED <<intended, recorded>>

Record ==
  /\ intended /\ effects = 1 /\ ~recorded
  /\ recorded' = TRUE
  /\ UNCHANGED <<intended, effects>>

Next == Intend \/ Perform \/ Record

Spec == Init /\ [][Next]_<<intended, effects, recorded>>
=============================================================================
