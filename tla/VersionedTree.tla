---------------------------- MODULE VersionedTree ----------------------------
(***************************************************************************)
(* What the workspace of a run promises its users: one tree of files that  *)
(* starts as the base revision, to which each mutation is applied at most   *)
(* once, completely, after the ones before it, and never taken back.        *)
(***************************************************************************)
EXTENDS Sequences, Functions

CONSTANT Mutations

VARIABLE history   \* the mutations the tree is made of, oldest first

Init == history = << >>

Apply(m) == m \notin Range(history) /\ history' = Append(history, m)

Next == \E m \in Mutations : Apply(m)

Spec == Init /\ [][Next]_history
=============================================================================
