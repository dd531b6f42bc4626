----------------------------- MODULE RunStates -----------------------------
(***************************************************************************)
(* The states of a run and the transition table of durable.py.  NoRun      *)
(* stands for "no row in table runs": get_run raises KeyError there.       *)
(***************************************************************************)
EXTENDS Integers, Sequences

(* _FLOW: the order in which a run that nothing disturbs visits its states. *)
Flow == << "NEW", "INTAKE", "ANALYZE", "PLAN_READY", "IMPLEMENT", "VALIDATE",
           "AWAITING_PUBLISH_APPROVAL", "PUBLISH", "REPORT", "SUCCEEDED" >>

Aborted  == {"FAILED", "CANCELLED"}
RunState == {Flow[i] : i \in 1..10} \cup Aborted
Terminal == {"SUCCEEDED"} \cup Aborted
NoRun    == "no run"

(* _ALLOWED_TRANSITIONS: the pairs of neighbours in the flow, and the one   *)
(* edge of the correction loop.                                             *)
AllowedTransitions ==
  {<<Flow[i], Flow[i + 1]>> : i \in 1..9} \cup {<<"VALIDATE", "IMPLEMENT">>}

(* The validity test of SQLiteRunStore.transition.                          *)
ValidTransition(from, to) ==
  /\ from \notin Terminal
  /\ <<from, to>> \in AllowedTransitions \/ to \in Aborted
=============================================================================
