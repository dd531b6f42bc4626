---------------------------- MODULE RunLifecycle ----------------------------
(***************************************************************************)
(* What the run store promises about the state of one run, whoever asks    *)
(* for a change and however often: a run is created once, moves forward    *)
(* one stage at a time, goes back only from VALIDATE to IMPLEMENT, may be   *)
(* aborted while it is live, and never leaves a terminal state.  Stated by  *)
(* the rank of a state and not by the transition table, so that the table   *)
(* itself is part of what is checked against it.                            *)
(***************************************************************************)
EXTENDS Integers

VARIABLE state

NoRun == "no run"

Rank == [s \in {"NEW", "INTAKE", "ANALYZE", "PLAN_READY", "IMPLEMENT", "VALIDATE",
                "AWAITING_PUBLISH_APPROVAL", "PUBLISH", "REPORT", "SUCCEEDED"} |->
  CASE s = "NEW" -> 0
    [] s = "INTAKE" -> 1
    [] s = "ANALYZE" -> 2
    [] s = "PLAN_READY" -> 3
    [] s = "IMPLEMENT" -> 4
    [] s = "VALIDATE" -> 5
    [] s = "AWAITING_PUBLISH_APPROVAL" -> 6
    [] s = "PUBLISH" -> 7
    [] s = "REPORT" -> 8
    [] s = "SUCCEEDED" -> 9]

Live == {s \in DOMAIN Rank : Rank[s] < 9}

Init == state = NoRun

Create == state = NoRun /\ state' = "NEW"

Forward ==
  /\ state \in Live
  /\ \E s \in DOMAIN Rank : Rank[s] = Rank[state] + 1 /\ state' = s

Rework == state = "VALIDATE" /\ state' = "IMPLEMENT"

Abort == state \in Live /\ state' \in {"FAILED", "CANCELLED"}

Next == Create \/ Forward \/ Rework \/ Abort

Spec == Init /\ [][Next]_state
=============================================================================
