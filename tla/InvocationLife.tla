--------------------------- MODULE InvocationLife ---------------------------
(***************************************************************************)
(* What the durable records of invocations promise: each is made once, as   *)
(* RUNNING, and never taken away; a result or an error is final; only an    *)
(* invocation that was interrupted before it had either may run again, and  *)
(* only when its effect is one that may be repeated.  A record that an      *)
(* earlier release finished is LEGACY and stays so.                         *)
(***************************************************************************)
CONSTANT MayRunAgain(_)   \* the effect of this invocation may be repeated

VARIABLE status           \* invocation -> status, of the ones that were begun

Init == \A i \in DOMAIN status : status[i] = "LEGACY"

Begin(i) == i \notin DOMAIN status /\ status'[i] = "RUNNING"

Finish(i) ==
  /\ i \in DOMAIN status /\ status[i] = "RUNNING"
  /\ status'[i] \in {"SUCCEEDED", "FAILED", "INTERRUPTED"}

Restart(i) ==
  /\ i \in DOMAIN status /\ status[i] = "INTERRUPTED" /\ MayRunAgain(i)
  /\ status'[i] = "RUNNING"

Keep(i) == i \in DOMAIN status /\ status'[i] = status[i]

Next ==
  /\ DOMAIN status \subseteq DOMAIN status'
  /\ \A i \in DOMAIN status' : Begin(i) \/ Finish(i) \/ Restart(i) \/ Keep(i)

Spec == Init /\ [][Next]_status
=============================================================================
