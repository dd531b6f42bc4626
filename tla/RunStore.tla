------------------------------ MODULE RunStore ------------------------------
(***************************************************************************)
(* SQLiteRunStore: one run's row, its checkpoints and its transition log,  *)
(* shared by concurrent processes, each with its own connection.           *)
(*                                                                         *)
(* transition() reads the run in one statement and writes in a later       *)
(* transaction (sqlite3 begins a transaction at the first write, so the     *)
(* read is outside it).  The read and the transaction are therefore two     *)
(* actions; the transaction is one action.  A process may die between them. *)
(* PublicationService moves the run too, with an UPDATE of its own that     *)
(* writes neither checkpoint nor log.                                       *)
(***************************************************************************)
EXTENDS RunStates

CONSTANTS
  Clients,        \* processes that call the store
  MaxTransitions  \* bound on committed transitions (the correction loop is unbounded)

ASSUME MaxTransitionsAssumption == MaxTransitions \in Nat

VARIABLES
  runState,     \* runs.state, or NoRun
  checkpoints,  \* the state column of table checkpoints, in order of id
  committed,    \* <<from_state, to_state>> of the rows of transitions with committed = 1
  denied,       \* detail of the newest row with committed = 0: "none", "invalid", "stale"
  pc,           \* client -> "idle" | "read"
  seen,         \* client -> run.state as read by transition()
  target,       \* client -> the target it was called with
  visits,       \* history: the states the run has been in, in order
  seenAt        \* history: client -> Len(visits) when it read

store  == <<runState, checkpoints, committed, denied, visits>>
locals == <<pc, seen, target, seenAt>>
vars   == <<store, locals>>

Init ==
  /\ runState = NoRun
  /\ checkpoints = << >>
  /\ committed = << >>
  /\ denied = "none"
  /\ visits = << >>
  /\ pc = [c \in Clients |-> "idle"]
  /\ seen = [c \in Clients |-> NoRun]
  /\ target = [c \in Clients |-> NoRun]
  /\ seenAt = [c \in Clients |-> 0]

(* The run enters state s.                                                  *)
Enter(s) == runState' = s /\ visits' = Append(visits, s)

(* The client's call is over, by return, by exception or by death: its     *)
(* locals are gone.                                                         *)
Return(c) ==
  /\ pc' = [pc EXCEPT ![c] = "idle"]
  /\ seen' = [seen EXCEPT ![c] = NoRun]
  /\ target' = [target EXCEPT ![c] = NoRun]
  /\ seenAt' = [seenAt EXCEPT ![c] = 0]

(***************************************************************************)
(* Deliberately broken forms of three actions below.  They are not part of *)
(* Next: each shows that a property of this module tells the bug apart.     *)
(***************************************************************************)
CreateRunLoggingOldState(c) ==   \* the first checkpoint names the state before the insert
  /\ pc[c] = "idle"
  /\ runState = NoRun
  /\ Enter("NEW")
  /\ checkpoints' = << runState >>
  /\ UNCHANGED <<committed, denied, locals>>

CommitUnguarded(c) ==            \* UPDATE without AND state = ?
  /\ pc[c] = "read"
  /\ ValidTransition(seen[c], target[c])
  /\ Len(committed) < MaxTransitions
  /\ Enter(target[c])
  /\ committed' = Append(committed, <<seen[c], target[c]>>)
  /\ checkpoints' = Append(checkpoints, target[c])
  /\ Return(c)
  /\ UNCHANGED denied

CommitWithoutCheckpoint(c) ==    \* the checkpoint is left to the caller
  /\ pc[c] = "read"
  /\ ValidTransition(seen[c], target[c])
  /\ runState = seen[c]
  /\ Len(committed) < MaxTransitions
  /\ Enter(target[c])
  /\ committed' = Append(committed, <<seen[c], target[c]>>)
  /\ Return(c)
  /\ UNCHANGED <<checkpoints, denied>>
-----------------------------------------------------------------------------
(* create_run: the row and its first checkpoint in one transaction; the     *)
(* primary key refuses a second row.                                        *)
CreateRun(c) ==
  /\ pc[c] = "idle"
  /\ runState = NoRun
  /\ Enter("NEW")
  /\ checkpoints' = << "NEW" >>
  /\ UNCHANGED <<committed, denied, locals>>

(* transition, up to the read: get_run raises KeyError without a row.       *)
ReadRun(c, t) ==
  /\ pc[c] = "idle"
  /\ runState # NoRun
  /\ pc' = [pc EXCEPT ![c] = "read"]
  /\ seen' = [seen EXCEPT ![c] = runState]
  /\ target' = [target EXCEPT ![c] = t]
  /\ seenAt' = [seenAt EXCEPT ![c] = Len(visits)]
  /\ UNCHANGED store

(* The target is not reachable from the state that was read: log and raise. *)
RejectInvalid(c) ==
  /\ pc[c] = "read"
  /\ ~ValidTransition(seen[c], target[c])
  /\ denied' = "invalid"
  /\ Return(c)
  /\ UNCHANGED <<runState, checkpoints, committed, visits>>

(* UPDATE ... WHERE state = run.state hits: state, log row and checkpoint.  *)
CommitTransition(c) ==
  /\ pc[c] = "read"
  /\ ValidTransition(seen[c], target[c])
  /\ runState = seen[c]
  /\ Len(committed) < MaxTransitions
  /\ Enter(target[c])
  /\ committed' = Append(committed, <<seen[c], target[c]>>)
  /\ checkpoints' = Append(checkpoints, target[c])
  /\ Return(c)
  /\ UNCHANGED denied

(* The UPDATE misses: another client moved the run since the read.          *)
RejectStale(c) ==
  /\ pc[c] = "read"
  /\ ValidTransition(seen[c], target[c])
  /\ runState # seen[c]
  /\ denied' = "stale"
  /\ Return(c)
  /\ UNCHANGED <<runState, checkpoints, committed, visits>>

(* PublicationService: UPDATE runs SET state = ? WHERE state = ? inside the  *)
(* intent transaction and inside the final one.                             *)
PublicationMove(from, to) ==
  /\ <<from, to>> \in {<<"AWAITING_PUBLISH_APPROVAL", "PUBLISH">>, <<"PUBLISH", "REPORT">>}
  /\ runState = from
  /\ Enter(to)
  /\ UNCHANGED <<checkpoints, committed, denied, locals>>

(* The process dies between the read and the transaction.                   *)
Crash(c) ==
  /\ pc[c] = "read"
  /\ Return(c)
  /\ UNCHANGED store

Next ==
  \/ \E c \in Clients :
       \/ CreateRun(c)
       \/ \E t \in RunState : ReadRun(c, t)
       \/ RejectInvalid(c)
       \/ CommitTransition(c)
       \/ RejectStale(c)
       \/ Crash(c)
  \/ \E from, to \in RunState : PublicationMove(from, to)

Spec == Init /\ [][Next]_vars
-----------------------------------------------------------------------------
TypeOK ==
  /\ runState \in RunState \cup {NoRun}
  /\ checkpoints \in Seq(RunState)
  /\ committed \in Seq(RunState \X RunState)
  /\ denied \in {"none", "invalid", "stale"}
  /\ visits \in Seq(RunState)
  /\ pc \in [Clients -> {"idle", "read"}]
  /\ seen \in [Clients -> RunState \cup {NoRun}]
  /\ target \in [Clients -> RunState \cup {NoRun}]
  /\ seenAt \in [Clients -> Nat]

(* A checkpoint named chk stands for a run in state s: the same state, or   *)
(* one that publication moved on from the approval state.                   *)
StandsFor(chk, s) ==
  \/ chk = s
  \/ chk = "AWAITING_PUBLISH_APPROVAL" /\ s \in {"PUBLISH", "REPORT"}
  \/ chk = "PUBLISH" /\ s = "REPORT"

(* The three records of a run agree after every transaction: the newest     *)
(* checkpoint stands for the state of the run, and the committed rows of    *)
(* the log lead from one checkpoint to the next, with none missing and none *)
(* extra.  Publication alone makes a checkpoint lag, and only while it       *)
(* publishes and the report is due.                                          *)
RecordsAgree ==
  /\ runState = NoRun <=> checkpoints = << >>
  /\ runState = NoRun => committed = << >>
  /\ runState # NoRun =>
       /\ Len(checkpoints) = Len(committed) + 1
       /\ StandsFor(checkpoints[Len(checkpoints)], runState)
       /\ \A i \in 1..Len(committed) :
            /\ StandsFor(checkpoints[i], committed[i][1])
            /\ committed[i][2] = checkpoints[i + 1]

(* The store implements the lifecycle every other part of the runtime       *)
(* relies on, although validity is decided on a value read earlier.         *)
Lifecycle == INSTANCE RunLifecycle WITH state <- runState

LifecycleSpec == Lifecycle!Spec

(* A transition commits against the visit of the state that its caller read *)
(* and not against a later visit of the same state.  The one exception the  *)
(* code has is the correction loop: a caller that read IMPLEMENT (VALIDATE) *)
(* may commit in a later round, since the WHERE clause compares states and  *)
(* not visits.                                                              *)
Loop == {"IMPLEMENT", "VALIDATE"}

CommitsAgainstTheVisitRead ==
  [][\A c \in Clients :
       (pc[c] = "read" /\ pc'[c] = "idle" /\ committed' # committed)
         => seenAt[c] = Len(visits) \/ seen[c] \in Loop]_vars
=============================================================================
