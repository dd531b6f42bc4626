----------------------------- MODULE Invocations -----------------------------
(***************************************************************************)
(* AgentRunner, CapabilityGateway.invoke and the invocations table: agent   *)
(* sessions that call capabilities, die, and are run again under the same   *)
(* session ID, by several processes at a time.  continuity.memory.update is *)
(* composed in from Continuity; workspace.test.run and workspace.lint.run   *)
(* stand for the effects that must not be repeated.  Workspace writes are   *)
(* in module Workspace.                                                     *)
(*                                                                          *)
(* An invocation is identified by stage, place in the session (turn and     *)
(* tool call), capability and arguments: what the SHA-256 of                *)
(* invocation_identity covers.  The language model answers anything; of the *)
(* revisions of the ledger it names one that it can have been shown, for a  *)
(* later one is refused like one that is stale.                             *)
(* Tool calls that change nothing, capability_search, capability_describe,  *)
(* execution_status and malformed ones, would only use up places.           *)
(* Left out: redaction and size of results, the audit trail (no decision    *)
(* reads it), capabilities the policy's lists deny, which end like Deny.    *)
(***************************************************************************)
EXTENDS Continuity

CONSTANTS
  MaxTurns,        \* max_turns
  MaxTools,        \* bound on the tool calls of one answer
  MaxInvocations,  \* max_invocations
  MaxSessions,     \* bound on the sessions that are run, first ones and repeats
  MaxRecoveries    \* bound on recoveries

ASSUME InvocationsAssumption ==
  /\ None \notin Procs \cup Contents
  /\ MaxTurns \in Nat \ {0} /\ MaxTools \in Nat \ {0}
  /\ MaxInvocations \in Nat /\ MaxSessions \in Nat /\ MaxRecoveries \in Nat
  /\ MaxItems \in Nat /\ MaxHistory \in Nat \ {0}

VARIABLES
  rows,      \* table invocations: identity -> status
  pc,        \* where the session of each process is
  at,        \* its place: stage of the gateway, turn, tool call
  call,      \* the capability and arguments it invokes
  used,      \* its local variable invocations
  records,   \* CapabilityGateway._executions of each process
  ran,       \* how often an effect that must not be repeated took place, where it did
  stolen,    \* identities that were recovered while a process was at them
  sessions,  \* sessions run so far
  recoveries \* recoveries so far

session == <<pc, at, call, used>>
counts  == <<sessions, recoveries>>
vars    == <<runState, memory, job, rows, session, records, ran, stolen, counts>>

Memory  == "trusted_memory_write"
Process == "trusted_process_execution"

Effect == {Memory, Process}

Calls ==
  [effect : {Memory}, revision : 0..MaxItems, content : Contents]
    \cup [effect : {Process}, revision : {0}, content : {None}]

NoCall == [effect |-> None, revision |-> 0, content |-> None]

(* The run at work, as a workflow or an operator moves it.                  *)
Stages == {"IMPLEMENT", "VALIDATE", "CANCELLED"}
GatewayStages == {"IMPLEMENT", "VALIDATE"}

Places == [stage : GatewayStages, turn : 1..MaxTurns + 1, tool : 1..MaxTools]
Start == [stage |-> "IMPLEMENT", turn |-> 1, tool |-> 1]

(* A row that an earlier release finished has another normalized_version;   *)
(* there is one such row in the initial state.                              *)
Status == {"RUNNING", "SUCCEEDED", "FAILED", "INTERRUPTED", "LEGACY"}

RestartsAnything(effect) == TRUE \* broken form: processes are run again too

(* The effects that invoke() restarts after an interruption.                *)
MayRestart(effect) == effect # Process

StatusOf(i) == IF i \in DOMAIN rows THEN rows[i] ELSE "none"

TimesRan(i) == IF i \in DOMAIN ran THEN ran[i] ELSE 0

Init ==
  /\ MemoryInit
  /\ runState \in GatewayStages
  /\ \E c \in Contents :
       rows = [i \in {<<Start, [effect |-> Memory, revision |-> 0, content |-> c]>>} |-> "LEGACY"]
  /\ pc = [p \in Procs |-> "idle"]
  /\ at = [p \in Procs |-> Start]
  /\ call = [p \in Procs |-> NoCall]
  /\ used = [p \in Procs |-> 0]
  /\ records = [p \in Procs |-> << >>]
  /\ ran = << >>
  /\ stolen = {}
  /\ sessions = 0 /\ recoveries = 0
-----------------------------------------------------------------------------
(* Helpers.                                                                 *)
At(p, label) == pc[p] = label
Goto(p, label) == pc' = [pc EXCEPT ![p] = label]

Identity(p) == <<at[p], call[p]>>

(* f with v at i.                                                           *)
Put(f, i, v) == [j \in DOMAIN f \cup {i} |-> IF j = i THEN v ELSE f[j]]

(* The gateway of p keeps its own record of the execution.                  *)
Record(p, i, status) == records' = [records EXCEPT ![p] = Put(@, i, status)]

(* An interrupted or legacy invocation is shown as FAILED.                  *)
Shown(status) == IF status \in {"INTERRUPTED", "LEGACY"} THEN "FAILED" ELSE status

(* What execution_status answers: the gateway's own record, however old it  *)
(* is, before the row.                                                      *)
ExecutionStatus(p, i) ==
  IF i \in DOMAIN records[p] THEN records[p][i] ELSE Shown(StatusOf(i))

(* p has begun or restarted i and has not yet written how it ended.         *)
Running == {"handling", "updating", "finishing", "failing"}
RunnersOf(i) == {p \in Procs : pc[p] \in Running /\ Identity(p) = i}

(* _dispatch has returned, a result or an error: the next tool call of this *)
(* answer, or the next turn.                                                *)
ReturnToModel(p) ==
  /\ call' = [call EXCEPT ![p] = NoCall]
  /\ job' = [job EXCEPT ![p] = Idle]
  /\ \/ /\ at[p].tool < MaxTools
        /\ at' = [at EXCEPT ![p].tool = @ + 1]
        /\ Goto(p, "calling")
     \/ /\ at' = [at EXCEPT ![p] = [stage |-> @.stage, turn |-> @.turn + 1, tool |-> 1]]
        /\ Goto(p, "answering")

(* The session ends, and with it its gateway.                               *)
Leave(p) ==
  /\ Goto(p, "idle")
  /\ at' = [at EXCEPT ![p] = Start]
  /\ call' = [call EXCEPT ![p] = NoCall]
  /\ used' = [used EXCEPT ![p] = 0]
  /\ records' = [records EXCEPT ![p] = << >>]
  /\ job' = [job EXCEPT ![p] = Idle]
-----------------------------------------------------------------------------
(* AgentRunner.run.                                                         *)
RunSession(p) ==
  /\ At(p, "idle") /\ runState \in GatewayStages
  /\ sessions < MaxSessions /\ sessions' = sessions + 1
  /\ at' = [at EXCEPT ![p].stage = runState]
  /\ Goto(p, "answering")
  /\ UNCHANGED <<runState, memory, job, rows, call, used, records, ran, stolen, recoveries>>

(* The turns are used up; or the model answers without tool calls, or the   *)
(* provider raises.                                                         *)
EndSession(p) ==
  /\ At(p, "answering")
  /\ Leave(p)
  /\ UNCHANGED <<runState, memory, rows, ran, stolen, counts>>

MayCall(p) == At(p, "calling") \/ (At(p, "answering") /\ at[p].turn <= MaxTurns)

(* CapabilityGateway.invoke: _authorized looks at the gateway's stage, and   *)
(* begin_invocation at the run's state.                                     *)
Authorized(c, stage) ==
  /\ c.effect = Process => stage = "VALIDATE"
  /\ c.effect = Memory => stage \in MemoryWriteStates

Invoke(p, c) ==
  /\ MayCall(p) /\ used[p] < MaxInvocations
  /\ Authorized(c, at[p].stage) /\ runState \notin Terminal
  /\ call' = [call EXCEPT ![p] = c]
  /\ used' = [used EXCEPT ![p] = @ + 1]
  /\ Goto(p, "selecting")
  /\ UNCHANGED <<runState, memory, job, rows, at, records, ran, stolen, counts>>

Deny(p, c) ==
  /\ MayCall(p) /\ used[p] < MaxInvocations
  /\ ~Authorized(c, at[p].stage) \/ runState \in Terminal
  /\ used' = [used EXCEPT ![p] = @ + 1]
  /\ ReturnToModel(p)
  /\ UNCHANGED <<runState, memory, rows, records, ran, stolen, counts>>

InvocationLimit(p) ==
  /\ MayCall(p) /\ used[p] >= MaxInvocations
  /\ Leave(p)
  /\ UNCHANGED <<runState, memory, rows, ran, stolen, counts>>

(* execution_cancel: only the record in memory is changed.                  *)
ModelCancels(p, i) ==
  /\ MayCall(p) /\ i \in DOMAIN records[p] /\ records[p][i] = "RUNNING"
  /\ Record(p, i, "CANCELLED")
  /\ ReturnToModel(p) /\ UNCHANGED used
  /\ UNCHANGED <<runState, memory, rows, ran, stolen, counts>>
-----------------------------------------------------------------------------
(* begin_invocation selects the row: none; one to replay; one to restart.   *)
FindNone(p) ==
  /\ At(p, "selecting") /\ Identity(p) \notin DOMAIN rows
  /\ Goto(p, "inserting")
  /\ UNCHANGED <<runState, memory, job, rows, at, call, used, records, ran, stolen, counts>>

Restartable(p) ==
  StatusOf(Identity(p)) = "INTERRUPTED" /\ MayRestart(call[p].effect)

Replay(p) ==
  /\ At(p, "selecting") /\ Identity(p) \in DOMAIN rows /\ ~Restartable(p)
  /\ Record(p, Identity(p), Shown(StatusOf(Identity(p))))
  /\ ReturnToModel(p) /\ UNCHANGED used
  /\ UNCHANGED <<runState, memory, rows, ran, stolen, counts>>

FindInterrupted(p) ==
  /\ At(p, "selecting") /\ Restartable(p)
  /\ Goto(p, "restarting")
  /\ UNCHANGED <<runState, memory, job, rows, at, call, used, records, ran, stolen, counts>>

(* The row is RUNNING, and control goes to the handler.                     *)
CallHandler(p) ==
  \/ /\ call[p].effect = Memory
     /\ CallUpdate(p, call[p].revision, call[p].content)
     /\ Goto(p, "updating")
  \/ call[p].effect = Process /\ Goto(p, "handling") /\ UNCHANGED job

RunUnrecorded(p) ==              \* broken form: only an execution that has ended is recorded
  /\ rows' = Put(rows, Identity(p), "RUNNING")
  /\ CallHandler(p)
  /\ UNCHANGED <<runState, memory, at, call, used, records, ran, stolen, counts>>

Run(p) ==
  /\ rows' = Put(rows, Identity(p), "RUNNING")
  /\ Record(p, Identity(p), "RUNNING")
  /\ CallHandler(p)
  /\ UNCHANGED <<runState, memory, at, call, used, ran, stolen, counts>>

InsertOrReplace(p) == At(p, "inserting") /\ Run(p)   \* broken form: INSERT OR REPLACE

Insert(p) == At(p, "inserting") /\ Identity(p) \notin DOMAIN rows /\ Run(p)

Restart(p) == At(p, "restarting") /\ StatusOf(Identity(p)) = "INTERRUPTED" /\ Run(p)

(* The INSERT meets the row of another process, or the UPDATE of            *)
(* restart_interrupted_invocation finds no interrupted row: invoke raises.  *)
BeginRaises(p) ==
  /\ \/ At(p, "inserting") /\ Identity(p) \in DOMAIN rows
     \/ At(p, "restarting") /\ StatusOf(Identity(p)) # "INTERRUPTED"
  /\ ReturnToModel(p) /\ UNCHANGED used
  /\ UNCHANGED <<runState, memory, rows, records, ran, stolen, counts>>
-----------------------------------------------------------------------------
(* The handler.  ValidationService.run runs the process, after which        *)
(* reading or storing its output may raise; or it raises before; or it      *)
(* returns the stored result of attempt 1 and runs nothing.                 *)
HandleProcess(p) ==
  /\ At(p, "handling")
  /\ \E l \in {"finishing", "failing"} : Goto(p, l)
  /\ \/ ran' = Put(ran, Identity(p), TimesRan(Identity(p)) + 1)
     \/ UNCHANGED ran
  /\ UNCHANGED <<runState, memory, job, rows, at, call, used, records, stolen, counts>>

UpdateMemory(p) ==
  /\ At(p, "updating") /\ Update(p)
  /\ UNCHANGED <<rows, session, records, ran, stolen, counts>>

Handled(p) == At(p, "finishing") \/ (At(p, "updating") /\ JobAt(p, "returned"))
HasRaised(p) == At(p, "failing") \/ (At(p, "updating") /\ JobAt(p, "raised"))
-----------------------------------------------------------------------------
(* finish_invocation, WHERE status='RUNNING'.                               *)
FinishUnchecked(p) ==            \* broken form: rowcount is not looked at
  /\ Handled(p)
  /\ rows' = [rows EXCEPT ![Identity(p)] = IF @ = "RUNNING" THEN "SUCCEEDED" ELSE @]
  /\ Record(p, Identity(p), "SUCCEEDED")
  /\ ReturnToModel(p) /\ UNCHANGED used
  /\ UNCHANGED <<runState, memory, ran, stolen, counts>>

FinishAnyRow(p) ==               \* broken form: AND status='RUNNING' is missing
  /\ Handled(p)
  /\ rows' = [rows EXCEPT ![Identity(p)] = "SUCCEEDED"]
  /\ Record(p, Identity(p), "SUCCEEDED")
  /\ ReturnToModel(p) /\ UNCHANGED used
  /\ UNCHANGED <<runState, memory, ran, stolen, counts>>

Finish(p) ==
  /\ Handled(p) /\ StatusOf(Identity(p)) = "RUNNING"
  /\ rows' = [rows EXCEPT ![Identity(p)] = "SUCCEEDED"]
  /\ Record(p, Identity(p), "SUCCEEDED")
  /\ ReturnToModel(p) /\ UNCHANGED used
  /\ UNCHANGED <<runState, memory, ran, stolen, counts>>

(* "invocation is already terminal", which invoke takes for a failure of    *)
(* the handler.                                                             *)
FinishRaises(p) ==
  /\ Handled(p) /\ StatusOf(Identity(p)) # "RUNNING"
  /\ Goto(p, "failing")
  /\ UNCHANGED <<runState, memory, job, rows, at, call, used, records, ran, stolen, counts>>

(* The except branch writes the error, or raises when the row has another   *)
(* end already: the record in memory is FAILED both ways.                   *)
Fail(p) ==
  /\ HasRaised(p)
  /\ rows' = [rows EXCEPT ![Identity(p)] = IF @ = "RUNNING" THEN "FAILED" ELSE @]
  /\ Record(p, Identity(p), "FAILED")
  /\ ReturnToModel(p) /\ UNCHANGED used
  /\ UNCHANGED <<runState, memory, ran, stolen, counts>>
-----------------------------------------------------------------------------
(* recover_running_invocations, by whoever restarts the run: RUNNING may    *)
(* mean a dead process or a live one.                                       *)
Recover ==
  LET running == {i \in DOMAIN rows : rows[i] = "RUNNING"} IN
  /\ running # {}
  /\ recoveries < MaxRecoveries /\ recoveries' = recoveries + 1
  /\ rows' = [i \in DOMAIN rows |-> IF i \in running THEN "INTERRUPTED" ELSE rows[i]]
  /\ stolen' = stolen \cup {i \in running : RunnersOf(i) # {}}
  /\ UNCHANGED <<runState, memory, job, session, records, ran, sessions>>

Crash(p) ==
  /\ ~At(p, "idle")
  /\ Leave(p)
  /\ UNCHANGED <<runState, memory, rows, ran, stolen, counts>>

MoveRun(to) ==
  /\ ValidTransition(runState, to)
  /\ runState' = to
  /\ UNCHANGED <<memory, job, rows, session, records, ran, stolen, counts>>

Work(p) ==
  \/ EndSession(p) \/ InvocationLimit(p)
  \/ \E c \in Calls : c.revision <= Len(ledger) /\ (Invoke(p, c) \/ Deny(p, c))
  \/ \E i \in DOMAIN records[p] : ModelCancels(p, i)
  \/ FindNone(p) \/ Replay(p) \/ FindInterrupted(p)
  \/ Insert(p) \/ Restart(p) \/ BeginRaises(p)
  \/ HandleProcess(p) \/ UpdateMemory(p)
  \/ Finish(p) \/ FinishRaises(p) \/ Fail(p)

Next ==
  \/ \E p \in Procs : RunSession(p) \/ Work(p) \/ Crash(p)
  \/ Recover
  \/ \E to \in Stages : MoveRun(to)

Spec == Init /\ [][Next]_vars
Symmetry == Permutations(Procs) \cup Permutations(Contents)
-----------------------------------------------------------------------------
(* Properties.                                                              *)
(* The variables have their types, and a session that is at a handler has a *)
(* row and a record of it: both are written before control is handed over.  *)
TypeOK ==
  /\ MemoryTypeOK
  /\ runState \in Stages
  /\ DOMAIN rows \subseteq Places \X Calls
  /\ \A i \in DOMAIN rows : rows[i] \in Status
  /\ pc \in [Procs -> {"idle", "answering", "calling", "selecting", "inserting",
                       "restarting"} \cup Running]
  /\ at \in [Procs -> Places]
  /\ call \in [Procs -> Calls \cup {NoCall}]
  /\ used \in [Procs -> 0..MaxInvocations]
  /\ \A p \in Procs : \A i \in DOMAIN records[p] : records[p][i] \in Status \cup {"CANCELLED"}
  /\ stolen \subseteq DOMAIN rows
  /\ \A p \in Procs : pc[p] \in Running =>
       Identity(p) \in DOMAIN rows /\ Identity(p) \in DOMAIN records[p]

(* An effect that must not be repeated takes place once per invocation,     *)
(* across crashes, replays of the session, racing processes and recoveries  *)
(* that take a live process for a dead one.                                 *)
EffectsHappenOnce == \A i \in DOMAIN ran : ran[i] = 1

(* Two processes are never at the same invocation, except after a recovery  *)
(* that hit a process which was alive.                                      *)
OneRunnerAtATime ==
  \A p, q \in Procs :
    p # q /\ pc[p] \in Running /\ pc[q] \in Running /\ Identity(p) = Identity(q)
      => Identity(p) \in stolen

(* What the gateway of a process tells its session agrees with the durable  *)
(* record: a success is stored, and a failure is not a stored success,      *)
(* except for an invocation that was recovered under a live process.        *)
RecordsTellTheTruth ==
  \A p \in Procs, i \in DOMAIN rows :
    /\ ExecutionStatus(p, i) = "SUCCEEDED" => rows[i] = "SUCCEEDED"
    /\ ExecutionStatus(p, i) = "FAILED" => Shown(rows[i]) = "FAILED" \/ i \in stolen

(* A memory update that is stored as SUCCEEDED is in the ledger, exactly at *)
(* the revision it was made for: a replayed update is recognised by what it *)
(* appended and not by its revision alone.                                  *)
SuccessIsInTheLedger ==
  \A i \in DOMAIN rows :
    LET c == i[2] IN
    c.effect = Memory /\ rows[i] = "SUCCEEDED" =>
      c.revision < Len(ledger) /\ ledger[c.revision + 1] = c.content

(* Every row lives the life of an invocation: made once, final once it has  *)
(* a result or an error, run again only after an interruption.              *)
InvocationMayRestart(i) == MayRestart(i[2].effect)

Life == INSTANCE InvocationLife WITH status <- rows, MayRunAgain <- InvocationMayRestart

ImplementsInvocationLife == Life!Spec
=============================================================================
