----------------------------- MODULE Continuity -----------------------------
(***************************************************************************)
(* ContinuityService.update: bounded notes that the model keeps about its   *)
(* run, guarded by an optimistic revision.  Every SELECT stands before the  *)
(* first write, which begins the transaction, so each is a step of its own  *)
(* and only the WHERE clause of the UPDATE decides.                         *)
(*                                                                          *)
(* The ledger is the sequence of the updates that were applied; revision N  *)
(* is the ledger after N of them.  The four lists of a ledger are one here, *)
(* and an update appends one item, so MaxItems (32 in the code) bounds the  *)
(* revision well before MAX_REVISION (1000000) can.                         *)
(***************************************************************************)
EXTENDS RunStates, TLC

CONSTANTS
  Procs,       \* the processes
  Contents,    \* what an update may append
  MaxItems,    \* MAX_ITEMS: items of a list
  MaxHistory,  \* MAX_HISTORY: updates that are kept to recognise a replay
  None

VARIABLES
  runState,    \* runs.state
  ledger,      \* continuity_ledgers: the appended items, oldest first
  updates,     \* continuity_updates: revision -> content, the newest only
  job          \* the update() call of each process

memory == <<ledger, updates>>

MemoryWriteStates == {Flow[i] : i \in 1..6}

Idle == [step |-> "idle", revision |-> 0, content |-> None]

MemoryInit ==
  /\ ledger = << >>
  /\ updates = << >>
  /\ job = [p \in Procs |-> Idle]

JobAt(p, step) == job[p].step = step

JobGoes(p, step) == job' = [job EXCEPT ![p].step = step]

(* The call, with arguments that passed _items.                             *)
CallUpdate(p, revision, content) ==
  job' = [job EXCEPT ![p] = [step |-> "reading", revision |-> revision, content |-> content]]

(* SELECT the ledger, and merge the lists.                                  *)
ReadLedger(p) ==
  /\ JobAt(p, "reading")
  /\ JobGoes(p, IF job[p].revision # Len(ledger) THEN "stale"
                ELSE IF Len(ledger) >= MaxItems THEN "raised"
                ELSE "writing")
  /\ UNCHANGED <<runState, memory>>

FindAppliedByRevision(p) ==      \* broken form: AND update_json=? is missing
  /\ JobAt(p, "stale")
  /\ JobGoes(p, IF job[p].revision + 1 \in DOMAIN updates THEN "returned" ELSE "raised")
  /\ UNCHANGED <<runState, memory>>

(* The revision is another one: this update has been applied, or is stale.  *)
FindApplied(p) ==
  LET next == job[p].revision + 1 IN
  /\ JobAt(p, "stale")
  /\ JobGoes(p, IF next \in DOMAIN updates /\ updates[next] = job[p].content
                THEN "returned" ELSE "raised")
  /\ UNCHANGED <<runState, memory>>

(* The updates that are left once next is inserted and old ones deleted.    *)
Kept(next) == {r \in DOMAIN updates \cup {next} : r > next - MaxHistory}

(* The transaction: UPDATE, INSERT of the update, DELETE of old ones.       *)
WriteLedger(p) ==
  LET next == job[p].revision + 1 IN
  /\ JobAt(p, "writing")
  /\ job[p].revision = Len(ledger) /\ runState \in MemoryWriteStates
  /\ ledger' = Append(ledger, job[p].content)
  /\ updates' = [r \in Kept(next) |-> ledger'[r]]
  /\ JobGoes(p, "returned")
  /\ UNCHANGED runState

(* rowcount # 1: another update came first, or the run has moved on.        *)
RejectWrite(p) ==
  /\ JobAt(p, "writing")
  /\ job[p].revision # Len(ledger) \/ runState \notin MemoryWriteStates
  /\ JobGoes(p, "raised")
  /\ UNCHANGED <<runState, memory>>

Update(p) == ReadLedger(p) \/ FindApplied(p) \/ WriteLedger(p) \/ RejectWrite(p)

MemoryTypeOK ==
  /\ runState \in RunState
  /\ ledger \in Seq(Contents) /\ Len(ledger) <= MaxItems
  /\ DOMAIN updates = {r \in 1..Len(ledger) : r > Len(ledger) - MaxHistory}
  /\ job \in [Procs -> [step : {"idle", "reading", "stale", "writing", "returned", "raised"},
                        revision : Nat, content : Contents \cup {None}]]
=============================================================================
