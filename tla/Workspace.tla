------------------------------ MODULE Workspace ------------------------------
(***************************************************************************)
(* WorkspaceManager: the durable workspace of one run, used by several      *)
(* processes at a time.                                                     *)
(*                                                                          *)
(* A call of the manager takes the workspace's lock twice: acquire() seeds  *)
(* the directory or cleans it up and unlocks, and the operation proper      *)
(* locks again.  Every directory operation and every transaction is a step; *)
(* so is the SELECT of runs.state that _mutate makes before the first write *)
(* begins the transaction.  Other processes move the run between any two.   *)
(* ValidationService.run is called here too: it acquires the workspace and  *)
(* then copies the current generation without the lock.                     *)
(*                                                                          *)
(* A tree is the sequence of the mutations that made it out of the base     *)
(* revision.  What a patch does to files, and the limits on files and       *)
(* bytes, come down to whether the operation raises.                        *)
(***************************************************************************)
EXTENDS RunStates, Functions, FiniteSets

CONSTANTS
  Procs,       \* the processes
  Mutations,   \* the identities of mutations: capability and arguments
  MaxFaults,   \* bound on exceptions and process deaths
  Profile,     \* a validation profile
  None         \* "no process" and "no mutation"

ASSUME WorkspaceAssumption ==
  /\ None \notin Procs \cup Mutations /\ Profile \notin Mutations \cup {None}
  /\ MaxFaults \in Nat

VARIABLES
  runState,    \* runs.state
  row,         \* workspaces.current_generation; NoRow before the INSERT
  log,         \* workspace_mutations in order of sequence
  gens,        \* the directories gen-N: N -> tree
  candidates,  \* the directories candidate-M: M -> tree
  lock,        \* who holds the thread lock and the flock
  pc,          \* where each process is
  call,        \* the mutation or profile it was called with; None for read_file and diff
  gen,         \* its local variable generation
  overtaken,   \* processes whose validation the run has left VALIDATE under
  faults       \* exceptions and deaths so far

durable == <<row, log, gens, candidates>>
local   == <<pc, call, gen>>
vars    == <<runState, durable, lock, local, overtaken, faults>>

NoRow   == -1
Base    == << >>
Partial == <<None>>           \* a directory that was written or removed in part

(* The run enters and leaves IMPLEMENT; nothing here tells other states apart. *)
Stages == {"PLAN_READY", "IMPLEMENT", "VALIDATE", "CANCELLED"}

Holding == {"acquiring", "seeding", "seeded", "working", "copied", "operated",
            "renamed", "checked", "committed", "reading"}
Waiting == {"acquire", "again"}

Init ==
  /\ runState = "PLAN_READY"
  /\ row = NoRow
  /\ log = << >>
  /\ gens = << >> /\ candidates = << >>
  /\ lock = None
  /\ pc = [p \in Procs |-> "idle"]
  /\ call = [p \in Procs |-> None]
  /\ gen = [p \in Procs |-> NoRow]
  /\ overtaken = {}
  /\ faults = 0
-----------------------------------------------------------------------------
(* Helpers.                                                                 *)
Without(dirs, names) == Restrict(dirs, DOMAIN dirs \ names)

Put(dirs, name, tree) ==
  [n \in DOMAIN dirs \cup {name} |-> IF n = name THEN tree ELSE dirs[n]]

Applied(m) == m \in Range(log)

Goto(p, label) == pc' = [pc EXCEPT ![p] = label]

LeaveHolding(p) ==               \* broken form: the lock is not given back
  /\ Goto(p, "idle")
  /\ call' = [call EXCEPT ![p] = None]
  /\ gen' = [gen EXCEPT ![p] = NoRow]
  /\ overtaken' = overtaken \ {p}
  /\ UNCHANGED lock

(* The call of p returns or raises: _locked unlocks on every way out.       *)
Leave(p) ==
  /\ Goto(p, "idle")
  /\ call' = [call EXCEPT ![p] = None]
  /\ gen' = [gen EXCEPT ![p] = NoRow]
  /\ lock' = None
  /\ overtaken' = overtaken \ {p}

Fault == faults < MaxFaults /\ faults' = faults + 1

At(p, label) == pc[p] = label
-----------------------------------------------------------------------------
(* A call, and _locked.                                                     *)
Start(p, m) ==
  /\ At(p, "idle")
  /\ call' = [call EXCEPT ![p] = m]
  /\ Goto(p, "acquire")
  /\ UNCHANGED <<runState, durable, lock, gen, overtaken, faults>>

Wanted(p) == At(p, "acquire") \/ (At(p, "again") /\ call[p] # Profile)

LockShared(p) ==                 \* broken form: LOCK_SH
  /\ Wanted(p)
  /\ lock' = p
  /\ Goto(p, IF At(p, "acquire") THEN "acquiring" ELSE "working")
  /\ UNCHANGED <<runState, durable, call, gen, overtaken, faults>>

Lock(p) ==
  /\ Wanted(p) /\ lock = None
  /\ lock' = p
  /\ Goto(p, IF At(p, "acquire") THEN "acquiring" ELSE "working")
  /\ UNCHANGED <<runState, durable, call, gen, overtaken, faults>>

(* acquire: no row, so whatever the directory holds is removed and the base *)
(* revision is read out of git into gen-0.                                  *)
BeginSeedWithRow(p) ==           \* broken form: the row is inserted first
  /\ At(p, "acquiring") /\ row = NoRow
  /\ gens' = [n \in {0} |-> Partial] /\ candidates' = << >>
  /\ row' = 0
  /\ Goto(p, "seeding")
  /\ UNCHANGED <<runState, log, lock, call, gen, overtaken, faults>>

BeginSeed(p) ==
  /\ At(p, "acquiring") /\ row = NoRow
  /\ gens' = [n \in {0} |-> Partial] /\ candidates' = << >>
  /\ Goto(p, "seeding")
  /\ UNCHANGED <<runState, row, log, lock, call, gen, overtaken, faults>>

Seed(p) ==
  /\ At(p, "seeding")
  /\ gens' = [gens EXCEPT ![0] = Base]
  /\ Goto(p, "seeded")
  /\ UNCHANGED <<runState, row, log, candidates, lock, call, gen, overtaken, faults>>

InsertRow(p) ==
  /\ At(p, "seeded")
  /\ row' = 0
  /\ Goto(p, "acquiring")
  /\ UNCHANGED <<runState, log, gens, candidates, lock, call, gen, overtaken, faults>>

(* Git fails or holds an unsupported entry; or the INSERT fails.            *)
SeedFails(p) ==
  /\ pc[p] \in {"seeding", "seeded"} /\ Fault
  /\ gens' = << >>
  /\ Leave(p)
  /\ UNCHANGED <<runState, row, log, candidates>>

(* _verify and _cleanup: what a dead process left behind goes.  The error   *)
(* of _verify, a current generation that is missing, cannot occur: that is  *)
(* TreeMatchesLog.                                                          *)
CleanupGenerations(p) ==         \* broken form: candidates are left in place
  /\ At(p, "acquiring") /\ row # NoRow
  /\ gens' = Restrict(gens, DOMAIN gens \cap {0, row})
  /\ lock' = None
  /\ Goto(p, "again")
  /\ UNCHANGED <<runState, row, log, candidates, call, gen, overtaken, faults>>

Cleanup(p) ==
  /\ At(p, "acquiring") /\ row # NoRow
  /\ gens' = Restrict(gens, DOMAIN gens \cap {0, row})
  /\ candidates' = << >>
  /\ lock' = None
  /\ Goto(p, "again")
  /\ UNCHANGED <<runState, row, log, call, gen, overtaken, faults>>
-----------------------------------------------------------------------------
(* read_file and diff: the generation is read and then its files.           *)
BeginRead(p) ==
  /\ At(p, "working") /\ call[p] = None
  /\ gen' = [gen EXCEPT ![p] = row]
  /\ Goto(p, "reading")
  /\ UNCHANGED <<runState, durable, lock, call, overtaken, faults>>

EndRead(p) == At(p, "reading") /\ Leave(p) /\ UNCHANGED <<runState, durable, faults>>
-----------------------------------------------------------------------------
(* ValidationService.run of a run that is in VALIDATE.                      *)
StartValidation(p) ==
  /\ At(p, "idle") /\ runState = "VALIDATE"
  /\ call' = [call EXCEPT ![p] = Profile]
  /\ Goto(p, "acquire")
  /\ UNCHANGED <<runState, durable, lock, gen, overtaken, faults>>

(* After acquire(): the generation, and the sandbox's copy of its files.    *)
BeginCopy(p) ==
  /\ At(p, "again") /\ call[p] = Profile
  /\ gen' = [gen EXCEPT ![p] = row]
  /\ Goto(p, "copying")
  /\ UNCHANGED <<runState, durable, lock, call, overtaken, faults>>

EndCopy(p) ==
  /\ At(p, "copying")
  /\ Goto(p, "idle")
  /\ call' = [call EXCEPT ![p] = None]
  /\ gen' = [gen EXCEPT ![p] = NoRow]
  /\ overtaken' = overtaken \ {p}
  /\ UNCHANGED <<runState, durable, lock, faults>>
-----------------------------------------------------------------------------
(* _mutate.                                                                 *)
Replay(p) ==                     \* the stored result is returned
  /\ At(p, "working") /\ Applied(call[p])
  /\ Leave(p)
  /\ UNCHANGED <<runState, durable, faults>>

Fresh(p) == At(p, "working") /\ call[p] \in Mutations /\ ~Applied(call[p])

Denied(p) ==
  /\ Fresh(p) /\ runState # "IMPLEMENT"
  /\ Leave(p)
  /\ UNCHANGED <<runState, durable, faults>>

Copy(p) ==
  /\ Fresh(p) /\ runState = "IMPLEMENT" /\ call[p] \notin DOMAIN candidates
  /\ gen' = [gen EXCEPT ![p] = row]
  /\ candidates' = Put(candidates, call[p], gens[row])
  /\ Goto(p, "copied")
  /\ UNCHANGED <<runState, row, log, gens, lock, call, overtaken, faults>>

(* copytree stands before the try: it raises, because the candidate is      *)
(* there already or for another reason, and nothing is undone.              *)
CopyBlocked(p) ==
  /\ Fresh(p) /\ runState = "IMPLEMENT" /\ call[p] \in DOMAIN candidates
  /\ Leave(p)
  /\ UNCHANGED <<runState, durable, faults>>

CopyFails(p) ==
  /\ Fresh(p) /\ runState = "IMPLEMENT" /\ call[p] \notin DOMAIN candidates /\ Fault
  /\ candidates' = Put(candidates, call[p], Partial)
  /\ Leave(p)
  /\ UNCHANGED <<runState, row, log, gens>>

(* operation(candidate), _scan and _snapshot.                               *)
Operate(p) ==
  /\ At(p, "copied")
  /\ candidates' = [candidates EXCEPT ![call[p]] = Append(@, call[p])]
  /\ Goto(p, "operated")
  /\ UNCHANGED <<runState, row, log, gens, lock, call, gen, overtaken, faults>>

Rename(p) ==
  /\ At(p, "operated") /\ gen[p] + 1 \notin DOMAIN gens
  /\ gens' = Put(gens, gen[p] + 1, candidates[call[p]])
  /\ candidates' = Without(candidates, {call[p]})
  /\ Goto(p, "renamed")
  /\ UNCHANGED <<runState, row, log, lock, call, gen, overtaken, faults>>

(* The SELECTs of the state and of the generation.                          *)
CheckGenerationOnly(p) ==        \* broken form: the state is not read again
  /\ At(p, "renamed") /\ row = gen[p]
  /\ Goto(p, "checked")
  /\ UNCHANGED <<runState, durable, lock, call, gen, overtaken, faults>>

Check(p) ==
  /\ At(p, "renamed") /\ runState = "IMPLEMENT" /\ row = gen[p]
  /\ Goto(p, "checked")
  /\ UNCHANGED <<runState, durable, lock, call, gen, overtaken, faults>>

(* The transaction: a key that is taken makes it raise, see Fails.          *)
Commit(p) ==
  /\ At(p, "checked") /\ ~Applied(call[p])
  /\ log' = Append(log, call[p])
  /\ row' = IF row = gen[p] THEN gen[p] + 1 ELSE row
  /\ Goto(p, "committed")
  /\ UNCHANGED <<runState, gens, candidates, lock, call, gen, overtaken, faults>>

RemoveOld(p) ==
  /\ At(p, "committed")
  /\ gens' = Without(gens, {gen[p]} \ {0})
  /\ Leave(p)
  /\ UNCHANGED <<runState, row, log, candidates, faults>>

(* The except branch: the candidate goes, and the published generation      *)
(* unless the table names it.                                               *)
UndoAlways(p, dirs) ==           \* broken form: whatever the table names
  /\ candidates' = Without(candidates, {call[p]})
  /\ gens' = Without(dirs, {gen[p] + 1})
  /\ Leave(p)
  /\ UNCHANGED <<runState, row, log>>

Undo(p, dirs) ==
  /\ candidates' = Without(candidates, {call[p]})
  /\ gens' = Without(dirs, {gen[p] + 1} \ {row})
  /\ Leave(p)
  /\ UNCHANGED <<runState, row, log>>

(* rename() refuses a directory that is there; the check finds the run      *)
(* elsewhere.                                                               *)
Refused(p) ==
  /\ \/ At(p, "operated") /\ gen[p] + 1 \in DOMAIN gens
     \/ At(p, "renamed") /\ (runState # "IMPLEMENT" \/ row # gen[p])
  /\ Undo(p, gens)
  /\ UNCHANGED faults

(* The operation, the rename or the transaction raises.                     *)
Fails(p) ==
  /\ pc[p] \in {"copied", "operated", "renamed", "checked"} /\ Fault
  /\ Undo(p, gens)

(* The removal of the old generation raises after the commit.               *)
RemoveOldFails(p) ==
  /\ At(p, "committed") /\ gen[p] # 0 /\ Fault
  /\ Undo(p, [gens EXCEPT ![gen[p]] = Partial])
-----------------------------------------------------------------------------
(* The process dies; the kernel closes its lock file.                       *)
Crash(p) ==
  /\ ~At(p, "idle") /\ Fault
  /\ Goto(p, "idle")
  /\ call' = [call EXCEPT ![p] = None]
  /\ gen' = [gen EXCEPT ![p] = NoRow]
  /\ lock' = IF lock = p THEN None ELSE lock
  /\ overtaken' = overtaken \ {p}
  /\ UNCHANGED <<runState, durable>>

(* store.transition by the workflow or an operator.                         *)
MoveRun(to) ==
  /\ ValidTransition(runState, to)
  /\ runState' = to
  /\ overtaken' = IF runState = "VALIDATE"
                  THEN overtaken \cup {p \in Procs : call[p] = Profile} ELSE overtaken
  /\ UNCHANGED <<durable, lock, local, faults>>

Work(p) ==
  \/ Lock(p)
  \/ BeginSeed(p) \/ Seed(p) \/ InsertRow(p) \/ SeedFails(p) \/ Cleanup(p)
  \/ BeginRead(p) \/ EndRead(p) \/ BeginCopy(p) \/ EndCopy(p)
  \/ Replay(p) \/ Denied(p) \/ Copy(p) \/ CopyBlocked(p) \/ CopyFails(p)
  \/ Operate(p) \/ Rename(p) \/ Check(p) \/ Commit(p) \/ RemoveOld(p)
  \/ Refused(p) \/ Fails(p) \/ RemoveOldFails(p)

Next ==
  \/ \E p \in Procs :
       \/ \E m \in Mutations \cup {None} : Start(p, m)
       \/ StartValidation(p)
       \/ Work(p)
       \/ Crash(p)
  \/ \E to \in Stages : MoveRun(to)

Fairness == \A p \in Procs : WF_vars(Work(p))

Spec == Init /\ [][Next]_vars /\ Fairness
-----------------------------------------------------------------------------
(* Properties.                                                              *)
(* The variables have their types, and a process has the lock exactly while *)
(* it is between _locked's LOCK_EX and LOCK_UN.                             *)
TypeOK ==
  /\ runState \in Stages
  /\ row \in Nat \cup {NoRow}
  /\ lock \in Procs \cup {None}
  /\ log \in Seq(Mutations)
  /\ DOMAIN gens \subseteq Nat /\ Range(gens) \subseteq Seq(Mutations) \cup {Partial}
  /\ DOMAIN candidates \subseteq Mutations
  /\ Range(candidates) \subseteq Seq(Mutations) \cup {Partial}
  /\ pc \in [Procs -> {"idle", "copying"} \cup Waiting \cup Holding]
  /\ call \in [Procs -> Mutations \cup {None, Profile}]
  /\ gen \in [Procs -> Nat \cup {NoRow}]
  /\ \A p \in Procs : lock = p <=> pc[p] \in Holding

(* After every crash, failure and race the table names a directory that     *)
(* exists, and that directory holds the logged mutations in their order:    *)
(* current_generation, workspace_mutations and the tree on disk agree,      *)
(* though no transaction covers the three.  The base revision, against      *)
(* which every diff and the published change are computed, is still there.  *)
TreeMatchesLog ==
  IF row = NoRow THEN log = << >>
  ELSE /\ row = Len(log) /\ row \in DOMAIN gens /\ gens[row] = log
       /\ 0 \in DOMAIN gens /\ gens[0] = Base

(* A reader looks at one complete generation, the current one, from the     *)
(* SELECT of its number to the last byte read.  So does a validation, which *)
(* copies it without the lock: no mutation starts in VALIDATE, and one that *)
(* had started, even past its last check, is over when the acquire() of the *)
(* validation gets the lock.  The exception is real: when the run leaves    *)
(* VALIDATE before the copy is made, the correction takes the directory     *)
(* away.                                                                    *)
ReadsOneTree ==
  \A p \in Procs :
    At(p, "reading") \/ (At(p, "copying") /\ p \notin overtaken) =>
      gen[p] = row /\ gen[p] \in DOMAIN gens /\ gens[gen[p]] = log

(* The workspace implements the versioned tree: whatever fails or dies, the *)
(* current tree only ever changes by one new mutation, applied completely.  *)
Tree == INSTANCE VersionedTree WITH history <- IF row = NoRow THEN Base ELSE gens[row]

ImplementsVersionedTree == Tree!Spec

(* A mutation that is past its last check will be committed.                *)
Committing == \E p \in Procs : At(p, "checked")

(* Once the run is cancelled no call writes any more, wherever it was when  *)
(* the run was cancelled -- except one whose last SELECT of the state had   *)
(* come before: that stands outside the transaction, so the exception is    *)
(* real, and it is at most one because of the lock.                         *)
CancelFreezesTheTree ==
  \A k \in 0..Cardinality(Mutations) :
    [](runState = "CANCELLED" /\ ~Committing /\ row = k => [](row = k))

(* What a dead or failed process leaves on disk never blocks a mutation for *)
(* good: one that is called again and again while the run stays in          *)
(* IMPLEMENT is applied.                                                    *)
CalledAgainAndAgain(m) == []<><<\E p \in Procs : Start(p, m)>>_vars

MutationsGetThrough ==
  \A m \in Mutations :
    CalledAgainAndAgain(m) /\ <>[](runState = "IMPLEMENT") => <>Applied(m)
=============================================================================
