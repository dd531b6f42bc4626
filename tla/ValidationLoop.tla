--------------------------- MODULE ValidationLoop ---------------------------
(***************************************************************************)
(* The bounded correction loop: ImplementationValidationCoordinator.run    *)
(* and the ValidationService it drives, for one run, from PLAN_READY to     *)
(* AWAITING_PUBLISH_APPROVAL.                                               *)
(*                                                                          *)
(* One worker process runs the coordinator; its driver calls it again after *)
(* a crash, an exception or a return.  An operator may cancel the run at    *)
(* any moment.  Every SQLite transaction, every run of a validation command *)
(* and every workspace mutation is a step.  A transition of the run is one  *)
(* step here: what its read and its transaction do when the operator comes  *)
(* between them is RunStore's subject, and the outcome is the same one of   *)
(* raising InvalidTransition.                                               *)
(***************************************************************************)
EXTENDS RunStates, FiniteSetsExt

CONSTANTS
  Profiles,       \* the required validation profiles
  Attempts,       \* CoordinatorLimits.attempts
  MaxGeneration,  \* bound on workspace generations
  MaxCrashes,     \* bound on process deaths
  MaxPauses,      \* bound on returns caused by the elapsed, turn, token or cost limits
  NoProfile       \* "no profile is being run"

ASSUME AttemptsAssumption == Attempts \in Nat
ASSUME ProfilesAssumption == IsFiniteSet(Profiles) /\ NoProfile \notin Profiles
ASSUME BoundsAssumption == MaxGeneration \in Nat /\ MaxCrashes \in Nat /\ MaxPauses \in Nat

VARIABLES
  runState,     \* runs.state
  generation,   \* workspaces.current_generation
  rows,         \* validation_attempts: attempt -> profile -> [status, generation]
  checkpoint,   \* validation_checkpoints: attempt -> "none" | "failed" | "passed"
  pc,           \* where the worker is
  attempt,      \* the loop variable of the coordinator (0 outside the loop)
  profile,      \* the profile ValidationService.run is at
  results,      \* the results collected in this attempt: profile -> status
  crashes,      \* process deaths so far
  pauses,       \* limit-caused returns so far
  interrupted   \* history: a crash fell into the window described at Window below

durable == <<runState, generation, rows, checkpoint>>
local   == <<attempt, profile, results>>
env     == <<crashes, pauses, interrupted>>
vars    == <<durable, pc, local, env>>

NoRow     == [status |-> "none", generation |-> 0]
NoResults == [p \in Profiles |-> "none"]
Finished  == {"PASSED", "FAILED"}

Init ==
  /\ runState = "PLAN_READY"
  /\ generation = 0
  /\ rows = [a \in 1..Attempts |-> [p \in Profiles |-> NoRow]]
  /\ checkpoint = [a \in 1..Attempts |-> "none"]
  /\ pc = "idle"
  /\ attempt = 0 /\ profile = NoProfile /\ results = NoResults
  /\ crashes = 0 /\ pauses = 0 /\ interrupted = FALSE
-----------------------------------------------------------------------------
(* The queries of the coordinator and of the store.                         *)
LastCheckpoint == Max({0} \cup {a \in 1..Attempts : checkpoint[a] # "none"})

RunningAttempts ==
  {a \in 1..Attempts : \E p \in Profiles : rows[a][p].status = "RUNNING"}

NextAttemptByRows ==             \* broken form: counts begun attempts, not recorded ones
  1 + Max({0} \cup {a \in 1..Attempts : \E p \in Profiles : rows[a][p] # NoRow})

(* next_validation_attempt.                                                 *)
NextAttempt ==
  LET running == Max({0} \cup RunningAttempts)
  IN  IF running > LastCheckpoint THEN running ELSE LastCheckpoint + 1

(* A crash here makes the next run of the coordinator go back to IMPLEMENT  *)
(* (the newest checkpoint failed and nothing is RUNNING) and then reuse the *)
(* number of an attempt that already holds finished results.                *)
Window ==
  /\ runState = "VALIDATE"
  /\ RunningAttempts = {}
  /\ LastCheckpoint > 0 /\ LastCheckpoint < Attempts
  /\ \E p \in Profiles : rows[LastCheckpoint + 1][p].status \in Finished

(* The call ends, by return or by exception: the process's locals are gone. *)
Leave ==
  /\ pc' = "idle"
  /\ attempt' = 0 /\ profile' = NoProfile /\ results' = NoResults

(* store.transition(run_id, to): on success go on at next, otherwise raise.  *)
Move(to) == ValidTransition(runState, to) /\ runState' = to

RaiseInvalid(at, to) ==
  /\ pc = at
  /\ ~ValidTransition(runState, to)
  /\ Leave
  /\ UNCHANGED <<durable, env>>
-----------------------------------------------------------------------------
(* ImplementationValidationCoordinator.run, up to the loop.                  *)
StartPlanned ==
  /\ pc = "idle" /\ runState = "PLAN_READY"
  /\ Move("IMPLEMENT")
  /\ pc' = "select"
  /\ UNCHANGED <<generation, rows, checkpoint, local, env>>

StartImplement ==
  /\ pc = "idle" /\ runState = "IMPLEMENT"
  /\ pc' = "select"
  /\ UNCHANGED <<durable, local, env>>

(* In VALIDATE with a checkpoint and nothing RUNNING the checkpoint decides. *)
CheckpointDecidesAlways == LastCheckpoint > 0   \* broken form: ignores RUNNING rows

CheckpointDecides == LastCheckpoint > 0 /\ RunningAttempts = {}

ResumePassed ==
  /\ pc = "idle" /\ runState = "VALIDATE"
  /\ CheckpointDecides /\ checkpoint[LastCheckpoint] = "passed"
  /\ Move("AWAITING_PUBLISH_APPROVAL")
  /\ UNCHANGED <<generation, rows, checkpoint, pc, local, env>>

ResumeFailed ==
  /\ pc = "idle" /\ runState = "VALIDATE"
  /\ CheckpointDecides /\ checkpoint[LastCheckpoint] = "failed"
  /\ Move("IMPLEMENT")
  /\ pc' = "select"
  /\ UNCHANGED <<generation, rows, checkpoint, local, env>>

ResumeInterrupted ==
  /\ pc = "idle" /\ runState = "VALIDATE"
  /\ ~CheckpointDecides
  /\ pc' = "select"
  /\ UNCHANGED <<durable, local, env>>

(* for attempt in range(next_validation_attempt, attempts + 1): the first    *)
(* attempt, or an empty range and return False.                              *)
SelectAttempt ==
  /\ pc = "select"
  /\ NextAttempt <= Attempts
  /\ attempt' = NextAttempt
  /\ pc' = "head"
  /\ UNCHANGED <<durable, profile, results, env>>

Exhausted ==
  /\ pc = "select"
  /\ NextAttempt > Attempts
  /\ Leave
  /\ UNCHANGED <<durable, env>>
-----------------------------------------------------------------------------
(* The head of the loop: time limit, then the state read again.              *)
HeadImplement ==
  /\ pc = "head" /\ runState = "IMPLEMENT"
  /\ pc' = "implement"
  /\ UNCHANGED <<durable, local, env>>

HeadValidate ==
  /\ pc = "head" /\ runState = "VALIDATE"
  /\ pc' = "validate"
  /\ UNCHANGED <<durable, local, env>>

HeadNotResumable ==
  /\ pc = "head" /\ runState \notin {"IMPLEMENT", "VALIDATE"}
  /\ Leave
  /\ UNCHANGED <<durable, env>>

(* break: over the time limit at the head, or over the turn, token or cost   *)
(* limit after implement().  The run stays where it is.                      *)
OverLimit ==
  /\ pc \in {"head", "implement"}
  /\ pauses < MaxPauses
  /\ pauses' = pauses + 1
  /\ Leave
  /\ UNCHANGED <<durable, crashes, interrupted>>

BeginMutationAnyState ==         \* broken form: the mutation does not look at the run's state
  /\ pc = "implement"
  /\ generation < MaxGeneration
  /\ pc' = "mutate"
  /\ UNCHANGED <<durable, local, env>>

(* Inside implement(attempt): WorkspaceManager._mutate, which reads the run's *)
(* state before its write transaction begins.                                *)
BeginMutation ==
  /\ pc = "implement" /\ runState = "IMPLEMENT"
  /\ generation < MaxGeneration
  /\ pc' = "mutate"
  /\ UNCHANGED <<durable, local, env>>

CommitMutation ==
  /\ pc = "mutate"
  /\ generation' = generation + 1
  /\ pc' = "implement"
  /\ UNCHANGED <<runState, rows, checkpoint, local, env>>

ImplementDone ==
  /\ pc = "implement"
  /\ Move("VALIDATE")
  /\ pc' = "validate"
  /\ UNCHANGED <<generation, rows, checkpoint, local, env>>
-----------------------------------------------------------------------------
(* ValidationService.run(run_id, p, attempt) for one required profile: the   *)
(* state check, then either the stored result or a new run.  The code visits *)
(* the profiles in the order of their declaration, the model in every order. *)
RequireValidate ==
  /\ pc = "validate"
  /\ \E p \in Profiles : results[p] = "none"
  /\ runState # "VALIDATE"
  /\ Leave
  /\ UNCHANGED <<durable, env>>

ReuseResult(p) ==
  /\ pc = "validate" /\ runState = "VALIDATE"
  /\ results[p] = "none" /\ rows[attempt][p].status \in Finished
  /\ results' = [results EXCEPT ![p] = rows[attempt][p].status]
  /\ UNCHANGED <<durable, pc, attempt, profile, env>>

ChooseProfileAnyState(p) ==      \* broken form: without the durable state check
  /\ pc = "validate"
  /\ results[p] = "none" /\ rows[attempt][p].status \notin Finished
  /\ profile' = p
  /\ pc' = "begin"
  /\ UNCHANGED <<durable, attempt, results, env>>

ChooseProfile(p) ==
  /\ pc = "validate" /\ runState = "VALIDATE"
  /\ results[p] = "none" /\ rows[attempt][p].status \notin Finished
  /\ profile' = p
  /\ pc' = "begin"
  /\ UNCHANGED <<durable, attempt, results, env>>

(* begin_validation: INSERT OR IGNORE keeps the row, and the generation, of  *)
(* an interrupted run of this attempt.                                       *)
BeginValidation ==
  /\ pc = "begin"
  /\ rows' = IF rows[attempt][profile] = NoRow
             THEN [rows EXCEPT ![attempt][profile] =
                     [status |-> "RUNNING", generation |-> generation]]
             ELSE rows
  /\ pc' = "backend"
  /\ UNCHANGED <<runState, generation, checkpoint, local, env>>

(* backend.run returned (a command that fails, times out or is cancelled is  *)
(* a result that did not pass), and finish_validation stores it.  Only this  *)
(* worker finishes rows, so the row it began is still RUNNING.               *)
FinishValidation(outcome) ==
  /\ pc = "backend" /\ rows[attempt][profile].status = "RUNNING"
  /\ rows' = [rows EXCEPT ![attempt][profile].status = outcome]
  /\ results' = [results EXCEPT ![profile] = outcome]
  /\ profile' = NoProfile
  /\ pc' = "validate"
  /\ UNCHANGED <<runState, generation, checkpoint, attempt, env>>
-----------------------------------------------------------------------------
Collected == \A p \in Profiles : results[p] # "none"
SomePassed == \E p \in Profiles : results[p] = "PASSED"   \* broken form: any for all
AllPassed == Profiles # {} /\ \A p \in Profiles : results[p] = "PASSED"

(* save_validation_checkpoint.                                               *)
SaveCheckpointWhenPassed ==      \* broken form: a failed attempt is not recorded
  /\ pc = "validate" /\ Collected
  /\ checkpoint' = [checkpoint EXCEPT ![attempt] = IF AllPassed THEN "passed" ELSE @]
  /\ pc' = "decide"
  /\ UNCHANGED <<runState, generation, rows, local, env>>

SaveCheckpoint ==
  /\ pc = "validate" /\ Collected
  /\ checkpoint' = [checkpoint EXCEPT ![attempt] = IF AllPassed THEN "passed" ELSE "failed"]
  /\ pc' = "decide"
  /\ UNCHANGED <<runState, generation, rows, local, env>>

Passed ==
  /\ pc = "decide" /\ AllPassed
  /\ Move("AWAITING_PUBLISH_APPROVAL")
  /\ Leave
  /\ UNCHANGED <<generation, rows, checkpoint, env>>

CorrectUnbounded ==              \* broken form: without attempt < limits.attempts
  /\ pc = "decide" /\ ~AllPassed
  /\ Move("IMPLEMENT")
  /\ attempt' = attempt + 1 /\ results' = NoResults
  /\ pc' = "head"
  /\ UNCHANGED <<generation, rows, checkpoint, profile, env>>

Correct ==
  /\ pc = "decide" /\ ~AllPassed /\ attempt < Attempts
  /\ Move("IMPLEMENT")
  /\ attempt' = attempt + 1 /\ results' = NoResults
  /\ pc' = "head"
  /\ UNCHANGED <<generation, rows, checkpoint, profile, env>>

GiveUp ==
  /\ pc = "decide" /\ ~AllPassed /\ attempt = Attempts
  /\ Leave
  /\ UNCHANGED <<durable, env>>

(* A transition of the loop raises InvalidTransition: the run was cancelled. *)
Raise ==
  \/ RaiseInvalid("implement", "VALIDATE")
  \/ AllPassed /\ RaiseInvalid("decide", "AWAITING_PUBLISH_APPROVAL")
  \/ ~AllPassed /\ attempt < Attempts /\ RaiseInvalid("decide", "IMPLEMENT")
-----------------------------------------------------------------------------
Cancel ==
  /\ Move("CANCELLED")
  /\ UNCHANGED <<generation, rows, checkpoint, pc, local, env>>

(* The process dies, or an exception of the model or of the sandbox ends the *)
(* call.                                                                      *)
Crash ==
  /\ pc # "idle"
  /\ crashes < MaxCrashes
  /\ crashes' = crashes + 1
  /\ interrupted' = (interrupted \/ Window)
  /\ Leave
  /\ UNCHANGED <<durable, pauses>>

Work ==
  \/ StartPlanned \/ StartImplement \/ ResumePassed \/ ResumeFailed \/ ResumeInterrupted
  \/ SelectAttempt \/ Exhausted
  \/ HeadImplement \/ HeadValidate \/ HeadNotResumable
  \/ CommitMutation \/ ImplementDone
  \/ RequireValidate
  \/ \E p \in Profiles : ReuseResult(p) \/ ChooseProfile(p)
  \/ BeginValidation
  \/ \E outcome \in Finished : FinishValidation(outcome)
  \/ SaveCheckpoint
  \/ Passed \/ Correct \/ GiveUp \/ Raise

Next == Work \/ BeginMutation \/ OverLimit \/ Cancel \/ Crash

(* The driver keeps calling advance(), implement() returns (its turns are     *)
(* bounded by AgentRunner) and a validation command ends (the sandbox kills   *)
(* it at its time limit).  Crashes and limit pauses are bounded by constants. *)
Spec == Init /\ [][Next]_vars /\ WF_vars(Work)
-----------------------------------------------------------------------------
Positions == {"idle", "select", "head", "implement", "mutate", "validate", "begin",
              "backend", "decide"}

TypeOK ==
  /\ runState \in RunState
  /\ generation \in 0..MaxGeneration
  /\ rows \in [1..Attempts -> [Profiles ->
                [status : {"none", "RUNNING"} \cup Finished, generation : 0..MaxGeneration]]]
  /\ checkpoint \in [1..Attempts -> {"none", "failed", "passed"}]
  /\ pc \in Positions
  /\ attempt \in 0..Attempts
  /\ profile \in Profiles \cup {NoProfile}
  /\ results \in [Profiles -> {"none"} \cup Finished]
  /\ crashes \in 0..MaxCrashes
  /\ pauses \in 0..MaxPauses
  /\ interrupted \in BOOLEAN

(* The run waits for approval only behind a passed newest checkpoint, a       *)
(* checkpoint passed exactly when every required profile, and one at least,   *)
(* passed in that attempt, and no profile is RUNNING in an attempt that has    *)
(* its checkpoint.                                                             *)
PassNeedsEveryProfile ==
  /\ runState = "AWAITING_PUBLISH_APPROVAL" =>
       LastCheckpoint > 0 /\ checkpoint[LastCheckpoint] = "passed"
  /\ \A a \in 1..Attempts : checkpoint[a] # "none" =>
       /\ \A p \in Profiles : rows[a][p].status \in Finished
       /\ checkpoint[a] = "passed" <=>
            Profiles # {} /\ \A p \in Profiles : rows[a][p].status = "PASSED"

(* Attempts are used in order, whatever restarts do: an attempt has a result  *)
(* only after every attempt before it was recorded as failed, so a restart     *)
(* neither skips an attempt nor gains one.                                     *)
AttemptsInOrder ==
  \A a, b \in 1..Attempts :
    (a < b /\ \E p \in Profiles : rows[b][p] # NoRow) => checkpoint[a] = "failed"

(* The gate of PublicationService._publish: the newest checkpoint passed, and   *)
(* all its results are results of the current generation.                       *)
Publishable ==
  /\ LastCheckpoint > 0 /\ checkpoint[LastCheckpoint] = "passed"
  /\ {rows[LastCheckpoint][p].generation : p \in Profiles} = {generation}

(* Every run that reaches the approval state can be published, unless a crash   *)
(* fell between the first result and the checkpoint of a repeated attempt.       *)
PublishableUnlessInterrupted ==
  runState = "AWAITING_PUBLISH_APPROVAL" /\ ~interrupted => Publishable

(* PLAN.md: "Every state can resume safely after process restart".  What the     *)
(* restart leads to is publishable without the exception above.                  *)
AwaitingIsPublishable == runState = "AWAITING_PUBLISH_APPROVAL" => Publishable

(* PLAN.md: "Cancellation prevents new work".  In a terminal state no profile is  *)
(* chosen, no mutation is begun and implement() is not called.  What was running   *)
(* already may still store its result, a mutation past its check included.         *)
CancelStopsNewWork ==
  [][(runState \in Terminal) =>
       /\ runState' = runState
       /\ profile' \in {profile, NoProfile}
       /\ pc' = "mutate" => pc = "mutate"
       /\ pc' = "implement" => pc \in {"implement", "mutate"}]_vars

(* The loop comes to a verdict: approval state, terminal state, or the last       *)
(* attempt recorded.                                                               *)
EventuallyDecided ==
  <>( \/ runState \in Terminal \cup {"AWAITING_PUBLISH_APPROVAL"}
      \/ checkpoint[Attempts] # "none" )
=============================================================================
