------------------------ MODULE ValidationLoop_proofs ------------------------
(***************************************************************************)
(* Proofs about ValidationLoop, for any profiles, number of attempts and    *)
(* bounds on generations, crashes and pauses.                               *)
(***************************************************************************)
EXTENDS ValidationLoop, TLAPS

(* What the largest element of a set is.                                    *)
LEMMA MaxIs ==
  ASSUME NEW S \in SUBSET Int, NEW m \in S, \A x \in S : x <= m
  PROVE  Max(S) = m
<1>1. \A y \in S : m >= y
  OBVIOUS
<1>2. Max(S) \in S /\ \A y \in S : Max(S) >= y
  BY <1>1 DEF Max
<1>3. Max(S) \in Int /\ m \in Int /\ Max(S) <= m /\ Max(S) >= m
  BY <1>2
<1>4. QED
  BY <1>3
-----------------------------------------------------------------------------
(* The inductive invariant says of the number k of recorded attempts         *)
(*  - what the tables hold: one failed checkpoint after the other, the last  *)
(*    one failed or passed, each with all its results; results of attempt    *)
(*    k + 1 when the last one failed, and nothing beyond (Tables);           *)
(*  - where the worker is and what it has collected (Place);                 *)
(*  - that results belong to the current generation as long as no crash fell *)
(*    into the window (Fresh).                                               *)
Recorded(k) == \A a \in 1..Attempts : checkpoint[a] # "none" <=> a <= k

Untouched(a) == \A p \in Profiles : rows[a][p] = NoRow

AllFailed(k) == k = 0 \/ checkpoint[k] = "failed"

Tables(k) ==
  /\ Recorded(k)
  /\ \A a \in 1..Attempts :
       /\ a < k => checkpoint[a] = "failed"
       /\ a <= k => \A p \in Profiles : rows[a][p].status \in Finished
       /\ a <= k => (checkpoint[a] = "passed" <=>
                       Profiles # {} /\ \A p \in Profiles : rows[a][p].status = "PASSED")
       /\ a > k + 1 => Untouched(a)
       /\ a = k + 1 /\ ~Untouched(a) => AllFailed(k)
       /\ \A p \in Profiles : rows[a][p].status = "none" => rows[a][p] = NoRow

Validating == {"validate", "begin", "backend"}
InLoop == {"head", "implement", "mutate"} \cup Validating

Place(k) ==
  /\ runState \in {"PLAN_READY", "IMPLEMENT", "VALIDATE", "AWAITING_PUBLISH_APPROVAL", "CANCELLED"}
  /\ runState = "PLAN_READY" => pc = "idle" /\ k = 0 /\ \A a \in 1..Attempts : Untouched(a)
  /\ runState = "IMPLEMENT" => AllFailed(k)
  /\ runState = "AWAITING_PUBLISH_APPROVAL" => pc = "idle" /\ k > 0 /\ checkpoint[k] = "passed"
  /\ pc \in {"select"} \cup InLoop => AllFailed(k)
  /\ pc \in InLoop => k < Attempts /\ attempt = k + 1
  /\ pc \in {"implement", "mutate"} => runState \in {"IMPLEMENT", "CANCELLED"}
  /\ pc \in Validating \cup {"decide"} => runState \in {"VALIDATE", "CANCELLED"}
  /\ pc = "mutate" => generation < MaxGeneration
  /\ pc \notin Validating \cup {"decide"} => results = NoResults
  /\ pc \in Validating =>
       \A p \in Profiles : results[p] # "none" => rows[k + 1][p].status = results[p]
  /\ pc = "begin" => profile \in Profiles /\ rows[k + 1][profile].status \notin Finished
  /\ pc = "backend" => profile \in Profiles
  /\ pc = "decide" => /\ k > 0 /\ attempt = k /\ (checkpoint[k] = "passed" <=> AllPassed)
                      /\ k < Attempts => Untouched(k + 1)

(* The window of ValidationLoop after k recorded attempts.                  *)
WindowAt(k) ==
  /\ k > 0 /\ k < Attempts /\ RunningAttempts = {}
  /\ \E p \in Profiles : rows[k + 1][p].status \in Finished

Fresh(k) ==
  ~interrupted =>
    /\ runState = "IMPLEMENT" /\ k < Attempts => Untouched(k + 1)
    /\ runState = "VALIDATE" /\ k < Attempts =>
         \A p \in Profiles : rows[k + 1][p] # NoRow => rows[k + 1][p].generation = generation
    /\ /\ runState \in {"VALIDATE", "AWAITING_PUBLISH_APPROVAL"}
       /\ k > 0 /\ checkpoint[k] = "passed"
       => \A p \in Profiles : rows[k][p].generation = generation
    /\ runState = "VALIDATE" /\ pc \in {"idle", "select", "head"} => ~WindowAt(k)

Inv(k) == Tables(k) /\ Place(k) /\ Fresh(k)

IInv == TypeOK /\ \E k \in 0..Attempts : Inv(k)

(* What the queries of the coordinator answer.                              *)
LEMMA LastIs ==
  ASSUME NEW k \in 0..Attempts, Recorded(k)
  PROVE  LastCheckpoint = k
<1>1. PICK S : S = {0} \cup {a \in 1..Attempts : checkpoint[a] # "none"}
  OBVIOUS
<1>2. S \in SUBSET Int /\ k \in S /\ \A x \in S : x <= k
  BY <1>1, AttemptsAssumption DEF Recorded
<1>3. Max(S) = k
  BY <1>2, MaxIs
<1>4. QED
  BY <1>1, <1>3 DEF LastCheckpoint

LEMMA RunningIs ==
  ASSUME NEW k \in 0..Attempts, Tables(k)
  PROVE  \/ RunningAttempts = {}
         \/ /\ k < Attempts /\ RunningAttempts = {k + 1}
            /\ \E p \in Profiles : rows[k + 1][p].status = "RUNNING"
<1>1. ASSUME NEW a \in 1..Attempts, NEW p \in Profiles, rows[a][p].status = "RUNNING"
      PROVE  a = k + 1
  BY <1>1, AttemptsAssumption DEF Tables, Finished, Untouched, NoRow
<1>2. QED
  BY <1>1, AttemptsAssumption DEF RunningAttempts

LEMMA NextIs ==
  ASSUME NEW k \in 0..Attempts, Tables(k)
  PROVE  NextAttempt = k + 1
<1>1. LastCheckpoint = k
  BY LastIs DEF Tables
<1>2. PICK S : S = {0} \cup RunningAttempts
  OBVIOUS
<1>3. CASE RunningAttempts = {}
  <2>1. Max(S) = 0
    BY <1>2, <1>3, MaxIs
  <2>2. QED
    BY <1>1, <1>2, <2>1 DEF NextAttempt
<1>4. CASE RunningAttempts = {k + 1}
  <2>1. S \in SUBSET Int /\ k + 1 \in S /\ \A x \in S : x <= k + 1
    BY <1>2, <1>4
  <2>2. Max(S) = k + 1
    BY <2>1, MaxIs
  <2>3. QED
    BY <1>1, <1>2, <2>2 DEF NextAttempt
<1>5. QED
  BY <1>3, <1>4, RunningIs

LEMMA WindowIs ==
  ASSUME NEW k \in 0..Attempts, Tables(k), runState = "VALIDATE"
  PROVE  Window <=> WindowAt(k)
<1>1. LastCheckpoint = k
  BY LastIs DEF Tables
<1>2. QED
  BY <1>1 DEF Window, WindowAt

(* Where the run can go from the states it reaches here.                    *)
LEMMA Moves ==
  /\ ValidTransition("PLAN_READY", "IMPLEMENT") /\ ValidTransition("IMPLEMENT", "VALIDATE")
  /\ ValidTransition("VALIDATE", "IMPLEMENT")
  /\ ValidTransition("VALIDATE", "AWAITING_PUBLISH_APPROVAL")
  /\ \A to : ~ValidTransition("CANCELLED", to)
  /\ {"PLAN_READY", "IMPLEMENT", "VALIDATE", "AWAITING_PUBLISH_APPROVAL", "CANCELLED"}
       \subseteq RunState
<1>1. /\ Flow[4] = "PLAN_READY" /\ Flow[5] = "IMPLEMENT" /\ Flow[6] = "VALIDATE"
      /\ Flow[7] = "AWAITING_PUBLISH_APPROVAL"
      /\ 4 \in 1..10 /\ 5 \in 1..10 /\ 6 \in 1..10 /\ 7 \in 1..10
      /\ 4 \in 1..9 /\ 5 \in 1..9 /\ 6 \in 1..9 /\ 4 + 1 = 5 /\ 5 + 1 = 6 /\ 6 + 1 = 7
  BY DEF Flow
<1>2. /\ <<"PLAN_READY", "IMPLEMENT">> \in AllowedTransitions
      /\ <<"IMPLEMENT", "VALIDATE">> \in AllowedTransitions
      /\ <<"VALIDATE", "AWAITING_PUBLISH_APPROVAL">> \in AllowedTransitions
      /\ <<"VALIDATE", "IMPLEMENT">> \in AllowedTransitions
  BY <1>1 DEF AllowedTransitions
<1>3. {"PLAN_READY", "IMPLEMENT", "VALIDATE", "AWAITING_PUBLISH_APPROVAL", "CANCELLED"}
        \subseteq RunState
  BY <1>1 DEF RunState, Aborted
<1>4. QED
  BY <1>2, <1>3 DEF ValidTransition, Terminal, Aborted
-----------------------------------------------------------------------------
(* Every step keeps the types.                                              *)
RowType == [status : {"none", "RUNNING"} \cup Finished, generation : 0..MaxGeneration]

LEMMA TypeStep ==
  ASSUME TypeOK, NEW k \in 0..Attempts, Tables(k), Place(k), [Next]_vars
  PROVE  TypeOK'
<1>1. /\ NoResults \in [Profiles -> {"none"} \cup Finished] /\ "idle" \in Positions
      /\ \A p \in Profiles, o \in Finished :
           [results EXCEPT ![p] = o] \in [Profiles -> {"none"} \cup Finished]
  BY DEF NoResults, Positions, TypeOK
<1>2. Leave => /\ pc' \in Positions /\ attempt' \in 0..Attempts
               /\ profile' \in Profiles \cup {NoProfile}
               /\ results' \in [Profiles -> {"none"} \cup Finished]
  BY <1>1, AttemptsAssumption DEF Leave
<1>3. rows \in [1..Attempts -> [Profiles -> RowType]]
  BY DEF TypeOK, RowType
<1>4. rows' \in [1..Attempts -> [Profiles -> RowType]] =>
        rows' \in [1..Attempts -> [Profiles ->
                    [status : {"none", "RUNNING"} \cup Finished, generation : 0..MaxGeneration]]]
  BY DEF RowType
<1>5. \A to : Move(to) => runState' = to
  BY DEF Move
<1>6. CASE \/ StartPlanned \/ StartImplement \/ ResumePassed \/ ResumeFailed \/ ResumeInterrupted
           \/ HeadImplement \/ HeadValidate \/ ImplementDone \/ BeginMutation
  BY <1>5, <1>6, Moves DEF StartPlanned, StartImplement, ResumePassed, ResumeFailed,
    ResumeInterrupted, HeadImplement, HeadValidate, ImplementDone, BeginMutation, TypeOK, durable,
    local, env, Positions
<1>7. CASE SelectAttempt
  BY <1>7, NextIs, AttemptsAssumption DEF SelectAttempt, TypeOK, durable, env, Positions
<1>8. CASE \/ Exhausted \/ HeadNotResumable \/ OverLimit \/ RequireValidate \/ Passed \/ GiveUp
           \/ Raise \/ Crash
  <2>1. Leave /\ UNCHANGED <<generation, rows, checkpoint>>
    BY <1>8 DEF Exhausted, HeadNotResumable, OverLimit, RequireValidate, Passed, GiveUp, Raise,
      RaiseInvalid, Crash, durable
  <2>2. runState' \in RunState
    BY <1>5, <1>8, Moves DEF Exhausted, HeadNotResumable, OverLimit, RequireValidate, Passed,
      GiveUp, Raise, RaiseInvalid, Crash, durable, TypeOK
  <2>3. crashes' \in 0..MaxCrashes /\ pauses' \in 0..MaxPauses
    BY <1>8, BoundsAssumption DEF Exhausted, HeadNotResumable, OverLimit, RequireValidate, Passed,
      GiveUp, Raise, RaiseInvalid, Crash, env, TypeOK
  <2>4. interrupted' \in BOOLEAN
    <3>1. Window \in BOOLEAN
      BY DEF Window
    <3>2. interrupted' = interrupted \/ interrupted' = (interrupted \/ Window)
      BY <1>8 DEF Exhausted, HeadNotResumable, OverLimit, RequireValidate, Passed, GiveUp, Raise,
        RaiseInvalid, Crash, env
    <3>3. QED
      BY <3>1, <3>2 DEF TypeOK
  <2>5. QED
    BY <1>2, <2>1, <2>2, <2>3, <2>4 DEF TypeOK
<1>9. CASE CommitMutation
  <2>1. generation' \in 0..MaxGeneration
    BY <1>9, BoundsAssumption DEF CommitMutation, Place, TypeOK
  <2>2. QED
    BY <1>9, <2>1 DEF CommitMutation, TypeOK, local, env, Positions
<1>10. ASSUME NEW p \in Profiles, ReuseResult(p) \/ ChooseProfile(p)
       PROVE  TypeOK'
  <2>1. results' \in [Profiles -> {"none"} \cup Finished]
    BY <1>1, <1>10 DEF ReuseResult, ChooseProfile, TypeOK
  <2>2. QED
    BY <1>10, <2>1 DEF ReuseResult, ChooseProfile, TypeOK, durable, env, Positions
<1>11. CASE BeginValidation
  <2>1. attempt \in 1..Attempts /\ profile \in Profiles
    BY <1>11, AttemptsAssumption DEF BeginValidation, Place, InLoop, Validating
  <2>2. rows' \in [1..Attempts -> [Profiles -> RowType]]
    <3>1. [status |-> "RUNNING", generation |-> generation] \in RowType
      BY DEF TypeOK, RowType
    <3>2. QED
      BY <1>3, <1>11, <2>1, <3>1 DEF BeginValidation
  <2>3. QED
    BY <1>4, <1>11, <2>2 DEF BeginValidation, TypeOK, local, env, Positions
<1>12. ASSUME NEW o \in Finished, FinishValidation(o) PROVE TypeOK'
  <2>1. attempt \in 1..Attempts /\ profile \in Profiles
    BY <1>12, AttemptsAssumption DEF FinishValidation, Place, InLoop, Validating
  <2>2. rows' \in [1..Attempts -> [Profiles -> RowType]]
    BY <1>3, <1>12, <2>1 DEF FinishValidation, RowType
  <2>3. results' \in [Profiles -> {"none"} \cup Finished]
    BY <1>1, <1>12, <2>1 DEF FinishValidation
  <2>4. QED
    BY <1>4, <1>12, <2>2, <2>3 DEF FinishValidation, TypeOK, env, Positions
<1>13. CASE SaveCheckpoint
  BY <1>13 DEF SaveCheckpoint, TypeOK, local, env, Positions
<1>14. CASE Correct
  BY <1>1, <1>5, <1>14, Moves, AttemptsAssumption DEF Correct, TypeOK, env, Positions
<1>15. CASE Cancel \/ UNCHANGED vars
  <2>1. "CANCELLED" \in RunState
    BY Moves
  <2>2. QED
    BY <1>5, <1>15, <2>1 DEF Cancel, TypeOK, vars, durable, local, env
<1>16. QED
  BY <1>6, <1>7, <1>8, <1>9, <1>10, <1>11, <1>12, <1>13, <1>14, <1>15 DEF Next, Work
-----------------------------------------------------------------------------
(* Steps that leave the tables alone.                                       *)
LEMMA SameTables ==
  ASSUME NEW k, UNCHANGED <<rows, checkpoint>>, Tables(k)
  PROVE  Tables(k)' /\ RunningAttempts' = RunningAttempts
BY DEF Tables, Recorded, Untouched, AllFailed, RunningAttempts

(* The worker leaves: what is in the tables then decides where it goes on.  *)
LEMMA LeaveKeeps ==
  ASSUME NEW k \in 0..Attempts, Inv(k), Leave, UNCHANGED <<runState, generation, rows, checkpoint>>,
         interrupted' = interrupted \/ (interrupted' /\ ~interrupted),
         ~interrupted' /\ runState = "VALIDATE" => ~WindowAt(k)
  PROVE  Inv(k)'
<1>1. Tables(k)' /\ RunningAttempts' = RunningAttempts
  BY SameTables DEF Inv
<1>2. Place(k)'
  BY DEF Inv, Place, Leave, InLoop, Validating, AllFailed, Untouched
<1>3. Fresh(k)'
  BY <1>1 DEF Inv, Fresh, Untouched, WindowAt
<1>4. QED
  BY <1>1, <1>2, <1>3 DEF Inv

LEMMA LeaveSteps ==
  ASSUME TypeOK, NEW k \in 0..Attempts, Inv(k),
         \/ Exhausted \/ HeadNotResumable \/ OverLimit \/ RequireValidate \/ GiveUp
         \/ Raise \/ Crash
  PROVE  Inv(k)'
<1>1. Tables(k) /\ Place(k) /\ Fresh(k)
  BY DEF Inv
<1>2. Leave /\ UNCHANGED <<runState, generation, rows, checkpoint>>
  BY DEF Exhausted, HeadNotResumable, OverLimit, RequireValidate, GiveUp, Raise, RaiseInvalid,
    Crash, durable
<1>3. CASE Crash
  BY <1>1, <1>2, <1>3, LeaveKeeps, WindowIs DEF Crash, TypeOK
<1>4. CASE \/ Exhausted \/ HeadNotResumable \/ OverLimit \/ RequireValidate \/ GiveUp \/ Raise
  <2>1. interrupted' = interrupted
    BY <1>4 DEF Exhausted, HeadNotResumable, OverLimit, RequireValidate, GiveUp, Raise,
      RaiseInvalid, env
  <2>2. \/ pc \in {"select", "head"}
        \/ runState # "VALIDATE"
        \/ pc = "decide" /\ attempt = Attempts
    BY <1>1, <1>4, Moves DEF Exhausted, HeadNotResumable, OverLimit, RequireValidate, GiveUp,
      Raise, RaiseInvalid, Place
  <2>3. ~interrupted /\ runState = "VALIDATE" => ~WindowAt(k)
    BY <1>1, <2>2 DEF Fresh, Place, WindowAt
  <2>4. QED
    BY <1>2, <2>1, <2>3, LeaveKeeps
<1>5. QED
  BY <1>3, <1>4

(* The coordinator is called and finds its place.                           *)
LEMMA StartSteps ==
  ASSUME TypeOK, NEW k \in 0..Attempts, Inv(k),
         \/ StartPlanned \/ StartImplement \/ ResumePassed \/ ResumeFailed \/ ResumeInterrupted
  PROVE  Inv(k)'
<1>1. Tables(k) /\ Place(k) /\ Fresh(k)
  BY DEF Inv
<1>2. UNCHANGED <<generation, rows, checkpoint, attempt, profile, results, interrupted>>
      /\ pc = "idle"
  BY DEF StartPlanned, StartImplement, ResumePassed, ResumeFailed, ResumeInterrupted, durable,
    local, env
<1>3. Tables(k)' /\ RunningAttempts' = RunningAttempts
  BY <1>1, <1>2, SameTables
<1>4. LastCheckpoint = k
  BY <1>1, LastIs DEF Tables
<1>5. CASE StartPlanned
  <2>1. runState = "PLAN_READY" /\ runState' = "IMPLEMENT" /\ pc' = "select"
    BY <1>5 DEF StartPlanned, Move
  <2>2. k = 0 /\ (k < Attempts => Untouched(k + 1))
    BY <1>1, <2>1, AttemptsAssumption DEF Place
  <2>3. Place(k)'
    BY <1>1, <1>2, <2>1, <2>2 DEF Place, InLoop, Validating, AllFailed
  <2>4. Fresh(k)'
    BY <1>2, <2>1, <2>2 DEF Fresh, Untouched
  <2>5. QED
    BY <1>3, <2>3, <2>4 DEF Inv
<1>6. CASE StartImplement
  <2>1. runState = "IMPLEMENT" /\ runState' = runState /\ pc' = "select"
    BY <1>6 DEF StartImplement, durable
  <2>2. Place(k)' /\ Fresh(k)'
    BY <1>1, <1>2, <2>1 DEF Place, Fresh, InLoop, Validating, AllFailed, Untouched, WindowAt
  <2>3. QED
    BY <1>3, <2>2 DEF Inv
<1>7. CASE ResumePassed
  <2>1. /\ runState = "VALIDATE" /\ runState' = "AWAITING_PUBLISH_APPROVAL" /\ pc' = pc
        /\ k > 0 /\ checkpoint[k] = "passed"
    BY <1>4, <1>7 DEF ResumePassed, Move, CheckpointDecides
  <2>2. Place(k)' /\ Fresh(k)'
    BY <1>1, <1>2, <2>1 DEF Place, Fresh, InLoop, Validating, AllFailed, Untouched, WindowAt
  <2>3. QED
    BY <1>3, <2>2 DEF Inv
<1>8. CASE ResumeFailed
  <2>1. /\ runState = "VALIDATE" /\ runState' = "IMPLEMENT" /\ pc' = "select"
        /\ k > 0 /\ checkpoint[k] = "failed" /\ RunningAttempts = {}
    BY <1>4, <1>8 DEF ResumeFailed, Move, CheckpointDecides
  <2>2. Place(k)'
    BY <1>1, <1>2, <2>1 DEF Place, InLoop, Validating, AllFailed
  <2>3. ASSUME ~interrupted, k < Attempts PROVE Untouched(k + 1)
    <3>1. ~WindowAt(k)
      BY <1>1, <1>2, <2>1, <2>3 DEF Fresh
    <3>2. \A p \in Profiles : /\ rows[k + 1][p].status \notin Finished
                              /\ rows[k + 1][p].status # "RUNNING"
      BY <2>1, <2>3, <3>1, AttemptsAssumption DEF WindowAt, RunningAttempts
    <3>3. k + 1 \in 1..Attempts
      BY <2>3, AttemptsAssumption
    <3>4. \A p \in Profiles : rows[k + 1][p].status = "none"
      BY <3>2, <3>3 DEF TypeOK
    <3>5. QED
      BY <1>1, <3>3, <3>4 DEF Tables, Untouched
  <2>4. Fresh(k)'
    BY <1>2, <2>1, <2>3 DEF Fresh, Untouched
  <2>5. QED
    BY <1>3, <2>2, <2>4 DEF Inv
<1>9. CASE ResumeInterrupted
  <2>1. /\ runState = "VALIDATE" /\ runState' = runState /\ pc' = "select"
        /\ k = 0 \/ RunningAttempts # {}
    BY <1>4, <1>9 DEF ResumeInterrupted, CheckpointDecides, durable
  <2>2. AllFailed(k)
    <3>1. CASE k = 0
      BY <3>1 DEF AllFailed
    <3>2. CASE RunningAttempts # {}
      <4>1. PICK p \in Profiles : k < Attempts /\ rows[k + 1][p].status = "RUNNING"
        BY <1>1, <3>2, RunningIs
      <4>2. k + 1 \in 1..Attempts /\ ~Untouched(k + 1)
        BY <4>1, AttemptsAssumption DEF Untouched, NoRow
      <4>3. QED
        BY <1>1, <4>2 DEF Tables
    <3>3. QED
      BY <2>1, <3>1, <3>2
  <2>3. Place(k)' /\ Fresh(k)'
    BY <1>1, <1>2, <1>3, <2>1, <2>2 DEF Place, Fresh, InLoop, Validating, AllFailed, Untouched,
      WindowAt
  <2>4. QED
    BY <1>3, <2>3 DEF Inv
<1>10. QED
  BY <1>5, <1>6, <1>7, <1>8, <1>9

(* The coordinator goes on without writing results.                         *)
LEMMA LoopSteps ==
  ASSUME TypeOK, NEW k \in 0..Attempts, Inv(k),
         \/ SelectAttempt \/ HeadImplement \/ HeadValidate \/ BeginMutation \/ CommitMutation
         \/ ImplementDone \/ Cancel \/ UNCHANGED vars
         \/ \E p \in Profiles : ReuseResult(p) \/ ChooseProfile(p)
  PROVE  Inv(k)'
<1>1. Tables(k) /\ Place(k) /\ Fresh(k)
  BY DEF Inv
<1>2. UNCHANGED <<rows, checkpoint, interrupted>>
  BY DEF SelectAttempt, HeadImplement, HeadValidate, BeginMutation, CommitMutation, ImplementDone,
    Cancel, ReuseResult, ChooseProfile, vars, durable, local, env
<1>3. Tables(k)' /\ RunningAttempts' = RunningAttempts
  BY <1>1, <1>2, SameTables
<1>4. CASE SelectAttempt
  <2>1. /\ pc = "select" /\ pc' = "head" /\ attempt' = k + 1 /\ k < Attempts
        /\ UNCHANGED <<runState, generation, profile, results>>
    BY <1>1, <1>4, NextIs, AttemptsAssumption DEF SelectAttempt, durable
  <2>2. Place(k)' /\ Fresh(k)'
    BY <1>1, <1>2, <1>3, <2>1 DEF Place, Fresh, InLoop, Validating, AllFailed, Untouched, WindowAt
  <2>3. QED
    BY <1>3, <2>2 DEF Inv
<1>5. CASE HeadImplement \/ HeadValidate
  <2>1. /\ pc = "head" /\ UNCHANGED <<runState, generation, attempt, profile, results>>
        /\ \/ runState = "IMPLEMENT" /\ pc' = "implement"
           \/ runState = "VALIDATE" /\ pc' = "validate"
    BY <1>5 DEF HeadImplement, HeadValidate, durable, local
  <2>2. \A p \in Profiles : NoResults[p] = "none"
    BY DEF NoResults
  <2>3. Place(k)' /\ Fresh(k)'
    BY <1>1, <1>2, <2>1, <2>2 DEF Place, Fresh, InLoop, Validating, AllFailed, Untouched, WindowAt
  <2>4. QED
    BY <1>3, <2>3 DEF Inv
<1>6. CASE BeginMutation
  <2>1. /\ pc = "implement" /\ runState = "IMPLEMENT" /\ pc' = "mutate"
        /\ generation < MaxGeneration
        /\ UNCHANGED <<runState, generation, attempt, profile, results>>
    BY <1>6 DEF BeginMutation, durable, local
  <2>2. Place(k)' /\ Fresh(k)'
    BY <1>1, <1>2, <2>1 DEF Place, Fresh, InLoop, Validating, AllFailed, Untouched
  <2>3. QED
    BY <1>3, <2>2 DEF Inv
<1>7. CASE CommitMutation
  <2>1. /\ pc = "mutate" /\ pc' = "implement"
        /\ UNCHANGED <<runState, attempt, profile, results>>
    BY <1>7 DEF CommitMutation, local
  <2>2. Place(k)' /\ Fresh(k)'
    BY <1>1, <1>2, <2>1 DEF Place, Fresh, InLoop, Validating, AllFailed, Untouched
  <2>3. QED
    BY <1>3, <2>2 DEF Inv
<1>8. CASE ImplementDone
  <2>1. /\ pc = "implement" /\ pc' = "validate" /\ runState' = "VALIDATE"
        /\ runState = "IMPLEMENT"
        /\ UNCHANGED <<generation, attempt, profile, results>>
    BY <1>1, <1>8, Moves DEF ImplementDone, Move, local, Place
  <2>2. \A p \in Profiles : NoResults[p] = "none"
    BY DEF NoResults
  <2>3. Place(k)'
    BY <1>1, <1>2, <2>1, <2>2 DEF Place, InLoop, Validating, AllFailed
  <2>4. Fresh(k)'
    BY <1>1, <1>2, <2>1 DEF Fresh, Place, InLoop, Untouched, AllFailed
  <2>5. QED
    BY <1>3, <2>3, <2>4 DEF Inv
<1>9. ASSUME NEW p \in Profiles, ReuseResult(p) PROVE Inv(k)'
  <2>1. /\ pc = "validate" /\ runState = "VALIDATE" /\ rows[k + 1][p].status \in Finished
        /\ results' = [results EXCEPT ![p] = rows[k + 1][p].status]
        /\ UNCHANGED <<runState, generation, pc, attempt, profile>>
    BY <1>1, <1>9 DEF ReuseResult, durable, Place, InLoop, Validating
  <2>2. \A q \in Profiles : results'[q] # "none" => rows[k + 1][q].status = results'[q]
    BY <1>1, <2>1 DEF Place, Validating, TypeOK
  <2>3. Place(k)' /\ Fresh(k)'
    BY <1>1, <1>2, <2>1, <2>2 DEF Place, Fresh, InLoop, Validating, AllFailed, Untouched
  <2>4. QED
    BY <1>3, <2>3 DEF Inv
<1>10. ASSUME NEW p \in Profiles, ChooseProfile(p) PROVE Inv(k)'
  <2>1. /\ pc = "validate" /\ rows[k + 1][p].status \notin Finished
        /\ profile' = p /\ pc' = "begin"
        /\ UNCHANGED <<runState, generation, attempt, results>>
    BY <1>1, <1>10 DEF ChooseProfile, durable, Place, InLoop, Validating
  <2>2. Place(k)' /\ Fresh(k)'
    BY <1>1, <1>2, <2>1 DEF Place, Fresh, InLoop, Validating, AllFailed, Untouched
  <2>3. QED
    BY <1>3, <2>2 DEF Inv
<1>11. CASE Cancel
  <2>1. runState' = "CANCELLED" /\ UNCHANGED <<generation, pc, attempt, profile, results>>
    BY <1>11 DEF Cancel, Move, local
  <2>2. Place(k)' /\ Fresh(k)'
    BY <1>1, <1>2, <2>1 DEF Place, Fresh, AllFailed, AllPassed, Untouched
  <2>3. QED
    BY <1>3, <2>2 DEF Inv
<1>12. CASE UNCHANGED vars
  <2>1. UNCHANGED <<runState, generation, pc, attempt, profile, results>>
    BY <1>12 DEF vars, durable, local
  <2>2. Place(k)' /\ Fresh(k)'
    BY <1>1, <1>2, <1>3, <2>1 DEF Place, Fresh, AllFailed, AllPassed, Untouched, WindowAt
  <2>3. QED
    BY <1>3, <2>2 DEF Inv
<1>13. QED
  BY <1>4, <1>5, <1>6, <1>7, <1>8, <1>9, <1>10, <1>11, <1>12

(* The verdict on an attempt that is recorded.                              *)
LEMMA VerdictSteps ==
  ASSUME TypeOK, NEW k \in 0..Attempts, Inv(k), Passed \/ Correct
  PROVE  Inv(k)'
<1>1. Tables(k) /\ Place(k) /\ Fresh(k)
  BY DEF Inv
<1>2. UNCHANGED <<generation, rows, checkpoint, interrupted>>
  BY DEF Passed, Correct, env
<1>3. Tables(k)' /\ RunningAttempts' = RunningAttempts
  BY <1>1, <1>2, SameTables
<1>4. /\ pc = "decide" /\ runState = "VALIDATE" /\ k > 0 /\ attempt = k
      /\ checkpoint[k] = "passed" <=> AllPassed
  <2>1. pc = "decide"
    BY DEF Passed, Correct
  <2>2. \E to : ValidTransition(runState, to)
    BY DEF Passed, Correct, Move
  <2>3. runState \in {"VALIDATE", "CANCELLED"} /\ k > 0 /\ attempt = k
        /\ (checkpoint[k] = "passed" <=> AllPassed)
    BY <1>1, <2>1 DEF Place
  <2>4. QED
    BY <2>1, <2>2, <2>3, Moves
<1>5. CASE Passed
  <2>1. Leave /\ runState' = "AWAITING_PUBLISH_APPROVAL" /\ checkpoint[k] = "passed"
    BY <1>4, <1>5 DEF Passed, Move
  <2>2. Place(k)' /\ Fresh(k)'
    BY <1>1, <1>2, <1>4, <2>1 DEF Place, Fresh, Leave, InLoop, Validating
  <2>3. QED
    BY <1>3, <2>2 DEF Inv
<1>6. CASE Correct
  <2>1. /\ runState' = "IMPLEMENT" /\ attempt' = k + 1 /\ k < Attempts
        /\ results' = NoResults /\ pc' = "head" /\ profile' = profile /\ checkpoint[k] # "passed"
    BY <1>4, <1>6 DEF Correct, Move
  <2>2. checkpoint[k] = "failed"
    BY <1>1, <1>4, <2>1, AttemptsAssumption DEF Tables, Recorded, TypeOK
  <2>3. Place(k)'
    BY <1>1, <1>2, <2>1, <2>2 DEF Place, InLoop, Validating, AllFailed
  <2>4. Fresh(k)'
    BY <1>1, <1>2, <1>4, <2>1 DEF Place, Fresh, Untouched
  <2>5. QED
    BY <1>3, <2>3, <2>4 DEF Inv
<1>7. QED
  BY <1>5, <1>6

(* The steps that write results.                                            *)
LEMMA BeginStep ==
  ASSUME TypeOK, NEW k \in 0..Attempts, Inv(k), BeginValidation
  PROVE  Inv(k)'
<1>1. Tables(k) /\ Place(k) /\ Fresh(k)
  BY DEF Inv
<1>2. /\ pc = "begin" /\ pc' = "backend" /\ k < Attempts /\ attempt = k + 1 /\ profile \in Profiles
      /\ rows[k + 1][profile].status \notin Finished
      /\ AllFailed(k) /\ runState \in {"VALIDATE", "CANCELLED"}
      /\ UNCHANGED <<runState, generation, checkpoint, attempt, profile, results, interrupted>>
  BY <1>1 DEF BeginValidation, Place, InLoop, Validating, local, env
<1>3. k + 1 \in 1..Attempts
  BY <1>2, AttemptsAssumption
<1>4. /\ \A a \in 1..Attempts, p \in Profiles :
           (a # k + 1 \/ p # profile) => rows'[a][p] = rows[a][p]
      /\ \/ rows' = rows /\ rows[k + 1][profile] # NoRow
         \/ rows'[k + 1][profile] = [status |-> "RUNNING", generation |-> generation]
  BY <1>2, <1>3 DEF BeginValidation, TypeOK
<1>5. rows[k + 1][profile] # NoRow => rows[k + 1][profile].status # "none"
  BY <1>1, <1>2, <1>3 DEF Tables
<1>6. rows'[k + 1][profile].status = "RUNNING"
  <2>1. rows[k + 1][profile].status \in {"none", "RUNNING"} \cup Finished
    BY <1>2, <1>3 DEF TypeOK
  <2>2. rows' = rows \/ rows'[k + 1][profile].status = "RUNNING"
    BY <1>4
  <2>3. rows' = rows => rows[k + 1][profile] # NoRow
    BY <1>4 DEF NoRow
  <2>4. QED
    BY <1>2, <1>5, <2>1, <2>2, <2>3
<1>7. Tables(k)'
  <2>1. ASSUME NEW a \in 1..Attempts
        PROVE  /\ a < k => checkpoint'[a] = "failed"
               /\ a <= k => \A p \in Profiles : rows'[a][p].status \in Finished
               /\ a <= k => (checkpoint'[a] = "passed" <=>
                               Profiles # {} /\ \A p \in Profiles : rows'[a][p].status = "PASSED")
               /\ a > k + 1 => \A p \in Profiles : rows'[a][p] = NoRow
    <3>1. a # k + 1 => \A p \in Profiles : rows'[a][p] = rows[a][p]
      BY <1>4
    <3>2. QED
      BY <1>1, <1>2, <3>1 DEF Tables, Untouched
  <2>2. \A a \in 1..Attempts, p \in Profiles :
          rows'[a][p].status = "none" => rows'[a][p] = NoRow
    BY <1>1, <1>4, <1>6 DEF Tables
  <2>3. Recorded(k)' /\ AllFailed(k)'
    BY <1>1, <1>2 DEF Tables, Recorded, AllFailed
  <2>4. QED
    BY <2>1, <2>2, <2>3 DEF Tables, Untouched
<1>8. Place(k)'
  <2>1. \A p \in Profiles : results'[p] # "none" => rows'[k + 1][p].status = results'[p]
    <3>1. results[profile] = "none"
      BY <1>1, <1>2 DEF Place, Validating, TypeOK
    <3>2. QED
      BY <1>1, <1>2, <1>3, <1>4, <3>1 DEF Place, Validating
  <2>2. QED
    BY <1>1, <1>2, <2>1 DEF Place, InLoop, Validating, AllFailed
<1>9. Fresh(k)'
  <2>1. ASSUME ~interrupted, runState = "VALIDATE", NEW p \in Profiles, rows'[k + 1][p] # NoRow
        PROVE  rows'[k + 1][p].generation = generation
    BY <1>1, <1>2, <1>3, <1>4, <2>1 DEF Fresh
  <2>2. k > 0 => checkpoint[k] # "passed"
    BY <1>2 DEF AllFailed
  <2>3. QED
    BY <1>2, <2>1, <2>2 DEF Fresh
<1>10. QED
  BY <1>7, <1>8, <1>9 DEF Inv

LEMMA FinishStep ==
  ASSUME TypeOK, NEW k \in 0..Attempts, Inv(k), NEW o \in Finished, FinishValidation(o)
  PROVE  Inv(k)'
<1>1. Tables(k) /\ Place(k) /\ Fresh(k)
  BY DEF Inv
<1>2. /\ pc = "backend" /\ pc' = "validate" /\ k < Attempts /\ attempt = k + 1
      /\ profile \in Profiles /\ AllFailed(k) /\ runState \in {"VALIDATE", "CANCELLED"}
      /\ rows[k + 1][profile].status = "RUNNING"
      /\ rows' = [rows EXCEPT ![k + 1][profile].status = o]
      /\ results' = [results EXCEPT ![profile] = o]
      /\ UNCHANGED <<runState, generation, checkpoint, attempt, interrupted>>
  BY <1>1 DEF FinishValidation, Place, InLoop, Validating, env
<1>3. k + 1 \in 1..Attempts /\ o # "none"
  BY <1>2, AttemptsAssumption DEF Finished
<1>4. /\ \A a \in 1..Attempts, p \in Profiles :
           (a # k + 1 \/ p # profile) => rows'[a][p] = rows[a][p]
      /\ rows'[k + 1][profile].status = o
      /\ rows'[k + 1][profile].generation = rows[k + 1][profile].generation
      /\ rows[k + 1][profile] # NoRow
      /\ results'[profile] = o /\ \A p \in Profiles \ {profile} : results'[p] = results[p]
  BY <1>2, <1>3 DEF TypeOK, NoRow
<1>5. Tables(k)'
  <2>1. ASSUME NEW a \in 1..Attempts
        PROVE  /\ a < k => checkpoint'[a] = "failed"
               /\ a <= k => \A p \in Profiles : rows'[a][p].status \in Finished
               /\ a <= k => (checkpoint'[a] = "passed" <=>
                               Profiles # {} /\ \A p \in Profiles : rows'[a][p].status = "PASSED")
               /\ a > k + 1 => \A p \in Profiles : rows'[a][p] = NoRow
    <3>1. a # k + 1 => \A p \in Profiles : rows'[a][p] = rows[a][p]
      BY <1>4
    <3>2. QED
      BY <1>1, <1>2, <3>1 DEF Tables, Untouched
  <2>2. \A a \in 1..Attempts, p \in Profiles :
          rows'[a][p].status = "none" => rows'[a][p] = NoRow
    BY <1>1, <1>3, <1>4 DEF Tables
  <2>3. Recorded(k)' /\ AllFailed(k)'
    BY <1>1, <1>2 DEF Tables, Recorded, AllFailed
  <2>4. QED
    BY <2>1, <2>2, <2>3 DEF Tables, Untouched
<1>6. Place(k)'
  <2>1. \A p \in Profiles : results'[p] # "none" => rows'[k + 1][p].status = results'[p]
    BY <1>1, <1>2, <1>3, <1>4 DEF Place, Validating
  <2>2. QED
    BY <1>1, <1>2, <2>1 DEF Place, InLoop, Validating, AllFailed
<1>7. Fresh(k)'
  <2>1. ASSUME ~interrupted, runState = "VALIDATE", NEW p \in Profiles, rows'[k + 1][p] # NoRow
        PROVE  rows'[k + 1][p].generation = generation
    BY <1>1, <1>2, <1>3, <1>4, <2>1 DEF Fresh
  <2>2. k > 0 => checkpoint[k] # "passed"
    BY <1>2 DEF AllFailed
  <2>3. QED
    BY <1>2, <2>1, <2>2 DEF Fresh
<1>8. QED
  BY <1>5, <1>6, <1>7 DEF Inv

(* The checkpoint: one more attempt is recorded.                            *)
LEMMA CheckpointStep ==
  ASSUME TypeOK, NEW k \in 0..Attempts, Inv(k), SaveCheckpoint
  PROVE  k + 1 \in 0..Attempts /\ Inv(k + 1)'
<1>1. Tables(k) /\ Place(k) /\ Fresh(k)
  BY DEF Inv
<1>2. /\ pc = "validate" /\ pc' = "decide" /\ k < Attempts /\ attempt = k + 1
      /\ AllFailed(k) /\ runState \in {"VALIDATE", "CANCELLED"}
      /\ \A p \in Profiles : results[p] # "none" /\ rows[k + 1][p].status = results[p]
      /\ UNCHANGED <<runState, generation, rows, attempt, profile, results, interrupted>>
  BY <1>1 DEF SaveCheckpoint, Collected, Place, InLoop, Validating, local, env
<1>3. k + 1 \in 1..Attempts /\ k \in Int /\ Attempts \in Int
  BY <1>2, AttemptsAssumption
<1>4. /\ checkpoint'[k + 1] = IF AllPassed THEN "passed" ELSE "failed"
      /\ \A a \in 1..Attempts : a # k + 1 => checkpoint'[a] = checkpoint[a]
  BY <1>2, <1>3 DEF SaveCheckpoint, TypeOK
<1>5. /\ \A p \in Profiles : rows[k + 1][p].status \in Finished /\ rows[k + 1][p] # NoRow
      /\ AllPassed <=> Profiles # {} /\ \A p \in Profiles : rows[k + 1][p].status = "PASSED"
  BY <1>2 DEF TypeOK, AllPassed, NoRow, Finished
<1>6. PICK m : m = k + 1
  OBVIOUS
<1>7. Tables(m)'
  <2>1. ASSUME NEW a \in 1..Attempts
        PROVE  /\ checkpoint'[a] # "none" <=> a <= m
               /\ a < m => checkpoint'[a] = "failed"
               /\ a <= m => \A p \in Profiles : rows'[a][p].status \in Finished
               /\ a <= m => (checkpoint'[a] = "passed" <=>
                               Profiles # {} /\ \A p \in Profiles : rows'[a][p].status = "PASSED")
               /\ a > m => \A p \in Profiles : rows'[a][p] = NoRow
               /\ \A p \in Profiles : rows'[a][p].status = "none" => rows'[a][p] = NoRow
    <3>1. CASE a = m
      BY <1>2, <1>3, <1>4, <1>5, <1>6, <3>1 DEF Finished
    <3>2. CASE a > m
      BY <1>1, <1>2, <1>3, <1>4, <1>6, <3>2 DEF Tables, Recorded, Untouched
    <3>3. CASE a < m
      BY <1>1, <1>2, <1>3, <1>4, <1>6, <3>3 DEF Tables, Recorded, AllFailed
    <3>4. QED
      BY <1>3, <1>6, <3>1, <3>2, <3>3
  <2>2. \A a \in 1..Attempts : a > m + 1 => a > m
    BY <1>3, <1>6
  <2>3. \A a \in 1..Attempts : a = m + 1 => a > m
    BY <1>3, <1>6
  <2>4. QED
    BY <2>1, <2>2, <2>3 DEF Tables, Recorded, Untouched
<1>8. Place(m)'
  <2>1. m < Attempts => \A p \in Profiles : rows[m + 1][p] = NoRow
    BY <1>1, <1>3, <1>6 DEF Tables, Untouched
  <2>2. (checkpoint'[m] = "passed") <=> AllPassed'
    BY <1>2, <1>4, <1>6 DEF AllPassed
  <2>3. m > 0 /\ m = attempt'
    BY <1>2, <1>3, <1>6
  <2>4. QED
    BY <1>2, <2>1, <2>2, <2>3 DEF Place, InLoop, Validating, Untouched
<1>9. Fresh(m)'
  <2>1. m < Attempts => \A p \in Profiles : rows[m + 1][p] = NoRow
    BY <1>1, <1>3, <1>6 DEF Tables, Untouched
  <2>2. ~interrupted /\ runState = "VALIDATE" =>
          \A p \in Profiles : rows[m][p].generation = generation
    BY <1>1, <1>2, <1>5, <1>6 DEF Fresh
  <2>3. QED
    BY <1>2, <2>1, <2>2 DEF Fresh
<1>10. Inv(m)'
  BY <1>7, <1>8, <1>9 DEF Inv
<1>11. QED
  BY <1>3, <1>6, <1>10

LEMMA InvStep ==
  ASSUME IInv, [Next]_vars
  PROVE  IInv'
<1>1. PICK k \in 0..Attempts : Inv(k)
  BY DEF IInv
<1>2. TypeOK'
  BY <1>1, TypeStep DEF IInv, Inv
<1>3. TypeOK
  BY DEF IInv
<1>4. CASE SaveCheckpoint
  <2>1. PICK m : m = k + 1
    OBVIOUS
  <2>2. m \in 0..Attempts /\ Inv(m)'
    BY <1>1, <1>3, <1>4, <2>1, CheckpointStep
  <2>3. QED
    BY <1>2, <2>2 DEF IInv
<1>5. CASE ~SaveCheckpoint
  <2>1. Inv(k)'
    BY <1>1, <1>3, <1>5, LeaveSteps, StartSteps, LoopSteps, VerdictSteps, BeginStep, FinishStep
    DEF Next, Work
  <2>2. QED
    BY <1>2, <2>1 DEF IInv
<1>6. QED
  BY <1>4, <1>5

LEMMA InvHolds == Spec => []IInv
<1>1. Init => IInv
  <2> SUFFICES ASSUME Init PROVE IInv
    OBVIOUS
  <2>1. TypeOK
    <3>1. runState \in RunState
      BY Moves DEF Init
    <3>2. /\ 0 \in 0..MaxGeneration /\ 0 \in 0..MaxCrashes /\ 0 \in 0..MaxPauses
          /\ 0 \in 0..Attempts
      BY AttemptsAssumption, BoundsAssumption
    <3>3. rows \in [1..Attempts -> [Profiles ->
            [status : {"none", "RUNNING"} \cup Finished, generation : 0..MaxGeneration]]]
      BY <3>2 DEF Init, NoRow
    <3>4. QED
      BY <3>1, <3>2, <3>3 DEF Init, TypeOK, NoResults, Positions
  <2>2. Tables(0)
    BY DEF Init, Tables, Recorded, Untouched, NoRow, AllFailed
  <2>3. Place(0)
    BY DEF Init, Place, InLoop, Validating, AllFailed, Untouched
  <2>4. Fresh(0)
    BY DEF Init, Fresh
  <2>5. QED
    BY <2>1, <2>2, <2>3, <2>4, AttemptsAssumption DEF IInv, Inv
<1>2. IInv /\ [Next]_vars => IInv'
  BY InvStep
<1>3. QED
  BY <1>1, <1>2, PTL DEF Spec
-----------------------------------------------------------------------------
(* The variables have their types.                                          *)
THEOREM ValidationTypes == Spec => []TypeOK
<1>1. IInv => TypeOK
  BY DEF IInv
<1>2. QED
  BY <1>1, InvHolds, PTL

(* Approval is awaited only behind a passed newest checkpoint, and a        *)
(* checkpoint is passed exactly when every profile of its attempt passed.   *)
THEOREM PassIsEarned == Spec => []PassNeedsEveryProfile
<1>1. IInv => PassNeedsEveryProfile
  <2> SUFFICES ASSUME IInv PROVE PassNeedsEveryProfile
    OBVIOUS
  <2>1. PICK k \in 0..Attempts : Tables(k) /\ Place(k)
    BY DEF IInv, Inv
  <2>2. LastCheckpoint = k
    BY <2>1, LastIs DEF Tables
  <2>3. \A a \in 1..Attempts : checkpoint[a] # "none" => a <= k
    BY <2>1 DEF Tables, Recorded
  <2>4. runState = "AWAITING_PUBLISH_APPROVAL" => k > 0 /\ checkpoint[k] = "passed"
    BY <2>1 DEF Place
  <2>5. QED
    BY <2>1, <2>2, <2>3, <2>4 DEF Tables, PassNeedsEveryProfile
<1>2. QED
  BY <1>1, InvHolds, PTL

(* An attempt has results only after all before it were recorded as failed: *)
(* no restart skips an attempt or gains one.                                *)
THEOREM AttemptsComeInOrder == Spec => []AttemptsInOrder
<1>1. IInv => AttemptsInOrder
  <2> SUFFICES ASSUME IInv, NEW a \in 1..Attempts, NEW b \in 1..Attempts, a < b,
                      \E p \in Profiles : rows[b][p] # NoRow
               PROVE  checkpoint[a] = "failed"
    BY DEF AttemptsInOrder
  <2>1. PICK k \in 0..Attempts : Tables(k)
    BY DEF IInv, Inv
  <2>2. b <= k + 1 /\ (b = k + 1 => AllFailed(k))
    BY <2>1 DEF Tables, Untouched
  <2>3. CASE a < k
    BY <2>1, <2>3 DEF Tables
  <2>4. CASE a = k
    BY <2>2, <2>4 DEF AllFailed
  <2>5. QED
    BY <2>2, <2>3, <2>4
<1>2. QED
  BY <1>1, InvHolds, PTL

(* A run that awaits approval can be published, unless a crash fell between *)
(* the first result and the checkpoint of a repeated attempt.               *)
THEOREM AwaitingCanBePublished == Spec => []PublishableUnlessInterrupted
<1>1. IInv => PublishableUnlessInterrupted
  <2> SUFFICES ASSUME IInv, runState = "AWAITING_PUBLISH_APPROVAL", ~interrupted
               PROVE  Publishable
    BY DEF PublishableUnlessInterrupted
  <2>1. PICK k \in 0..Attempts : Tables(k) /\ Place(k) /\ Fresh(k)
    BY DEF IInv, Inv
  <2>2. LastCheckpoint = k
    BY <2>1, LastIs DEF Tables
  <2>3. k > 0 /\ checkpoint[k] = "passed"
    BY <2>1 DEF Place
  <2>4. Profiles # {} /\ \A p \in Profiles : rows[k][p].generation = generation
    BY <2>1, <2>3 DEF Tables, Fresh
  <2>5. QED
    BY <2>2, <2>3, <2>4 DEF Publishable
<1>2. QED
  BY <1>1, InvHolds, PTL

(* In a terminal state no profile is chosen, no mutation begun and no       *)
(* attempt implemented.                                                     *)
THEOREM CancelledRunsStartNothing == Spec => CancelStopsNewWork
<1>1. [Next]_vars =>
        [(runState \in Terminal) =>
           /\ runState' = runState
           /\ profile' \in {profile, NoProfile}
           /\ pc' = "mutate" => pc = "mutate"
           /\ pc' = "implement" => pc \in {"implement", "mutate"}]_vars
  <2> SUFFICES ASSUME [Next]_vars, runState \in Terminal
               PROVE  /\ runState' = runState
                      /\ profile' \in {profile, NoProfile}
                      /\ pc' = "mutate" => pc = "mutate"
                      /\ pc' = "implement" => pc \in {"implement", "mutate"}
    OBVIOUS
  <2>1. /\ \A to : ~Move(to)
        /\ runState \notin {"PLAN_READY", "IMPLEMENT", "VALIDATE"}
    BY DEF Move, ValidTransition, Terminal, Aborted
  <2>2. QED
    BY <2>1 DEF Next, Work, vars, durable, local, env, Leave, StartPlanned, StartImplement,
      ResumePassed, ResumeFailed, ResumeInterrupted, SelectAttempt, Exhausted, HeadImplement,
      HeadValidate, HeadNotResumable, OverLimit, BeginMutation, CommitMutation, ImplementDone,
      RequireValidate, ReuseResult, ChooseProfile, BeginValidation, FinishValidation,
      SaveCheckpoint, Passed, Correct, GiveUp, Raise, RaiseInvalid, Cancel, Crash
<1>2. QED
  BY <1>1, PTL DEF Spec, CancelStopsNewWork
=============================================================================
