--------------------------- MODULE RunStore_proofs ---------------------------
(***************************************************************************)
(* Proofs about RunStore, for any set of clients and any bound.            *)
(***************************************************************************)
EXTENDS RunStore, TLAPS

(* How far a run in state s has come; an aborted run is past everything.    *)
Height(s) == IF s \in Aborted THEN 10 ELSE Lifecycle!Rank[s]

(* The transition table, pair by pair. *)
LEMMA Edges ==
  AllowedTransitions =
    { <<"NEW", "INTAKE">>, <<"INTAKE", "ANALYZE">>, <<"ANALYZE", "PLAN_READY">>,
      <<"PLAN_READY", "IMPLEMENT">>, <<"IMPLEMENT", "VALIDATE">>,
      <<"VALIDATE", "AWAITING_PUBLISH_APPROVAL">>,
      <<"AWAITING_PUBLISH_APPROVAL", "PUBLISH">>, <<"PUBLISH", "REPORT">>,
      <<"REPORT", "SUCCEEDED">>, <<"VALIDATE", "IMPLEMENT">> }
<1>1. 1..9 = {1, 2, 3, 4, 5, 6, 7, 8, 9}
  OBVIOUS
<1>2. {<<Flow[i], Flow[i + 1]>> : i \in 1..9} =
        { <<Flow[1], Flow[2]>>, <<Flow[2], Flow[3]>>, <<Flow[3], Flow[4]>>,
          <<Flow[4], Flow[5]>>, <<Flow[5], Flow[6]>>, <<Flow[6], Flow[7]>>,
          <<Flow[7], Flow[8]>>, <<Flow[8], Flow[9]>>, <<Flow[9], Flow[10]>> }
  BY <1>1
<1>3. QED
  BY <1>2 DEF AllowedTransitions, Flow

(* The states, name by name. *)
LEMMA States ==
  RunState = { "NEW", "INTAKE", "ANALYZE", "PLAN_READY", "IMPLEMENT", "VALIDATE",
               "AWAITING_PUBLISH_APPROVAL", "PUBLISH", "REPORT", "SUCCEEDED",
               "FAILED", "CANCELLED" }
<1>1. 1..10 = {1, 2, 3, 4, 5, 6, 7, 8, 9, 10}
  OBVIOUS
<1>2. {Flow[i] : i \in 1..10} =
        {Flow[1], Flow[2], Flow[3], Flow[4], Flow[5], Flow[6], Flow[7], Flow[8],
         Flow[9], Flow[10]}
  BY <1>1
<1>3. QED
  BY <1>2 DEF RunState, Flow, Aborted

(* The two states of the loop own heights 4 and 5; heights are numbers.     *)
LEMMA Heights ==
  /\ \A s \in RunState : Height(s) \in 0..10
  /\ \A s \in RunState : Height(s) = 4 => s = "IMPLEMENT"
  /\ \A s \in RunState : Height(s) = 5 => s = "VALIDATE"
  /\ Height("IMPLEMENT") = 4
  /\ Height("VALIDATE") = 5
BY States DEF Height, Lifecycle!Rank, Aborted

(* Every transition the store accepts climbs, but for the correction loop.  *)
LEMMA ValidClimbs ==
  ASSUME NEW a \in RunState, NEW b \in RunState, ValidTransition(a, b)
  PROVE  Height(a) < Height(b) \/ (a = "VALIDATE" /\ b = "IMPLEMENT")
<1>1. CASE b \in Aborted
  BY <1>1, States DEF ValidTransition, Height, Lifecycle!Rank, Aborted, Terminal
<1>2. CASE <<a, b>> \in AllowedTransitions
  BY <1>2, Edges DEF Height, Lifecycle!Rank, Aborted
<1>3. QED
  BY <1>1, <1>2 DEF ValidTransition
-----------------------------------------------------------------------------
(* The inductive invariant.  The run is in the last state it visited, what a *)
(* client read is the visit it read at, and along the visits the height      *)
(* grows, but for the two states of the correction loop.                     *)
LastVisit ==
  /\ runState = NoRun => visits = << >>
  /\ runState # NoRun => Len(visits) > 0 /\ visits[Len(visits)] = runState

ReadsAreVisits ==
  \A c \in Clients : pc[c] = "read" =>
    /\ runState # NoRun
    /\ seenAt[c] \in 1..Len(visits)
    /\ seen[c] = visits[seenAt[c]]
    /\ seen[c] \in RunState
    /\ target[c] \in RunState

HistoryClimbs ==
  \A i, j \in 1..Len(visits) :
    i < j => \/ Height(visits[i]) < Height(visits[j])
             \/ visits[i] \in Loop /\ visits[j] \in Loop

History == LastVisit /\ ReadsAreVisits /\ HistoryClimbs

IInv == TypeOK /\ RecordsAgree /\ History

LEMMA InitIInv == Init => IInv
BY DEF Init, IInv, TypeOK, RecordsAgree, History, LastVisit, ReadsAreVisits, HistoryClimbs,
       RunState

LEMMA ReturnTyped ==
  ASSUME TypeOK, NEW c \in Clients, Return(c)
  PROVE  /\ pc' \in [Clients -> {"idle", "read"}]
         /\ seen' \in [Clients -> RunState \cup {NoRun}]
         /\ target' \in [Clients -> RunState \cup {NoRun}]
         /\ seenAt' \in [Clients -> Nat]
         /\ \A d \in Clients : pc'[d] = "read" =>
              d # c /\ pc[d] = "read" /\ seen'[d] = seen[d]
                /\ target'[d] = target[d] /\ seenAt'[d] = seenAt[d]
BY DEF TypeOK, Return

(* A run that enters a state higher than the one it is in, or that goes back *)
(* along the correction loop, keeps the history in order.                     *)
LEMMA EnterHistory ==
  ASSUME TypeOK, History, runState # NoRun, NEW s \in RunState, Enter(s),
         Height(runState) < Height(s) \/ (runState = "VALIDATE" /\ s = "IMPLEMENT"),
         \A d \in Clients : pc'[d] = "read" =>
              pc[d] = "read" /\ seen'[d] = seen[d] /\ target'[d] = target[d]
                /\ seenAt'[d] = seenAt[d]
  PROVE  History'
<1> DEFINE n == Len(visits)
<1>a. /\ runState \in RunState /\ visits \in Seq(RunState)
      /\ n \in Nat /\ n > 0 /\ visits[n] = runState
  BY DEF TypeOK, History, LastVisit
<1>b. /\ Len(visits') = n + 1 /\ visits'[n + 1] = s
      /\ \A i \in 1..n : visits'[i] = visits[i]
      /\ runState' = s
  BY <1>a DEF Enter
<1>c. s # NoRun
  BY States DEF NoRun
<1>1. LastVisit'
  BY <1>a, <1>b, <1>c DEF LastVisit
<1>2. ReadsAreVisits'
  BY <1>a, <1>b, <1>c DEF History, ReadsAreVisits
<1>3. HistoryClimbs'
  <2> SUFFICES ASSUME NEW i \in 1..n + 1, NEW j \in 1..n + 1, i < j
               PROVE  \/ Height(visits'[i]) < Height(visits'[j])
                      \/ visits'[i] \in Loop /\ visits'[j] \in Loop
    BY <1>b DEF HistoryClimbs, Height
  <2>1. CASE j \in 1..n
    <3>1. i \in 1..n
      BY <2>1, <1>a
    <3>2. QED
      BY <2>1, <3>1, <1>b DEF History, HistoryClimbs
  <2>2. CASE j = n + 1
    <3>1. visits'[j] = s /\ i \in 1..n /\ visits'[i] = visits[i] /\ visits[i] \in RunState
      BY <2>2, <1>a, <1>b
    <3>2. \/ visits[i] = runState
          \/ Height(visits[i]) < Height(runState)
          \/ visits[i] \in Loop /\ runState \in Loop
      <4>1. CASE i = n
        BY <4>1, <1>a
      <4>2. CASE i < n
        BY <4>2, <3>1, <1>a DEF History, HistoryClimbs
      <4>3. QED
        BY <4>1, <4>2, <3>1, <1>a
    <3>3. /\ Height(visits[i]) \in 0..10 /\ Height(runState) \in 0..10
          /\ Height(s) \in 0..10
      BY <3>1, <1>a, Heights
    <3>4. CASE Height(runState) < Height(s)
      <4>1. CASE visits[i] \in Loop /\ runState \in Loop
        <5>1. Height(visits[i]) \in {4, 5} /\ Height(runState) \in {4, 5}
          BY <4>1, Heights DEF Loop
        <5>2. Height(visits[i]) < Height(s) \/ Height(s) = 5
          BY <5>1, <3>3, <3>4
        <5>3. Height(s) = 5 => s = "VALIDATE"
          BY Heights
        <5>4. QED
          BY <4>1, <5>2, <5>3, <3>1 DEF Loop
      <4>2. QED
        BY <4>1, <3>1, <3>2, <3>3, <3>4
    <3>5. CASE runState = "VALIDATE" /\ s = "IMPLEMENT"
      <4>1. runState \in Loop /\ s \in Loop
        BY <3>5 DEF Loop
      <4>2. Height(runState) = 5 /\ Height(s) = 4
        BY <3>5, Heights
      <4>3. CASE visits[i] = runState \/ visits[i] \in Loop
        BY <3>1, <4>1, <4>3
      <4>4. CASE Height(visits[i]) < Height(runState)
        <5>1. Height(visits[i]) < Height(s) \/ Height(visits[i]) = 4
          BY <3>3, <4>2, <4>4
        <5>2. Height(visits[i]) = 4 => visits[i] \in Loop
          BY <3>1, Heights DEF Loop
        <5>3. CASE Height(visits[i]) < Height(s)
          BY <3>1, <5>3
        <5>4. QED
          BY <3>1, <4>1, <5>1, <5>2, <5>3
      <4>5. QED
        BY <3>2, <4>3, <4>4
    <3>6. QED
      BY <3>4, <3>5
  <2>3. QED
    BY <2>1, <2>2, <1>a
<1>4. QED
  BY <1>1, <1>2, <1>3 DEF History

(* A committed transition extends the log and the checkpoints by one row     *)
(* each and keeps the invariant.                                             *)
LEMMA CommitIInv ==
  ASSUME IInv, NEW c \in Clients, CommitTransition(c)
  PROVE  IInv'
<1> DEFINE n == Len(checkpoints)
<1>a. /\ seen[c] \in RunState /\ target[c] \in RunState
      /\ runState = seen[c] /\ runState # NoRun
      /\ ValidTransition(seen[c], target[c]) /\ Enter(target[c])
  BY DEF IInv, History, ReadsAreVisits, CommitTransition
<1>b. /\ checkpoints \in Seq(RunState) /\ committed \in Seq(RunState \X RunState)
      /\ n = Len(committed) + 1 /\ StandsFor(checkpoints[n], runState) /\ n \in Nat
  BY <1>a DEF IInv, TypeOK, RecordsAgree
<1>c. /\ Len(checkpoints') = n + 1
      /\ checkpoints'[n + 1] = target[c]
      /\ \A i \in 1..n : checkpoints'[i] = checkpoints[i]
      /\ checkpoints' \in Seq(RunState)
  BY <1>a, <1>b DEF CommitTransition
<1>d. /\ Len(committed') = n
      /\ committed'[n] = <<seen[c], target[c]>>
      /\ \A i \in 1..Len(committed) : committed'[i] = committed[i]
      /\ committed' \in Seq(RunState \X RunState)
  BY <1>a, <1>b DEF CommitTransition
<1>1. TypeOK'
  BY <1>a, <1>c, <1>d, ReturnTyped DEF IInv, TypeOK, CommitTransition, Enter
<1>2. RecordsAgree'
  <2>1. runState' = target[c] /\ runState' # NoRun
    BY <1>a, States DEF Enter, NoRun
  <2>2. checkpoints' # << >>
    BY <1>b, <1>c
  <2>3. \A i \in 1..Len(committed') :
          /\ StandsFor(checkpoints'[i], committed'[i][1])
          /\ committed'[i][2] = checkpoints'[i + 1]
    <3> SUFFICES ASSUME NEW i \in 1..Len(committed')
                 PROVE  /\ StandsFor(checkpoints'[i], committed'[i][1])
                        /\ committed'[i][2] = checkpoints'[i + 1]
      OBVIOUS
    <3>1. CASE i = n
      BY <3>1, <1>a, <1>b, <1>c, <1>d
    <3>2. CASE i # n
      <4>1. i \in 1..Len(committed) /\ i \in 1..n /\ i + 1 \in 1..n
        BY <3>2, <1>b, <1>d
      <4>2. QED
        BY <4>1, <1>a, <1>c, <1>d DEF IInv, RecordsAgree
    <3>3. QED
      BY <3>1, <3>2
  <2>4. StandsFor(target[c], target[c])
    BY DEF StandsFor
  <2>5. QED
    BY <2>1, <2>2, <2>3, <2>4, <1>b, <1>c, <1>d DEF RecordsAgree
<1>3. History'
  <2>1. Height(runState) < Height(target[c]) \/ (runState = "VALIDATE" /\ target[c] = "IMPLEMENT")
    BY <1>a, ValidClimbs
  <2>2. QED
    BY <1>a, <2>1, ReturnTyped, EnterHistory DEF IInv, CommitTransition
<1>4. QED
  BY <1>1, <1>2, <1>3 DEF IInv

(* Publication's own UPDATE moves the run and leaves its checkpoint behind.   *)
LEMMA PublicationIInv ==
  ASSUME IInv, NEW from \in RunState, NEW to \in RunState, PublicationMove(from, to)
  PROVE  IInv'
<1>1. /\ runState = from /\ Enter(to) /\ runState # NoRun
      /\ UNCHANGED <<checkpoints, committed, denied, pc, seen, target, seenAt>>
      /\ \/ runState = "AWAITING_PUBLISH_APPROVAL" /\ to = "PUBLISH"
         \/ runState = "PUBLISH" /\ to = "REPORT"
  BY States DEF PublicationMove, locals, NoRun
<1>2. TypeOK'
  BY <1>1 DEF IInv, TypeOK, Enter
<1>3. RecordsAgree'
  <2>1. runState' # NoRun /\ runState' = to
    BY <1>1, States DEF Enter, NoRun
  <2>2. \A k \in RunState : StandsFor(k, runState) => StandsFor(k, to)
    BY <1>1 DEF StandsFor
  <2>3. checkpoints # << >> /\ checkpoints[Len(checkpoints)] \in RunState
    BY <1>1 DEF IInv, TypeOK, RecordsAgree
  <2>4. QED
    BY <1>1, <2>1, <2>2, <2>3 DEF IInv, RecordsAgree
<1>4. History'
  <2>1. Height(runState) < Height(to)
    BY <1>1 DEF Height, Lifecycle!Rank, Aborted
  <2>2. QED
    BY <1>1, <2>1, EnterHistory DEF IInv
<1>5. QED
  BY <1>2, <1>3, <1>4 DEF IInv

(* Every other action leaves the store alone, except that create_run writes  *)
(* the first row.                                                            *)
LEMMA NextIInv == IInv /\ [Next]_vars => IInv'
<1> SUFFICES ASSUME IInv, [Next]_vars
             PROVE  IInv'
  OBVIOUS
<1>1. ASSUME NEW c \in Clients, CreateRun(c)
      PROVE  IInv'
  <2>1. committed = << >> /\ visits = << >> /\ \A d \in Clients : pc[d] # "read"
    BY <1>1 DEF IInv, RecordsAgree, History, LastVisit, ReadsAreVisits, CreateRun
  <2>2. /\ checkpoints' = << "NEW" >> /\ "NEW" \in RunState /\ runState' = "NEW"
        /\ visits' = << "NEW" >>
        /\ UNCHANGED <<committed, denied, pc, seen, target, seenAt>>
    BY <1>1, <2>1, States DEF CreateRun, Enter, locals
  <2>3. TypeOK'
    BY <2>2 DEF IInv, TypeOK
  <2>4. RecordsAgree'
    <3>1. /\ checkpoints' # << >> /\ Len(checkpoints') = 1 /\ checkpoints'[1] = "NEW"
          /\ Len(committed') = 0 /\ runState' # NoRun
      BY <2>1, <2>2 DEF NoRun
    <3>2. QED
      BY <3>1, <2>2 DEF RecordsAgree, StandsFor
  <2>5. History'
    <3>1. Len(visits') = 1 /\ visits'[1] = "NEW" /\ runState' # NoRun
      BY <2>2 DEF NoRun
    <3>2. LastVisit' /\ ReadsAreVisits'
      BY <2>1, <2>2, <3>1 DEF LastVisit, ReadsAreVisits
    <3>3. HistoryClimbs'
      BY <3>1 DEF HistoryClimbs
    <3>4. QED
      BY <3>2, <3>3 DEF History
  <2>6. QED
    BY <2>3, <2>4, <2>5 DEF IInv
<1>2. ASSUME NEW c \in Clients, NEW t \in RunState, ReadRun(c, t)
      PROVE  IInv'
  <2>1. TypeOK'
    BY <1>2 DEF IInv, TypeOK, ReadRun, store
  <2>2. RecordsAgree'
    BY <1>2 DEF IInv, RecordsAgree, ReadRun, store
  <2>3. History'
    <3>1. /\ runState \in RunState
          /\ Len(visits) \in 1..Len(visits) /\ runState = visits[Len(visits)]
      BY <1>2 DEF IInv, TypeOK, History, LastVisit, ReadRun
    <3>2. ReadsAreVisits'
      BY <1>2, <3>1 DEF IInv, TypeOK, History, ReadsAreVisits, ReadRun, store
    <3>3. LastVisit' /\ HistoryClimbs'
      BY <1>2 DEF IInv, History, LastVisit, HistoryClimbs, ReadRun, store, Height
    <3>4. QED
      BY <3>2, <3>3 DEF History
  <2>4. QED
    BY <2>1, <2>2, <2>3 DEF IInv
<1>3. ASSUME NEW c \in Clients, RejectInvalid(c) \/ RejectStale(c) \/ Crash(c)
      PROVE  IInv'
  <2>1. /\ Return(c) /\ UNCHANGED <<runState, checkpoints, committed, visits>>
        /\ denied' \in {"none", "invalid", "stale"}
    BY <1>3 DEF RejectInvalid, RejectStale, Crash, store, IInv, TypeOK
  <2>2. TypeOK'
    BY <2>1, ReturnTyped DEF IInv, TypeOK
  <2>3. RecordsAgree'
    BY <2>1 DEF IInv, RecordsAgree
  <2>4. History'
    BY <2>1, ReturnTyped DEF IInv, History, LastVisit, ReadsAreVisits, HistoryClimbs, Height
  <2>5. QED
    BY <2>2, <2>3, <2>4 DEF IInv
<1>4. CASE UNCHANGED vars
  BY <1>4 DEF IInv, TypeOK, RecordsAgree, History, LastVisit, ReadsAreVisits, HistoryClimbs,
     Height, vars, store, locals
<1>5. QED
  BY <1>1, <1>2, <1>3, <1>4, CommitIInv, PublicationIInv DEF Next

LEMMA Invariance == Spec => []IInv
BY InitIInv, NextIInv, PTL DEF Spec
-----------------------------------------------------------------------------
(* Every variable of the store keeps its type.                               *)
THEOREM RunStoreTypes == Spec => []TypeOK
<1>1. IInv => TypeOK
  BY DEF IInv
<1>2. QED
  BY Invariance, <1>1, PTL

(* The run's row, its newest checkpoint and the committed rows of its log    *)
(* agree after every transaction of transition() and create_run(), and lag   *)
(* behind publication's own moves by those alone.                             *)
THEOREM RecordsAlwaysAgree == Spec => []RecordsAgree
<1>1. IInv => RecordsAgree
  BY DEF IInv
<1>2. QED
  BY Invariance, <1>1, PTL

(* The read of transition() and the UPDATE of the same call see the same     *)
(* visit of a state, unless that state lies on the correction loop.          *)
THEOREM CommitsAgainstVisit == Spec => CommitsAgainstTheVisitRead
<1> DEFINE Fresh(c) == (pc[c] = "read" /\ pc'[c] = "idle" /\ committed' # committed)
                         => seenAt[c] = Len(visits) \/ seen[c] \in Loop
<1>1. ASSUME IInv, Next, NEW c \in Clients
      PROVE  Fresh(c)
  <2> SUFFICES ASSUME pc[c] = "read", pc'[c] = "idle", committed' # committed
               PROVE  seenAt[c] = Len(visits) \/ seen[c] \in Loop
    OBVIOUS
  <2>1. PICK d \in Clients : CommitTransition(d)
    BY <1>1 DEF Next, CreateRun, ReadRun, RejectInvalid, RejectStale, PublicationMove, Crash, store
  <2>2. d = c
    BY <1>1, <2>1 DEF CommitTransition, Return, IInv, TypeOK
  <2>3. /\ seenAt[c] \in 1..Len(visits) /\ seen[c] = visits[seenAt[c]]
        /\ seen[c] = runState /\ seen[c] \in RunState
        /\ visits[Len(visits)] = runState
    BY <1>1, <2>1, <2>2 DEF IInv, History, LastVisit, ReadsAreVisits, CommitTransition
  <2>4. Len(visits) \in Nat
    BY <1>1 DEF IInv, TypeOK
  <2>5. CASE seenAt[c] < Len(visits)
    <3>1. \/ Height(visits[seenAt[c]]) < Height(visits[Len(visits)])
          \/ visits[seenAt[c]] \in Loop
      <4>1. Len(visits) \in 1..Len(visits)
        BY <2>3, <2>4, <2>5
      <4>2. HistoryClimbs
        BY <1>1 DEF IInv, History
      <4>3. QED
        BY <2>3, <2>5, <4>1, <4>2 DEF HistoryClimbs
    <3>2. Height(seen[c]) \in 0..10
      BY <2>3, Heights
    <3>3. QED
      BY <2>3, <3>1, <3>2
  <2>6. QED
    BY <2>3, <2>4, <2>5
<1>2. IInv /\ [Next]_vars => [\A c \in Clients : Fresh(c)]_vars
  BY <1>1
<1>3. QED
  BY Invariance, <1>2, PTL DEF Spec, CommitsAgainstTheVisitRead

(* The concurrent store implements the abstract lifecycle of a run.          *)
THEOREM StoreImplementsLifecycle == Spec => LifecycleSpec
<1>1. Init => Lifecycle!Init
  BY DEF Init, Lifecycle!Init, NoRun, Lifecycle!NoRun
<1>2. ASSUME IInv, Next
      PROVE  [Lifecycle!Next]_runState
  <2>1. CASE \E c \in Clients : CreateRun(c)
    BY <2>1 DEF CreateRun, Enter, Lifecycle!Next, Lifecycle!Create, NoRun, Lifecycle!NoRun
  <2>2. ASSUME NEW c \in Clients, CommitTransition(c)
        PROVE  Lifecycle!Next
    <3>1. /\ runState \in RunState /\ runState' = target[c]
          /\ runState \notin Terminal
          /\ <<runState, target[c]>> \in AllowedTransitions \/ target[c] \in Aborted
      BY <1>2, <2>2 DEF IInv, History, ReadsAreVisits, CommitTransition, Enter, ValidTransition
    <3>2. runState \in Lifecycle!Live
      BY <3>1, States DEF Lifecycle!Live, Lifecycle!Rank, Terminal, Aborted
    <3>3. CASE target[c] \in Aborted
      BY <3>1, <3>2, <3>3 DEF Aborted, Lifecycle!Next, Lifecycle!Abort
    <3>4. CASE runState = "VALIDATE" /\ target[c] = "IMPLEMENT"
      BY <3>1, <3>4 DEF Lifecycle!Next, Lifecycle!Rework
    <3>5. CASE /\ <<runState, target[c]>> \in AllowedTransitions
               /\ ~(runState = "VALIDATE" /\ target[c] = "IMPLEMENT")
      <4>1. /\ target[c] \in DOMAIN Lifecycle!Rank
            /\ Lifecycle!Rank[target[c]] = Lifecycle!Rank[runState] + 1
        BY <3>5, Edges DEF Lifecycle!Rank
      <4>2. QED
        BY <3>1, <3>2, <4>1 DEF Lifecycle!Next, Lifecycle!Forward
    <3>6. QED
      BY <3>1, <3>3, <3>4, <3>5
  <2>3. CASE \E c \in Clients : \/ \E t \in RunState : ReadRun(c, t)
                                \/ RejectInvalid(c) \/ RejectStale(c) \/ Crash(c)
    BY <2>3 DEF ReadRun, RejectInvalid, RejectStale, Crash, store
  <2>4. ASSUME NEW from \in RunState, NEW to \in RunState, PublicationMove(from, to)
        PROVE  Lifecycle!Next
    <3>1. /\ runState' = to
          /\ \/ runState = "AWAITING_PUBLISH_APPROVAL" /\ to = "PUBLISH"
             \/ runState = "PUBLISH" /\ to = "REPORT"
      BY <2>4 DEF PublicationMove, Enter
    <3>2. runState \in Lifecycle!Live
      BY <3>1 DEF Lifecycle!Live, Lifecycle!Rank
    <3>3. /\ to \in DOMAIN Lifecycle!Rank
          /\ Lifecycle!Rank[to] = Lifecycle!Rank[runState] + 1
      BY <3>1 DEF Lifecycle!Rank
    <3>4. QED
      BY <3>1, <3>2, <3>3 DEF Lifecycle!Next, Lifecycle!Forward
  <2>5. QED
    BY <1>2, <2>1, <2>2, <2>3, <2>4 DEF Next
<1>3. IInv /\ [Next]_vars => [Lifecycle!Next]_runState
  BY <1>2 DEF vars, store
<1>4. QED
  BY Invariance, <1>1, <1>3, PTL DEF Spec, LifecycleSpec, Lifecycle!Spec
=============================================================================
