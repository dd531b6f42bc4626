-------------------------- MODULE Reporting_proofs --------------------------
(***************************************************************************)
(* Proofs about Reporting, for any workers, sessions, approvals, number of  *)
(* faults and kinds of late answers.                                        *)
(***************************************************************************)
EXTENDS Reporting, TLAPS

(* Where a worker deals with the transition it was asked for.               *)
Transiting == {"check", "consume", "move", "moved", "not moved", "reconcile", "satisfy"}

Arguments == \A w \in Workers : pc[w] \in Transiting => call[w].approval \in Approvals

TypeInv == TypeOK /\ Arguments

(* The states in which a run is reported are states of a run.               *)
LEMMA ReportingStates == {"REPORT", "SUCCEEDED", "CANCELLED"} \subseteq RunState
<1>1. Flow[9] = "REPORT" /\ Flow[10] = "SUCCEEDED" /\ 9 \in 1..10 /\ 10 \in 1..10
  BY DEF Flow
<1>2. QED
  BY <1>1 DEF RunState, Aborted

(* A worker that leaves, or goes on from where it is.                       *)
LEMMA WorkerTypes ==
  ASSUME TypeInv, NEW w \in Workers
  PROVE  /\ Leave(w) => /\ pc' \in [Workers -> Positions] /\ pc'[w] = "idle"
                        /\ call' \in [Workers -> [approval : Approvals \cup {None},
                                                  configured : BOOLEAN]]
                        /\ \A v \in Workers \ {w} : pc'[v] = pc[v] /\ call'[v] = call[v]
         /\ \A l \in Positions : pc' = [pc EXCEPT ![w] = l] =>
              /\ pc' \in [Workers -> Positions] /\ pc'[w] = l
              /\ \A v \in Workers \ {w} : pc'[v] = pc[v]
<1>1. pc \in [Workers -> Positions] /\ "idle" \in Positions
  BY DEF TypeInv, TypeOK, Positions
<1>2. /\ call \in [Workers -> [approval : Approvals \cup {None}, configured : BOOLEAN]]
      /\ NoCall \in [approval : Approvals \cup {None}, configured : BOOLEAN]
  BY DEF TypeInv, TypeOK, NoCall
<1>3. QED
  BY <1>1, <1>2 DEF Leave

(* The moves of a worker that has a call: it leaves, or goes on with the    *)
(* same call, and to a transition only with an approval.                    *)
Proceeds(w) ==
  \/ Leave(w)
  \/ /\ pc[w] # "idle" /\ call' = call
     /\ \E l \in Positions :
          /\ pc' = [pc EXCEPT ![w] = l]
          /\ l \in Transiting => call[w].approval \in Approvals

LEMMA ProceedsTypes ==
  ASSUME TypeInv, NEW w \in Workers, Proceeds(w)
  PROVE  /\ pc' \in [Workers -> Positions]
         /\ call' \in [Workers -> [approval : Approvals \cup {None}, configured : BOOLEAN]]
         /\ Arguments'
         /\ \A v \in Workers \ {w} : pc'[v] = pc[v] /\ call'[v] = call[v]
<1>1. call \in [Workers -> [approval : Approvals \cup {None}, configured : BOOLEAN]]
  BY DEF TypeInv, TypeOK
<1>2. /\ pc' \in [Workers -> Positions]
      /\ call' \in [Workers -> [approval : Approvals \cup {None}, configured : BOOLEAN]]
      /\ \A v \in Workers \ {w} : pc'[v] = pc[v] /\ call'[v] = call[v]
      /\ pc'[w] \in Transiting => call'[w].approval \in Approvals
  BY <1>1, WorkerTypes DEF Proceeds, Transiting
<1>3. Arguments'
  BY <1>2 DEF Arguments, TypeInv
<1>4. QED
  BY <1>2, <1>3

(* Every step of a worker that has a call proceeds.                         *)
LEMMA WorkProceeds ==
  ASSUME TypeInv, NEW w \in Workers,
         Work(w) \/ PostTimesOut(w) \/ PostFails(w) \/ MoveFails(w) \/ Fail(w)
  PROVE  Proceeds(w)
<1>1. pc[w] \in Transiting => call[w].approval \in Approvals
  BY DEF TypeInv, Arguments
<1>2. call[w].approval # None => call[w].approval \in Approvals
  BY DEF TypeInv, TypeOK
<1>3. CASE \/ NotReportable(w) \/ IntendRefused(w) \/ Uncertain(w) \/ DenyTransition(w)
           \/ DenyConsume(w) \/ RecordUncertain(w) \/ Unreconciled(w) \/ Finish(w)
           \/ PostFails(w) \/ Fail(w)
  BY <1>3 DEF NotReportable, IntendRefused, Uncertain, DenyTransition, DenyConsume,
    RecordUncertain, Unreconciled, Finish, PostFails, Fail, Proceeds
<1>4. CASE ReadRow(w)
  <2>1. PICK l \in {"intent", "find", "after comment"} : pc' = [pc EXCEPT ![w] = l]
    BY <1>4 DEF ReadRow, TypeInv, TypeOK
  <2>2. QED
    BY <1>4, <2>1 DEF ReadRow, Proceeds, Positions, Transiting
<1>5. CASE ReadMove(w)
  <2>1. PICK l \in {"check", "finish", "reconcile"} : pc' = [pc EXCEPT ![w] = l]
    BY <1>5 DEF ReadMove
  <2>2. QED
    BY <1>2, <1>5, <2>1 DEF ReadMove, Proceeds, Positions, Transiting
<1>6. CASE \/ IntendComment(w) \/ FindComment(w) \/ PostComment(w) \/ FindAgain(w)
           \/ RecordComment(w) \/ NoTransition(w) \/ PostTimesOut(w)
  BY <1>6 DEF IntendComment, FindComment, PostComment, FindAgain, RecordComment, NoTransition,
    PostTimesOut, Go, Proceeds, Positions, Transiting
<1>7. CASE \/ CheckTransition(w) \/ Consume(w) \/ MoveIssue(w) \/ RecordMove(w) \/ Reconcile(w)
           \/ Satisfy(w) \/ MoveFails(w)
  BY <1>1, <1>7 DEF CheckTransition, Consume, MoveIssue, RecordMove, Reconcile, Satisfy, MoveFails,
    Go, Proceeds, Positions, Transiting
<1>8. QED
  BY <1>3, <1>4, <1>5, <1>6, <1>7 DEF Work

(* The types of the tables and of the remote system.                        *)
StoreTypes ==
  /\ runState \in RunState /\ reportable \in BOOLEAN
  /\ report \in {"none", "INTENT", "SUCCEEDED"}
  /\ approvals \in [Approvals -> {"none", "PENDING", "APPROVED", "CONSUMED"}]
  /\ moves \in [Approvals -> MoveStatus]
  /\ expired \in SUBSET Approvals
  /\ comments \in Nat /\ lateComments \in Nat
  /\ issue \in {"open", "target"}
  /\ posts \in [Approvals -> Nat] /\ latePosts \in [Approvals -> Nat]
  /\ holding \in [Sessions -> Approvals \cup {None}]
  /\ faults \in 0..MaxFaults

LEMMA WorkStores ==
  ASSUME TypeInv, NEW w \in Workers,
         Work(w) \/ PostTimesOut(w) \/ PostFails(w) \/ MoveFails(w) \/ Fail(w)
  PROVE  StoreTypes' /\ holding' = holding
<1>1. StoreTypes /\ (pc[w] \in Transiting => call[w].approval \in Approvals)
  BY DEF TypeInv, TypeOK, Arguments, StoreTypes
<1>2. Fault => faults' \in 0..MaxFaults
  BY <1>1, FaultsAssumption DEF Fault, StoreTypes
<1>3. CASE \/ ReadRow(w) \/ NotReportable(w) \/ IntendRefused(w) \/ FindComment(w)
           \/ FindAgain(w) \/ Uncertain(w) \/ NoTransition(w) \/ ReadMove(w)
           \/ CheckTransition(w) \/ DenyTransition(w) \/ DenyConsume(w) \/ Reconcile(w)
           \/ Unreconciled(w) \/ Fail(w)
  <2>1. UNCHANGED <<runVars, remoteVars, holding>> /\ (faults' = faults \/ Fault)
    BY <1>3 DEF ReadRow, NotReportable, IntendRefused, FindComment, FindAgain, Uncertain,
      NoTransition, ReadMove, CheckTransition, DenyTransition, DenyConsume, Reconcile,
      Unreconciled, Fail
  <2>2. QED
    BY <1>1, <1>2, <2>1 DEF StoreTypes, runVars, remoteVars
<1>4. CASE IntendComment(w) \/ RecordComment(w) \/ Finish(w)
  <2>1. /\ report' \in {"none", "INTENT", "SUCCEEDED"} /\ runState' \in RunState
        /\ UNCHANGED <<reportable, approvals, moves, expired, remoteVars, holding, faults>>
    BY <1>1, <1>4, ReportingStates DEF IntendComment, RecordComment, Finish, StoreTypes
  <2>2. QED
    BY <1>1, <2>1 DEF StoreTypes, remoteVars
<1>5. CASE PostComment(w) \/ PostTimesOut(w) \/ PostFails(w)
  <2>1. /\ comments' \in {comments, comments + 1}
        /\ lateComments' \in {lateComments, lateComments + 1}
        /\ faults' = faults \/ Fault
        /\ UNCHANGED <<runVars, issue, posts, latePosts, holding>>
    BY <1>5 DEF PostComment, PostTimesOut, PostFails, LostComment
  <2>2. QED
    BY <1>1, <1>2, <2>1 DEF StoreTypes, runVars
<1>6. CASE Consume(w) \/ RecordMove(w) \/ RecordUncertain(w) \/ Satisfy(w)
  <2>1. call[w].approval \in Approvals
    BY <1>1, <1>6 DEF Consume, RecordMove, RecordUncertain, Satisfy, Go, Transiting
  <2>2. /\ approvals' \in [Approvals -> {"none", "PENDING", "APPROVED", "CONSUMED"}]
        /\ moves' \in [Approvals -> MoveStatus]
        /\ UNCHANGED <<runState, reportable, report, expired, remoteVars, holding, faults>>
    BY <1>1, <1>6, <2>1 DEF Consume, RecordMove, RecordUncertain, Satisfy, StoreTypes, MoveStatus
  <2>3. QED
    BY <1>1, <2>2 DEF StoreTypes, remoteVars
<1>7. CASE MoveIssue(w) \/ MoveFails(w)
  <2>1. call[w].approval \in Approvals
    BY <1>1, <1>7 DEF MoveIssue, MoveFails, Go, Transiting
  <2>2. /\ issue' \in {"open", "target"} /\ faults' \in 0..MaxFaults
        /\ UNCHANGED <<runVars, comments, lateComments, holding>>
        /\ \/ posts' = posts
           \/ posts' = [posts EXCEPT ![call[w].approval] = posts[call[w].approval] + 1]
        /\ \/ latePosts' = latePosts
           \/ latePosts' = [latePosts EXCEPT ![call[w].approval]
                              = latePosts[call[w].approval] + 1]
    BY <1>1, <1>2, <1>7 DEF MoveIssue, MoveFails, StoreTypes
  <2>3. QED
    BY <1>1, <2>1, <2>2 DEF StoreTypes, runVars
<1>8. QED
  BY <1>3, <1>4, <1>5, <1>6, <1>7 DEF Work

LEMMA TypeStep ==
  ASSUME TypeInv, [Next]_vars
  PROVE  TypeInv'
<1>1. ASSUME NEW p \in Approvals, RequestTransition(p) \/ Expire(p) \/ LandMove(p) PROVE TypeInv'
  <2>1. CASE RequestTransition(p) \/ Expire(p)
    BY <2>1 DEF RequestTransition, Expire, TypeInv, TypeOK, Arguments, remoteVars
  <2>2. CASE LandMove(p)
    <3>1. posts' \in [Approvals -> Nat] /\ latePosts' \in [Approvals -> Nat]
      BY <2>2 DEF LandMove, TypeInv, TypeOK
    <3>2. QED
      BY <2>2, <3>1 DEF LandMove, TypeInv, TypeOK, Arguments, runVars
  <2>3. QED
    BY <1>1, <2>1, <2>2
<1>2. ASSUME NEW s \in Sessions, NEW p \in Approvals, ApproveRead(s, p) PROVE TypeInv'
  BY <1>2 DEF ApproveRead, TypeInv, TypeOK, Arguments, runVars, remoteVars
<1>3. ASSUME NEW s \in Sessions, ApproveWrite(s) PROVE TypeInv'
  <2>1. holding[s] \in Approvals
    BY <1>3 DEF ApproveWrite, TypeInv, TypeOK
  <2>2. /\ approvals' \in [Approvals -> {"none", "PENDING", "APPROVED", "CONSUMED"}]
        /\ holding' \in [Sessions -> Approvals \cup {None}]
    BY <1>3, <2>1 DEF ApproveWrite, TypeInv, TypeOK
  <2>3. QED
    BY <1>3, <2>2 DEF ApproveWrite, TypeInv, TypeOK, Arguments, remoteVars
<1>4. ASSUME NEW w \in Workers, NEW a \in Approvals \cup {None}, StartReport(w, a) PROVE TypeInv'
  <2>1. PICK c \in BOOLEAN : call' = [call EXCEPT ![w] = [approval |-> a, configured |-> c]]
    BY <1>4 DEF StartReport
  <2>2. /\ pc' = [pc EXCEPT ![w] = "row"]
        /\ UNCHANGED <<runVars, remoteVars, holding, faults>>
    BY <1>4 DEF StartReport, Go
  <2>3. /\ pc' \in [Workers -> Positions]
        /\ call' \in [Workers -> [approval : Approvals \cup {None}, configured : BOOLEAN]]
    BY <2>1, <2>2 DEF TypeInv, TypeOK, Positions
  <2>4. Arguments'
    BY <2>1, <2>2 DEF TypeInv, TypeOK, Arguments, Transiting
  <2>5. QED
    BY <2>2, <2>3, <2>4 DEF TypeInv, TypeOK, runVars, remoteVars
<1>5. ASSUME NEW w \in Workers,
             Work(w) \/ PostTimesOut(w) \/ PostFails(w) \/ MoveFails(w) \/ Fail(w)
      PROVE  TypeInv'
  BY <1>5, WorkProceeds, WorkStores, ProceedsTypes DEF TypeInv, TypeOK, StoreTypes
<1>6. CASE LandComment \/ ManualMove \/ Cancel
  BY <1>6, ReportingStates DEF LandComment, ManualMove, Cancel, TypeInv, TypeOK, Arguments, runVars,
    remoteVars
<1>7. CASE UNCHANGED vars
  BY <1>7 DEF vars, runVars, remoteVars, TypeInv, TypeOK, Arguments
<1>8. QED
  BY <1>1, <1>2, <1>3, <1>4, <1>5, <1>6, <1>7 DEF Next

LEMMA TypesHold == Spec => []TypeInv
<1>1. Init => TypeInv
  <2>1. Init => TypeOK
    BY ReportingStates, FaultsAssumption DEF Init, NoCall, TypeOK, MoveStatus, Positions
  <2>2. Init => Arguments
    BY DEF Init, Arguments, Transiting
  <2>3. QED
    BY <2>1, <2>2 DEF TypeInv
<1>2. TypeInv /\ [Next]_vars => TypeInv'
  BY TypeStep
<1>3. QED
  BY <1>1, <1>2, PTL DEF Spec

(* The variables have their types.                                          *)
THEOREM ReportingTypes == Spec => []TypeOK
<1>1. TypeInv => TypeOK
  BY DEF TypeInv
<1>2. QED
  BY <1>1, TypesHold, PTL
-----------------------------------------------------------------------------
(* The inductive invariant.  Beyond what the runs check it says             *)
(*  - that what a session is about to approve has been asked for;           *)
(*  - what the place of a worker tells of the two outboxes and of JIRA: no  *)
(*    POST without an intent, no step past the comment without its record,  *)
(*    no POST of a transition that was posted before;                       *)
(*  - that one worker at most is about to post a transition.                *)
Moving == {"move", "moved", "not moved"}

Commented == {"after comment", "finish"} \cup Transiting

HeldIsAsked == \A s \in Sessions : holding[s] # None => approvals[holding[s]] # "none"

Place(w) ==
  /\ pc[w] \in {"find", "post", "find again", "record"} => report # "none"
  /\ pc[w] = "record" => comments > 0
  /\ pc[w] \in Commented => report = "SUCCEEDED"
  /\ pc[w] \in Moving \cup {"reconcile", "satisfy"} => moves[call[w].approval] # "none"
  /\ pc[w] = "move" => posts[call[w].approval] + latePosts[call[w].approval] = 0
  /\ pc[w] = "moved" => posts[call[w].approval] = 1

OneMover ==
  \A v, w \in Workers :
    v # w /\ pc[v] \in Moving /\ pc[w] \in Moving => call[v].approval # call[w].approval

CommentIsIntended == comments + lateComments > 0 => report # "none"

Standing == HeldIsAsked /\ (\A w \in Workers : Place(w)) /\ OneMover

IInv == Standing /\ CommentIsIntended /\ SuccessIsReported /\ MovesAtMostOnce

(* What a step of one worker may do to the others.                          *)
LEMMA OthersStand ==
  ASSUME TypeInv, Standing, NEW w \in Workers, Proceeds(w), holding' = holding,
         report # "none" => report' # "none",
         report = "SUCCEEDED" => report' = "SUCCEEDED",
         comments > 0 => comments' > 0,
         \A p \in Approvals :
           /\ moves[p] # "none" => moves'[p] # "none"
           /\ approvals[p] # "none" => approvals'[p] # "none"
           /\ \/ posts'[p] = posts[p] /\ latePosts'[p] = latePosts[p]
              \/ pc[w] = "move" /\ p = call[w].approval,
         pc'[w] \in Moving => pc[w] \in Moving \/ moves[call[w].approval] = "none",
         Place(w)'
  PROVE  Standing'
<1>1. /\ \A v \in Workers \ {w} : pc'[v] = pc[v] /\ call'[v] = call[v]
      /\ pc'[w] \in Moving => call'[w] = call[w]
  BY ProceedsTypes, WorkerTypes DEF Proceeds, Moving
<1>2. \A v \in Workers : pc[v] \in Transiting => call[v].approval \in Approvals
  BY DEF TypeInv, Arguments
<1>3. HeldIsAsked'
  BY DEF HeldIsAsked, Standing, TypeInv, TypeOK
<1>4. ASSUME NEW v \in Workers, v # w PROVE Place(v)'
  <2>1. Place(v) /\ pc'[v] = pc[v] /\ call'[v] = call[v]
    BY <1>1, <1>4 DEF Standing
  <2>2. pc[v] \in Moving /\ pc[w] \in Moving => call[v].approval # call[w].approval
    BY <1>4 DEF Standing, OneMover
  <2>3. pc[v] \in {"move", "moved"} =>
          /\ posts'[call[v].approval] = posts[call[v].approval]
          /\ latePosts'[call[v].approval] = latePosts[call[v].approval]
    BY <1>2, <2>2 DEF Moving, Transiting
  <2>4. pc[v] \in Moving \cup {"reconcile", "satisfy"} => moves'[call[v].approval] # "none"
    BY <1>2, <2>1 DEF Place, Moving, Transiting
  <2>5. QED
    BY <2>1, <2>3, <2>4 DEF Place
<1>5. OneMover'
  <2> SUFFICES ASSUME NEW u \in Workers, NEW v \in Workers, u # v,
                      pc'[u] \in Moving, pc'[v] \in Moving
               PROVE  call'[u].approval # call'[v].approval
    BY DEF OneMover
  <2>1. ASSUME NEW x \in Workers, x # w, pc'[x] \in Moving, pc'[w] \in Moving
        PROVE  call'[x].approval # call'[w].approval
    <3>1. pc[x] \in Moving /\ call'[x] = call[x] /\ call'[w] = call[w]
      BY <1>1, <2>1
    <3>2. CASE pc[w] \in Moving
      BY <2>1, <3>1, <3>2 DEF Standing, OneMover
    <3>3. CASE moves[call[w].approval] = "none"
      <4>1. moves[call[x].approval] # "none"
        BY <3>1 DEF Standing, Place
      <4>2. QED
        BY <3>1, <3>3, <4>1
    <3>4. QED
      BY <2>1, <3>2, <3>3
  <2>2. CASE u # w /\ v # w
    BY <1>1, <2>2 DEF Standing, OneMover
  <2>3. QED
    BY <2>1, <2>2
<1>6. QED
  BY <1>3, <1>4, <1>5 DEF Standing

(* A worker that reads, or gives up.                                        *)
LEMMA ReadsKeep ==
  ASSUME TypeInv, IInv, NEW w \in Workers,
         \/ ReadRow(w) \/ NotReportable(w) \/ IntendRefused(w) \/ FindComment(w)
         \/ FindAgain(w) \/ Uncertain(w) \/ NoTransition(w) \/ ReadMove(w)
         \/ CheckTransition(w) \/ DenyTransition(w) \/ DenyConsume(w) \/ Reconcile(w)
         \/ Unreconciled(w) \/ Fail(w)
  PROVE  IInv'
<1>1. UNCHANGED <<runVars, remoteVars, holding>> /\ Proceeds(w)
  BY WorkProceeds DEF Work, ReadRow, NotReportable, IntendRefused, FindComment, FindAgain,
    Uncertain, NoTransition, ReadMove, CheckTransition, DenyTransition, DenyConsume, Reconcile,
    Unreconciled, Fail
<1>2. CommentIsIntended' /\ SuccessIsReported' /\ MovesAtMostOnce'
  BY <1>1 DEF IInv, CommentIsIntended, SuccessIsReported, MovesAtMostOnce, runVars, remoteVars
<1>3. /\ Place(w)
      /\ report \in {"none", "INTENT", "SUCCEEDED"} /\ comments \in Nat
  BY DEF IInv, Standing, TypeInv, TypeOK
<1>4. Place(w)' /\ pc'[w] \notin Moving
  <2>1. CASE \/ NotReportable(w) \/ IntendRefused(w) \/ Uncertain(w) \/ DenyTransition(w)
             \/ DenyConsume(w) \/ Unreconciled(w) \/ Fail(w)
    <3>1. pc'[w] = "idle"
      BY <2>1, WorkerTypes DEF NotReportable, IntendRefused, Uncertain, DenyTransition,
        DenyConsume, Unreconciled, Fail
    <3>2. QED
      BY <3>1 DEF Place, Moving, Commented, Transiting
  <2>2. CASE ReadRow(w)
    <3>1. \/ pc'[w] = "intent"
          \/ pc'[w] = "find" /\ report = "INTENT"
          \/ pc'[w] = "after comment" /\ report = "SUCCEEDED"
      BY <1>3, <2>2 DEF ReadRow, TypeInv, TypeOK
    <3>2. QED
      BY <1>1, <3>1 DEF Place, Moving, Commented, Transiting, runVars
  <2>3. CASE FindComment(w)
    <3>1. /\ pc[w] = "find"
          /\ \/ pc'[w] = "record" /\ comments > 0
             \/ pc'[w] = "post"
      BY <2>3 DEF FindComment, TypeInv, TypeOK
    <3>2. QED
      BY <1>1, <1>3, <3>1 DEF Place, Moving, Commented, Transiting, runVars, remoteVars
  <2>4. CASE FindAgain(w)
    <3>1. pc[w] = "find again" /\ comments > 0 /\ pc'[w] = "record"
      BY <2>4 DEF FindAgain, Go, TypeInv, TypeOK
    <3>2. QED
      BY <1>1, <1>3, <3>1 DEF Place, Moving, Commented, Transiting, runVars, remoteVars
  <2>5. CASE NoTransition(w) \/ ReadMove(w) \/ CheckTransition(w)
    <3>1. /\ pc[w] \in {"after comment", "check"}
          /\ \/ pc'[w] \in {"finish", "check", "consume"}
             \/ /\ pc'[w] = "reconcile" /\ call' = call
                /\ moves[call[w].approval] # "none"
      BY <2>5 DEF NoTransition, ReadMove, CheckTransition, Go, TypeInv, TypeOK
    <3>2. QED
      BY <1>1, <1>3, <3>1 DEF Place, Moving, Commented, Transiting, runVars
  <2>6. CASE Reconcile(w)
    <3>1. pc[w] = "reconcile" /\ pc'[w] = "satisfy" /\ call' = call
      BY <2>6 DEF Reconcile, Go, TypeInv, TypeOK
    <3>2. QED
      BY <1>1, <1>3, <3>1 DEF Place, Moving, Commented, Transiting, runVars
  <2>7. QED
    BY <2>1, <2>2, <2>3, <2>4, <2>5, <2>6
<1>5. Standing'
  BY <1>1, <1>4, OthersStand DEF IInv, runVars, remoteVars
<1>6. QED
  BY <1>2, <1>5 DEF IInv

(* The comment: its intent, its POST, its record, and the end of the run.    *)
LEMMA CommentKeeps ==
  ASSUME TypeInv, IInv, NEW w \in Workers,
         \/ IntendComment(w) \/ PostComment(w) \/ PostTimesOut(w) \/ PostFails(w)
         \/ RecordComment(w) \/ Finish(w)
  PROVE  IInv'
<1>1. Proceeds(w) /\ UNCHANGED <<approvals, moves, posts, latePosts, holding>>
  BY WorkProceeds DEF Work, IntendComment, PostComment, PostTimesOut, PostFails, RecordComment,
    Finish, runVars, remoteVars
<1>2. /\ Place(w)
      /\ report \in {"none", "INTENT", "SUCCEEDED"}
      /\ comments \in Nat /\ lateComments \in Nat
      /\ CommentIsIntended /\ SuccessIsReported
  BY DEF IInv, Standing, TypeInv, TypeOK
<1>3. MovesAtMostOnce'
  BY <1>1 DEF IInv, MovesAtMostOnce
<1>4. /\ report # "none" => report' # "none"
      /\ report = "SUCCEEDED" => report' = "SUCCEEDED"
      /\ comments' >= comments /\ comments' \in Nat
      /\ CommentIsIntended' /\ SuccessIsReported'
      /\ Place(w)' /\ pc'[w] \notin Moving
  <2>1. CASE IntendComment(w)
    <3>1. /\ report = "none" /\ report' = "INTENT" /\ pc'[w] = "row"
          /\ UNCHANGED <<runState, comments, lateComments>>
      BY <2>1 DEF IntendComment, Go, remoteVars, TypeInv, TypeOK
    <3>2. Place(w)' /\ pc'[w] \notin Moving
      BY <1>2, <3>1 DEF Place, Moving, Commented, Transiting
    <3>3. comments > 0 \/ report' = "INTENT"
      BY <1>2, <3>1 DEF Place
    <3>4. QED
      BY <1>2, <3>1, <3>2, <3>3 DEF CommentIsIntended, SuccessIsReported
  <2>2. CASE PostComment(w) \/ PostTimesOut(w) \/ PostFails(w)
    <3>1. /\ pc[w] = "post" /\ UNCHANGED <<runState, report>>
          /\ \/ pc'[w] = "record" /\ comments' = comments + 1 /\ lateComments' = lateComments
             \/ /\ pc'[w] \in {"find again", "idle"}
                /\ comments' \in {comments, comments + 1}
                /\ lateComments' \in {lateComments, lateComments + 1}
      BY <2>2, WorkerTypes DEF PostComment, PostTimesOut, PostFails, LostComment, Go, runVars,
        TypeInv, TypeOK
    <3>2. report # "none" /\ report' = report /\ runState' = runState
      BY <1>2, <3>1 DEF Place
    <3>3. /\ comments' >= comments /\ comments' \in Nat
          /\ comments > 0 => comments' > 0
          /\ pc'[w] = "record" => comments' > 0
      <4>1. /\ comments' = comments \/ comments' = comments + 1
            /\ pc'[w] = "record" => comments' = comments + 1
        BY <3>1
      <4>2. comments \in Nat
        BY <1>2
      <4>3. QED
        BY <4>1, <4>2
    <3>4. Place(w)' /\ pc'[w] \notin Moving
      <4>1. pc'[w] = "record" \/ pc'[w] = "find again" \/ pc'[w] = "idle"
        BY <3>1
      <4>2. report' # "none"
        BY <3>2
      <4>3. QED
        BY <3>3, <4>1, <4>2 DEF Place, Moving, Commented, Transiting
    <3>5. CommentIsIntended' /\ SuccessIsReported'
      BY <1>2, <3>2, <3>3 DEF CommentIsIntended, SuccessIsReported
    <3>6. QED
      BY <3>2, <3>3, <3>4, <3>5
  <2>3. CASE RecordComment(w)
    <3>1. /\ pc[w] = "record" /\ report' = "SUCCEEDED" /\ pc'[w] = "after comment"
          /\ UNCHANGED <<runState, comments, lateComments>>
      BY <2>3 DEF RecordComment, Go, remoteVars, TypeInv, TypeOK
    <3>2. comments > 0 /\ comments' = comments
      BY <1>2, <3>1 DEF Place
    <3>3. Place(w)' /\ pc'[w] \notin Moving
      BY <3>1 DEF Place, Moving, Commented, Transiting
    <3>4. CommentIsIntended' /\ SuccessIsReported'
      BY <3>1, <3>2 DEF CommentIsIntended, SuccessIsReported
    <3>5. comments' >= comments /\ comments' \in Nat
      BY <1>2, <3>2
    <3>6. QED
      BY <3>1, <3>3, <3>4, <3>5
  <2>4. CASE Finish(w)
    <3>1. /\ pc[w] = "finish" /\ pc'[w] = "idle"
          /\ UNCHANGED <<report, comments, lateComments>>
      BY <2>4, WorkerTypes DEF Finish, remoteVars
    <3>2. report = "SUCCEEDED"
      BY <1>2, <3>1 DEF Place, Commented
    <3>3. QED
      BY <1>2, <3>1, <3>2 DEF Place, Moving, Commented, Transiting, CommentIsIntended,
        SuccessIsReported
  <2>5. QED
    BY <2>1, <2>2, <2>3, <2>4
<1>5. Standing'
  BY <1>1, <1>2, <1>4, OthersStand DEF IInv
<1>6. QED
  BY <1>3, <1>4, <1>5 DEF IInv

(* The transition: its intent, its POST and what is written of its outcome.  *)
LEMMA MoveKeeps ==
  ASSUME TypeInv, IInv, NEW w \in Workers,
         \/ Consume(w) \/ MoveIssue(w) \/ MoveFails(w) \/ RecordMove(w)
         \/ RecordUncertain(w) \/ Satisfy(w)
  PROVE  IInv'
<1>1. Proceeds(w) /\ UNCHANGED <<runState, report, comments, lateComments, holding>>
  BY WorkProceeds DEF Work, Consume, MoveIssue, MoveFails, RecordMove, RecordUncertain, Satisfy,
    runVars, remoteVars
<1>2. PICK a \in Approvals : a = call[w].approval
  BY DEF Consume, MoveIssue, MoveFails, RecordMove, RecordUncertain, Satisfy, Go, TypeInv,
    Arguments, Transiting
<1>3. /\ Place(w)
      /\ approvals \in [Approvals -> {"none", "PENDING", "APPROVED", "CONSUMED"}]
      /\ moves \in [Approvals -> MoveStatus]
      /\ posts \in [Approvals -> Nat] /\ latePosts \in [Approvals -> Nat]
  BY DEF IInv, Standing, TypeInv, TypeOK
<1>4. CommentIsIntended' /\ SuccessIsReported'
  BY <1>1 DEF IInv, CommentIsIntended, SuccessIsReported
<1>5. \A p \in Approvals :
        /\ posts[p] + latePosts[p] <= 1
        /\ posts[p] + latePosts[p] > 0 => moves[p] # "none"
        /\ moves[p] = "POST_SUCCEEDED" => posts[p] = 1
        /\ moves[p] # "none" => approvals[p] \in {"APPROVED", "CONSUMED"}
  BY DEF IInv, MovesAtMostOnce
(* What the step does to its own approval.                                   *)
<1>6. /\ \A p \in Approvals \ {a} :
           /\ moves'[p] = moves[p] /\ approvals'[p] = approvals[p]
           /\ posts'[p] = posts[p] /\ latePosts'[p] = latePosts[p]
      /\ moves'[a] # "none" /\ approvals'[a] \in {"APPROVED", "CONSUMED"}
      /\ \/ posts'[a] = posts[a] /\ latePosts'[a] = latePosts[a]
         \/ /\ pc[w] = "move" /\ posts'[a] + latePosts'[a] <= 1
      /\ moves'[a] = "POST_SUCCEEDED" => posts'[a] = 1
      /\ pc'[w] \in Moving => pc[w] \in Moving \/ moves[a] = "none"
      /\ Place(w)'
  <2>1. CASE Consume(w)
    <3>1. /\ pc[w] = "consume" /\ pc'[w] = "move" /\ moves[a] = "none" /\ call' = call
          /\ approvals' = [approvals EXCEPT ![a] = "CONSUMED"]
          /\ moves' = [moves EXCEPT ![a] = "INTENT"]
          /\ posts' = posts /\ latePosts' = latePosts
      BY <1>2, <2>1 DEF Consume, CanConsume, Go, remoteVars, TypeInv, TypeOK
    <3>2. posts[a] \in Nat /\ latePosts[a] \in Nat
      BY <1>3
    <3>3. posts[a] + latePosts[a] = 0
      BY <1>5, <3>1, <3>2
    <3>4. Place(w)'
      BY <1>1, <1>2, <1>3, <3>1, <3>3 DEF Place, Moving, Commented, Transiting
    <3>5. QED
      BY <1>3, <3>1, <3>4
  <2>2. CASE MoveIssue(w) \/ MoveFails(w)
    <3>1. /\ pc[w] = "move" /\ call' = call /\ UNCHANGED <<approvals, moves>>
          /\ pc'[w] \in {"moved", "not moved"}
          /\ pc'[w] = "moved" => posts' = [posts EXCEPT ![a] = posts[a] + 1]
          /\ \/ posts' = posts /\ latePosts' = latePosts
             \/ posts' = [posts EXCEPT ![a] = posts[a] + 1] /\ latePosts' = latePosts
             \/ posts' = posts /\ latePosts' = [latePosts EXCEPT ![a] = latePosts[a] + 1]
      BY <1>2, <2>2 DEF MoveIssue, MoveFails, Go, runVars, TypeInv, TypeOK
    <3>2. moves[a] # "none" /\ posts[a] + latePosts[a] = 0
      BY <1>2, <1>3, <3>1 DEF Place, Moving
    <3>3. posts[a] = 0 /\ latePosts[a] = 0
      <4>1. posts[a] \in Nat /\ latePosts[a] \in Nat
        BY <1>3
      <4>2. QED
        BY <3>2, <4>1
    <3>4. /\ posts'[a] + latePosts'[a] <= 1
          /\ pc'[w] = "moved" => posts'[a] = 1
          /\ \A p \in Approvals \ {a} : posts'[p] = posts[p] /\ latePosts'[p] = latePosts[p]
      <4>1. posts \in [Approvals -> Nat] /\ latePosts \in [Approvals -> Nat]
        BY <1>3
      <4>2. \/ posts' = posts /\ latePosts' = latePosts
            \/ posts' = [posts EXCEPT ![a] = posts[a] + 1] /\ latePosts' = latePosts
            \/ posts' = posts /\ latePosts' = [latePosts EXCEPT ![a] = latePosts[a] + 1]
        BY <3>1
      <4>3. posts' = [posts EXCEPT ![a] = posts[a] + 1] => posts'[a] = 1
        BY <3>3, <4>1
      <4>4. posts'[a] + latePosts'[a] <= 1
        BY <3>3, <4>1, <4>2
      <4>5. \A p \in Approvals \ {a} : posts'[p] = posts[p] /\ latePosts'[p] = latePosts[p]
        BY <4>1, <4>2
      <4>6. QED
        BY <3>1, <4>3, <4>4, <4>5
    <3>5. moves[a] # "POST_SUCCEEDED" /\ approvals[a] \in {"APPROVED", "CONSUMED"}
      BY <1>5, <3>2, <3>3
    <3>6. Place(w)'
      BY <1>1, <1>2, <1>3, <3>1, <3>2, <3>4 DEF Place, Moving, Commented, Transiting
    <3>7. QED
      BY <3>1, <3>2, <3>4, <3>5, <3>6 DEF Moving
  <2>3. CASE RecordMove(w) \/ RecordUncertain(w) \/ Satisfy(w)
    <3>1. /\ posts' = posts /\ latePosts' = latePosts /\ approvals' = approvals
          /\ \/ /\ pc[w] = "moved" /\ pc'[w] = "finish"
                /\ moves' = [moves EXCEPT ![a] = "POST_SUCCEEDED"]
             \/ /\ pc[w] = "not moved" /\ pc'[w] = "idle"
                /\ moves' = [moves EXCEPT ![a] = "UNCERTAIN"]
             \/ /\ pc[w] = "satisfy" /\ pc'[w] = "finish"
                /\ moves' = [moves EXCEPT ![a] = "SATISFIED"]
      <4>1. CASE RecordUncertain(w)
        BY <1>2, <4>1, WorkerTypes DEF RecordUncertain, remoteVars
      <4>2. CASE RecordMove(w) \/ Satisfy(w)
        BY <1>2, <4>2 DEF RecordMove, Satisfy, Go, remoteVars, TypeInv, TypeOK
      <4>3. QED
        BY <2>3, <4>1, <4>2
    <3>2. /\ moves[a] # "none" /\ report = "SUCCEEDED"
          /\ pc[w] = "moved" => posts[a] = 1
      BY <1>2, <1>3, <3>1 DEF Place, Moving, Commented, Transiting
    <3>3. Place(w)' /\ pc'[w] \notin Moving
      BY <1>1, <3>1, <3>2 DEF Place, Moving, Commented, Transiting
    <3>4. QED
      BY <1>3, <1>5, <3>1, <3>2, <3>3
  <2>4. QED
    BY <2>1, <2>2, <2>3
<1>7. Standing'
  <2>1. \A p \in Approvals :
          /\ moves[p] # "none" => moves'[p] # "none"
          /\ approvals[p] # "none" => approvals'[p] # "none"
          /\ \/ posts'[p] = posts[p] /\ latePosts'[p] = latePosts[p]
             \/ pc[w] = "move" /\ p = call[w].approval
    BY <1>2, <1>6
  <2>2. QED
    BY <1>1, <1>2, <1>6, <2>1, OthersStand DEF IInv
<1>8. MovesAtMostOnce'
  <2>1. posts'[a] + latePosts'[a] <= 1
    BY <1>5, <1>6
  <2>2. QED
    BY <1>5, <1>6, <2>1 DEF MovesAtMostOnce
<1>9. QED
  BY <1>4, <1>7, <1>8 DEF IInv

LEMMA InvStep ==
  ASSUME TypeInv, IInv, [Next]_vars
  PROVE  IInv'
<1>1. /\ approvals \in [Approvals -> {"none", "PENDING", "APPROVED", "CONSUMED"}]
      /\ holding \in [Sessions -> Approvals \cup {None}]
      /\ comments \in Nat /\ lateComments \in Nat
      /\ posts \in [Approvals -> Nat] /\ latePosts \in [Approvals -> Nat]
      /\ pc \in [Workers -> Positions]
  BY DEF TypeInv, TypeOK
<1>2. ASSUME NEW p \in Approvals, RequestTransition(p) PROVE IInv'
  <2>1. /\ approvals[p] = "none" /\ approvals' = [approvals EXCEPT ![p] = "PENDING"]
        /\ UNCHANGED <<runState, report, moves, remoteVars, pc, call, holding>>
    BY <1>2 DEF RequestTransition
  <2>2. HeldIsAsked' /\ MovesAtMostOnce'
    BY <1>1, <2>1 DEF IInv, Standing, HeldIsAsked, MovesAtMostOnce, remoteVars
  <2>3. QED
    BY <2>1, <2>2 DEF IInv, Standing, Place, OneMover, CommentIsIntended, SuccessIsReported,
      remoteVars
<1>3. ASSUME NEW s \in Sessions, NEW p \in Approvals, ApproveRead(s, p) PROVE IInv'
  <2>1. HeldIsAsked'
    BY <1>1, <1>3 DEF ApproveRead, IInv, Standing, HeldIsAsked, runVars
  <2>2. QED
    BY <1>3, <2>1 DEF ApproveRead, IInv, Standing, Place, OneMover, CommentIsIntended,
      SuccessIsReported, MovesAtMostOnce, runVars, remoteVars
<1>4. ASSUME NEW s \in Sessions, ApproveWrite(s) PROVE IInv'
  <2>1. /\ holding[s] \in Approvals
        /\ approvals' = [approvals EXCEPT ![holding[s]] = "APPROVED"]
        /\ holding' = [holding EXCEPT ![s] = None]
        /\ UNCHANGED <<runState, report, moves, remoteVars, pc, call>>
    BY <1>1, <1>4 DEF ApproveWrite
  <2>2. HeldIsAsked' /\ MovesAtMostOnce'
    BY <1>1, <2>1 DEF IInv, Standing, HeldIsAsked, MovesAtMostOnce, remoteVars
  <2>3. QED
    BY <2>1, <2>2 DEF IInv, Standing, Place, OneMover, CommentIsIntended, SuccessIsReported,
      remoteVars
<1>5. ASSUME NEW w \in Workers, NEW a \in Approvals \cup {None}, StartReport(w, a) PROVE IInv'
  <2>1. /\ pc'[w] = "row" /\ \A v \in Workers \ {w} : pc'[v] = pc[v] /\ call'[v] = call[v]
        /\ UNCHANGED <<runVars, remoteVars, holding>>
    BY <1>1, <1>5 DEF StartReport, Go, TypeInv, TypeOK
  <2>2. \A v \in Workers : Place(v)'
    BY <2>1 DEF IInv, Standing, Place, Moving, Commented, Transiting, runVars, remoteVars
  <2>3. OneMover'
    BY <2>1 DEF IInv, Standing, OneMover, Moving
  <2>4. QED
    BY <2>1, <2>2, <2>3 DEF IInv, Standing, HeldIsAsked, CommentIsIntended, SuccessIsReported,
      MovesAtMostOnce, runVars, remoteVars
<1>6. ASSUME NEW w \in Workers,
             Work(w) \/ PostTimesOut(w) \/ PostFails(w) \/ MoveFails(w) \/ Fail(w)
      PROVE  IInv'
  BY <1>6, ReadsKeep, CommentKeeps, MoveKeeps DEF Work
<1>7. ASSUME NEW p \in Approvals, LandMove(p) PROVE IInv'
  <2>1. /\ latePosts[p] > 0
        /\ latePosts' = [latePosts EXCEPT ![p] = latePosts[p] - 1]
        /\ posts' = [posts EXCEPT ![p] = posts[p] + 1]
        /\ UNCHANGED <<runVars, comments, lateComments, pc, call, holding>>
    BY <1>7 DEF LandMove
  <2>2. /\ posts[p] + latePosts[p] <= 1
        /\ posts[p] + latePosts[p] > 0 => moves[p] # "none"
        /\ moves[p] = "POST_SUCCEEDED" => posts[p] = 1
    BY DEF IInv, MovesAtMostOnce
  <2>3. posts[p] = 0 /\ latePosts[p] = 1 /\ posts'[p] = 1 /\ latePosts'[p] = 0
    <3>1. posts[p] \in Nat /\ latePosts[p] \in Nat
      BY <1>1
    <3>2. QED
      BY <1>1, <2>1, <2>2, <3>1
  <2>4. \A q \in Approvals \ {p} : posts'[q] = posts[q] /\ latePosts'[q] = latePosts[q]
    BY <1>1, <2>1
  <2>5. MovesAtMostOnce'
    <3>1. approvals' = approvals /\ moves' = moves /\ moves[p] # "none"
      BY <2>1, <2>2, <2>3 DEF runVars
    <3>2. approvals[p] \in {"APPROVED", "CONSUMED"}
      BY <3>1 DEF IInv, MovesAtMostOnce
    <3>3. posts'[p] + latePosts'[p] <= 1
      BY <2>3
    <3>4. ASSUME NEW q \in Approvals
          PROVE  /\ posts'[q] + latePosts'[q] <= 1
                 /\ posts'[q] + latePosts'[q] > 0 => moves'[q] # "none"
                 /\ moves'[q] = "POST_SUCCEEDED" => posts'[q] = 1
                 /\ moves'[q] # "none" => approvals'[q] \in {"APPROVED", "CONSUMED"}
      <4>1. CASE q = p
        <5>1. posts'[q] + latePosts'[q] <= 1 /\ posts'[q] = 1
          BY <2>3, <3>3, <4>1
        <5>2. moves'[q] # "none" /\ approvals'[q] \in {"APPROVED", "CONSUMED"}
          BY <3>1, <3>2, <4>1
        <5>3. QED
          BY <5>1, <5>2
      <4>2. CASE q # p
        BY <2>4, <3>1, <4>2 DEF IInv, MovesAtMostOnce
      <4>3. QED
        BY <4>1, <4>2
    <3>5. QED
      BY <3>4 DEF MovesAtMostOnce
  <2>6. ASSUME NEW w \in Workers PROVE Place(w)'
    <3>1. Place(w)
      BY DEF IInv, Standing
    <3>2. pc[w] \in {"move", "moved"} => call[w].approval \in Approvals \ {p}
      <4>1. posts[p] # 1 /\ posts[p] + latePosts[p] # 0
        BY <2>3
      <4>2. QED
        BY <3>1, <4>1 DEF Place, TypeInv, Arguments, Transiting
    <3>3. QED
      BY <2>1, <2>4, <3>1, <3>2 DEF Place, runVars
  <2>7. QED
    BY <2>1, <2>5, <2>6 DEF IInv, Standing, HeldIsAsked, OneMover, CommentIsIntended,
      SuccessIsReported, runVars
<1>8. CASE LandComment
  <2>1. /\ comments' = comments + 1 /\ comments' > 0 /\ report # "none"
        /\ UNCHANGED <<runVars, posts, latePosts, pc, call, holding>>
    BY <1>1, <1>8 DEF LandComment, IInv, CommentIsIntended
  <2>2. \A w \in Workers : Place(w)'
    BY <2>1 DEF IInv, Standing, Place, runVars
  <2>3. QED
    BY <2>1, <2>2 DEF IInv, Standing, HeldIsAsked, OneMover, CommentIsIntended, SuccessIsReported,
      MovesAtMostOnce, runVars
<1>9. CASE ManualMove \/ Cancel \/ (\E p \in Approvals : Expire(p)) \/ UNCHANGED vars
  <2>1. /\ runState' = runState \/ runState' = "CANCELLED"
        /\ UNCHANGED <<report, approvals, moves, comments, lateComments, posts, latePosts, pc, call,
                       holding>>
    BY <1>9 DEF ManualMove, Cancel, Expire, vars, runVars, remoteVars
  <2>2. QED
    BY <2>1 DEF IInv, Standing, HeldIsAsked, Place, OneMover, CommentIsIntended, SuccessIsReported,
      MovesAtMostOnce
<1>10. QED
  BY <1>2, <1>3, <1>4, <1>5, <1>6, <1>7, <1>8, <1>9 DEF Next

LEMMA InvHolds == Spec => []IInv
<1>1. Init => IInv
  BY DEF Init, IInv, Standing, HeldIsAsked, Place, Moving, Commented, Transiting, OneMover,
    CommentIsIntended, SuccessIsReported, MovesAtMostOnce
<1>2. TypeInv /\ IInv /\ [Next]_vars => IInv'
  BY InvStep
<1>3. QED
  BY <1>1, <1>2, TypesHold, PTL DEF Spec

(* A run succeeds only with its comment on the issue and recorded, however   *)
(* many workers report it and whatever is lost or late.                      *)
THEOREM SuccessHasItsComment == Spec => []SuccessIsReported
<1>1. IInv => SuccessIsReported
  BY DEF IInv
<1>2. QED
  BY <1>1, InvHolds, PTL

(* No approval moves the issue twice, whatever the approvers write over it.  *)
THEOREM TransitionsHappenOnce == Spec => []MovesAtMostOnce
<1>1. IInv => MovesAtMostOnce
  BY DEF IInv
<1>2. QED
  BY <1>1, InvHolds, PTL
-----------------------------------------------------------------------------
(* With one reporting process the outcome of a transition is known at the    *)
(* end, and, when no comment lands late either, the comment is posted once.  *)
OneWorker == \A v, w \in Workers : v = w

LEMMA OutcomeStep ==
  ASSUME OneWorker, TypeInv, OutcomeIsKnown, [Next]_vars
  PROVE  OutcomeIsKnown'
<1>1. pc \in [Workers -> Positions] /\ moves \in [Approvals -> MoveStatus]
  BY DEF TypeInv, TypeOK
<1>2. ASSUME NEW w \in Workers, ReadMove(w) PROVE OutcomeIsKnown'
  <2>1. /\ pc'[w] = "finish" => moves[call[w].approval] = "POST_SUCCEEDED"
        /\ UNCHANGED <<moves, call>>
    BY <1>1, <1>2 DEF ReadMove, runVars
  <2>2. QED
    BY <2>1 DEF OneWorker, OutcomeIsKnown
<1>3. ASSUME NEW w \in Workers, RecordMove(w) \/ Satisfy(w) PROVE OutcomeIsKnown'
  <2>1. call[w].approval \in Approvals /\ call' = call
    BY <1>3 DEF RecordMove, Satisfy, Go, TypeInv, Arguments, Transiting
  <2>2. moves'[call[w].approval] \in {"POST_SUCCEEDED", "SATISFIED"}
    BY <1>1, <1>3, <2>1 DEF RecordMove, Satisfy
  <2>3. QED
    BY <2>1, <2>2 DEF OneWorker, OutcomeIsKnown
<1>4. ASSUME NEW w \in Workers, NoTransition(w) PROVE OutcomeIsKnown'
  BY <1>4 DEF NoTransition, OneWorker, OutcomeIsKnown
<1>5. ASSUME NEW w \in Workers, Proceeds(w), pc'[w] # "finish" PROVE OutcomeIsKnown'
  BY <1>5 DEF OneWorker, OutcomeIsKnown
<1>6. ASSUME NEW w \in Workers,
             \/ Work(w) /\ ~(ReadMove(w) \/ RecordMove(w) \/ Satisfy(w) \/ NoTransition(w))
             \/ PostTimesOut(w) \/ PostFails(w) \/ MoveFails(w) \/ Fail(w)
      PROVE  pc'[w] # "finish"
  <2>1. CASE \/ NotReportable(w) \/ IntendRefused(w) \/ Uncertain(w) \/ DenyTransition(w)
             \/ DenyConsume(w) \/ RecordUncertain(w) \/ Unreconciled(w) \/ Finish(w)
             \/ PostFails(w) \/ Fail(w)
    BY <2>1, WorkerTypes DEF NotReportable, IntendRefused, Uncertain, DenyTransition, DenyConsume,
      RecordUncertain, Unreconciled, Finish, PostFails, Fail
  <2>2. CASE ReadRow(w)
    BY <1>1, <2>2 DEF ReadRow, TypeInv, TypeOK
  <2>3. CASE \/ IntendComment(w) \/ FindComment(w) \/ PostComment(w) \/ FindAgain(w)
             \/ RecordComment(w) \/ PostTimesOut(w) \/ CheckTransition(w) \/ Consume(w)
             \/ MoveIssue(w) \/ Reconcile(w) \/ MoveFails(w)
    BY <1>1, <2>3 DEF IntendComment, FindComment, PostComment, FindAgain, RecordComment,
      PostTimesOut, CheckTransition, Consume, MoveIssue, Reconcile, MoveFails, Go
  <2>4. QED
    BY <1>6, <2>1, <2>2, <2>3 DEF Work
<1>7. ASSUME NEW w \in Workers, NEW a \in Approvals \cup {None}, StartReport(w, a)
      PROVE  OutcomeIsKnown'
  <2>1. pc'[w] = "row"
    BY <1>1, <1>7 DEF StartReport, Go
  <2>2. QED
    BY <2>1 DEF OneWorker, OutcomeIsKnown
<1>8. CASE UNCHANGED <<moves, pc, call>>
  BY <1>8 DEF OutcomeIsKnown
<1>9. ASSUME NEW w \in Workers,
             Work(w) \/ PostTimesOut(w) \/ PostFails(w) \/ MoveFails(w) \/ Fail(w)
      PROVE  OutcomeIsKnown'
  BY <1>2, <1>3, <1>4, <1>5, <1>6, <1>9, WorkProceeds
<1>10. \/ \E w \in Workers :
            Work(w) \/ PostTimesOut(w) \/ PostFails(w) \/ MoveFails(w) \/ Fail(w)
       \/ \E w \in Workers, a \in Approvals \cup {None} : StartReport(w, a)
       \/ UNCHANGED <<moves, pc, call>>
  BY DEF Next, vars, runVars, RequestTransition, Expire, LandMove, ApproveRead, ApproveWrite,
    LandComment, ManualMove, Cancel
<1>11. QED
  BY <1>7, <1>8, <1>9, <1>10

(* A call with a transition ends the run only when the outbox knows what     *)
(* became of the transition.                                                 *)
THEOREM TransitionsAreSettled ==
  ASSUME OneWorker
  PROVE  Spec => []OutcomeIsKnown
<1>1. Init => OutcomeIsKnown
  BY DEF Init, OutcomeIsKnown
<1>2. TypeInv /\ OutcomeIsKnown /\ [Next]_vars => OutcomeIsKnown'
  BY OutcomeStep
<1>3. QED
  BY <1>1, <1>2, TypesHold, PTL DEF Spec

(* At most one comment, and none where a worker is about to post.            *)
OneComment ==
  /\ comments \in {0, 1} /\ lateComments = 0
  /\ \A w \in Workers : pc[w] = "post" => comments = 0

LEMMA OneCommentStep ==
  ASSUME OneWorker, "comment" \notin Late, TypeInv, OneComment, [Next]_vars
  PROVE  /\ OneComment'
         /\ \/ UNCHANGED <<comments, report>>
            \/ UNCHANGED comments /\ report = "none" /\ report' = "INTENT"
            \/ UNCHANGED comments /\ report' = "SUCCEEDED" /\ \E w \in Workers : pc[w] = "record"
            \/ /\ UNCHANGED report /\ comments = 0 /\ comments' = 1
               /\ \E w \in Workers : pc[w] = "post"
<1>1. pc \in [Workers -> Positions] /\ comments \in {0, 1} /\ lateComments = 0
  BY DEF TypeInv, TypeOK, OneComment
<1>2. ASSUME NEW w \in Workers, PostComment(w) \/ PostTimesOut(w) \/ PostFails(w)
      PROVE  /\ OneComment' /\ UNCHANGED report /\ pc[w] = "post"
             /\ comments' = comments \/ (comments = 0 /\ comments' = 1)
  <2>1. /\ pc[w] = "post" /\ pc'[w] # "post"
        /\ comments' = comments \/ comments' = comments + 1
        /\ lateComments' = lateComments /\ report' = report
    BY <1>1, <1>2, WorkerTypes DEF PostComment, PostTimesOut, PostFails, LostComment, Go, runVars
  <2>2. comments = 0
    BY <2>1 DEF OneComment
  <2>3. comments' = 0 \/ comments' = 1
    BY <2>1, <2>2
  <2>4. OneComment'
    BY <1>1, <2>1, <2>3 DEF OneWorker, OneComment
  <2>5. QED
    BY <2>1, <2>2, <2>3, <2>4
<1>3. ASSUME NEW w \in Workers, FindComment(w)
      PROVE  OneComment' /\ UNCHANGED <<comments, report>>
  <2>1. /\ UNCHANGED <<comments, lateComments, report>>
        /\ pc'[w] = "post" => comments = 0
    BY <1>1, <1>3 DEF FindComment, runVars, remoteVars
  <2>2. QED
    BY <1>1, <2>1 DEF OneWorker, OneComment
<1>4. ASSUME UNCHANGED <<comments, lateComments>>,
             \A w \in Workers : pc'[w] = "post" => pc[w] = "post"
      PROVE  OneComment'
  BY <1>4 DEF OneComment
<1>5. ASSUME NEW w \in Workers,
             \/ NotReportable(w) \/ IntendRefused(w) \/ Uncertain(w) \/ DenyTransition(w)
             \/ DenyConsume(w) \/ RecordUncertain(w) \/ Unreconciled(w) \/ Finish(w) \/ Fail(w)
      PROVE  OneComment' /\ UNCHANGED <<comments, report>>
  <2>1. Leave(w) /\ UNCHANGED <<comments, lateComments, report>>
    BY <1>5 DEF NotReportable, IntendRefused, Uncertain, DenyTransition, DenyConsume,
      RecordUncertain, Unreconciled, Finish, Fail, runVars, remoteVars
  <2>2. QED
    BY <1>4, <2>1, WorkerTypes
<1>6. ASSUME NEW w \in Workers,
             \/ ReadRow(w) \/ IntendComment(w) \/ FindAgain(w) \/ RecordComment(w)
             \/ NoTransition(w) \/ ReadMove(w) \/ CheckTransition(w) \/ Consume(w) \/ MoveIssue(w)
             \/ RecordMove(w) \/ Reconcile(w) \/ Satisfy(w) \/ MoveFails(w)
             \/ \E a \in Approvals \cup {None} : StartReport(w, a)
      PROVE  /\ OneComment' /\ UNCHANGED comments
             /\ \/ UNCHANGED report
                \/ report = "none" /\ report' = "INTENT"
                \/ report' = "SUCCEEDED" /\ pc[w] = "record"
  <2>1. /\ UNCHANGED <<comments, lateComments>>
        /\ \/ UNCHANGED report
           \/ report = "none" /\ report' = "INTENT"
           \/ report' = "SUCCEEDED" /\ pc[w] = "record"
    BY <1>6 DEF ReadRow, IntendComment, FindAgain, RecordComment, NoTransition, ReadMove,
      CheckTransition, Consume, MoveIssue, RecordMove, Reconcile, Satisfy, MoveFails, StartReport,
      Go, runVars, remoteVars
  <2>2. PICK l : l # "post" /\ pc' = [pc EXCEPT ![w] = l]
    <3>1. CASE ReadRow(w)
      <4>1. PICK l \in {"intent", "find", "after comment"} : pc' = [pc EXCEPT ![w] = l]
        BY <3>1 DEF ReadRow, TypeInv, TypeOK
      <4>2. QED
        BY <4>1
    <3>2. CASE ReadMove(w)
      <4>1. PICK l \in {"check", "finish", "reconcile"} : pc' = [pc EXCEPT ![w] = l]
        BY <3>2 DEF ReadMove
      <4>2. QED
        BY <4>1
    <3>3. QED
      BY <1>6, <3>1, <3>2 DEF IntendComment, FindAgain, RecordComment, NoTransition,
        CheckTransition, Consume, MoveIssue, RecordMove, Reconcile, Satisfy, MoveFails,
        StartReport, Go
  <2>3. QED
    BY <1>1, <1>4, <2>1, <2>2
<1>7. CASE UNCHANGED <<comments, lateComments, report, pc>>
  BY <1>4, <1>7
<1>8. ~LandComment
  BY <1>1 DEF LandComment
<1>9. \/ \E w \in Workers :
           \/ Work(w) \/ PostTimesOut(w) \/ PostFails(w) \/ MoveFails(w) \/ Fail(w)
           \/ \E a \in Approvals \cup {None} : StartReport(w, a)
      \/ UNCHANGED <<comments, lateComments, report, pc>>
  BY <1>8 DEF Next, vars, runVars, remoteVars, RequestTransition, Expire, LandMove, ApproveRead,
    ApproveWrite, ManualMove, Cancel
<1>10. QED
  BY <1>2, <1>3, <1>5, <1>6, <1>7, <1>9 DEF Work

LEMMA OneCommentHolds ==
  ASSUME OneWorker, "comment" \notin Late
  PROVE  Spec => []OneComment
<1>1. Init => OneComment
  BY DEF Init, OneComment
<1>2. TypeInv /\ OneComment /\ [Next]_vars => OneComment'
  BY OneCommentStep
<1>3. QED
  BY <1>1, <1>2, TypesHold, PTL DEF Spec

LEMMA CommentStep ==
  ASSUME OneWorker, "comment" \notin Late, TypeInv, IInv, OneComment, [Next]_vars
  PROVE  [Comment!Next]_<<report # "none", comments, report = "SUCCEEDED">>
<1>1. /\ \A w \in Workers : pc[w] \in {"post", "record"} => report # "none"
      /\ \A w \in Workers : pc[w] = "record" => comments > 0
      /\ report = "SUCCEEDED" => comments > 0
      /\ comments \in {0, 1}
  BY DEF IInv, Standing, Place, SuccessIsReported, OneComment
<1>2. CASE UNCHANGED <<comments, report>>
  BY <1>2
<1>3. CASE UNCHANGED comments /\ report = "none" /\ report' = "INTENT"
  BY <1>3 DEF Comment!Next, Comment!Intend
<1>4. CASE UNCHANGED comments /\ report' = "SUCCEEDED" /\ \E w \in Workers : pc[w] = "record"
  BY <1>1, <1>4 DEF Comment!Next, Comment!Record
<1>5. CASE /\ UNCHANGED report /\ comments = 0 /\ comments' = 1
           /\ \E w \in Workers : pc[w] = "post"
  BY <1>1, <1>5 DEF Comment!Next, Comment!Perform
<1>6. QED
  BY <1>2, <1>3, <1>4, <1>5, OneCommentStep

(* The report does what a durable effect promises: intent, one comment,      *)
(* record, in this order, whatever crashes, times out and resumes.           *)
THEOREM CommentIsPostedOnce ==
  ASSUME OneWorker, "comment" \notin Late
  PROVE  Spec => CommentOnce
<1>1. Init => Comment!Init
  BY DEF Init, Comment!Init
<1>2. /\ TypeInv /\ IInv /\ OneComment /\ [Next]_vars
      => [Comment!Next]_<<report # "none", comments, report = "SUCCEEDED">>
  BY CommentStep
<1>3. QED
  BY <1>1, <1>2, TypesHold, InvHolds, OneCommentHolds, PTL DEF Spec, CommentOnce, Comment!Spec
=============================================================================
