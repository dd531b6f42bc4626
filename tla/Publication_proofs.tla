------------------------- MODULE Publication_proofs -------------------------
(***************************************************************************)
(* Proofs about Publication, for any workers, sessions, approvals, titles   *)
(* and number of faults.                                                    *)
(***************************************************************************)
EXTENDS Publication, TLAPS

(* Where a worker acts upon an intent that is on disk.                      *)
Behind == {"resume base", "lookup", "push", "find", "open", "find again", "record"}

(* Who is at work has an approval and a title, and so has an intent.        *)
Arguments ==
  /\ \A w \in Workers :
       /\ pc[w] # "idle" => call[w].approval \in Approvals /\ call[w].title \in Titles
       /\ pc[w] \in Behind => outbox.status # "none"
  /\ outbox.status # "none" => outbox.approval \in Approvals /\ outbox.title \in Titles

TypeInv == TypeOK /\ Arguments

(* The states in which a run is published are states of a run.              *)
LEMMA PublicationStates ==
  {"AWAITING_PUBLISH_APPROVAL", "PUBLISH", "REPORT", "CANCELLED"} \subseteq RunState
<1>1. /\ Flow[7] = "AWAITING_PUBLISH_APPROVAL" /\ Flow[8] = "PUBLISH" /\ Flow[9] = "REPORT"
      /\ 7 \in 1..10 /\ 8 \in 1..10 /\ 9 \in 1..10
  BY DEF Flow
<1>2. QED
  BY <1>1 DEF RunState, Aborted

(* A worker that leaves, or goes on from where it is, with the same call.   *)
LEMMA WorkerTypes ==
  ASSUME TypeInv, NEW w \in Workers
  PROVE  /\ Leave(w) => /\ pc' \in [Workers -> Positions] /\ pc'[w] = "idle"
                        /\ call' \in [Workers -> [approval : Approvals \cup {None},
                                                  title : Titles \cup {None}, fresh : BOOLEAN]]
                        /\ \A v \in Workers \ {w} : pc'[v] = pc[v] /\ call'[v] = call[v]
         /\ \A l \in Positions : pc' = [pc EXCEPT ![w] = l] =>
              /\ pc' \in [Workers -> Positions] /\ pc'[w] = l
              /\ \A v \in Workers \ {w} : pc'[v] = pc[v]
<1>1. pc \in [Workers -> Positions] /\ "idle" \in Positions
  BY DEF TypeInv, TypeOK, Positions
<1>2. /\ call \in [Workers -> [approval : Approvals \cup {None}, title : Titles \cup {None},
                             fresh : BOOLEAN]]
      /\ NoCall \in [approval : Approvals \cup {None}, title : Titles \cup {None},
                     fresh : BOOLEAN]
  BY DEF TypeInv, TypeOK, NoCall
<1>3. QED
  BY <1>1, <1>2 DEF Leave

(* A step that concerns one worker and leaves the tables alone.             *)
LEMMA WorkerKeepsTypes ==
  ASSUME TypeInv, NEW w \in Workers,
         \/ Leave(w)
         \/ /\ pc[w] # "idle" /\ call' = call
            /\ \E l \in Positions :
                 pc' = [pc EXCEPT ![w] = l] /\ (l \in Behind => pc[w] \in Behind),
         UNCHANGED <<runVars, expired, validated, drifted, holding>>,
         branch' \in {"absent", "ours", "foreign"},
         pulls' \in Seq(Titles), inflight' \in Seq(Titles), faults' \in 0..MaxFaults
  PROVE  TypeInv'
<1>1. TypeOK'
  BY WorkerTypes DEF TypeInv, TypeOK, runVars
<1>2. Arguments'
  BY WorkerTypes DEF TypeInv, TypeOK, Arguments, Behind, runVars
<1>3. QED
  BY <1>1, <1>2 DEF TypeInv

LEMMA TypeStep ==
  ASSUME TypeInv, [Next]_vars
  PROVE  TypeInv'
<1>1. faults \in 0..MaxFaults /\ (Fault => faults' \in 0..MaxFaults)
  BY FaultsAssumption DEF TypeInv, TypeOK, Fault
<1>2. /\ branch \in {"absent", "ours", "foreign"}
      /\ pulls \in Seq(Titles) /\ inflight \in Seq(Titles)
  BY DEF TypeInv, TypeOK
<1>3. ASSUME NEW p \in Approvals, NEW t \in Titles, RequestApproval(p, t) PROVE TypeInv'
  BY <1>3 DEF RequestApproval, TypeInv, TypeOK, Arguments, Status, remoteVars
<1>4. ASSUME NEW s \in Sessions, NEW p \in Approvals, ApproveRead(s, p) PROVE TypeInv'
  BY <1>4 DEF ApproveRead, TypeInv, TypeOK, Arguments, runVars, remoteVars
<1>5. ASSUME NEW s \in Sessions, ApproveWrite(s) PROVE TypeInv'
  BY <1>5 DEF ApproveWrite, TypeInv, TypeOK, Arguments, Status, remoteVars
<1>6. ASSUME NEW w \in Workers, NEW p \in Approvals, NEW t \in Titles, StartPublish(w, p, t)
      PROVE  TypeInv'
  BY <1>6 DEF StartPublish, Go, TypeInv, TypeOK, Arguments, Behind, Positions, runVars, remoteVars
<1>7. ASSUME NEW w \in Workers, StartResume(w) PROVE TypeInv'
  BY <1>7 DEF StartResume, ConsumedIntent, Go, TypeInv, TypeOK, Arguments, Positions, runVars,
    remoteVars
<1>8. ASSUME NEW w \in Workers, Intend(w) PROVE TypeInv'
  <2>1. /\ pc[w] = "intent" /\ pc' = [pc EXCEPT ![w] = "lookup"]
        /\ approvals' = [approvals EXCEPT ![call[w].approval].status = "CONSUMED"]
        /\ outbox' = [status |-> "INTENT", approval |-> call[w].approval, title |-> call[w].title]
        /\ runState' = "PUBLISH"
        /\ UNCHANGED <<expired, validated, drifted, branch, pulls, inflight, call, holding, faults>>
    BY <1>8 DEF Intend, Go, remoteVars
  <2>2. call[w].approval \in Approvals /\ call[w].title \in Titles
    BY <2>1 DEF TypeInv, Arguments
  <2>3. approvals' \in [Approvals -> [status : Status, title : Titles \cup {None}]]
    BY <2>1, <2>2 DEF TypeInv, TypeOK, Status
  <2>4. TypeOK'
    BY <2>1, <2>2, <2>3, PublicationStates DEF TypeInv, TypeOK, Positions
  <2>5. Arguments'
    BY <2>1, <2>2 DEF TypeInv, TypeOK, Arguments
  <2>6. QED
    BY <2>4, <2>5 DEF TypeInv
<1>9. ASSUME NEW w \in Workers,
             \/ DenyPublish(w) \/ DenyDrift(w) \/ DenyIntent(w) \/ ForeignBranch(w)
             \/ PushRefused(w) \/ PushFails(w) \/ OpenRefused(w) \/ Uncertain(w) \/ Fail(w)
      PROVE  TypeInv'
  <2>1. /\ Leave(w) /\ UNCHANGED <<runVars, expired, validated, drifted, holding>>
        /\ branch' \in {"absent", "ours", "foreign"}
        /\ pulls' \in Seq(Titles) /\ inflight' \in Seq(Titles) /\ faults' \in 0..MaxFaults
    BY <1>1, <1>2, <1>9 DEF DenyPublish, DenyDrift, DenyIntent, ForeignBranch, PushRefused,
      PushFails, OpenRefused, Uncertain, Fail, remoteVars
  <2>2. QED
    BY <2>1, WorkerKeepsTypes
<1>10. ASSUME NEW w \in Workers,
              \/ CheckPublish(w) \/ BaseUnchanged(w) \/ LookupBranch(w) \/ PushBranch(w)
              \/ FindPull(w) \/ FindAgain(w)
       PROVE  TypeInv'
  <2>1. /\ pc[w] # "idle"
        /\ \E l \in Positions :
             pc' = [pc EXCEPT ![w] = l] /\ (l \in Behind => pc[w] \in Behind)
    BY <1>10 DEF CheckPublish, BaseUnchanged, LookupBranch, PushBranch, FindPull, FindAgain, Go,
      Positions, Behind
  <2>2. /\ call' = call /\ UNCHANGED <<runVars, expired, validated, drifted, holding>>
        /\ branch' \in {"absent", "ours", "foreign"}
        /\ pulls' \in Seq(Titles) /\ inflight' \in Seq(Titles) /\ faults' \in 0..MaxFaults
    BY <1>1, <1>2, <1>10 DEF CheckPublish, BaseUnchanged, LookupBranch, PushBranch, FindPull,
      FindAgain, remoteVars
  <2>3. QED
    BY <2>1, <2>2, WorkerKeepsTypes
<1>11. ASSUME NEW w \in Workers, OpenPull(w) \/ OpenTimesOut(w) PROVE TypeInv'
  <2>1. /\ pc[w] = "open"
        /\ \E l \in Positions :
             pc' = [pc EXCEPT ![w] = l] /\ (l \in Behind => pc[w] \in Behind)
    BY <1>11 DEF OpenPull, OpenTimesOut, Go, Positions, Behind
  <2>2. call[w].title \in Titles
    BY <2>1 DEF TypeInv, Arguments
  <2>3. /\ Append(pulls, call[w].title) \in Seq(Titles)
        /\ Append(inflight, call[w].title) \in Seq(Titles)
    BY <1>2, <2>2
  <2>4. /\ call' = call /\ UNCHANGED <<runVars, expired, validated, drifted, holding>>
        /\ branch' \in {"absent", "ours", "foreign"}
        /\ pulls' \in Seq(Titles) /\ inflight' \in Seq(Titles) /\ faults' \in 0..MaxFaults
    BY <1>1, <1>2, <1>11, <2>3 DEF OpenPull, OpenTimesOut
  <2>5. QED
    BY <2>1, <2>4, WorkerKeepsTypes
<1>12. ASSUME NEW w \in Workers, Record(w) PROVE TypeInv'
  <2>1. runState' \in RunState
    BY <1>12, PublicationStates DEF Record, TypeInv, TypeOK
  <2>2. outbox' \in [status : {"none", "INTENT", "SUCCEEDED"},
                     approval : Approvals \cup {None}, title : Titles \cup {None}]
    BY <1>12 DEF Record, TypeInv, TypeOK
  <2>3. TypeOK'
    BY <1>12, <2>1, <2>2, WorkerTypes DEF Record, TypeInv, TypeOK, remoteVars
  <2>4. outbox'.status # "none" /\ outbox'.approval = outbox.approval
        /\ outbox'.title = outbox.title
    BY <1>12 DEF Record, TypeInv, TypeOK
  <2>5. outbox.approval \in Approvals /\ outbox.title \in Titles
    BY <1>12 DEF Record, TypeInv, Arguments, Behind
  <2>6. Arguments'
    BY <1>12, <2>4, <2>5, WorkerTypes DEF Record, TypeInv, Arguments
  <2>7. QED
    BY <2>3, <2>6 DEF TypeInv
<1>13. ASSUME Land PROVE TypeInv'
  <2>1. Head(inflight) \in Titles /\ Tail(inflight) \in Seq(Titles)
    BY <1>2, <1>13 DEF Land
  <2>2. Append(pulls, Head(inflight)) \in Seq(Titles)
    BY <1>2, <2>1
  <2>3. QED
    BY <1>13, <2>1, <2>2 DEF Land, TypeInv, TypeOK, Arguments, runVars
<1>14. ASSUME Cancel \/ Drift \/ \E p \in Approvals : Expire(p) PROVE TypeInv'
  BY <1>14, PublicationStates DEF Cancel, Drift, Expire, TypeInv, TypeOK, Arguments, runVars,
    remoteVars
<1>15. CASE UNCHANGED vars
  BY <1>15 DEF vars, runVars, remoteVars, TypeInv, TypeOK, Arguments
<1>16. QED
  BY <1>3, <1>4, <1>5, <1>6, <1>7, <1>8, <1>9, <1>10, <1>11, <1>12, <1>13, <1>14, <1>15
  DEF Next, Work

LEMMA TypesHold == Spec => []TypeInv
<1>1. Init => TypeInv
  <2> SUFFICES ASSUME Init PROVE TypeInv
    OBVIOUS
  <2>1. pulls \in Seq(Titles) /\ inflight \in Seq(Titles)
    BY DEF Init
  <2>2. TypeOK
    <3>1. runState \in RunState /\ faults \in 0..MaxFaults
      BY PublicationStates, FaultsAssumption DEF Init
    <3>2. /\ approvals \in [Approvals -> [status : Status, title : Titles \cup {None}]]
          /\ outbox \in [status : {"none", "INTENT", "SUCCEEDED"},
                         approval : Approvals \cup {None}, title : Titles \cup {None}]
      BY DEF Init, NoIntent, Status
    <3>3. /\ pc \in [Workers -> Positions]
          /\ call \in [Workers -> [approval : Approvals \cup {None}, title : Titles \cup {None},
                                   fresh : BOOLEAN]]
          /\ holding \in [Sessions -> Approvals \cup {None}]
      BY DEF Init, NoCall, Positions
    <3>4. QED
      BY <2>1, <3>1, <3>2, <3>3 DEF Init, TypeOK
  <2>3. Arguments
    BY DEF Init, NoIntent, Arguments, Behind
  <2>4. QED
    BY <2>2, <2>3 DEF TypeInv
<1>2. TypeInv /\ [Next]_vars => TypeInv'
  BY TypeStep
<1>3. QED
  BY <1>1, <1>2, PTL DEF Spec

(* The variables have their types.                                          *)
THEOREM PublicationTypes == Spec => []TypeOK
<1>1. TypeInv => TypeOK
  BY DEF TypeInv
<1>2. QED
  BY <1>1, TypesHold, PTL
-----------------------------------------------------------------------------
(* The inductive invariant.  Beyond what the runs check it says             *)
(*  - which states the run can be in;                                       *)
(*  - that what a session is about to approve has been asked for;           *)
(*  - that a worker between its checks and the intent is allowed to go on:  *)
(*    its approval may have been used up, and then Intend refuses it, but   *)
(*    it has been granted for this title;                                   *)
(*  - that a worker behind the intent works for the title of the intent.    *)
Granted == {"APPROVED", "CONSUMED"}

ForTitle(p, t) == approvals[p].status \in Granted /\ approvals[p].title = t

Reached == runState \in {"AWAITING_PUBLISH_APPROVAL", "PUBLISH", "REPORT", "CANCELLED"}

HeldIsAsked == \A s \in Sessions : holding[s] # None => approvals[holding[s]].status # "none"

CheckedIsGranted ==
  \A w \in Workers :
    pc[w] \in {"base", "intent"} => validated /\ ForTitle(call[w].approval, call[w].title)

BehindIsIntended ==
  /\ \A w \in Workers :
       /\ pc[w] \in Behind => call[w].title = outbox.title
       /\ pc[w] = "record" => pulls # << >>
  /\ \A i \in 1..Len(inflight) : inflight[i] = outbox.title

IInv ==
  /\ Reached /\ HeldIsAsked /\ CheckedIsGranted /\ BehindIsIntended
  /\ RemoteWorkIsApproved /\ OutboxMatchesRun

(* An approval that was granted for a title stays so, whoever uses it.      *)
LEMMA GrantsLast ==
  ASSUME TypeInv, HeldIsAsked, [Next]_vars, NEW p \in Approvals, NEW t, ForTitle(p, t)
  PROVE  ForTitle(p, t)'
<1>1. ASSUME NEW q \in Approvals, NEW u \in Titles, RequestApproval(q, u) PROVE ForTitle(p, t)'
  BY <1>1 DEF RequestApproval, ForTitle, Granted, TypeInv, TypeOK
<1>2. ASSUME NEW s \in Sessions, ApproveWrite(s) PROVE ForTitle(p, t)'
  BY <1>2 DEF ApproveWrite, ForTitle, Granted, TypeInv, TypeOK
<1>3. ASSUME NEW w \in Workers, Intend(w) PROVE ForTitle(p, t)'
  BY <1>3 DEF Intend, Go, ForTitle, Granted, TypeInv, TypeOK, Arguments
<1>4. CASE approvals' = approvals
  BY <1>4 DEF ForTitle
<1>5. QED
  BY <1>1, <1>2, <1>3, <1>4 DEF Next, Work, vars, runVars, ApproveRead, StartPublish, CheckPublish,
    DenyPublish, BaseUnchanged, DenyDrift, DenyIntent, StartResume, LookupBranch, ForeignBranch,
    PushBranch, PushRefused, PushFails, FindPull, OpenPull, OpenRefused, OpenTimesOut, FindAgain,
    Uncertain, Record, Fail, Expire, Land, Cancel, Drift

(* A request of a worker, or a step between two of them.                    *)
LEMMA WorkerKeeps ==
  ASSUME TypeInv, IInv, NEW w \in Workers,
         \/ Leave(w)
         \/ /\ pc[w] # "idle" /\ call' = call
            /\ \E l \in Positions :
                 /\ pc' = [pc EXCEPT ![w] = l]
                 /\ l \in Behind => pc[w] \in Behind
                 /\ l \in {"base", "intent"} =>
                      validated /\ ForTitle(call[w].approval, call[w].title)
                 /\ l = "record" => pulls' # << >>,
         UNCHANGED <<runVars, validated, holding>>,
         branch' = branch \/ pc[w] \in Behind,
         pulls' = pulls \/ (pc[w] \in Behind /\ pulls' = Append(pulls, call[w].title)),
         inflight' = inflight \/ (pc[w] \in Behind /\ inflight' = Append(inflight, call[w].title))
  PROVE  IInv'
<1>1. pulls \in Seq(Titles) /\ inflight \in Seq(Titles)
  BY DEF TypeInv, TypeOK
<1>2. pc[w] \in Behind => /\ outbox.status # "none" /\ call[w].title = outbox.title
                          /\ call[w].title \in Titles
  BY DEF TypeInv, Arguments, IInv, BehindIsIntended, Behind
<1>3. /\ pulls # << >> => pulls' # << >>
      /\ (\A i \in 1..Len(pulls) : pulls[i] = outbox.title) =>
           \A i \in 1..Len(pulls') : pulls'[i] = outbox.title
      /\ pulls' # << >> => pulls # << >> \/ outbox.status # "none"
  BY <1>1, <1>2
<1>4. /\ (\A i \in 1..Len(inflight) : inflight[i] = outbox.title) =>
           \A i \in 1..Len(inflight') : inflight'[i] = outbox.title
      /\ inflight' # << >> => inflight # << >> \/ outbox.status # "none"
  BY <1>1, <1>2
<1>5. RemoteWorkIsApproved'
  BY <1>2, <1>3, <1>4 DEF IInv, RemoteWorkIsApproved, runVars
<1>6. OutboxMatchesRun'
  BY <1>3 DEF IInv, OutboxMatchesRun, runVars
<1>7. BehindIsIntended'
  <2>1. ASSUME NEW v \in Workers \ {w}
        PROVE  /\ pc'[v] \in Behind => call'[v].title = outbox'.title
               /\ pc'[v] = "record" => pulls' # << >>
    <3>1. pc'[v] = pc[v] /\ call'[v] = call[v]
      BY WorkerTypes
    <3>2. QED
      BY <1>3, <3>1 DEF IInv, BehindIsIntended, runVars
  <2>2. CASE Leave(w)
    <3>1. pc'[w] = "idle"
      BY <2>2, WorkerTypes
    <3>2. QED
      BY <1>4, <2>1, <3>1 DEF IInv, BehindIsIntended, Behind, runVars
  <2>3. CASE call' = call /\ \E l \in Positions :
               /\ pc' = [pc EXCEPT ![w] = l] /\ (l \in Behind => pc[w] \in Behind)
               /\ l = "record" => pulls' # << >>
    <3>1. PICK l \in Positions : /\ pc' = [pc EXCEPT ![w] = l]
                                 /\ l \in Behind => pc[w] \in Behind
                                 /\ l = "record" => pulls' # << >>
      BY <2>3
    <3>2. pc'[w] = l
      BY <3>1, WorkerTypes
    <3>3. QED
      BY <1>2, <1>4, <2>1, <2>3, <3>1, <3>2 DEF IInv, BehindIsIntended, runVars
  <2>4. QED
    BY <2>2, <2>3
<1>8. CheckedIsGranted'
  BY WorkerTypes DEF IInv, CheckedIsGranted, ForTitle, runVars
<1>9. Reached' /\ HeldIsAsked'
  BY DEF IInv, Reached, HeldIsAsked, runVars
<1>10. QED
  BY <1>5, <1>6, <1>7, <1>8, <1>9 DEF IInv

(* Every step keeps the invariant.                                          *)
LEMMA InvStep ==
  ASSUME TypeInv, IInv, [Next]_vars
  PROVE  IInv'
<1>1. HeldIsAsked
  BY DEF IInv
<1>2. ASSUME UNCHANGED <<runState, outbox, validated, remoteVars, pc, call>>, HeldIsAsked'
      PROVE  IInv'
  <2>1. ASSUME NEW w \in Workers, pc[w] \in {"base", "intent"}
        PROVE  /\ approvals'[call[w].approval].status \in Granted
               /\ approvals'[call[w].approval].title = call[w].title
    <3>1. PICK p, t : p = call[w].approval /\ t = call[w].title
      OBVIOUS
    <3>2. p \in Approvals /\ ForTitle(p, t)
      BY <2>1, <3>1 DEF IInv, CheckedIsGranted, TypeInv, Arguments
    <3>3. ForTitle(p, t)'
      BY <1>1, <3>2, GrantsLast
    <3>4. QED
      BY <3>1, <3>3 DEF ForTitle
  <2>5. CheckedIsGranted'
    BY <1>2, <2>1 DEF IInv, CheckedIsGranted, ForTitle
  <2>2. RemoteWorkIsApproved'
    <3>1. PICK p, t : p = outbox.approval /\ t = outbox.title
      OBVIOUS
    <3>2. outbox.status # "none" => p \in Approvals /\ ForTitle(p, t)
      BY <3>1 DEF IInv, RemoteWorkIsApproved, ForTitle, Granted, TypeInv, Arguments
    <3>3. outbox.status # "none" => ForTitle(p, t)'
      BY <1>1, <3>2, GrantsLast
    <3>4. QED
      BY <1>2, <3>1, <3>3 DEF IInv, RemoteWorkIsApproved, ForTitle, Granted, remoteVars
  <2>3. Reached' /\ BehindIsIntended' /\ OutboxMatchesRun'
    BY <1>2 DEF IInv, Reached, BehindIsIntended, OutboxMatchesRun, remoteVars
  <2>4. QED
    BY <1>2, <2>2, <2>3, <2>5 DEF IInv
<1>3. ASSUME NEW p \in Approvals, NEW t \in Titles, RequestApproval(p, t) PROVE IInv'
  <2>1. HeldIsAsked'
    BY <1>3 DEF RequestApproval, IInv, HeldIsAsked, TypeInv, TypeOK
  <2>2. QED
    BY <1>2, <1>3, <2>1 DEF RequestApproval
<1>4. ASSUME NEW s \in Sessions, NEW p \in Approvals, ApproveRead(s, p) PROVE IInv'
  <2>1. HeldIsAsked'
    BY <1>4 DEF ApproveRead, IInv, HeldIsAsked, TypeInv, TypeOK, runVars
  <2>2. QED
    BY <1>2, <1>4, <2>1 DEF ApproveRead, runVars
<1>5. ASSUME NEW s \in Sessions, ApproveWrite(s) PROVE IInv'
  <2>1. HeldIsAsked'
    BY <1>5 DEF ApproveWrite, IInv, HeldIsAsked, TypeInv, TypeOK
  <2>2. QED
    BY <1>2, <1>5, <2>1 DEF ApproveWrite
<1>6. ASSUME NEW w \in Workers, NEW p \in Approvals, NEW t \in Titles, StartPublish(w, p, t)
      PROVE  IInv'
  <2>1. /\ pc[w] = "idle" /\ pc' = [pc EXCEPT ![w] = "check"]
        /\ \A v \in Workers \ {w} : pc'[v] = pc[v] /\ call'[v] = call[v]
        /\ pc'[w] = "check"
        /\ UNCHANGED <<runState, approvals, outbox, validated, branch, pulls, inflight, holding>>
    BY <1>6 DEF StartPublish, Go, TypeInv, TypeOK, runVars, remoteVars
  <2>2. CheckedIsGranted' /\ BehindIsIntended'
    BY <2>1 DEF IInv, CheckedIsGranted, BehindIsIntended, ForTitle, Behind
  <2>3. Reached' /\ HeldIsAsked' /\ RemoteWorkIsApproved' /\ OutboxMatchesRun'
    BY <2>1 DEF IInv, Reached, HeldIsAsked, RemoteWorkIsApproved, OutboxMatchesRun
  <2>4. QED
    BY <2>2, <2>3 DEF IInv
<1>7. ASSUME NEW w \in Workers, StartResume(w) PROVE IInv'
  <2>1. /\ pc[w] = "idle" /\ pc' = [pc EXCEPT ![w] = "resume base"]
        /\ \A v \in Workers \ {w} : pc'[v] = pc[v] /\ call'[v] = call[v]
        /\ pc'[w] = "resume base" /\ call'[w].title = outbox.title
        /\ UNCHANGED <<runState, approvals, outbox, validated, branch, pulls, inflight, holding>>
    BY <1>7 DEF StartResume, Go, TypeInv, TypeOK, runVars, remoteVars
  <2>2. CheckedIsGranted' /\ BehindIsIntended'
    BY <2>1 DEF IInv, CheckedIsGranted, BehindIsIntended, ForTitle
  <2>3. Reached' /\ HeldIsAsked' /\ RemoteWorkIsApproved' /\ OutboxMatchesRun'
    BY <2>1 DEF IInv, Reached, HeldIsAsked, RemoteWorkIsApproved, OutboxMatchesRun
  <2>4. QED
    BY <2>2, <2>3 DEF IInv
<1>8. ASSUME NEW w \in Workers, Intend(w) PROVE IInv'
  <2>1. /\ pc[w] = "intent" /\ pc' = [pc EXCEPT ![w] = "lookup"]
        /\ approvals' = [approvals EXCEPT ![call[w].approval].status = "CONSUMED"]
        /\ outbox' = [status |-> "INTENT", approval |-> call[w].approval, title |-> call[w].title]
        /\ outbox.status = "none" /\ runState' = "PUBLISH"
        /\ UNCHANGED <<validated, branch, pulls, inflight, call, holding>>
    BY <1>8 DEF Intend, CanIntend, Go, remoteVars
  <2>2. /\ call[w].approval \in Approvals /\ validated
        /\ ForTitle(call[w].approval, call[w].title)
        /\ \A v \in Workers : pc[v] \notin Behind
        /\ pulls = << >> /\ inflight = << >> /\ branch # "ours"
    BY <2>1 DEF TypeInv, Arguments, IInv, CheckedIsGranted, RemoteWorkIsApproved
  <2>3. \A p \in Approvals :
          /\ approvals'[p].title = approvals[p].title
          /\ approvals'[p].status = IF p = call[w].approval THEN "CONSUMED" ELSE approvals[p].status
    BY <2>1, <2>2 DEF TypeInv, TypeOK
  <2>4. /\ \A v \in Workers \ {w} : pc'[v] = pc[v]
        /\ pc'[w] = "lookup"
    BY <2>1 DEF TypeInv, TypeOK
  <2>5. Reached' /\ OutboxMatchesRun'
    BY <2>1 DEF Reached, OutboxMatchesRun
  <2>6. HeldIsAsked'
    BY <2>1, <2>3 DEF IInv, HeldIsAsked, TypeInv, TypeOK
  <2>7. CheckedIsGranted'
    BY <2>1, <2>3, <2>4 DEF IInv, CheckedIsGranted, ForTitle, Granted, TypeInv, Arguments
  <2>8. BehindIsIntended'
    BY <2>1, <2>2, <2>4 DEF IInv, BehindIsIntended
  <2>9. RemoteWorkIsApproved'
    BY <2>1, <2>2, <2>3 DEF RemoteWorkIsApproved, ForTitle
  <2>10. QED
    BY <2>5, <2>6, <2>7, <2>8, <2>9 DEF IInv
<1>9. ASSUME NEW w \in Workers,
             \/ DenyPublish(w) \/ DenyDrift(w) \/ DenyIntent(w) \/ ForeignBranch(w)
             \/ PushRefused(w) \/ PushFails(w) \/ OpenRefused(w) \/ Uncertain(w) \/ Fail(w)
      PROVE  IInv'
  <2>1. /\ Leave(w) /\ UNCHANGED <<runVars, validated, holding>>
        /\ branch' = branch \/ pc[w] \in Behind
        /\ pulls' = pulls /\ inflight' = inflight
    BY <1>9 DEF DenyPublish, DenyDrift, DenyIntent, ForeignBranch, PushRefused, PushFails,
      OpenRefused, Uncertain, Fail, remoteVars, Behind
  <2>2. QED
    BY <2>1, WorkerKeeps
<1>10. ASSUME NEW w \in Workers,
              \/ CheckPublish(w) \/ BaseUnchanged(w) \/ LookupBranch(w) \/ PushBranch(w)
              \/ FindPull(w) \/ FindAgain(w)
       PROVE  IInv'
  <2>1. CheckPublish(w) => validated /\ ForTitle(call[w].approval, call[w].title)
    BY DEF CheckPublish, Authorised, ForTitle, Granted
  <2>2. pc[w] = "base" => validated /\ ForTitle(call[w].approval, call[w].title)
    BY DEF IInv, CheckedIsGranted
  <2>3. PICK l \in Positions : pc' = [pc EXCEPT ![w] = l]
    BY <1>10 DEF CheckPublish, BaseUnchanged, LookupBranch, PushBranch, FindPull, FindAgain, Go,
      Positions
  <2>4. pc'[w] = l
    BY <2>3, WorkerTypes
  <2>5. /\ pc[w] # "idle"
        /\ l \in Behind => pc[w] \in Behind
        /\ l \in {"base", "intent"} => validated /\ ForTitle(call[w].approval, call[w].title)
        /\ l = "record" => pulls # << >>
    BY <1>10, <2>1, <2>2, <2>4 DEF CheckPublish, BaseUnchanged, LookupBranch, PushBranch, FindPull,
      FindAgain, Go, Behind, TypeInv, TypeOK
  <2>6. /\ call' = call /\ UNCHANGED <<runVars, validated, holding>>
        /\ branch' = branch \/ pc[w] \in Behind
        /\ pulls' = pulls /\ inflight' = inflight
    BY <1>10 DEF CheckPublish, BaseUnchanged, LookupBranch, PushBranch, FindPull, FindAgain, Go,
      remoteVars, Behind
  <2>7. QED
    BY <2>3, <2>5, <2>6, WorkerKeeps
<1>11. ASSUME NEW w \in Workers, OpenPull(w) \/ OpenTimesOut(w) PROVE IInv'
  <2>1. Append(pulls, call[w].title) # << >>
    <3>1. pc[w] = "open" => call[w].title \in Titles
      BY DEF TypeInv, Arguments, Behind
    <3>2. pulls \in Seq(Titles)
      BY DEF TypeInv, TypeOK
    <3>3. pc[w] = "open"
      BY <1>11 DEF OpenPull, OpenTimesOut, Go
    <3>4. QED
      BY <3>1, <3>2, <3>3
  <2>2. /\ pc[w] = "open" /\ call' = call
        /\ \/ pc' = [pc EXCEPT ![w] = "record"] /\ pulls' = Append(pulls, call[w].title)
           \/ pc' = [pc EXCEPT ![w] = "find again"]
        /\ UNCHANGED <<runVars, validated, holding>>
        /\ branch' = branch
        /\ pulls' = pulls \/ pulls' = Append(pulls, call[w].title)
        /\ inflight' = inflight \/ inflight' = Append(inflight, call[w].title)
    BY <1>11 DEF OpenPull, OpenTimesOut, Go
  <2>3. pc[w] \in Behind /\ "record" \in Positions /\ "find again" \in Positions
    BY <2>2 DEF Behind, Positions
  <2>4. QED
    BY <2>1, <2>2, <2>3, WorkerKeeps
<1>12. ASSUME NEW w \in Workers, Record(w) PROVE IInv'
  <2>1. /\ pc[w] = "record" /\ outbox.status # "none" /\ pulls # << >>
        /\ runState # "AWAITING_PUBLISH_APPROVAL"
    BY <1>12 DEF Record, TypeInv, Arguments, Behind, IInv, BehindIsIntended, OutboxMatchesRun
  <2>2. /\ outbox'.status = "SUCCEEDED" /\ outbox'.approval = outbox.approval
        /\ outbox'.title = outbox.title
        /\ runState' = IF runState = "PUBLISH" THEN "REPORT" ELSE runState
        /\ pc'[w] = "idle"
        /\ \A v \in Workers \ {w} : pc'[v] = pc[v] /\ call'[v] = call[v]
        /\ UNCHANGED <<approvals, validated, branch, pulls, inflight, holding>>
    BY <1>12, WorkerTypes DEF Record, TypeInv, TypeOK, remoteVars
  <2>3. Reached' /\ OutboxMatchesRun'
    BY <2>1, <2>2 DEF IInv, Reached, OutboxMatchesRun
  <2>4. HeldIsAsked' /\ CheckedIsGranted' /\ BehindIsIntended'
    BY <2>2 DEF IInv, HeldIsAsked, CheckedIsGranted, BehindIsIntended, Behind, ForTitle
  <2>5. RemoteWorkIsApproved'
    BY <2>1, <2>2 DEF IInv, RemoteWorkIsApproved
  <2>6. QED
    BY <2>3, <2>4, <2>5 DEF IInv
<1>13. ASSUME Land PROVE IInv'
  <2>1. inflight # << >> /\ inflight \in Seq(Titles) /\ pulls \in Seq(Titles)
    BY <1>13 DEF Land, TypeInv, TypeOK
  <2>2. Head(inflight) = outbox.title /\ outbox.status # "none"
    BY <2>1 DEF IInv, BehindIsIntended, RemoteWorkIsApproved
  <2>3. /\ pulls' = pulls \/ pulls' = Append(pulls, outbox.title)
        /\ inflight' = Tail(inflight)
        /\ UNCHANGED <<runState, approvals, outbox, validated, branch, pc, call, holding>>
    BY <1>13, <2>2 DEF Land, runVars
  <2>4. outbox.title \in Titles
    BY <2>2 DEF TypeInv, Arguments
  <2>5. /\ pulls # << >> => pulls' # << >>
        /\ \A i \in 1..Len(pulls') : pulls'[i] = outbox.title
        /\ \A i \in 1..Len(inflight') : inflight'[i] = outbox.title
    <3>1. /\ \A i \in 1..Len(pulls) : pulls[i] = outbox.title
          /\ \A i \in 1..Len(inflight) : inflight[i] = outbox.title
      BY DEF IInv, BehindIsIntended, RemoteWorkIsApproved
    <3>2. /\ pulls # << >> => pulls' # << >>
          /\ \A i \in 1..Len(pulls') : pulls'[i] = outbox.title
      BY <2>1, <2>3, <2>4, <3>1
    <3>3. \A i \in 1..Len(Tail(inflight)) : Tail(inflight)[i] = outbox.title
      BY <2>1, <3>1
    <3>4. QED
      BY <2>3, <3>2, <3>3
  <2>6. QED
    BY <2>2, <2>3, <2>5 DEF IInv, Reached, HeldIsAsked, CheckedIsGranted, BehindIsIntended,
      RemoteWorkIsApproved, OutboxMatchesRun, ForTitle
<1>14. ASSUME Cancel PROVE IInv'
  BY <1>14 DEF Cancel, remoteVars, IInv, Reached, HeldIsAsked, CheckedIsGranted, BehindIsIntended,
    RemoteWorkIsApproved, OutboxMatchesRun, ForTitle
<1>15. CASE Drift \/ (\E p \in Approvals : Expire(p)) \/ UNCHANGED vars
  BY <1>15 DEF Drift, Expire, vars, runVars, remoteVars, IInv, Reached, HeldIsAsked,
    CheckedIsGranted, BehindIsIntended, RemoteWorkIsApproved, OutboxMatchesRun, ForTitle
<1>16. QED
  BY <1>3, <1>4, <1>5, <1>6, <1>7, <1>8, <1>9, <1>10, <1>11, <1>12, <1>13, <1>14, <1>15
  DEF Next, Work

LEMMA InvHolds == Spec => []IInv
<1>1. Init => IInv
  BY DEF Init, NoIntent, IInv, Reached, HeldIsAsked, CheckedIsGranted, BehindIsIntended, Behind,
    RemoteWorkIsApproved, OutboxMatchesRun
<1>2. TypeInv /\ IInv /\ [Next]_vars => IInv'
  BY InvStep
<1>3. QED
  BY <1>1, <1>2, TypesHold, PTL DEF Spec

(* No push and no pull request before an approval for that title, whatever  *)
(* the workers, the approver, GitHub and the clock do meanwhile.            *)
THEOREM RemoteWorkStandsBehindApproval == Spec => []RemoteWorkIsApproved
<1>1. IInv => RemoteWorkIsApproved
  BY DEF IInv
<1>2. QED
  BY <1>1, InvHolds, PTL

(* The run row and the outbox row move together, and a recorded success has *)
(* its pull request.                                                        *)
THEOREM OutboxFollowsRun == Spec => []OutboxMatchesRun
<1>1. IInv => OutboxMatchesRun
  BY DEF IInv
<1>2. QED
  BY <1>1, InvHolds, PTL
-----------------------------------------------------------------------------
(* The pull request is opened once when GitHub refuses a second one for the *)
(* branch, and also, without its help, when a run has one worker and no     *)
(* POST lands after its caller gave up: find_pr is then not out of date.    *)
Guarded ==
  \/ RejectsDuplicates
  \/ ~LateLanding /\ \A v, w \in Workers : v = w

OnePull ==
  /\ pulls = << >> \/ Len(pulls) = 1
  /\ ~RejectsDuplicates =>
       inflight = << >> /\ \A w \in Workers : pc[w] = "open" => pulls = << >>

(* A step either leaves the pull requests alone or opens the first one.     *)
LEMMA OnePullStep ==
  ASSUME Guarded, TypeInv, OnePull, [Next]_vars
  PROVE  OnePull' /\ (pulls' = pulls \/ (pulls = << >> /\ Len(pulls') = 1))
<1>1. /\ pulls \in Seq(Titles) /\ inflight \in Seq(Titles)
      /\ \A w \in Workers : pc[w] = "open" => call[w].title \in Titles
  BY DEF TypeInv, TypeOK, Arguments, Behind
<1>2. \A t \in Titles : Len(Append(<< >>, t)) = 1
  OBVIOUS
<1>3. ASSUME NEW w \in Workers, OpenPull(w) \/ OpenTimesOut(w)
      PROVE  OnePull' /\ (pulls' = pulls \/ (pulls = << >> /\ Len(pulls') = 1))
  <2>1. /\ pc[w] = "open" /\ pc'[w] # "open"
        /\ \A v \in Workers : v # w => pc'[v] = pc[v]
    BY <1>3 DEF OpenPull, OpenTimesOut, Go, TypeInv, TypeOK
  <2>2. /\ pulls' = pulls \/ (~Refused /\ pulls' = Append(pulls, call[w].title))
        /\ inflight' = inflight \/ LateLanding
    BY <1>3 DEF OpenPull, OpenTimesOut
  <2>3. ~Refused => pulls = << >>
    BY <2>1 DEF Refused, OnePull
  <2>4. pulls' = pulls \/ (pulls = << >> /\ Len(pulls') = 1)
    BY <1>1, <1>2, <2>1, <2>2, <2>3
  <2>5. QED
    BY <2>1, <2>2, <2>4 DEF OnePull, Guarded
<1>4. CASE Land
  <2>1. inflight # << >> /\ RejectsDuplicates /\ Head(inflight) \in Titles
    BY <1>1, <1>4 DEF Land, OnePull
  <2>2. pulls' = pulls \/ (pulls = << >> /\ pulls' = Append(pulls, Head(inflight)))
    BY <1>4, <2>1 DEF Land, Refused
  <2>3. QED
    BY <1>2, <2>1, <2>2 DEF OnePull
<1>5. CASE UNCHANGED <<pulls, inflight>> /\
           \A w \in Workers : pc'[w] = "open" => pc[w] = "open" \/ pulls = << >>
  BY <1>5 DEF OnePull
<1>6. ASSUME NEW w \in Workers,
             \/ DenyPublish(w) \/ DenyDrift(w) \/ DenyIntent(w) \/ ForeignBranch(w)
             \/ PushRefused(w) \/ PushFails(w) \/ OpenRefused(w) \/ Uncertain(w) \/ Fail(w)
             \/ Record(w)
      PROVE  UNCHANGED <<pulls, inflight>> /\
             \A v \in Workers : pc'[v] = "open" => pc[v] = "open" \/ pulls = << >>
  <2>1. Leave(w) /\ UNCHANGED <<pulls, inflight>>
    BY <1>6 DEF DenyPublish, DenyDrift, DenyIntent, ForeignBranch, PushRefused, PushFails,
      OpenRefused, Uncertain, Fail, Record, remoteVars
  <2>2. QED
    BY <2>1, WorkerTypes
<1>7. ASSUME NEW w \in Workers,
             \/ CheckPublish(w) \/ BaseUnchanged(w) \/ Intend(w) \/ StartResume(w)
             \/ LookupBranch(w) \/ PushBranch(w) \/ FindPull(w) \/ FindAgain(w)
             \/ \E p \in Approvals, t \in Titles : StartPublish(w, p, t)
      PROVE  UNCHANGED <<pulls, inflight>> /\
             \A v \in Workers : pc'[v] = "open" => pc[v] = "open" \/ pulls = << >>
  <2>1. /\ UNCHANGED <<pulls, inflight>>
        /\ \E l \in Positions : /\ pc' = [pc EXCEPT ![w] = l]
                                /\ l = "open" => pulls = << >>
    BY <1>7 DEF CheckPublish, BaseUnchanged, Intend, StartResume, LookupBranch, PushBranch,
      FindPull, FindAgain, StartPublish, Go, Positions, remoteVars
  <2>2. QED
    BY <2>1, WorkerTypes
<1>8. ASSUME \/ \E p \in Approvals, t \in Titles : RequestApproval(p, t)
             \/ \E s \in Sessions, p \in Approvals : ApproveRead(s, p)
             \/ \E s \in Sessions : ApproveWrite(s)
             \/ \E p \in Approvals : Expire(p)
             \/ Cancel \/ Drift \/ UNCHANGED vars
      PROVE  UNCHANGED <<pulls, inflight, pc>>
  BY <1>8 DEF RequestApproval, ApproveRead, ApproveWrite, Expire, Cancel, Drift, vars, runVars,
    remoteVars
<1>9. QED
  BY <1>3, <1>4, <1>5, <1>6, <1>7, <1>8 DEF Next, Work

LEMMA OnePullHolds ==
  ASSUME Guarded
  PROVE  Spec => []OnePull
<1>1. Init => OnePull
  BY DEF Init, OnePull
<1>2. TypeInv /\ OnePull /\ [Next]_vars => OnePull'
  BY OnePullStep
<1>3. QED
  BY <1>1, <1>2, TypesHold, PTL DEF Spec

(* Only the intent and the final transaction write the outbox.              *)
LEMMA OutboxStep ==
  ASSUME TypeInv, [Next]_vars
  PROVE  \/ outbox' = outbox
         \/ outbox.status = "none" /\ outbox'.status = "INTENT" /\ pulls' = pulls
         \/ \E w \in Workers : pc[w] = "record" /\ outbox'.status = "SUCCEEDED" /\ pulls' = pulls
<1>1. ASSUME NEW w \in Workers, Intend(w)
      PROVE  outbox.status = "none" /\ outbox'.status = "INTENT" /\ pulls' = pulls
  BY <1>1 DEF Intend, CanIntend, remoteVars
<1>2. ASSUME NEW w \in Workers, Record(w)
      PROVE  pc[w] = "record" /\ outbox'.status = "SUCCEEDED" /\ pulls' = pulls
  BY <1>2 DEF Record, TypeInv, TypeOK, remoteVars
<1>3. QED
  BY <1>1, <1>2 DEF Next, Work, vars, runVars, RequestApproval, ApproveRead, ApproveWrite,
    StartPublish, CheckPublish, DenyPublish, BaseUnchanged, DenyDrift, DenyIntent, StartResume,
    LookupBranch, ForeignBranch, PushBranch, PushRefused, PushFails, FindPull, OpenPull,
    OpenRefused, OpenTimesOut, FindAgain, Uncertain, Fail, Expire, Land, Cancel, Drift

LEMMA PullRequestStep ==
  ASSUME TypeInv, IInv, IInv', OnePull, [Next]_vars,
         OnePull' /\ (pulls' = pulls \/ (pulls = << >> /\ Len(pulls') = 1))
  PROVE  [PullRequest!Next]_<<outbox.status # "none", Len(pulls), outbox.status = "SUCCEEDED">>
<1>1. Len(<< >>) = 0 /\ pulls \in Seq(Titles)
  BY DEF TypeInv, TypeOK
<1>2. outbox.status = "none" => pulls = << >>
  BY DEF IInv, RemoteWorkIsApproved
<1>3. CASE outbox' = outbox
  <2>1. pulls' = << >> \/ outbox.status # "none"
    BY <1>3 DEF IInv, RemoteWorkIsApproved
  <2>2. outbox.status = "SUCCEEDED" => pulls # << >>
    BY DEF IInv, OutboxMatchesRun
  <2>3. QED
    BY <1>1, <1>3, <2>1, <2>2 DEF PullRequest!Next, PullRequest!Perform
<1>4. CASE outbox.status = "none" /\ outbox'.status = "INTENT" /\ pulls' = pulls
  BY <1>4 DEF PullRequest!Next, PullRequest!Intend
<1>5. ASSUME NEW w \in Workers, pc[w] = "record", outbox'.status = "SUCCEEDED", pulls' = pulls
      PROVE  [PullRequest!Next]_<<outbox.status # "none", Len(pulls), outbox.status = "SUCCEEDED">>
  <2>1. pulls # << >> /\ outbox.status # "none"
    BY <1>2, <1>5 DEF IInv, BehindIsIntended
  <2>2. Len(pulls) = 1
    BY <2>1 DEF OnePull
  <2>3. QED
    BY <1>5, <2>1, <2>2 DEF PullRequest!Next, PullRequest!Record
<1>6. QED
  BY <1>3, <1>4, <1>5, OutboxStep

(* A publication does what a durable effect promises: intent, one pull      *)
(* request, record, in this order, whatever crashes, times out and resumes. *)
THEOREM PullRequestOpensOnce ==
  ASSUME Guarded
  PROVE  Spec => PullRequestOnce
<1>1. Init => PullRequest!Init
  BY DEF Init, NoIntent, PullRequest!Init
<1>2. /\ TypeInv /\ IInv /\ IInv' /\ OnePull /\ [Next]_vars
      => [PullRequest!Next]_<<outbox.status # "none", Len(pulls), outbox.status = "SUCCEEDED">>
  BY OnePullStep, PullRequestStep
<1>3. QED
  BY <1>1, <1>2, TypesHold, InvHolds, OnePullHolds, PTL DEF Spec, PullRequestOnce, PullRequest!Spec
=============================================================================
