----------------------------- MODULE Publication -----------------------------
(***************************************************************************)
(* PublicationService and GitHubAdapter.publish: from a validated run that  *)
(* awaits approval to an open pull request and state REPORT, for one run.   *)
(*                                                                          *)
(* Worker processes call publish() and resume(); sessions of the approver   *)
(* call approve(), which reads the approval before its transaction begins;  *)
(* an operator may cancel the run.  Each SQLite transaction and each GitHub *)
(* request is a step.  A request may fail, time out with or without effect,  *)
(* or (LateLanding) take effect after its caller gave up; a worker may die   *)
(* between any two steps.                                                    *)
(*                                                                          *)
(* The content of a publication is its title: story, generation, diff and    *)
(* base are the run's, cannot change after VALIDATE, and are compared in the *)
(* code exactly like the title.                                              *)
(***************************************************************************)
EXTENDS RunStates

CONSTANTS
  Workers,            \* processes that publish or resume
  Sessions,           \* concurrent approve() calls
  Approvals,          \* approval ids
  Titles,             \* pull request titles
  MaxFaults,          \* bound on failed requests, timeouts and crashes
  LateLanding,        \* a timed-out POST may take effect later
  RejectsDuplicates,  \* GitHub refuses a second pull request for the branch
  None

ASSUME FaultsAssumption == MaxFaults \in Nat
ASSUME SwitchesAssumption == LateLanding \in BOOLEAN /\ RejectsDuplicates \in BOOLEAN
ASSUME NoneAssumption == None \notin Approvals \cup Titles

VARIABLES
  runState,    \* runs.state
  approvals,   \* publish_approvals: id -> [status, title]
  outbox,      \* publication_outbox: [status, approval, title]
  expired,     \* approvals whose expires_at has passed
  validated,   \* the newest checkpoint passed for the current generation
  drifted,     \* the remote base branch has left base_revision
  branch,      \* the publication branch: "absent", "ours", "foreign"
  pulls,       \* titles of the pull requests of the branch, in order of creation
  inflight,    \* titles of timed-out POSTs that may still land
  pc,          \* worker -> where it is
  call,        \* worker -> [approval, title, fresh]: publish()'s arguments and clock
  holding,     \* session -> the approval it read as PENDING
  faults

runVars    == <<runState, approvals, outbox>>
remoteVars == <<branch, pulls, inflight>>
vars == <<runVars, expired, validated, drifted, remoteVars, pc, call, holding, faults>>

NoCall == [approval |-> None, title |-> None, fresh |-> FALSE]
NoIntent == [status |-> "none", approval |-> None, title |-> None]

Init ==
  /\ runState = "AWAITING_PUBLISH_APPROVAL"
  /\ approvals = [p \in Approvals |-> [status |-> "none", title |-> None]]
  /\ outbox = NoIntent
  /\ expired = {}
  /\ validated \in BOOLEAN
  /\ drifted = FALSE
  /\ branch \in {"absent", "foreign"}
  /\ pulls = << >> /\ inflight = << >>
  /\ pc = [w \in Workers |-> "idle"]
  /\ call = [w \in Workers |-> NoCall]
  /\ holding = [s \in Sessions |-> None]
  /\ faults = 0

Go(w, from, to) == pc[w] = from /\ pc' = [pc EXCEPT ![w] = to]

(* Return, or an exception that reaches the driver.                          *)
Leave(w) ==
  /\ pc' = [pc EXCEPT ![w] = "idle"]
  /\ call' = [call EXCEPT ![w] = NoCall]

Fault == faults < MaxFaults /\ faults' = faults + 1
-----------------------------------------------------------------------------
(* Approval.                                                                  *)
RequestApproval(p, t) ==
  /\ runState = "AWAITING_PUBLISH_APPROVAL"
  /\ approvals[p].status = "none"
  /\ approvals' = [approvals EXCEPT ![p] = [status |-> "PENDING", title |-> t]]
  /\ UNCHANGED <<runState, outbox, expired, validated, drifted, remoteVars, pc, call, holding,
                 faults>>

(* approve: the SELECT and its checks.                                        *)
ApproveRead(s, p) ==
  /\ holding[s] = None
  /\ approvals[p].status = "PENDING" /\ p \notin expired
  /\ holding' = [holding EXCEPT ![s] = p]
  /\ UNCHANGED <<runVars, expired, validated, drifted, remoteVars, pc, call, faults>>

(* approve: UPDATE ... WHERE approval_id = ?, whatever the status is by now.  *)
ApproveWrite(s) ==
  /\ holding[s] # None
  /\ approvals' = [approvals EXCEPT ![holding[s]].status = "APPROVED"]
  /\ holding' = [holding EXCEPT ![s] = None]
  /\ UNCHANGED <<runState, outbox, expired, validated, drifted, remoteVars, pc, call, faults>>
-----------------------------------------------------------------------------
(* _publish: the arguments and the clock are taken at the start.              *)
StartPublish(w, p, t) ==
  /\ Go(w, "idle", "check")
  /\ runState = "AWAITING_PUBLISH_APPROVAL" /\ approvals[p].status # "none"
  /\ call' = [call EXCEPT ![w] = [approval |-> p, title |-> t, fresh |-> p \notin expired]]
  /\ UNCHANGED <<runVars, expired, validated, drifted, remoteVars, holding, faults>>

ExactTitleIgnored(w) ==          \* broken form: action_digest is not compared
  /\ runState = "AWAITING_PUBLISH_APPROVAL"
  /\ approvals[call[w].approval].status = "APPROVED"
  /\ call[w].fresh /\ validated

(* The checks before the intent: durable state, exact unexpired approval,     *)
(* validation of this generation.                                             *)
Authorised(w) ==
  /\ runState = "AWAITING_PUBLISH_APPROVAL"
  /\ approvals[call[w].approval] = [status |-> "APPROVED", title |-> call[w].title]
  /\ call[w].fresh /\ validated

CheckPublish(w) ==
  /\ Go(w, "check", "base")
  /\ Authorised(w)
  /\ UNCHANGED <<runVars, expired, validated, drifted, remoteVars, call, holding, faults>>

DenyPublish(w) ==
  /\ pc[w] = "check" /\ ~Authorised(w)
  /\ Leave(w)
  /\ UNCHANGED <<runVars, expired, validated, drifted, remoteVars, holding, faults>>

(* GET of the base branch, before the intent and before a resumed publish.    *)
BaseUnchanged(w) ==
  /\ pc[w] \in {"base", "resume base"}
  /\ ~drifted
  /\ pc' = [pc EXCEPT ![w] = IF @ = "base" THEN "intent" ELSE "lookup"]
  /\ UNCHANGED <<runVars, expired, validated, drifted, remoteVars, call, holding, faults>>

DenyDrift(w) ==
  /\ pc[w] \in {"base", "resume base"} /\ drifted
  /\ Leave(w)
  /\ UNCHANGED <<runVars, expired, validated, drifted, remoteVars, holding, faults>>

(* The intent transaction: consume the approval, insert the outbox row (its   *)
(* key is the run), move the run.  Any miss rolls all three back.             *)
IntendSwapped(w) ==              \* broken form: the two statuses change places
  /\ Go(w, "intent", "lookup")
  /\ approvals[call[w].approval].status = "APPROVED"
  /\ outbox.status = "none"
  /\ runState = "AWAITING_PUBLISH_APPROVAL"
  /\ approvals' = [approvals EXCEPT ![call[w].approval].status = "INTENT"]
  /\ outbox' = [status |-> "CONSUMED", approval |-> call[w].approval, title |-> call[w].title]
  /\ runState' = "PUBLISH"
  /\ UNCHANGED <<expired, validated, drifted, remoteVars, call, holding, faults>>

CanIntend(w) ==
  /\ approvals[call[w].approval].status = "APPROVED"
  /\ outbox.status = "none"
  /\ runState = "AWAITING_PUBLISH_APPROVAL"

Intend(w) ==
  /\ Go(w, "intent", "lookup")
  /\ CanIntend(w)
  /\ approvals' = [approvals EXCEPT ![call[w].approval].status = "CONSUMED"]
  /\ outbox' = [status |-> "INTENT", approval |-> call[w].approval, title |-> call[w].title]
  /\ runState' = "PUBLISH"
  /\ UNCHANGED <<expired, validated, drifted, remoteVars, call, holding, faults>>

DenyIntent(w) ==
  /\ pc[w] = "intent" /\ ~CanIntend(w)
  /\ Leave(w)
  /\ UNCHANGED <<runVars, expired, validated, drifted, remoteVars, holding, faults>>
-----------------------------------------------------------------------------
ApprovedIntent ==                \* broken form: resume asks for an unused approval
  /\ outbox.status = "INTENT"
  /\ approvals[outbox.approval].status = "APPROVED"

(* _resume: only a persisted intent whose approval is CONSUMED goes on.       *)
ConsumedIntent ==
  /\ outbox.status = "INTENT"
  /\ approvals[outbox.approval].status = "CONSUMED"

StartResume(w) ==
  /\ Go(w, "idle", "resume base")
  /\ runState = "PUBLISH" /\ ConsumedIntent
  /\ call' = [call EXCEPT ![w] =
                [approval |-> outbox.approval, title |-> outbox.title, fresh |-> FALSE]]
  /\ UNCHANGED <<runVars, expired, validated, drifted, remoteVars, holding, faults>>
-----------------------------------------------------------------------------
(* GitHubAdapter.publish: GET of the branch.                                  *)
LookupBranch(w) ==
  /\ pc[w] = "lookup" /\ branch # "foreign"
  /\ pc' = [pc EXCEPT ![w] = IF branch = "absent" THEN "push" ELSE "find"]
  /\ UNCHANGED <<runVars, expired, validated, drifted, remoteVars, call, holding, faults>>

(* The branch exists and its commit does not carry the run's marker.          *)
ForeignBranch(w) ==
  /\ pc[w] = "lookup" /\ branch = "foreign"
  /\ Leave(w)
  /\ UNCHANGED <<runVars, expired, validated, drifted, remoteVars, holding, faults>>

(* Blobs, tree, commit and the POST of the ref, which alone is visible.       *)
PushBranch(w) ==
  /\ Go(w, "push", "find")
  /\ branch = "absent"
  /\ branch' = "ours"
  /\ UNCHANGED <<runVars, expired, validated, drifted, pulls, inflight, call, holding, faults>>

(* The ref exists by now (another worker pushed it): 422, not caught.         *)
PushRefused(w) ==
  /\ pc[w] = "push" /\ branch # "absent"
  /\ Leave(w)
  /\ UNCHANGED <<runVars, expired, validated, drifted, remoteVars, holding, faults>>

(* A failed or timed-out push, with or without effect, is not caught either.  *)
PushFails(w) ==
  /\ pc[w] = "push" /\ Fault
  /\ Leave(w)
  /\ branch' \in {branch, IF branch = "absent" THEN "ours" ELSE branch}
  /\ UNCHANGED <<runVars, expired, validated, drifted, pulls, inflight, holding>>

FindPullBlind(w) ==              \* broken form: does not look for an existing pull request
  /\ Go(w, "find", "open")
  /\ UNCHANGED <<runVars, expired, validated, drifted, remoteVars, call, holding, faults>>

(* find_pr before the POST.                                                   *)
FindPull(w) ==
  /\ pc[w] = "find"
  /\ pc' = [pc EXCEPT ![w] = IF pulls = << >> THEN "open" ELSE "record"]
  /\ UNCHANGED <<runVars, expired, validated, drifted, remoteVars, call, holding, faults>>

Refused == RejectsDuplicates /\ pulls # << >>

OpenPull(w) ==
  /\ Go(w, "open", "record")
  /\ ~Refused
  /\ pulls' = Append(pulls, call[w].title)
  /\ UNCHANGED <<runVars, expired, validated, drifted, branch, inflight, call, holding, faults>>

OpenRefused(w) ==
  /\ pc[w] = "open" /\ Refused
  /\ Leave(w)
  /\ UNCHANGED <<runVars, expired, validated, drifted, remoteVars, holding, faults>>

(* GitHubTimeout: the POST took effect, did not, or may still do so.          *)
OpenTimesOut(w) ==
  /\ Go(w, "open", "find again")
  /\ Fault
  /\ \/ UNCHANGED <<pulls, inflight>>
     \/ ~Refused /\ pulls' = Append(pulls, call[w].title) /\ UNCHANGED inflight
     \/ LateLanding /\ inflight' = Append(inflight, call[w].title) /\ UNCHANGED pulls
  /\ UNCHANGED <<runVars, expired, validated, drifted, branch, call, holding>>

FindAgainTrusting(w) ==          \* broken form: a timed-out POST is taken for a success
  /\ Go(w, "find again", "record")
  /\ UNCHANGED <<runVars, expired, validated, drifted, remoteVars, call, holding, faults>>

(* find_pr after a timeout.                                                   *)
FindAgain(w) ==
  /\ Go(w, "find again", "record")
  /\ pulls # << >>
  /\ UNCHANGED <<runVars, expired, validated, drifted, remoteVars, call, holding, faults>>

(* Still none: "pull request outcome is uncertain".                           *)
Uncertain(w) ==
  /\ pc[w] = "find again" /\ pulls = << >>
  /\ Leave(w)
  /\ UNCHANGED <<runVars, expired, validated, drifted, remoteVars, holding, faults>>

(* A late POST reaches GitHub.                                                *)
Land ==
  /\ inflight # << >>
  /\ pulls' = IF Refused THEN pulls ELSE Append(pulls, Head(inflight))
  /\ inflight' = Tail(inflight)
  /\ UNCHANGED <<runVars, expired, validated, drifted, branch, pc, call, holding, faults>>

(* The final transaction: outbox SUCCEEDED, and REPORT if the run is still in *)
(* PUBLISH (the row count is not looked at).                                   *)
Record(w) ==
  /\ pc[w] = "record"
  /\ outbox' = [outbox EXCEPT !.status = "SUCCEEDED"]
  /\ runState' = IF runState = "PUBLISH" THEN "REPORT" ELSE runState
  /\ Leave(w)
  /\ UNCHANGED <<approvals, expired, validated, drifted, remoteVars, holding, faults>>
-----------------------------------------------------------------------------
(* A GET or POST fails without effect and is not caught, or the process dies. *)
Fail(w) ==
  /\ pc[w] # "idle" /\ Fault
  /\ Leave(w)
  /\ UNCHANGED <<runVars, expired, validated, drifted, remoteVars, holding>>

Cancel ==
  /\ ValidTransition(runState, "CANCELLED")
  /\ runState' = "CANCELLED"
  /\ UNCHANGED <<approvals, outbox, expired, validated, drifted, remoteVars, pc, call, holding,
                 faults>>

Expire(p) ==
  /\ p \notin expired
  /\ expired' = expired \cup {p}
  /\ UNCHANGED <<runVars, validated, drifted, remoteVars, pc, call, holding, faults>>

Drift ==
  /\ ~drifted
  /\ drifted' = TRUE
  /\ UNCHANGED <<runVars, expired, validated, remoteVars, pc, call, holding, faults>>

Work(w) ==
  \/ CheckPublish(w) \/ DenyPublish(w) \/ BaseUnchanged(w) \/ DenyDrift(w)
  \/ Intend(w) \/ DenyIntent(w) \/ StartResume(w)
  \/ LookupBranch(w) \/ ForeignBranch(w) \/ PushBranch(w) \/ PushRefused(w)
  \/ FindPull(w) \/ OpenPull(w) \/ OpenRefused(w) \/ FindAgain(w) \/ Uncertain(w)
  \/ Record(w)

Next ==
  \/ \E p \in Approvals, t \in Titles : RequestApproval(p, t)
  \/ \E s \in Sessions, p \in Approvals : ApproveRead(s, p)
  \/ \E s \in Sessions : ApproveWrite(s)
  \/ \E w \in Workers, p \in Approvals, t \in Titles : StartPublish(w, p, t)
  \/ \E w \in Workers : Work(w) \/ PushFails(w) \/ OpenTimesOut(w) \/ Fail(w)
  \/ \E p \in Approvals : Expire(p)
  \/ Land \/ Cancel \/ Drift

(* A worker finishes the call it is in, and the driver calls resume again.    *)
Fairness == \A w \in Workers : WF_vars(Work(w))

Spec == Init /\ [][Next]_vars /\ Fairness
-----------------------------------------------------------------------------
Status == {"none", "PENDING", "APPROVED", "CONSUMED"}
Positions == {"idle", "check", "base", "intent", "resume base", "lookup", "push", "find",
              "open", "find again", "record"}

TypeOK ==
  /\ runState \in RunState
  /\ approvals \in [Approvals -> [status : Status, title : Titles \cup {None}]]
  /\ outbox \in [status : {"none", "INTENT", "SUCCEEDED"},
                 approval : Approvals \cup {None}, title : Titles \cup {None}]
  /\ expired \in SUBSET Approvals
  /\ validated \in BOOLEAN /\ drifted \in BOOLEAN
  /\ branch \in {"absent", "ours", "foreign"}
  /\ pulls \in Seq(Titles) /\ inflight \in Seq(Titles)
  /\ pc \in [Workers -> Positions]
  /\ call \in [Workers -> [approval : Approvals \cup {None}, title : Titles \cup {None},
                           fresh : BOOLEAN]]
  /\ holding \in [Sessions -> Approvals \cup {None}]
  /\ faults \in 0..MaxFaults

(* PLAN.md: "No push or pull-request call occurs before approval".  Whatever   *)
(* GitHub holds or may still receive for the run stands behind a persisted      *)
(* intent whose approval was granted, for the very title that was approved, of  *)
(* a validated run.                                                             *)
RemoteWorkIsApproved ==
  /\ (branch = "ours" \/ pulls # << >> \/ inflight # << >>) => outbox.status # "none"
  /\ outbox.status # "none" =>
       /\ validated
       /\ approvals[outbox.approval].status \in {"APPROVED", "CONSUMED"}
       /\ outbox.title = approvals[outbox.approval].title
  /\ \A i \in 1..Len(pulls) : pulls[i] = outbox.title

(* The run row and the outbox row move together: a run in PUBLISH has an open   *)
(* intent, a run in REPORT a completed one whose pull request exists, and an    *)
(* intent left behind belongs to a run that was cancelled.                      *)
OutboxMatchesRun ==
  /\ runState = "AWAITING_PUBLISH_APPROVAL" => outbox.status = "none"
  /\ runState = "PUBLISH" => outbox.status = "INTENT"
  /\ runState = "REPORT" => outbox.status = "SUCCEEDED" /\ pulls # << >>
  /\ outbox.status = "SUCCEEDED" => pulls # << >> /\ runState \in {"REPORT", "CANCELLED"}

(* One pull request per run, after its intent and before its record, whatever   *)
(* crashes, timeouts and resumed calls do.                                       *)
PullRequest == INSTANCE DurableEffect WITH
  intended <- outbox.status # "none",
  effects  <- Len(pulls),
  recorded <- outbox.status = "SUCCEEDED"

PullRequestOnce == PullRequest!Spec

(* PLAN.md: "Approval is single-use".  A consumed approval stays consumed.       *)
ConsumedStaysConsumed ==
  [][\A p \in Approvals :
       approvals[p].status = "CONSUMED" => approvals'[p].status = "CONSUMED"]_vars

(* An intent is carried to its end by resumed calls, unless the run is           *)
(* cancelled, the base branch moved, or the branch name is taken.                *)
IntentIsCompleted ==
  runState = "PUBLISH" ~> (runState # "PUBLISH" \/ drifted \/ branch = "foreign")
=============================================================================
