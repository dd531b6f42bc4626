------------------------------ MODULE Reporting ------------------------------
(***************************************************************************)
(* JiraReportingService: from state REPORT to SUCCEEDED, for one run.  The  *)
(* report comment and, when a transition approval is passed, the move of    *)
(* the issue, each behind an outbox row of its own.                         *)
(*                                                                          *)
(* Worker processes call report() or resume() (the same code); sessions of  *)
(* the approver call approve_transition(), whose SELECT comes before its    *)
(* write transaction; an operator may cancel the run and a person may move  *)
(* the issue by hand.  Each SQLite statement that stands alone, each        *)
(* transaction and each JIRA request is a step.  A request may fail or time  *)
(* out, with or without effect; requests of the kinds in Late may take       *)
(* effect after their caller gave up.                                        *)
(***************************************************************************)
EXTENDS RunStates

CONSTANTS
  Workers,    \* processes that report
  Sessions,   \* concurrent approve_transition() calls
  Approvals,  \* transition approval ids
  MaxFaults,  \* bound on failed requests, timeouts and crashes
  Late,       \* kinds of request that may land late: a subset of {"comment", "move"}
  None        \* no approval

ASSUME FaultsAssumption == MaxFaults \in Nat
ASSUME LateAssumption == Late \subseteq {"comment", "move"}
ASSUME NoneAssumption == None \notin Approvals

VARIABLES
  runState,      \* runs.state
  reportable,    \* the story names an issue key
  report,        \* jira_report_outbox.status, "none" without a row
  approvals,     \* jira_transition_approvals.status
  moves,         \* jira_transition_outbox.status by approval, "none" without a row
  expired,       \* approvals whose expires_at has passed
  comments,      \* comments on the issue that carry the run's marker
  lateComments,  \* comment POSTs that timed out and may still land
  issue,         \* the issue's status: "open" or "target"
  posts,         \* approval -> how often its transition POST took effect
  latePosts,     \* approval -> transition POSTs that timed out and may still land
  pc,            \* worker -> where it is
  call,          \* worker -> [approval, configured]: the argument and transition_ids
  holding,       \* session -> the approval it read as PENDING
  faults

runVars    == <<runState, reportable, report, approvals, moves, expired>>
remoteVars == <<comments, lateComments, issue, posts, latePosts>>
vars == <<runVars, remoteVars, pc, call, holding, faults>>

NoCall == [approval |-> None, configured |-> FALSE]

Init ==
  /\ runState = "REPORT" /\ reportable \in BOOLEAN
  /\ report = "none"
  /\ approvals = [p \in Approvals |-> "none"]
  /\ moves = [p \in Approvals |-> "none"]
  /\ expired = {}
  /\ comments = 0 /\ lateComments = 0
  /\ issue = "open"
  /\ posts = [p \in Approvals |-> 0] /\ latePosts = [p \in Approvals |-> 0]
  /\ pc = [w \in Workers |-> "idle"] /\ call = [w \in Workers |-> NoCall]
  /\ holding = [s \in Sessions |-> None]
  /\ faults = 0

Go(w, from, to) == pc[w] = from /\ pc' = [pc EXCEPT ![w] = to]

(* Return, or an exception that reaches the driver.                          *)
Leave(w) ==
  /\ pc' = [pc EXCEPT ![w] = "idle"]
  /\ call' = [call EXCEPT ![w] = NoCall]

Fault == faults < MaxFaults /\ faults' = faults + 1
-----------------------------------------------------------------------------
(* Approval of a transition: request_transition_approval, approve_transition. *)
RequestTransition(p) ==
  /\ runState = "REPORT" /\ approvals[p] = "none"
  /\ approvals' = [approvals EXCEPT ![p] = "PENDING"]
  /\ UNCHANGED <<runState, reportable, report, moves, expired, remoteVars, pc, call, holding,
                 faults>>

ApproveRead(s, p) ==
  /\ holding[s] = None
  /\ approvals[p] = "PENDING" /\ p \notin expired
  /\ holding' = [holding EXCEPT ![s] = p]
  /\ UNCHANGED <<runVars, remoteVars, pc, call, faults>>

(* UPDATE ... WHERE approval_id = ?, whatever the status is by now.           *)
ApproveWrite(s) ==
  /\ holding[s] # None
  /\ approvals' = [approvals EXCEPT ![holding[s]] = "APPROVED"]
  /\ holding' = [holding EXCEPT ![s] = None]
  /\ UNCHANGED <<runState, reportable, report, moves, expired, remoteVars, pc, call, faults>>
-----------------------------------------------------------------------------
StartReportOnce(w, a) ==         \* broken form: an existing intent is left to its owner
  /\ Go(w, "idle", "row")
  /\ runState = "REPORT" /\ report # "INTENT"
  /\ \E c \in BOOLEAN : call' = [call EXCEPT ![w] = [approval |-> a, configured |-> c]]
  /\ UNCHANGED <<runVars, remoteVars, holding, faults>>

(* _comment: the durable state, then the outbox row.                          *)
StartReport(w, a) ==
  /\ Go(w, "idle", "row")
  /\ runState = "REPORT"
  /\ \E c \in BOOLEAN : call' = [call EXCEPT ![w] = [approval |-> a, configured |-> c]]
  /\ UNCHANGED <<runVars, remoteVars, holding, faults>>

ReadRow(w) ==
  /\ pc[w] = "row"
  /\ report = "none" => reportable
  /\ pc' = [pc EXCEPT ![w] = CASE report = "none"      -> "intent"
                               [] report = "INTENT"    -> "find"
                               [] report = "SUCCEEDED" -> "after comment"]
  /\ UNCHANGED <<runVars, remoteVars, call, holding, faults>>

NotReportable(w) ==
  /\ pc[w] = "row" /\ report = "none" /\ ~reportable
  /\ Leave(w)
  /\ UNCHANGED <<runVars, remoteVars, holding, faults>>

(* The insert, after which the row is read again.                             *)
IntendComment(w) ==
  /\ Go(w, "intent", "row")
  /\ report = "none"
  /\ report' = "INTENT"
  /\ UNCHANGED <<runState, reportable, approvals, moves, expired, remoteVars, call, holding,
                 faults>>

(* Another worker inserted the row: the primary key refuses a second one.      *)
IntendRefused(w) ==
  /\ pc[w] = "intent" /\ report # "none"
  /\ Leave(w)
  /\ UNCHANGED <<runVars, remoteVars, holding, faults>>

FindCommentBlind(w) ==           \* broken form: a resumed report does not look for its marker
  /\ Go(w, "find", "post")
  /\ UNCHANGED <<runVars, remoteVars, call, holding, faults>>

(* find_comment before the POST.                                               *)
FindComment(w) ==
  /\ pc[w] = "find"
  /\ pc' = [pc EXCEPT ![w] = IF comments > 0 THEN "record" ELSE "post"]
  /\ UNCHANGED <<runVars, remoteVars, call, holding, faults>>

PostComment(w) ==
  /\ Go(w, "post", "record")
  /\ comments' = comments + 1
  /\ UNCHANGED <<runVars, lateComments, issue, posts, latePosts, call, holding, faults>>

(* What becomes of a comment POST whose answer is lost.                        *)
LostComment ==
  \/ UNCHANGED <<comments, lateComments>>
  \/ comments' = comments + 1 /\ UNCHANGED lateComments
  \/ "comment" \in Late /\ lateComments' = lateComments + 1 /\ UNCHANGED comments

(* JiraWriteTimeout is reconciled at once, other errors when the run resumes.  *)
PostTimesOut(w) ==
  /\ Go(w, "post", "find again") /\ Fault
  /\ LostComment
  /\ UNCHANGED <<runVars, issue, posts, latePosts, call, holding>>

PostFails(w) ==
  /\ pc[w] = "post" /\ Fault
  /\ Leave(w)
  /\ LostComment
  /\ UNCHANGED <<runVars, issue, posts, latePosts, holding>>

FindAgainTrusting(w) ==          \* broken form: a timed-out POST is taken for a success
  /\ Go(w, "find again", "record")
  /\ UNCHANGED <<runVars, remoteVars, call, holding, faults>>

(* find_comment after a timeout.                                               *)
FindAgain(w) ==
  /\ Go(w, "find again", "record")
  /\ comments > 0
  /\ UNCHANGED <<runVars, remoteVars, call, holding, faults>>

(* "JIRA comment outcome is uncertain".                                         *)
Uncertain(w) ==
  /\ pc[w] = "find again" /\ comments = 0
  /\ Leave(w)
  /\ UNCHANGED <<runVars, remoteVars, holding, faults>>

RecordComment(w) ==
  /\ Go(w, "record", "after comment")
  /\ report' = "SUCCEEDED"
  /\ UNCHANGED <<runState, reportable, approvals, moves, expired, remoteVars, call, holding,
                 faults>>
-----------------------------------------------------------------------------
(* _report, with a transition approval: the row of the transition outbox is    *)
(* read first, the approval after it.                                          *)
NoTransition(w) ==
  /\ Go(w, "after comment", "finish")
  /\ call[w].approval = None
  /\ UNCHANGED <<runVars, remoteVars, call, holding, faults>>

ReadMoveTrusting(w) ==           \* broken form: any row counts as a transition done
  /\ pc[w] = "after comment" /\ call[w].approval # None
  /\ pc' = [pc EXCEPT ![w] = IF moves[call[w].approval] = "none" THEN "check" ELSE "finish"]
  /\ UNCHANGED <<runVars, remoteVars, call, holding, faults>>

ReadMove(w) ==
  /\ pc[w] = "after comment" /\ call[w].approval # None
  /\ pc' = [pc EXCEPT ![w] = CASE moves[call[w].approval] = "none"           -> "check"
                               [] moves[call[w].approval] = "POST_SUCCEEDED" -> "finish"
                               [] OTHER                                      -> "reconcile"]
  /\ UNCHANGED <<runVars, remoteVars, call, holding, faults>>

Exact(w) ==
  /\ approvals[call[w].approval] = "APPROVED"
  /\ call[w].configured
  /\ call[w].approval \notin expired

(* The approval is exact; the GET of the transition's target status follows.    *)
CheckTransition(w) ==
  /\ Go(w, "check", "consume")
  /\ Exact(w)
  /\ UNCHANGED <<runVars, remoteVars, call, holding, faults>>

DenyTransition(w) ==
  /\ pc[w] = "check" /\ ~Exact(w)
  /\ Leave(w)
  /\ UNCHANGED <<runVars, remoteVars, holding, faults>>

(* One transaction: consume the approval, insert the outbox row, whose key is    *)
(* the approval.                                                                  *)
CanConsumeTwice(w) ==            \* broken form: the insert may replace a row
  approvals[call[w].approval] = "APPROVED"

CanConsume(w) ==
  /\ approvals[call[w].approval] = "APPROVED"
  /\ moves[call[w].approval] = "none"

ConsumeSwapped(w) ==             \* broken form: the two statuses change places
  /\ Go(w, "consume", "move")
  /\ CanConsume(w)
  /\ approvals' = [approvals EXCEPT ![call[w].approval] = "INTENT"]
  /\ moves' = [moves EXCEPT ![call[w].approval] = "CONSUMED"]
  /\ UNCHANGED <<runState, reportable, report, expired, remoteVars, call, holding, faults>>

Consume(w) ==
  /\ Go(w, "consume", "move")
  /\ CanConsume(w)
  /\ approvals' = [approvals EXCEPT ![call[w].approval] = "CONSUMED"]
  /\ moves' = [moves EXCEPT ![call[w].approval] = "INTENT"]
  /\ UNCHANGED <<runState, reportable, report, expired, remoteVars, call, holding, faults>>

DenyConsume(w) ==
  /\ pc[w] = "consume" /\ ~CanConsume(w)
  /\ Leave(w)
  /\ UNCHANGED <<runVars, remoteVars, holding, faults>>

MoveIssue(w) ==
  /\ Go(w, "move", "moved")
  /\ posts' = [posts EXCEPT ![call[w].approval] = @ + 1]
  /\ issue' = "target"
  /\ UNCHANGED <<runVars, comments, lateComments, latePosts, call, holding, faults>>

(* JiraWriteError: the POST took effect, did not, or may still do so.            *)
MoveFails(w) ==
  /\ Go(w, "move", "not moved") /\ Fault
  /\ \/ UNCHANGED <<issue, posts, latePosts>>
     \/ /\ posts' = [posts EXCEPT ![call[w].approval] = @ + 1]
        /\ issue' = "target"
        /\ UNCHANGED latePosts
     \/ /\ "move" \in Late
        /\ latePosts' = [latePosts EXCEPT ![call[w].approval] = @ + 1]
        /\ UNCHANGED <<issue, posts>>
  /\ UNCHANGED <<runVars, comments, lateComments, call, holding>>

RecordMove(w) ==
  /\ Go(w, "moved", "finish")
  /\ moves' = [moves EXCEPT ![call[w].approval] = "POST_SUCCEEDED"]
  /\ UNCHANGED <<runState, reportable, report, approvals, expired, remoteVars, call, holding,
                 faults>>

RecordUncertain(w) ==
  /\ pc[w] = "not moved"
  /\ moves' = [moves EXCEPT ![call[w].approval] = "UNCERTAIN"]
  /\ Leave(w)
  /\ UNCHANGED <<runState, reportable, report, approvals, expired, remoteVars, holding, faults>>

(* A row left by an earlier attempt: the issue's status decides, no second POST. *)
Reconcile(w) ==
  /\ Go(w, "reconcile", "satisfy")
  /\ issue = "target"
  /\ UNCHANGED <<runVars, remoteVars, call, holding, faults>>

(* "manual reconciliation required".                                              *)
Unreconciled(w) ==
  /\ pc[w] = "reconcile" /\ issue # "target"
  /\ Leave(w)
  /\ UNCHANGED <<runVars, remoteVars, holding, faults>>

Satisfy(w) ==
  /\ Go(w, "satisfy", "finish")
  /\ moves' = [moves EXCEPT ![call[w].approval] = "SATISFIED"]
  /\ UNCHANGED <<runState, reportable, report, approvals, expired, remoteVars, call, holding,
                 faults>>

(* store.transition(run_id, SUCCEEDED), or InvalidTransition.                      *)
Finish(w) ==
  /\ pc[w] = "finish"
  /\ runState' = IF ValidTransition(runState, "SUCCEEDED") THEN "SUCCEEDED" ELSE runState
  /\ Leave(w)
  /\ UNCHANGED <<reportable, report, approvals, moves, expired, remoteVars, holding, faults>>
-----------------------------------------------------------------------------
(* A GET fails, or the process dies.                                               *)
Fail(w) ==
  /\ pc[w] # "idle" /\ Fault
  /\ Leave(w)
  /\ UNCHANGED <<runVars, remoteVars, holding>>

LandComment ==
  /\ lateComments > 0
  /\ lateComments' = lateComments - 1 /\ comments' = comments + 1
  /\ UNCHANGED <<runVars, issue, posts, latePosts, pc, call, holding, faults>>

LandMove(p) ==
  /\ latePosts[p] > 0
  /\ latePosts' = [latePosts EXCEPT ![p] = @ - 1]
  /\ posts' = [posts EXCEPT ![p] = @ + 1]
  /\ issue' = "target"
  /\ UNCHANGED <<runVars, comments, lateComments, pc, call, holding, faults>>

(* Somebody moves the issue by hand.                                                *)
ManualMove ==
  /\ issue' = IF issue = "open" THEN "target" ELSE "open"
  /\ UNCHANGED <<runVars, comments, lateComments, posts, latePosts, pc, call, holding, faults>>

Cancel ==
  /\ ValidTransition(runState, "CANCELLED")
  /\ runState' = "CANCELLED"
  /\ UNCHANGED <<reportable, report, approvals, moves, expired, remoteVars, pc, call, holding,
                 faults>>

Expire(p) ==
  /\ p \notin expired
  /\ expired' = expired \cup {p}
  /\ UNCHANGED <<runState, reportable, report, approvals, moves, remoteVars, pc, call, holding,
                 faults>>

Work(w) ==
  \/ ReadRow(w) \/ NotReportable(w) \/ IntendComment(w) \/ IntendRefused(w)
  \/ FindComment(w) \/ PostComment(w) \/ FindAgain(w) \/ Uncertain(w) \/ RecordComment(w)
  \/ NoTransition(w) \/ ReadMove(w) \/ CheckTransition(w) \/ DenyTransition(w)
  \/ Consume(w) \/ DenyConsume(w) \/ MoveIssue(w) \/ RecordMove(w) \/ RecordUncertain(w)
  \/ Reconcile(w) \/ Unreconciled(w) \/ Satisfy(w) \/ Finish(w)

Next ==
  \/ \E p \in Approvals : RequestTransition(p) \/ Expire(p) \/ LandMove(p)
  \/ \E s \in Sessions, p \in Approvals : ApproveRead(s, p)
  \/ \E s \in Sessions : ApproveWrite(s)
  \/ \E w \in Workers, a \in Approvals \cup {None} : StartReport(w, a)
  \/ \E w \in Workers : Work(w) \/ PostTimesOut(w) \/ PostFails(w) \/ MoveFails(w) \/ Fail(w)
  \/ LandComment \/ ManualMove \/ Cancel

(* A worker finishes the call it is in; a run that is still in REPORT is resumed    *)
(* without a transition approval (the default of advance()) again and again.        *)
Fairness == \A w \in Workers : WF_vars(Work(w)) /\ SF_vars(StartReport(w, None))

Spec == Init /\ [][Next]_vars /\ Fairness
-----------------------------------------------------------------------------
Positions == {"idle", "row", "intent", "find", "post", "find again", "record", "after comment",
              "check", "consume", "move", "moved", "not moved", "reconcile", "satisfy", "finish"}

MoveStatus == {"none", "INTENT", "UNCERTAIN", "POST_SUCCEEDED", "SATISFIED"}

TypeOK ==
  /\ runState \in RunState /\ reportable \in BOOLEAN
  /\ report \in {"none", "INTENT", "SUCCEEDED"}
  /\ approvals \in [Approvals -> {"none", "PENDING", "APPROVED", "CONSUMED"}]
  /\ moves \in [Approvals -> MoveStatus]
  /\ expired \in SUBSET Approvals
  /\ comments \in Nat /\ lateComments \in Nat
  /\ issue \in {"open", "target"}
  /\ posts \in [Approvals -> Nat] /\ latePosts \in [Approvals -> Nat]
  /\ pc \in [Workers -> Positions]
  /\ call \in [Workers -> [approval : Approvals \cup {None}, configured : BOOLEAN]]
  /\ holding \in [Sessions -> Approvals \cup {None}]
  /\ faults \in 0..MaxFaults

(* A run succeeds only when its comment is on the issue and recorded (PLAN.md:        *)
(* "Reporting failure leaves the run resumable rather than falsely successful").       *)
SuccessIsReported ==
  /\ runState = "SUCCEEDED" => report = "SUCCEEDED"
  /\ report = "SUCCEEDED" => comments > 0

(* A call that was given a transition approval ends the run only when the outbox knows  *)
(* what became of that transition: posted, or found done.  With one reporting process;  *)
(* with two, one may write UNCERTAIN over the SATISFIED of the other.                    *)
OutcomeIsKnown ==
  \A w \in Workers :
    pc[w] = "finish" /\ call[w].approval # None =>
      moves[call[w].approval] \in {"POST_SUCCEEDED", "SATISFIED"}

(* A transition is posted at most once for an approval, however many workers,        *)
(* resumed calls and late answers there are, and only behind its outbox row; an       *)
(* approve_transition() that writes APPROVED over CONSUMED does not change that.       *)
MovesAtMostOnce ==
  \A p \in Approvals :
    /\ posts[p] + latePosts[p] <= 1
    /\ posts[p] + latePosts[p] > 0 => moves[p] # "none"
    /\ moves[p] = "POST_SUCCEEDED" => posts[p] = 1
    /\ moves[p] # "none" => approvals[p] \in {"APPROVED", "CONSUMED"}

(* The comment of one reporting process: at most one, after its intent and before its  *)
(* record (PLAN.md: "Restart or timeout does not duplicate comments").                   *)
Comment == INSTANCE DurableEffect WITH
  intended <- report # "none",
  effects  <- comments,
  recorded <- report = "SUCCEEDED"

CommentOnce == Comment!Spec

(* A run in REPORT that can be reported leaves REPORT, whatever is left uncertain about  *)
(* a transition.                                                                          *)
ReportingCompletes == (reportable /\ runState = "REPORT") ~> runState # "REPORT"
=============================================================================
