# A verification project for the local coding agent runtime

TLA+ modules, TLC configurations and TLAPS proofs for the agent runtime under
`src/src/agent_runtime`. The runtime takes a JIRA story through intake,
planning, implementation, validation, an approved pull request and a report
back to JIRA. Everything that must survive a crash is in one SQLite database;
processes come and go, and GitHub and JIRA answer late or not at all. What is
hard about it is therefore durability, races and idempotence, and that is
what the modules are about. File names without a directory below are files of
`src/src/agent_runtime`.

## 1. Inventory

| Part | State it keeps | Operations | Interacts with | Hard behaviour | What makes it correct |
|---|---|---|---|---|---|
| Run store (`durable.py`) | `runs`, `transitions`, `checkpoints`, snapshots, plans, `invocations`, `validation_*` | `create_run`, `transition`, `save_story_snapshot`, `begin/finish/recover/restart_invocation`, `begin/finish_validation`, ... | called by every other part, from several processes | reads outside the write transaction, compare-and-swap, raw updates by others | the lifecycle is kept, the three records of a run agree |
| Correction loop (`validation.py`) | `validation_attempts`, `validation_checkpoints`, loop locals | `ImplementationValidationCoordinator.run`, `ValidationService.run` | store, workspace generations, sandbox, model driver | crash and resume in the middle of an attempt, cancellation, cached results | a pass means every profile passed on the tree that is published |
| Sandbox (`validation.py`) | none durable | `BubblewrapSandboxBackend.run` | subprocess | time and output limits | - |
| Workspace (`workspace.py`) | `workspaces`, `workspace_mutations`, directories `gen-N` | `acquire`, `read_file`, `apply_patch`, `create_file`, `diff` | store, validation, publication | directory rename and transaction are not atomic, `flock`, replay | the current generation exists and is what the table says |
| Publication (`publication.py`) | `publish_approvals`, `publication_outbox` | `request_approval`, `approve`, `publish`, `resume` | store, workspace, GitHub | lost answers, late effects, racing approvers and publishers, crash after the intent | nothing remote before approval; one pull request |
| Reporting (`reporting.py`) | `jira_report_outbox`, `jira_transition_approvals`, `jira_transition_outbox` | `request/approve_transition`, `report`, `resume` | store, JIRA | as publication, with a move of the issue that must not be repeated | one comment, one move, no false success |
| Workflow (`workflow.py`) | none | `advance` | calls the services by `runs.state` | bounded steps, resumes from any state | every live state has a way on |
| Intake, planning (`planning.py`, `jira.py`) | story snapshot, plan, evidence | `intake`, `plan`, `refresh` | JIRA, model, continuity | crash between snapshot and transition | the story bound at intake stays bound |
| Gateway (`gateway.py`) | records in memory, `invocations` | `search`, `describe`, `invoke`, `status`, `cancel` | store, capabilities, runner | replay after a crash, recovery of a live process | a handler with effects is not run twice |
| Runner (`runner.py`) | conversation | `AgentRunner.run`, `ContextBudget.compose` | provider, gateway | limits, whole tool rounds | bounded context with complete rounds |
| Continuity (`continuity.py`) | ledger, decisions, update history | `initialize`, `add_decision`, `update` | store | optimistic revisions, replay | an update is applied once |
| Metrics (`metrics.py`) | `metric_events` | `record`, `export`, `enforce_retention` | exporter | crash during export | no event is lost before it is exported |
| Resume packet, context (`context.py`) | none | `ResumePacket.from_store`, `ContextComposer.compose` | store, planning | compares what it read a moment ago | a prompt shows one consistent state of the run |
| Skills (`skills.py`) | packages and signers in memory, `run_skill_pins` | `from_trusted_directory`, `resolve`, `pin_run`, `resume`, `effective_capabilities` | store, catalog | processes that loaded different packages | one package per run, and what its signer granted |
| MCP adapter (`mcp.py`) | session, quarantine | `initialize`, `capabilities`, `call_tool` | MCP server, gateway | the server changes after discovery | only reviewed tools are offered |
| Profiles, routing, models, providers, request validation, repository, evaluation | none | checks, one call each | - | - | - |

The services of a run's stages call each other in two places only: publication
asks the workspace for the diff, and validation asks it for the generation.
Beside them the gateway calls workspace, validation, continuity and MCP tools as
handlers of a capability, and planning composes its prompt from the ledger and
the resume packet. Otherwise they meet in the database. `runs.state` decides who works on a run; `advance()` reads
it and calls one service; an operator may set it to `CANCELLED` at any time.

Three facts about the database shape all modules:

* `sqlite3` with `isolation_level="IMMEDIATE"` (`durable.py:151`) begins a
  transaction at the first *write*. A `SELECT` is never inside one, even
  under `with connection:`, when it comes before the write. So `transition`,
  `approve`, `approve_transition` and `_mutate` read first and write later,
  and another process can come between. In the modules the read and the
  transaction are two actions.
* One transaction is one step: it commits as a whole or not at all.
* A process can die between any two steps; its locals are gone, the tables
  stay.

`PROJECT.json` lists the hazards of the code at their lines; the properties
are chosen from that list.

## 2. Modules

| Module | Models | Kind |
|---|---|---|
| `RunStates` | the states and the transition table, `durable.py:16-45`, `474-477` | shared definitions |
| `RunLifecycle` | what the store promises about the state of a run | abstract specification |
| `RunStore` | `create_run` and `transition` by several processes, publication's raw updates | component |
| `RunStore_proofs` | invariants and refinement of `RunStore` | proofs |
| `ValidationLoop` | the coordinator, the validation service, the store's validation tables | component |
| `ValidationLoop_proofs` | invariants of `ValidationLoop` | proofs |
| `DurableEffect` | intent, remote effect at most once, record | abstract specification |
| `Publication` | `PublicationService`, `GitHubAdapter.publish`, GitHub | component |
| `Publication_proofs` | invariants and refinement of `Publication` | proofs |
| `Reporting` | `JiraReportingService`, `JiraWriteAdapter`, JIRA | component |
| `Reporting_proofs` | invariants and refinement of `Reporting` | proofs |
| `VersionedTree` | a tree to which each mutation is applied at most once | abstract specification |
| `Workspace` | `WorkspaceManager`: seeding, cleanup, reads, validations and mutations by several processes | component |
| `Workspace_proofs` | invariants and refinement of `Workspace` | proofs |
| `InvocationLife` | what the record of an invocation promises | abstract specification |
| `Continuity` | `ContinuityService.update` | component of `Invocations` |
| `Invocations` | `AgentRunner.run`, `CapabilityGateway.invoke`, table `invocations`; extends `Continuity` | composition |
| `Invocations_proofs` | invariants and refinement of `Invocations` | proofs |
| `Intake` | `IntakePlanningService`, snapshots, evidence, plans, the resume packet | component |
| `Intake_proofs` | lemmas about `Intake`, for `Services_proofs` | proofs |
| `Metrics` | `SQLiteMetricsCollector`: record, export, retention | component |
| `JiraReads` | the paging of an issue's comments | component |
| `ContextWindow` | `ContextBudget.compose` along a session | component |
| `Skills` | skill packages, signers, pins, MCP discovery, effective capabilities | component |
| `Services` | `Intake`, `Metrics`, `JiraReads`, `ContextWindow` and `Skills`, side by side for one run | model-checking module |
| `Services_proofs` | invariants of the five parts of `Services` | proofs |

`RunStates` is extended by all components that move a run, so each uses the same
`ValidTransition`. `RunStore` implements `RunLifecycle`; `Publication` and
`Reporting` implement `DurableEffect` (for the pull request and for the
comment); `Workspace` implements `VersionedTree`; `Invocations` implements
`InvocationLife`. Definitions whose comment says "broken form" are not used by any
specification: each is a plausible bug that one of the properties catches,
and `PROJECT.json` ("mutants") says which.

### RunStore

`runState`, `checkpoints` and `committed` are the row of `runs`, the column
`state` of `checkpoints` and the committed rows of `transitions`; `denied` is
the detail of the last refused row. Each client is a process: `ReadRun` is
`transition()` up to its read, and then one of `RejectInvalid`,
`CommitTransition`, `RejectStale` or `Crash` follows. `PublicationMove` is
the `UPDATE runs` that publication runs inside its own transactions. `visits`
and `seenAt` are history: which states the run was in, and at which of them a
client read.

* `RecordsAgree`: state, log and checkpoints tell the same story, and a
  checkpoint lags only behind publication's two moves.
* `LifecycleSpec`: the store implements `RunLifecycle`, which is stated with
  ranks and not with the table, so that the table is checked too.
* `CommitsAgainstTheVisitRead`: the `WHERE state=?` of the code compares
  states, not versions. The property says that this is enough everywhere but
  in the loop between `IMPLEMENT` and `VALIDATE`, the only place where a run
  comes back to a state. There a stale caller can really commit in a later
  round, and the property says no more than that.

### ValidationLoop

One worker runs the coordinator and is called again after every return, crash
or exception. `rows` is `validation_attempts`, `checkpoint` is
`validation_checkpoints`, `generation` the workspace's counter. The actions
follow `Coordinator.run` from top to bottom: where it starts (`Start*`,
`Resume*`), the attempt it selects, the head of the loop, `implement()` as a
series of mutations, one command per profile, the checkpoint, the decision.
A result is `PASSED` or `FAILED`; a command that times out is a failed one.

Simplifications: the code visits profiles in the order of declaration and the
model in any order, which contains it. A transition of the run is one step:
what its two halves do when the operator comes between them is shown in
`RunStore`, and the outcome, `InvalidTransition`, is the same. The elapsed,
turn, token and cost limits are one action, `OverLimit`.

* `PassNeedsEveryProfile`, `AttemptsInOrder`: what a pass and an attempt mean,
  across restarts.
* `PublishableUnlessInterrupted`: a run that awaits approval passes the gate of
  publication, unless a crash fell into one window (`Window`).
  `AwaitingIsPublishable` is the same without the exception, and is violated:
  see the findings.
* `CancelStopsNewWork`: in a terminal state no profile is chosen and no
  mutation is begun. A mutation that is past its check may still commit, as in
  the code.
* `EventuallyDecided`: the loop reaches the approval state, a terminal state or
  its last attempt's checkpoint.

### Publication

Workers call `publish` and `resume`; sessions call `approve`. `approvals` and
`outbox` are the two tables; `branch`, `pulls` and `inflight` are GitHub: the
branch, the pull requests, and POSTs whose caller gave up but which may still
take effect. A request fails, times out without effect, with effect, or with
effect later.

The content of a publication is one value, its title. The story, the
generation, the diff and the base revision are compared like the title but
cannot change once the run has left `VALIDATE` (the one exception is a
mutation that was past its check, section *ValidationLoop*); `validated` says
whether the newest checkpoint passed for the current generation. Queries of
one call with nothing between them that acts on what they read are one step,
and what can change later is tested again by the intent transaction, as in
the code. A `resume` of a completed outbox row changes nothing and is left
out, as are calls that are denied at once.

* `RemoteWorkIsApproved`: branch, pull request and POSTs on their way stand
  behind an intent, of a validated run, for the title that was approved.
* `OutboxMatchesRun`: run row and outbox row move together.
* `PullRequestOnce`: `DurableEffect` for the pull request. In the run
  `publication` GitHub refuses duplicates for a branch (as it does); in
  `publication_resume` it accepts them, so that the search before the POST is
  what the property rests on. It is checked there, where it is harder.
* `ConsumedStaysConsumed`: is violated by two approvers: see the findings.
* `IntentIsCompleted`: a run in `PUBLISH` gets out of it by resumed calls,
  unless the base branch moved or the branch name is taken by another action.
  Both exceptions are the code's: it denies such an intent for ever.

### Reporting

The same shape, with two effects. `comments` counts comments that carry the
run's marker, `posts` how often a transition POST took effect per approval.
`Late` says which kinds of request may land late. A search over the pages of
comments is one step.

* `SuccessIsReported`: a run succeeds only with its comment on the issue.
* `MovesAtMostOnce`: one transition POST per approval, behind its row, with two
  reporters, racing approvers and late POSTs.
* `OutcomeIsKnown`: a call with a transition approval ends the run only when
  the row says posted or satisfied; for one reporter.
* `CommentOnce`: `DurableEffect` for the comment, for one reporter and without
  late landing. With late landing it is violated: see the findings. With two
  reporters it does not hold either (both search, both post); the code has no
  lock that would suggest otherwise.
* `ReportingCompletes`: a reportable run leaves `REPORT`, whatever is uncertain
  about a transition.

### Workspace

`row` is `current_generation`, `log` is `workspace_mutations`, `gens` and
`candidates` are the directories. A tree is the sequence of the mutations that
made it, and `Partial` is a directory written or removed in part. A call takes
the lock twice, because `acquire()` locks for itself and returns unlocked:
`Lock` to `Cleanup` is `acquire()`, and after the second `Lock` comes a read or
`_mutate`. Between the two another process may do anything, die with a
candidate or an unnamed generation on disk included; `CopyBlocked` and
`Refused` are what such leftovers lead to. `Fails` is an exception at any point
of `_mutate`'s `try`, `Undo` its `except` branch, which also runs when the
removal of the old generation fails after the commit. `Check` is apart from
`Commit`, because the `SELECT`s come before the transaction begins.

Simplifications: a directory is copied, renamed or cleaned up in one step, so
a cleanup that dies half-way is missing: the directories it has not reached
are those of a death just before it. Renaming onto an *empty* leftover, which
the kernel allows, is refused here.

`StartValidation`, `BeginCopy` and `EndCopy` are `ValidationService.run` as far
as it reads the tree: it acquires the workspace, looks up the generation and lets
the sandbox copy it, the last two without the lock. `overtaken` is history: the
validations under way under which the run has left `VALIDATE`.

* `TreeMatchesLog`: counter, mutation log and directory agree after any failure,
  and the base revision is still there.
* `ReadsOneTree`: what readers and validations rest on. A validation has no lock;
  it is the lock of its `acquire()` that makes it wait for a mutation which was
  past its last check when the run came to `VALIDATE`, so the property needs no
  exception for that. It needs one for a run that leaves `VALIDATE` before the
  copy is made (`overtaken`); without it TLC finds the directory removed.
* `ImplementsVersionedTree`: the current tree changes only by one new mutation
  at a time, completely.
* `CancelFreezesTheTree`: after a cancellation at most the one mutation that was
  past its last check is written.
* `MutationsGetThrough`: leftovers never block a mutation for good.

### Invocations and Continuity

`rows` is the table `invocations`. A session (`pc`, `at`, `call`, `used`) is one
`AgentRunner.run`, with a gateway of its own whose memory is `records`; the
next session of the same ID starts at the same place (`Start`), so that the
model may make the same calls again and find rows. What an invocation is
identified by, stage, place, capability and arguments, is kept as it is, and
not hashed. `begin_invocation` is a `SELECT` (`FindNone`, `Replay`,
`FindInterrupted`) and a write (`Insert`, `Restart`), with anything in between.
`Recover` is `recover_running_invocations`, which cannot know whether the
process of a `RUNNING` row is dead; `stolen` is history, the invocations it
took from a live one.

`Continuity` is `update()` with its two `SELECT`s and its guarded `UPDATE`; it is
the handler of `continuity.memory.update` in `Invocations` (`UpdateMemory`),
each step interleaved with everything else. The other handler stands for the
effects that the gateway must not repeat.

* `EffectsHappenOnce`: a process is run once per invocation, whatever crashes,
  replays, racing sessions and recoveries come together.
* `OneRunnerAtATime`: two processes are at the same invocation only after a
  recovery under a live one.
* `RecordsTellTheTruth`: what a gateway answers agrees with the row.
* `SuccessIsInTheLedger`: relates the two components: an update whose invocation
  is stored as succeeded is in the ledger at its revision, although the handler's
  transaction and the gateway's are two, and a replay is recognised by a history
  that is trimmed.
* `ImplementsInvocationLife`: made once, final once ended, run again only after an
  interruption.

### Intake

`advance()` over `NEW`, `INTAKE` and `ANALYZE`: `FindStored`, `Fetch` and the steps
of `save_story_snapshot` up to `LeaveNew` are `intake()`, `Analyze` to `Planned` are
`plan()`. Every `SELECT` before a write is a step. `issue` is what JIRA would
answer and may change at any time. `late` and `raced` are history: a process
that had read the run before another one bound it has written its snapshot.

* `StoryStaysBound`: from `INTAKE` on, the bound story is the active one and the
  plan was made from it and from the stored evidence, unless `raced`: see the
  findings.
* `PlanningGetsThrough`: nothing a dead process leaves behind blocks planning.

### Metrics, JiraReads, ContextWindow

`Metrics`: several exporters select a batch, hand it over, and mark it; retention
deletes what is exported and old; ids are given as SQLite gives them.
`NoEventIsLost`: an event that no exporter has accepted is still pending,
except for one whose id was given before (`shadowed`): see the findings.

`JiraReads`: comments are read page by page while others write and delete.
`NoCommentIsMissed`: the snapshot has no comment twice and, when none of the
initial comments was deleted meanwhile, has all of them.

`ContextWindow`: what a request shows of a session whose rounds outgrow the
window. `RequestShowsNewestRounds` is the reference definition: the newest
rounds without a gap, as many as fit, refused only when the mandatory ones alone
do not.

### Skills

`shelf` and `signerUntil` are the trusted directory and the signers' list as
they are now; `registry` and `trusted` are what a process read when it started
(`Load`). `Initialize` and `Discover` are the MCP adapter: the tools whose schema is
the reviewed one come into the process's `catalog`. `Resolve` and `PinSkill` are
`pin_run`, with the store's `INSERT` and its comparison on conflict as one
transaction; `Resume` is `resume` of the pin. Nothing in `src` calls these
two, so when they are called is free. Others replace packages, revoke signers,
let time pass and change the server's tools (`Replace` to `Tick`). A signature is
the record of what was signed, so a signature fits exactly what it was made for.

* `SkillStaysPinned`: all processes that work on a run work with the one pinned
  package as it was signed, and with capabilities its signer granted, below the
  signed ceiling and of the catalog's version; a tool among them is the reviewed
  one unless it changed after discovery (`drifted`): see the findings.

### Services

The five parts have no state in common, so checking them in one state space
would multiply them for nothing. `Services` instantiates all of them and lets a
behaviour be one of the part that `focus` names: the run covers the sum of the
parts, not their product.

## 3. Runs

| Run | Bounds | Distinct states | Shows |
|---|---|---|---|
| `runstore` | 2 processes, 9 committed transitions | 512 118 | `TypeOK`, `RecordsAgree`, `LifecycleSpec`, `CommitsAgainstTheVisitRead` |
| `validation` | 2 profiles, 3 attempts, 2 mutations, 2 crashes, 1 limit pause | 356 966 | types and the five properties above that hold |
| `validation_restart` | 1 crash | - | violation of `AwaitingIsPublishable` |
| `publication` | 2 workers, 2 sessions, 1 approval, 2 titles, 2 faults, late POSTs | 182 368 | safety with everything concurrent |
| `publication_resume` | 1 worker, 1 session, 2 approvals, 2 titles, 3 faults | 118 080 | one pull request without GitHub's help; liveness |
| `publication_approve` | 1 worker, 2 sessions | - | violation of `ConsumedStaysConsumed` |
| `reporting` | 2 workers, 2 sessions, 1 approval, 2 faults, late POSTs of both kinds | 2 456 192 | safety with everything concurrent |
| `reporting_resume` | 1 worker, 2 approvals, 2 faults | 105 792 | one comment, known outcome, liveness |
| `reporting_late` | 1 worker, 1 fault, late comments | - | violation of `CommentOnce` |
| `workspace` | 2 processes, 2 mutations, 3 exceptions or deaths | 91 472 | types and the five properties above |
| `invocations` | 2 processes, 3 sessions of 1 turn with 2 tool calls, 1 recovery, 2 contents, a ledger of 2 items that remembers 1 update; symmetry | 1 007 026 | types and the five properties above |
| `services` | `Intake`: 2 processes, 2 stories, 1 evidence, 1 fault. `Metrics`: 2 exporters, 3 events, batches of 2. `JiraReads`: 4 comments, pages of 2. `ContextWindow`: 5 rounds of sizes 1, 2 or 4 in a window of 5, 2 of them mandatory. `Skills`: 2 processes, 2 contents, 2 signers, 1 tool, 2 changes by others | 362 567 | types and the six properties above |

Why the bounds are enough. Every race of the code is between two processes
about one row, and two clients (workers, sessions) suffice for it; a third
meets the same guards. Nine committed transitions take a run through its whole flow, with publication
making two of the moves and one extra round of the correction loop, or several
times around that loop. Three attempts are the default of
`CoordinatorLimits` and give a first, a middle and a last one; two profiles
give "one finished, one not", which every hazard of a half-done attempt needs;
two crashes give a crash during the recovery from a crash. One fault loses an
answer and the second spoils the retry. One approval in the concurrent runs
makes them race for it; the sequential runs have two, so that an unused one is
left over. Two mutations make the second one start from a generation that is not
the base, so that there is an old one to remove; of three faults one leaves
something behind, one hits the call that meets it, and one the cleanup.

In `invocations` three sessions are a first one, its repeat after a crash and one
that races with it; two tool calls of which one is an invocation put it at
either place, and let the model ask for the record of the first; a history of one
update is shorter than the ledger, so an update can be forgotten. One recovery
is enough, because a second one finds the same rows. In `services`, three events
and batches of two leave a full batch and a rest, four comments on pages of two
let a page be full, short or empty, and the sizes are such that a small
round behind a large one would fit again. Two changes by others replace a
package and revoke its signer, or change a tool twice; that the run has one
skill only costs nothing, since a pin is compared as a whole and another
release is as different as another skill.

Symmetry is used in `invocations` only (processes and contents), which checks no
liveness; the other state spaces are small enough without it.

`CHECK_DEADLOCK FALSE` is set where the system really may come to rest: a
cancelled run, a run that awaits approval, a denied intent, all faults used.

### Fairness

* `ValidationLoop`: weak fairness of `Work`: the driver calls `advance()` again
  (`workflow.py:65-79`), `implement()` returns (`AgentRunner` bounds its turns,
  `runner.py:213`) and a validation command ends (the sandbox has a time
  limit). Mutations, limit pauses, crashes and cancellation have no fairness.
  A bounded number of limit pauses is an assumption about the driver's budget:
  the code's budgets start afresh with every call.
* `Publication`: weak fairness of each worker's `Work`: a worker finishes its
  call, every request ends by an answer, an error or its timeout, and the
  driver calls `resume` while the run is in `PUBLISH` (`workflow.py:86-87`).
* `Reporting`: the same, and strong fairness of the call without a transition
  approval, which is `advance()`'s default (`workflow.py:58`). Strong, because
  calls with an approval may be made in between and take the worker.

* `Workspace`: weak fairness of each process's `Work`. `MutationsGetThrough` says
  itself which calls are made, so no fairness of the callers or of the lock is
  assumed.
* `Intake` (in `Services`): weak fairness of each process's `Work`, one step of a
  call that is under way: a request or a query ends. `PlanningGetsThrough`
  says itself that one process advances the run again and again. Deaths, edits and
  cancellation have no fairness.
* `RunStore`, `Invocations` and the other parts of `Services` state safety only,
  and have none.

Faults have no fairness, and are bounded by a constant: liveness is claimed for
a system whose requests fail finitely often.

## 4. Proofs

Every safety invariant, action property and refinement that a run checks is
also a theorem of the component's specification, for every value of its
constants: any number of processes, workers, sessions, approvals, profiles,
mutations, events, comments and rounds, and any bound on faults. A theorem
assumes only the `ASSUME`s of its module, and the three conditions named in
the table.

| Module | Theorem | Property | Condition |
|---|---|---|---|
| `RunStore_proofs` | `RunStoreTypes` | `TypeOK` | |
| | `RecordsAlwaysAgree` | `RecordsAgree` | |
| | `CommitsAgainstVisit` | `CommitsAgainstTheVisitRead` | |
| | `StoreImplementsLifecycle` | `LifecycleSpec` | |
| `ValidationLoop_proofs` | `ValidationTypes` | `TypeOK` | |
| | `PassIsEarned` | `PassNeedsEveryProfile` | |
| | `AttemptsComeInOrder` | `AttemptsInOrder` | |
| | `AwaitingCanBePublished` | `PublishableUnlessInterrupted` | |
| | `CancelledRunsStartNothing` | `CancelStopsNewWork` | |
| `Workspace_proofs` | `WorkspaceTypes` | `TypeOK` | |
| | `TablesAndTreeAgree` | `TreeMatchesLog` | |
| | `ReadersSeeOneTree` | `ReadsOneTree` | |
| | `WorkspaceIsAVersionedTree` | `ImplementsVersionedTree` | |
| | `CancellationFreezes` | `CancelFreezesTheTree` | |
| `Publication_proofs` | `PublicationTypes` | `TypeOK` | |
| | `RemoteWorkStandsBehindApproval` | `RemoteWorkIsApproved` | |
| | `OutboxFollowsRun` | `OutboxMatchesRun` | |
| | `PullRequestOpensOnce` | `PullRequestOnce` | `Guarded` |
| `Reporting_proofs` | `ReportingTypes` | `TypeOK` | |
| | `SuccessHasItsComment` | `SuccessIsReported` | |
| | `TransitionsHappenOnce` | `MovesAtMostOnce` | |
| | `TransitionsAreSettled` | `OutcomeIsKnown` | `OneWorker` |
| | `CommentIsPostedOnce` | `CommentOnce` | `OneWorker`, no late comment |
| `Invocations_proofs` | `TypesAreKept` | `TypeOK` | |
| | `InvocationsLive` | `ImplementsInvocationLife` | |
| | `OncePerInvocation` | `EffectsHappenOnce` | |
| | `OneRunner` | `OneRunnerAtATime` | |
| | `RecordsAreTrue` | `RecordsTellTheTruth` | |
| | `SuccessIsRecorded` | `SuccessIsInTheLedger` | |
| `Services_proofs` | `ServicesTypes` | `TypeOK` | |
| | `PlanIsMadeFromTheBoundStory` | `StoryStaysBound` | |
| | `EventsAreExported` | `NoEventIsLost` | |
| | `SnapshotHasEveryComment` | `NoCommentIsMissed` | |
| | `RequestHasTheNewestRounds` | `RequestShowsNewestRounds` | |
| | `WorkIsUnderThePinnedSkill` | `SkillStaysPinned` | |

The conditions are what the code's promise really needs. `Guarded`: GitHub
refuses a second pull request for a branch, as it does, or else there is one
worker and no POST lands after its caller gave up, so that the search before
the POST is not out of date. `OneWorker`: two reporters of one run may both
search before either posts, or one may write `UNCERTAIN` over the `SATISFIED` of
the other; and a comment that lands late is finding 3. Both are instances
that the runs check (`publication_resume`, `reporting_resume`).

The assumptions on constants are bounds that are natural numbers, values such
as `None` that are not among those they stand beside, finitely many
profiles, and a few of the code's own checks: a batch with an event
(`metrics.py:193`), a window that retains a round (`runner.py:69`), a session with a
turn (`runner.py:179`), a built-in capability that is no MCP tool
(`gateway.py:141`). TLC evaluates each
of them on a run.

### The inductive invariants

None of the safety properties is inductive by itself; the inductive invariant of
a module (`IInv`) adds what the place of a process says of the tables.

*RunStore.* `IInv == TypeOK /\ RecordsAgree /\ History`. `RecordsAgree` is
inductive with the types; the property about visits needs `History`:

* the run is in the state it visited last (`LastVisit`);
* what a client read is the visit it read at (`ReadsAreVisits`);
* along the visits the *height* of the states grows, but for the two states of
  the correction loop (`HistoryClimbs`).

Then a client whose compare-and-swap succeeds has read the state the run is in
now; if the visits differ, `HistoryClimbs` puts both into the loop. That every
valid transition climbs is the lemma `ValidClimbs`, from the table written out
(`Edges`). The refinement maps `CreateRun` to `Create`, a commit to `Forward`,
`Rework` or `Abort`, publication's moves to `Forward`, and all else to a stutter.

*ValidationLoop.* There is a number `k` of recorded attempts such that the
tables hold `k` finished attempts, all failed but perhaps the last, results of
attempt `k + 1` only when the last one failed, and nothing beyond (`Tables`);
the worker's place fits it (`Place`); and until a crash falls into the window,
the results belong to the current generation (`Fresh`). Only
`CheckpointStep` goes from `k` to `k + 1`; the other actions keep it for the
same `k` (`SameTables`, and one lemma for each group of actions).

*Workspace.* The types, `TreeMatchesLog`, what the process with the lock has done
so far (`Progress`: which directory holds which tree at which step of
`_mutate`), and that a validation the run still waits for has the tree to itself
from the moment its `acquire()` returns (`ValidatesAlone`). The last one is why
`ReadsOneTree` holds without a lock: a mutation that is past its check holds the
lock, so `acquire()` waits for it. The refinement maps `Commit` to `Apply`. The
theorem about cancellation is temporal: the action part is proved for each
generation, and PTL does the rest.

*Publication.* A run is in one of four states (`Reached`), what a session is
about to approve was asked for (`HeldIsAsked`), a worker past its checks has an
approval granted for its title (`CheckedIsGranted`; that grants last is the
lemma `GrantsLast`), and a worker or POST behind the intent has the title of
the intent (`BehindIsIntended`). `OnePull` is added for the refinement.

*Reporting.* What the place of a worker tells of the two outboxes and of JIRA
(`Place`), and that two workers are never about to post the same transition
(`OneMover`): the row in `jira_transition_outbox` is inserted once, and only
who inserted it posts.

*Invocations.* Five inductive invariants, each resting on the ones before it:

* `TypeInv` adds to the types what the place of a session says of its
  variables (`Control`): whoever restarts an invocation has one that may be
  restarted, whoever is at the handler of a process has a process.
* `OnceInv`: whoever is at the handler of a process is alone there, and the
  effect has not taken place. An insert finds no row, so nobody is there and
  nothing has run; a restart never leads to the handler of a process.
* `RunnerInv`: the row of whoever is at a handler is `RUNNING`, or was recovered
  under it. So an insert or a restart, which find no row or an interrupted one,
  meet nobody.
* `HonestInv`: a recorded success is stored; a recorded failure is stored for
  good, as a failure or as an interruption that nobody may restart, or the
  invocation was recovered under its process. Without "for good" a later restart
  would make the record false. That what a record says lasts (`HonestyLasts`)
  follows from the refinement, since an end is final.
* `LedgerInv`: the remembered updates are entries of the ledger, and a call that
  has returned found or made its entry.

`RunnersStay`, `RowsChange`, `OnlyHandlersAct`, `JobsStay` say once what the
actions do to the processes at a handler, the rows, the effects and the calls
of `update()`; the invariants are then proved from these, without going through
all actions each time.

*Services.* Each part has an invariant of its own, kept by the steps of its part
because the others leave its variables alone:

* Planning (`Intake_proofs`, carried over by `PlanningIsIntake`): unless somebody
  wrote late, the active snapshot is the one the run is bound to, a process
  nobody overtook writes that story, and a process that plans has it and the
  evidence stored for it (`InTime`).
* Metrics: a row whose id an export has selected is still the row that was
  selected, or its event is shadowed (`BatchIsSelected`); what is being marked
  was accepted. `FreshId` says that the next id is new to the table.
* JiraReads: the first comments, while they are all there, are the first of the
  list, and those the paging has passed were read (`FirstAreRead`); what is
  still to come is younger than what was read (`RestIsYounger`). This is where
  "none was deleted" enters: with it the numbers before `start` do not shift.
* ContextWindow: the property is inductive with the types; the work is in the
  functions. `TotalSteps` and `TotalTakesOut` say what the fold over a set of
  rounds computes, `SuffixShrinks` that fewer rounds need fewer tokens,
  `OldestExists` that there is an oldest round from which on they fit, and
  `SelectedIsNewest` that the loop, a recursive function, stops exactly there.
* Skills: a tool in a catalog is the reviewed one or has drifted, what was
  resolved is what was signed, and who works has the package of the pin and what
  it grants in its catalog (`Standing`).

The library's induction theorems take an operator as a parameter, which the
provers cannot instantiate. Where a proof needs induction, `Least` takes its
place: a set of numbers that is not empty has a least element. Applied to the
set of counterexamples it shows that the fold's recursive function exists, is
unique and adds up, and that the loop of `compose` goes as described.

### Only model-checked

Liveness is out of the prover's reach: `EventuallyDecided`, `IntentIsCompleted`,
`ReportingCompletes`, `MutationsGetThrough` and `PlanningGetsThrough`. So are,
by their nature, the three violations. Everything else that the runs check is
proved.

## 5. Findings

1. *A restart in a repeated attempt leads to an approval state that cannot be
   published* (`validation.py:335`, run `validation_restart`). Attempt 1 fails;
   in attempt 2 one profile finishes and the process dies before the
   checkpoint. The restarted coordinator sees a failed newest checkpoint and no
   `RUNNING` row, goes back to `IMPLEMENT`, changes the tree, and gets number 2
   again. `ValidationService.run` returns the stored result of the old tree. If
   the attempt passes, its rows name two generations, or only the old one, and
   `_publish` denies the run for good. `PLAN.md:606`: "Every state can resume
   safely after process restart."
2. *A consumed approval can become approved again* (`publication.py:335`, run
   `publication_approve`): `approve()` reads `PENDING` outside its transaction
   and writes without testing the status. The outbox row still keeps a second
   pull request away, but `_resume` demands `CONSUMED` and denies the intent.
   `PLAN.md:504`: "Approval is single-use". `approve_transition` has the same
   shape; there the outbox row alone decides and `MovesAtMostOnce` holds.
3. *A report can be posted twice* (`reporting.py:298`, run `reporting_late`):
   the comment POST times out, is searched once and not found, and lands later,
   while the resumed report posts again. `PLAN.md:522`: "Restart or timeout does
   not duplicate comments."
4. *Checkpoints lag during publication* (`publication.py:420`): `PLAN.md:401`
   says that a restart resumes at the last committed checkpoint, but the moves
   to `PUBLISH` and `REPORT` write none. `RecordsAgree` states how far they lag.
5. *A write can be committed outside `IMPLEMENT`* (`workspace.py:525`):
   `PLAN.md:465` says "Writes are only allowed during `IMPLEMENT`", but the
   check precedes the transaction, and a run that is cancelled or moved between
   the two gets the mutation all the same. `CancelFreezesTheTree` states the
   exception and bounds it to one mutation.
6. *Two intakes can leave a run that cannot be planned* (`durable.py:556`):
   `save_story_snapshot` reads before its transaction begins. An intake that was
   overtaken still makes its snapshot the active one, while the `UPDATE` of
   `runs.story_hash`, guarded by `state='NEW'`, does nothing; from then on
   `ResumePacket.from_store` raises. `durable.py:535`: "story binding is immutable
   after intake; start a new run". `StoryStaysBound` states the exception
   (`raced`); without it the run `services` fails.
7. *Event ids are given twice* (`metrics.py:201`): without `AUTOINCREMENT` the
   largest id comes again once retention has deleted its row, and an export
   under way then marks an event it never carried. `metrics.py:179`:
   "``event_id`` is stable for downstream deduplication." `NoEventIsLost` states the
   exception (`shadowed`); without it the run fails.
8. *A changed story cannot be replanned* (`planning.py:188`): `PLAN.md:424` speaks
   of an explicit refresh and replan decision; `refresh()` discards
   `accept_replan` and raises on any change.
9. *Schema drift is seen at discovery only* (`mcp.py:225`): `PLAN.md:308` says that
   "schema drift quarantines a capability until it is reviewed". A capability
   that was discovered before keeps calling the changed tool, and quarantine
   ends by itself when the old schema is back. `SkillStaysPinned` states the
   exception (`drifted`); without it the run fails.

## 6. Not modelled

The modules above leave out: the text of comments, diffs, prompts and plans;
hashes (equal content has equal digests) and the arithmetic of signatures; JSON
validation; redaction; metrics emitted by the services; audit rows and artifacts
(inserts that nothing decides on); the model provider. Of the parts:

* *Sandbox* (`BubblewrapSandboxBackend`): a command line, a poll loop with a time
  limit and the reading of two files. What it returns is a result that passed or
  did not, and `ValidationLoop` takes either; when it copies the tree is in
  `Workspace`.
* *Workflow*: `advance()` is the driver in each component's module, but there is no
  module that composes all stages, and its bound of 16 steps is not modelled:
  a call that runs out of steps raises and the next one goes on from `runs.state`.
* *Models, profiles, routing, providers, request validation*: data types, JSON
  checks and one HTTP call; stateless.
* *Repository snapshots*: read-only git access.
* *Rendering of the context*, *evaluation*, *package exports*: no behaviour beyond
  a function from text to text, test data, re-exports.

Parts of modelled components that are left out are named in `PROJECT.json`
("components", status "partly").

## 7. Plan

Done: the modules of section 2, in the order of the damage an error does, and the
proofs of section 4. Open:

1. Proofs: that the exceptions in the properties (`interrupted`, `raced`,
   `shadowed`, `drifted`, `overtaken`) are as narrow as the findings say, as
   theorems about when each mark is set.
2. `Workflow`: `advance()` over abstract stages; property: a step bound of 16 is
   enough for a run that nothing delays.
