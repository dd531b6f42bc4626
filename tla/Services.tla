------------------------------ MODULE Services ------------------------------
(***************************************************************************)
(* Five parts of the runtime that share no state with one another, for one  *)
(* run of the model checker: intake and planning, the export of metrics,    *)
(* the paging of an issue's comments, the context window of a session, and  *)
(* the skill that is pinned to a run.                                       *)
(* A behaviour is one of the part that focus names; the others stand still. *)
(***************************************************************************)
EXTENDS Integers, Sequences

CONSTANTS
  Procs, Stories, Evidence, MaxFaults, None,    \* Intake
  MaxEvents, BatchSize,                         \* Metrics
  PageSize, MaxComments,                        \* JiraReads
  Sizes, Available, RetainGroups, MaxTurns,     \* ContextWindow
  SkillIds, Contents, Signers, Tools, BuiltIn, MaxChanges  \* Skills

VARIABLES
  focus,
  runState, storyHash, snapshots, active, ledger, evidence, plans, issue,
  pc, story, given, packet, late, raced, faults,
  table, recorded, exporting, batch, accepted, shadowed,
  comments, made, reading, start, got, before,
  rounds, asking, shown,
  shelf, signerUntil, offered, now, changes, pin,
  at, registry, trusted, catalog, skill, grants, drifted

Planning == INSTANCE Intake
Export   == INSTANCE Metrics WITH Exporters <- Procs, step <- exporting
Paging   == INSTANCE JiraReads WITH step <- reading
Window   == INSTANCE ContextWindow WITH step <- asking
Pinning  == INSTANCE Skills

(* Bounds are numbers, a batch holds an event, a session has a turn and     *)
(* keeps a round (what is left for the rounds may be nothing, or less), a   *)
(* skill has a text and a signer, a built-in capability is no tool, and     *)
(* None is none of the values that it stands for the lack of.               *)
ASSUME BoundsAssumption ==
  /\ MaxFaults \in Nat /\ BatchSize \in Nat \ {0} /\ MaxComments \in Nat /\ MaxChanges \in Nat
ASSUME BudgetAssumption ==
  Sizes \subseteq Nat /\ Available \in Int /\ RetainGroups \in Nat \ {0} /\ MaxTurns \in Nat \ {0}
ASSUME SkillsAssumption == Contents # {} /\ Signers # {} /\ Tools \cap BuiltIn = {}
ASSUME NoneAssumption ==
  /\ None \notin Evidence \cup Stories
  /\ None \notin Pinning!Pins
  /\ \A tools \in SUBSET Tools : None \notin [tools \cup BuiltIn -> {1}]

planning == <<runState, storyHash, snapshots, active, ledger, evidence, plans, issue,
              pc, story, given, packet, late, raced, faults>>
export   == <<table, recorded, exporting, batch, accepted, shadowed>>
paging   == <<comments, made, reading, start, got, before>>
window   == <<rounds, asking, shown>>
skills   == <<shelf, signerUntil, offered, now, changes, pin,
              at, registry, trusted, catalog, skill, grants, drifted>>
vars     == <<focus, planning, export, paging, window, skills>>

Init ==
  /\ focus \in {"planning", "export", "paging", "window", "skills"}
  /\ Planning!Init /\ Export!Init /\ Paging!Init /\ Window!Init /\ Pinning!Init
  \* a part that is not looked at starts in one state
  /\ focus # "planning" => issue = CHOOSE s \in Stories : TRUE
  /\ focus # "paging" => made = 0

Next ==
  \/ /\ focus = "planning" /\ Planning!Next
     /\ UNCHANGED <<focus, export, paging, window, skills>>
  \/ /\ focus = "export" /\ Export!Next
     /\ UNCHANGED <<focus, planning, paging, window, skills>>
  \/ /\ focus = "paging" /\ Paging!Next
     /\ UNCHANGED <<focus, planning, export, window, skills>>
  \/ /\ focus = "window" /\ Window!Next
     /\ UNCHANGED <<focus, planning, export, paging, skills>>
  \/ /\ focus = "skills" /\ Pinning!Next
     /\ UNCHANGED <<focus, planning, export, paging, window>>

Spec == Init /\ [][Next]_vars /\ Planning!Fairness
-----------------------------------------------------------------------------
(* Properties; the modules of the parts say what they mean.                 *)
(* The variables of every part have their types.                            *)
TypeOK ==
  Planning!TypeOK /\ Export!TypeOK /\ Paging!TypeOK /\ Window!TypeOK /\ Pinning!TypeOK

(* A run's plan is made from the one story the run is bound to.             *)
StoryStaysBound == Planning!StoryStaysBound

(* A run that is advanced again and again is planned.                       *)
PlanningGetsThrough == Planning!PlanningGetsThrough

(* Metrics are exported at least once before they are deleted.              *)
NoEventIsLost == Export!NoEventIsLost

(* A snapshot of an issue has the comments that were there all the time.    *)
NoCommentIsMissed == Paging!NoCommentIsMissed

(* A request to the model shows as many of the newest rounds as fit.        *)
RequestShowsNewestRounds == Window!RequestShowsNewestRounds

(* Every process that works on a run works with the skill pinned to it.     *)
SkillStaysPinned == Pinning!SkillStaysPinned
=============================================================================
