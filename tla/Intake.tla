------------------------------- MODULE Intake -------------------------------
(***************************************************************************)
(* IntakePlanningService and the tables it fills: the story snapshot a run  *)
(* is bound to, the analysis evidence and the plan.  Several processes      *)
(* advance one run at a time, while somebody edits the issue in JIRA.       *)
(*                                                                          *)
(* Every SELECT before the first write of a transaction is a step of its    *)
(* own.  store.transition is one step: its compare-and-swap is the subject  *)
(* of RunStore.  A snapshot is what its hash covers; a plan is the story    *)
(* and the evidence it was made from.  Left out: the rest of the resume     *)
(* packet, which is pins that never change and the revisions of the ledger  *)
(* and the workspace, whose change makes Compose raise as the run's does;   *)
(* and JIRA's transport.                                                    *)
(***************************************************************************)
EXTENDS RunStates, Functions

CONSTANTS
  Procs,       \* the processes
  Stories,     \* the contents the issue may have
  Evidence,    \* the repository evidence a caller may pass
  MaxFaults,   \* bound on exceptions of JIRA and the provider, and on deaths
  None         \* no story, no evidence

VARIABLES
  runState,    \* runs.state
  storyHash,   \* runs.story_hash; None is the caller's placeholder
  snapshots,   \* story_snapshots: revision -> content
  active,      \* the revision that is active; 0 for none
  ledger,      \* the run has a continuity ledger
  evidence,    \* analysis_evidence: revision -> evidence
  plans,       \* plans: revision -> plan
  issue,       \* what JIRA would answer
  pc,          \* where each process is
  story,       \* its snapshot: content and revision
  given,       \* the evidence it was called with, then what the prompt shows
  packet,      \* its ResumePacket
  late,        \* processes that read the run before somebody else bound or moved it
  raced,       \* one of them wrote its snapshot nevertheless
  faults

durable == <<runState, storyHash, snapshots, active, ledger, evidence, plans>>
local   == <<pc, story, given, packet>>
vars    == <<durable, issue, local, late, raced, faults>>

Unbound == [content |-> None, revision |-> 0]

NoPacket == <<"no run", None, 0>>

Init ==
  /\ runState = "NEW" /\ storyHash = None
  /\ snapshots = << >> /\ active = 0
  /\ ledger = FALSE
  /\ evidence = << >> /\ plans = << >>
  /\ issue \in Stories
  /\ pc = [p \in Procs |-> "idle"]
  /\ story = [p \in Procs |-> Unbound]
  /\ given = [p \in Procs |-> None]
  /\ packet = [p \in Procs |-> NoPacket]
  /\ late = {} /\ raced = FALSE
  /\ faults = 0
-----------------------------------------------------------------------------
(* Helpers.                                                                 *)
At(p, label) == pc[p] = label
Goto(p, label) == pc' = [pc EXCEPT ![p] = label]

(* The call returns, raises or dies: its variables are gone.                *)
Leave(p) ==
  /\ Goto(p, "idle")
  /\ story' = [story EXCEPT ![p] = Unbound]
  /\ given' = [given EXCEPT ![p] = None]
  /\ packet' = [packet EXCEPT ![p] = NoPacket]

Fault == faults < MaxFaults /\ faults' = faults + 1

(* p has read something: it goes on at label, or raises.                    *)
Read(p, label) ==
  /\ IF label = "raise" THEN Leave(p) ELSE Goto(p, label) /\ UNCHANGED <<story, given, packet>>
  /\ UNCHANGED <<durable, issue, raced, faults>>

(* Everyone else who is between the SELECT of the run and a write is late.  *)
Writing == {"finding", "rebind", "activate", "insert"}
OthersAreLate(p) == late' = {q \in Procs \ {p} : pc[q] \in Writing}

(* store.transition.                                                        *)
Move(p, to, label) ==
  IF ValidTransition(runState, to)
  THEN /\ runState' = to
       /\ Goto(p, label)
       /\ story' = [story EXCEPT ![p] = Unbound]
       /\ OthersAreLate(p)
       /\ UNCHANGED <<storyHash, snapshots, active, ledger, evidence, plans, issue,
                      given, packet, raced, faults>>
  ELSE Read(p, "raise") /\ UNCHANGED late
-----------------------------------------------------------------------------
(* JiraCodingAgentWorkflow.advance, which calls intake and plan by the      *)
(* state it reads, until the run is planned.  Both read the state again: a  *)
(* run that has moved on in between is found in its new state here.         *)
Start(p, e) ==
  /\ At(p, "idle")
  /\ given' = [given EXCEPT ![p] = e]
  /\ Goto(p, "advancing")
  /\ UNCHANGED <<durable, issue, story, packet, late, raced, faults>>

Advance(p) ==
  /\ At(p, "advancing")
  /\ Read(p, CASE runState = "NEW" -> "stored"
               [] runState = "INTAKE" -> "analyze"
               [] runState = "ANALYZE" -> "reading"
               [] OTHER -> "raise")
  /\ UNCHANGED late
-----------------------------------------------------------------------------
(* intake.                                                                  *)
(* The stored snapshot is bound again; without one the issue is fetched.    *)
FindStored(p) ==
  /\ At(p, "stored") /\ active # 0
  /\ story' = [story EXCEPT ![p].content = snapshots[active]]
  /\ Goto(p, "saving")
  /\ UNCHANGED <<durable, issue, given, packet, late, raced, faults>>

Fetch(p) ==
  /\ At(p, "stored") /\ active = 0
  /\ story' = [story EXCEPT ![p].content = issue]
  /\ Goto(p, "saving")
  /\ UNCHANGED <<durable, issue, given, packet, late, raced, faults>>

(* save_story_snapshot: the run; the row; the transaction.                  *)
CheckNothing(p) ==               \* broken form: a bound run takes another story
  /\ At(p, "saving")
  /\ Read(p, "finding") /\ late' = late \ {p}

CheckBinding(p) ==
  /\ At(p, "saving")
  /\ Read(p, IF runState # "NEW" /\ story[p].content # storyHash THEN "raise" ELSE "finding")
  /\ late' = late \ {p}

Existing(content) == {r \in DOMAIN snapshots : snapshots[r] = content}

FindSnapshot(p) ==
  /\ At(p, "finding")
  /\ \/ \E r \in Existing(story[p].content) :
          /\ story' = [story EXCEPT ![p].revision = r]
          /\ Goto(p, IF r = active THEN "rebind" ELSE "activate")
     \/ /\ Existing(story[p].content) = {}
        /\ story' = [story EXCEPT ![p].revision = Len(snapshots) + 1]
        /\ Goto(p, "insert")
  /\ UNCHANGED <<durable, issue, given, packet, late, raced, faults>>

(* UPDATE runs SET story_hash=? WHERE run_id=? AND state='NEW'.             *)
Bind(p) == storyHash' = IF runState = "NEW" THEN story[p].content ELSE storyHash

Saved(p) ==
  /\ Bind(p)
  /\ Goto(p, "remembering")
  /\ OthersAreLate(p)
  /\ raced' = (raced \/ p \in late)
  /\ story' = [story EXCEPT ![p] = Unbound]
  /\ UNCHANGED <<runState, ledger, evidence, plans, issue, given, packet, faults>>

Rebind(p) == At(p, "rebind") /\ Saved(p) /\ UNCHANGED <<snapshots, active>>

Activate(p) ==
  /\ At(p, "activate") /\ Saved(p)
  /\ active' = story[p].revision
  /\ UNCHANGED snapshots

InsertAnyway(p) ==               \* broken form: neither revision nor content is unique
  /\ At(p, "insert") /\ Saved(p)
  /\ snapshots' = Append(snapshots, story[p].content)
  /\ active' = Len(snapshots) + 1

Insert(p) ==
  /\ At(p, "insert") /\ story[p].revision = Len(snapshots) + 1 /\ Saved(p)
  /\ snapshots' = Append(snapshots, story[p].content)
  /\ active' = story[p].revision

(* The revision or the content is taken: the INSERT raises.                 *)
InsertRaises(p) ==
  /\ At(p, "insert") /\ story[p].revision # Len(snapshots) + 1
  /\ Read(p, "raise") /\ UNCHANGED late

(* The ledger, unless there is one; a second INSERT raises.                 *)
InitializeAlways(p) ==           \* broken form: the ledger is not looked for
  /\ At(p, "remembering")
  /\ Read(p, "initializing")
  /\ UNCHANGED late

FindLedger(p) ==
  /\ At(p, "remembering")
  /\ Read(p, IF ledger THEN "leaving" ELSE "initializing")
  /\ UNCHANGED late

InitializeLedger(p) ==
  /\ At(p, "initializing") /\ ~ledger
  /\ ledger' = TRUE
  /\ Goto(p, "leaving")
  /\ UNCHANGED <<runState, storyHash, snapshots, active, evidence, plans, issue,
                 story, given, packet, late, raced, faults>>

InitializeRaises(p) ==
  /\ At(p, "initializing") /\ ledger
  /\ Read(p, "raise") /\ UNCHANGED late

LeaveNew(p) == At(p, "leaving") /\ Move(p, "INTAKE", "advancing")
-----------------------------------------------------------------------------
(* plan.                                                                    *)
Analyze(p) == At(p, "analyze") /\ Move(p, "ANALYZE", "reading")

(* A table by revision: what it holds for r, and INSERT OR IGNORE.          *)
Entry(table, r) == IF r \in DOMAIN table THEN table[r] ELSE None

InsertOrIgnore(table, r, entry) ==
  [i \in DOMAIN table \cup {r} |-> IF i \in DOMAIN table THEN table[i] ELSE entry]

(* The active story, and its persisted plan; or evidence to save; or none.  *)
ReadStory(p) ==
  /\ At(p, "reading")
  /\ story' = [story EXCEPT ![p] = [content |-> snapshots[active], revision |-> active]]
  /\ Goto(p, IF active \in DOMAIN plans THEN "planned"
             ELSE IF given[p] # None THEN "evidence" ELSE "grounding")
  /\ UNCHANGED <<durable, issue, given, packet, late, raced, faults>>

FindEvidence(p) ==
  /\ At(p, "evidence")
  /\ Read(p, CASE Entry(evidence, story[p].revision) = None -> "inserting"
               [] Entry(evidence, story[p].revision) = given[p] -> "grounding"
               [] OTHER -> "raise")
  /\ UNCHANGED late

InsertEvidence(p) ==
  /\ At(p, "inserting") /\ Entry(evidence, story[p].revision) = None
  /\ evidence' = InsertOrIgnore(evidence, story[p].revision, given[p])
  /\ Goto(p, "grounding")
  /\ UNCHANGED <<runState, storyHash, snapshots, active, ledger, plans, issue,
                 story, given, packet, late, raced, faults>>

InsertEvidenceRaises(p) ==
  /\ At(p, "inserting") /\ Entry(evidence, story[p].revision) # None
  /\ Read(p, "raise") /\ UNCHANGED late

ReadEvidence(p) ==
  /\ At(p, "grounding")
  /\ given' = [given EXCEPT ![p] = IF @ = None THEN Entry(evidence, story[p].revision) ELSE @]
  /\ Goto(p, "packing")
  /\ UNCHANGED <<durable, issue, story, packet, late, raced, faults>>

(* ResumePacket.from_store reads all of it in one transaction.              *)
Packet == <<runState, storyHash, active>>

Bound == active # 0 /\ snapshots[active] = storyHash

Pack(p) ==
  /\ At(p, "packing") /\ Bound
  /\ packet' = [packet EXCEPT ![p] = Packet]
  /\ Goto(p, "composing")
  /\ UNCHANGED <<durable, issue, story, given, late, raced, faults>>

PackRaises(p) ==
  /\ At(p, "packing") /\ ~Bound
  /\ Read(p, "raise") /\ UNCHANGED late

(* ContextComposer reads the packet again.                                  *)
Compose(p) ==
  /\ At(p, "composing")
  /\ \/ /\ Bound /\ packet[p] = Packet
        /\ packet' = [packet EXCEPT ![p] = NoPacket]
        /\ Goto(p, "answered")
        /\ UNCHANGED <<durable, issue, story, given, raced, faults>>
     \/ ~(Bound /\ packet[p] = Packet) /\ Read(p, "raise")
  /\ UNCHANGED late

(* INSERT OR IGNORE of what the model answered.                             *)
SavePlan(p) ==
  /\ At(p, "answered")
  /\ plans' = InsertOrIgnore(plans, story[p].revision,
                            [story |-> story[p].content, basis |-> given[p]])
  /\ Goto(p, "planned")
  /\ UNCHANGED <<runState, storyHash, snapshots, active, ledger, evidence, issue,
                 story, given, packet, late, raced, faults>>

Planned(p) == At(p, "planned") /\ Move(p, "PLAN_READY", "advancing")
-----------------------------------------------------------------------------
(* JIRA or the provider raises, the model's plan is empty or cut off, or    *)
(* the process dies.                                                        *)
Fail(p) ==
  /\ ~At(p, "idle") /\ Fault
  /\ Leave(p)
  /\ UNCHANGED <<durable, issue, late, raced>>

JiraEdits ==
  /\ issue' \in Stories \ {issue}
  /\ UNCHANGED <<durable, local, late, raced, faults>>

Cancel ==
  /\ ValidTransition(runState, "CANCELLED")
  /\ runState' = "CANCELLED"
  /\ UNCHANGED <<storyHash, snapshots, active, ledger, evidence, plans, issue, local,
                 late, raced, faults>>

Work(p) ==
  \/ Advance(p)
  \/ FindStored(p) \/ Fetch(p)
  \/ CheckBinding(p) \/ FindSnapshot(p)
  \/ Rebind(p) \/ Activate(p) \/ Insert(p) \/ InsertRaises(p)
  \/ FindLedger(p) \/ InitializeLedger(p) \/ InitializeRaises(p) \/ LeaveNew(p)
  \/ Analyze(p) \/ ReadStory(p)
  \/ FindEvidence(p) \/ InsertEvidence(p) \/ InsertEvidenceRaises(p) \/ ReadEvidence(p)
  \/ Pack(p) \/ PackRaises(p) \/ Compose(p) \/ SavePlan(p) \/ Planned(p)

Next ==
  \/ \E p \in Procs : (\E e \in Evidence \cup {None} : Start(p, e)) \/ Work(p) \/ Fail(p)
  \/ JiraEdits \/ Cancel

Fairness == \A p \in Procs : WF_vars(Work(p))

Spec == Init /\ [][Next]_vars /\ Fairness
-----------------------------------------------------------------------------
(* Properties.                                                              *)
Labels == {"idle", "advancing", "stored", "saving", "remembering", "initializing",
           "leaving", "analyze", "reading", "evidence", "inserting", "grounding",
           "packing", "composing", "answered", "planned"} \cup Writing

Packets == ({"no run"} \cup RunState) \X (Stories \cup {None}) \X Nat

(* The variables have their types; there is an active snapshot from the     *)
(* first one on, and no plan or evidence without its snapshot.              *)
TypeOK ==
  /\ runState \in {"NEW", "INTAKE", "ANALYZE", "PLAN_READY", "CANCELLED"}
  /\ storyHash \in Stories \cup {None}
  /\ snapshots \in Seq(Stories) /\ IsInjective(snapshots)
  /\ active \in DOMAIN snapshots \/ (active = 0 /\ snapshots = << >>)
  /\ ledger \in BOOLEAN /\ issue \in Stories /\ faults \in 0..MaxFaults
  /\ DOMAIN evidence \subseteq DOMAIN snapshots /\ Range(evidence) \subseteq Evidence
  /\ DOMAIN plans \subseteq DOMAIN snapshots
  /\ pc \in [Procs -> Labels]
  /\ story \in [Procs -> [content : Stories \cup {None}, revision : Nat]]
  /\ given \in [Procs -> Evidence \cup {None}]
  /\ packet \in [Procs -> Packets]
  /\ late \subseteq Procs /\ raced \in BOOLEAN

(* From INTAKE on the story the run is bound to is the active one, and a    *)
(* plan was made from that story and from no evidence but what is stored    *)
(* for it -- whatever JIRA answers later, whoever died in between, and      *)
(* whichever process comes second.  The exception is real: a process that   *)
(* read the run before another one bound or moved it may still activate its *)
(* own snapshot (raced), and nothing binds the run again.                   *)
StoryStaysBound ==
  ~raced /\ runState \notin {"NEW", "CANCELLED"} =>
    /\ Bound
    /\ \A r \in DOMAIN plans :
         /\ r = active /\ plans[r].story = storyHash
         /\ plans[r].basis \in {None, Entry(evidence, r)}

(* What a dead or failed process leaves behind never blocks planning: with  *)
(* a process that advances the run again and again, without evidence that   *)
(* could contradict the stored, the run is planned or cancelled.            *)
PlanningGetsThrough ==
  \A p \in Procs :
    []<><<Start(p, None)>>_vars /\ []~raced => <>(runState \in {"PLAN_READY", "CANCELLED"})
=============================================================================
