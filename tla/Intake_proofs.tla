---------------------------- MODULE Intake_proofs ----------------------------
(***************************************************************************)
(* Proofs about Intake, for any processes, stories, evidence and number of  *)
(* faults.  What Services composes are steps, so the results are lemmas     *)
(* about Init and about one step; Services_proofs makes theorems of them.   *)
(***************************************************************************)
EXTENDS Intake, TLAPS

(* Where a process works on a plan, and where it is once there is a story.  *)
Grounding == {"evidence", "inserting", "grounding", "packing", "composing", "answered"}

Kept == {"remembering", "initializing", "leaving", "analyze", "reading", "planned"} \cup Grounding

(* What the place of a process says of the tables and of its variables.     *)
Place(p) ==
  /\ pc[p] \in Writing \cup {"saving"} => story[p].content \in Stories
  /\ pc[p] \in {"rebind", "activate"} =>
       /\ story[p].revision \in DOMAIN snapshots
       /\ snapshots[story[p].revision] = story[p].content
  /\ pc[p] = "insert" =>
       /\ story[p].revision \in 1..Len(snapshots) + 1
       /\ story[p].revision = Len(snapshots) + 1 => Existing(story[p].content) = {}
  /\ pc[p] \in Kept => active # 0
  /\ pc[p] = "analyze" => runState # "NEW"
  /\ pc[p] \in Grounding \cup {"reading", "planned"} => runState \notin {"NEW", "INTAKE"}
  /\ pc[p] \in Grounding => story[p].revision \in DOMAIN snapshots
  /\ pc[p] \in {"evidence", "inserting"} => given[p] \in Evidence

Tables ==
  /\ runState \in {"INTAKE", "ANALYZE", "PLAN_READY"} => active # 0
  /\ runState \in {"NEW", "INTAKE"} => plans = << >> /\ evidence = << >>

TypeInv == TypeOK /\ Tables /\ \A p \in Procs : Place(p)

(* A process that nobody overtook writes the story the run is bound to, and *)
(* a process that plans has that story and the evidence stored for it.      *)
OnTime(p) ==
  /\ pc[p] \in Writing /\ p \notin late =>
       /\ runState = "NEW" \/ story[p].content = storyHash
       /\ pc[p] = "rebind" => story[p].revision = active
  /\ pc[p] \in Grounding => story[p].content = storyHash /\ story[p].revision = active
  /\ pc[p] \in {"grounding", "packing", "composing", "answered"} =>
       given[p] \in {None, Entry(evidence, active)}

(* The inductive invariant: unless somebody wrote late, the snapshot that   *)
(* is active is the one the run is bound to, and so for what is on its way. *)
InTime ==
  ~raced /\ runState # "CANCELLED" =>
    /\ active # 0 => Bound
    /\ \A p \in Procs : OnTime(p)
    /\ \A r \in DOMAIN plans :
         /\ r = active /\ plans[r].story = storyHash
         /\ plans[r].basis \in {None, Entry(evidence, r)}

IInv == TypeInv /\ InTime

(* The states of a run that is planned, and the steps between them.         *)
LEMMA PlanningStates ==
  /\ {"NEW", "INTAKE", "ANALYZE", "PLAN_READY", "CANCELLED"} \subseteq RunState
  /\ \A r \in RunState :
       /\ ValidTransition(r, "INTAKE") => r = "NEW"
       /\ ValidTransition(r, "ANALYZE") => r = "INTAKE"
       /\ ValidTransition(r, "PLAN_READY") => r = "ANALYZE"
<1>1. /\ Flow[1] = "NEW" /\ Flow[2] = "INTAKE" /\ Flow[3] = "ANALYZE" /\ Flow[4] = "PLAN_READY"
      /\ Flow[5] = "IMPLEMENT" /\ Flow[6] = "VALIDATE" /\ Flow[7] = "AWAITING_PUBLISH_APPROVAL"
      /\ Flow[8] = "PUBLISH" /\ Flow[9] = "REPORT" /\ Flow[10] = "SUCCEEDED"
  BY DEF Flow
<1>2. {"NEW", "INTAKE", "ANALYZE", "PLAN_READY", "CANCELLED"} \subseteq RunState
  BY <1>1 DEF RunState, Aborted
<1>3. ASSUME NEW r \in RunState, NEW to \in {"INTAKE", "ANALYZE", "PLAN_READY"},
             ValidTransition(r, to)
      PROVE  \E i \in 1..9 : r = Flow[i] /\ to = Flow[i + 1]
  BY <1>3 DEF ValidTransition, AllowedTransitions, Aborted
<1>4. \A i \in 1..9 : /\ Flow[i + 1] = "INTAKE" => Flow[i] = "NEW"
                      /\ Flow[i + 1] = "ANALYZE" => Flow[i] = "INTAKE"
                      /\ Flow[i + 1] = "PLAN_READY" => Flow[i] = "ANALYZE"
  <2> TAKE i \in 1..9
  <2>1. i = 1 \/ i = 2 \/ i = 3 \/ i = 4 \/ i = 5 \/ i = 6 \/ i = 7 \/ i = 8 \/ i = 9
    OBVIOUS
  <2>2. QED
    BY <1>1, <2>1
<1>5. QED
  BY <1>2, <1>3, <1>4

(* The variables of the other processes stay as they are.                   *)
OthersStay(p) ==
  /\ pc' \in [Procs -> Labels]
  /\ story' \in [Procs -> [content : Stories \cup {None}, revision : Nat]]
  /\ given' \in [Procs -> Evidence \cup {None}]
  /\ packet' \in [Procs -> Packets]
  /\ \A q \in Procs \ {p} : pc'[q] = pc[q] /\ story'[q] = story[q] /\ given'[q] = given[q]

LEMMA LeaveTypes ==
  ASSUME TypeInv, NEW p \in Procs, Leave(p)
  PROVE  OthersStay(p) /\ pc'[p] = "idle"
<1>1. /\ pc \in [Procs -> Labels] /\ "idle" \in Labels
      /\ story \in [Procs -> [content : Stories \cup {None}, revision : Nat]]
      /\ given \in [Procs -> Evidence \cup {None}]
      /\ packet \in [Procs -> Packets]
  BY DEF TypeInv, TypeOK, Labels
<1>2. Unbound \in [content : Stories \cup {None}, revision : Nat] /\ NoPacket \in Packets
  BY DEF Unbound, NoPacket, Packets
<1>3. QED
  BY <1>1, <1>2 DEF Leave, Goto, OthersStay

LEMMA GotoTypes ==
  ASSUME TypeInv, NEW p \in Procs, NEW l \in Labels, Goto(p, l)
  PROVE  /\ pc' \in [Procs -> Labels] /\ pc'[p] = l
         /\ \A q \in Procs \ {p} : pc'[q] = pc[q]
  BY DEF Goto, TypeInv, TypeOK

(* An assignment to one field of the snapshot a process holds.              *)
LEMMA StoryTypes ==
  ASSUME TypeInv, NEW p \in Procs, NEW c \in Stories, NEW r \in Nat,
         \/ story' = [story EXCEPT ![p].content = c]
         \/ story' = [story EXCEPT ![p].revision = r]
  PROVE  /\ story' \in [Procs -> [content : Stories \cup {None}, revision : Nat]]
         /\ \A q \in Procs \ {p} : story'[q] = story[q]
<1>1. story \in [Procs -> [content : Stories \cup {None}, revision : Nat]]
  BY DEF TypeInv, TypeOK
<1>2. QED
  BY <1>1

(* What a process does that only reads, or gives up.                        *)
LEMMA ReadTypes ==
  ASSUME TypeInv, NEW p \in Procs, NEW l \in Labels \cup {"raise"}, Read(p, l)
  PROVE  /\ OthersStay(p) /\ UNCHANGED <<durable, issue, raced, faults>>
         /\ IF l = "raise" THEN pc'[p] = "idle"
                           ELSE pc'[p] = l /\ UNCHANGED <<story, given, packet>>
<1>1. CASE l = "raise"
  BY <1>1, LeaveTypes DEF Read
<1>2. CASE l # "raise"
  BY <1>2, GotoTypes DEF Read, OthersStay, TypeInv, TypeOK
<1>3. QED
  BY <1>1, <1>2

(* A step that leaves the tables alone.                                     *)
LEMMA LocalStep ==
  ASSUME IInv, NEW p \in Procs, OthersStay(p),
         UNCHANGED <<runState, storyHash, snapshots, active, evidence, plans, raced, issue>>,
         ledger' \in BOOLEAN, faults' \in 0..MaxFaults,
         late' = late \/ late' = late \ {p},
         Place(p)',
         ~raced /\ runState # "CANCELLED" => OnTime(p)'
  PROVE  IInv'
<1>1. TypeOK' /\ Tables'
  BY DEF IInv, TypeInv, TypeOK, Tables, OthersStay
<1>2. ASSUME NEW q \in Procs, q # p PROVE Place(q)'
  <2>1. Place(q) /\ pc'[q] = pc[q] /\ story'[q] = story[q] /\ given'[q] = given[q]
    BY <1>2 DEF IInv, TypeInv, OthersStay
  <2>2. QED
    BY <2>1 DEF Place, Existing
<1>3. ASSUME ~raced, runState # "CANCELLED", NEW q \in Procs, q # p PROVE OnTime(q)'
  <2>1. OnTime(q) /\ pc'[q] = pc[q] /\ story'[q] = story[q] /\ given'[q] = given[q]
    BY <1>3 DEF IInv, InTime, OthersStay
  <2>2. q \in late' <=> q \in late
    BY <1>3
  <2>3. QED
    BY <2>1, <2>2 DEF OnTime, Entry
<1>4. InTime'
  BY <1>3 DEF IInv, InTime, Bound, Entry
<1>5. QED
  BY <1>1, <1>2, <1>4 DEF IInv, TypeInv

(* The same for a process that comes to where nothing is expected of it.    *)
LEMMA Gone ==
  ASSUME NEW p \in Procs, pc'[p] \in {"idle", "advancing", "stored"}
  PROVE  Place(p)' /\ OnTime(p)'
  BY DEF Place, OnTime, Writing, Kept, Grounding

(* Steps that read, step by step.                                           *)
LEMMA Giving ==
  ASSUME IInv, NEW p \in Procs, MaxFaults \in Nat,
         \/ Fail(p) \/ InsertRaises(p) \/ InitializeRaises(p) \/ InsertEvidenceRaises(p)
         \/ PackRaises(p)
  PROVE  IInv'
<1>1. /\ TypeInv /\ faults \in 0..MaxFaults /\ ledger \in BOOLEAN
  BY DEF IInv, TypeInv, TypeOK
<1>2. OthersStay(p) /\ pc'[p] = "idle"
  BY <1>1, LeaveTypes DEF Fail, InsertRaises, InitializeRaises, InsertEvidenceRaises, PackRaises,
    Read
<1>3. /\ UNCHANGED <<durable, raced, issue, late>>
      /\ faults' \in 0..MaxFaults
  BY <1>1 DEF Fail, InsertRaises, InitializeRaises, InsertEvidenceRaises, PackRaises, Read, Fault
<1>4. Place(p)' /\ OnTime(p)'
  BY <1>2, Gone
<1>5. QED
  BY <1>1, <1>2, <1>3, <1>4, LocalStep DEF durable

LEMMA Starting ==
  ASSUME IInv, NEW p \in Procs, (\E e \in Evidence \cup {None} : Start(p, e)) \/ Advance(p)
  PROVE  IInv'
<1>1. /\ TypeInv /\ faults \in 0..MaxFaults /\ ledger \in BOOLEAN
      /\ runState \in {"NEW", "INTAKE", "ANALYZE", "PLAN_READY", "CANCELLED"}
      /\ runState \in {"INTAKE", "ANALYZE"} => active # 0
  BY DEF IInv, TypeInv, TypeOK, Tables
<1>2. CASE \E e \in Evidence \cup {None} : Start(p, e)
  <2>1. PICK e \in Evidence \cup {None} : Start(p, e)
    BY <1>2
  <2>2. /\ pc'[p] = "advancing" /\ OthersStay(p)
        /\ UNCHANGED <<durable, issue, late, raced, faults>>
    BY <1>1, <2>1, GotoTypes DEF Start, OthersStay, Labels, TypeInv, TypeOK
  <2>3. Place(p)' /\ OnTime(p)'
    BY <2>2, Gone
  <2>4. QED
    BY <1>1, <2>2, <2>3, LocalStep DEF durable
<1>3. CASE Advance(p)
  <2>1. PICK l \in {"stored", "analyze", "reading", "raise"} :
          /\ Read(p, l) /\ UNCHANGED late
          /\ l = "analyze" => runState = "INTAKE"
          /\ l = "reading" => runState = "ANALYZE"
    BY <1>1, <1>3 DEF Advance
  <2>2. l \in Labels \cup {"raise"}
    BY DEF Labels
  <2>3. /\ OthersStay(p) /\ UNCHANGED <<durable, issue, raced, faults>>
        /\ \/ pc'[p] \in {"idle", "stored"}
           \/ pc'[p] = "analyze" /\ runState = "INTAKE"
           \/ pc'[p] = "reading" /\ runState = "ANALYZE"
    BY <1>1, <2>1, <2>2, ReadTypes
  <2>4. Place(p)' /\ OnTime(p)'
    BY <1>1, <2>3 DEF Place, OnTime, Writing, Kept, Grounding, durable
  <2>5. QED
    BY <1>1, <2>1, <2>3, <2>4, LocalStep DEF durable
<1>4. QED
  BY <1>2, <1>3

LEMMA Reading ==
  ASSUME IInv, NEW p \in Procs,
         FindStored(p) \/ Fetch(p) \/ CheckBinding(p) \/ FindSnapshot(p)
  PROVE  IInv'
<1>1. /\ TypeInv /\ faults \in 0..MaxFaults /\ ledger \in BOOLEAN /\ issue \in Stories
      /\ snapshots \in Seq(Stories)
      /\ story \in [Procs -> [content : Stories \cup {None}, revision : Nat]]
      /\ active # 0 => active \in DOMAIN snapshots
      /\ active \in Nat
  BY DEF IInv, TypeInv, TypeOK
<1>2. /\ Place(p)
      /\ ~raced /\ runState # "CANCELLED" => OnTime(p)
  BY DEF IInv, TypeInv, InTime
<1>3. CASE FindStored(p) \/ Fetch(p)
  <2>1. PICK c \in Stories : story' = [story EXCEPT ![p].content = c]
    <3>1. active # 0 => snapshots[active] \in Stories
      BY <1>1
    <3>2. QED
      BY <1>1, <1>3, <3>1 DEF FindStored, Fetch
  <2>2. /\ pc'[p] = "saving" /\ story'[p].content = c /\ OthersStay(p)
        /\ UNCHANGED <<durable, issue, late, raced, faults>>
    <3>1. /\ Goto(p, "saving") /\ "saving" \in Labels
          /\ UNCHANGED <<durable, issue, given, packet, late, raced, faults>>
      BY <1>3 DEF FindStored, Fetch, Labels
    <3>2. story'[p].content = c
      BY <1>1, <2>1
    <3>3. OthersStay(p)
      BY <1>1, <2>1, <3>1, GotoTypes, StoryTypes DEF OthersStay, TypeInv, TypeOK
    <3>4. QED
      BY <1>1, <3>1, <3>2, <3>3, GotoTypes
  <2>3. Place(p)' /\ OnTime(p)'
    BY <2>2 DEF Place, OnTime, Writing, Kept, Grounding
  <2>4. QED
    BY <1>1, <2>2, <2>3, LocalStep DEF durable
<1>4. CASE CheckBinding(p)
  <2>1. PICK l \in {"finding", "raise"} :
          /\ Read(p, l) /\ late' = late \ {p} /\ pc[p] = "saving"
          /\ l = "finding" => runState = "NEW" \/ story[p].content = storyHash
    BY <1>4 DEF CheckBinding, At
  <2>2. l \in Labels \cup {"raise"}
    BY DEF Labels, Writing
  <2>3. /\ OthersStay(p) /\ UNCHANGED <<durable, issue, raced, faults>>
        /\ \/ pc'[p] = "idle"
           \/ /\ pc'[p] = "finding" /\ story'[p] = story[p]
              /\ runState = "NEW" \/ story[p].content = storyHash
    BY <1>1, <2>1, <2>2, ReadTypes
  <2>4. Place(p)' /\ OnTime(p)'
    BY <1>2, <2>1, <2>3 DEF Place, OnTime, Writing, Kept, Grounding, durable
  <2>5. QED
    BY <1>1, <2>1, <2>3, <2>4, LocalStep DEF durable
<1>5. CASE FindSnapshot(p)
  <2>1. PICK r \in Nat, l \in {"rebind", "activate", "insert"} :
          /\ story' = [story EXCEPT ![p].revision = r] /\ Goto(p, l)
          /\ \/ /\ l \in {"rebind", "activate"}
                /\ r \in DOMAIN snapshots /\ snapshots[r] = story[p].content
                /\ l = "rebind" => r = active
             \/ /\ l = "insert" /\ r = Len(snapshots) + 1
                /\ Existing(story[p].content) = {}
    <3>1. CASE Existing(story[p].content) = {}
      <4>1. /\ story' = [story EXCEPT ![p].revision = Len(snapshots) + 1]
            /\ Goto(p, "insert")
        BY <1>5, <3>1 DEF FindSnapshot
      <4>2. Len(snapshots) + 1 \in Nat
        BY <1>1
      <4>3. QED
        BY <3>1, <4>1, <4>2
    <3>2. ASSUME NEW r \in Existing(story[p].content),
                 story' = [story EXCEPT ![p].revision = r],
                 Goto(p, IF r = active THEN "rebind" ELSE "activate")
          PROVE  /\ r \in Nat /\ r \in DOMAIN snapshots /\ snapshots[r] = story[p].content
                 /\ \E l \in {"rebind", "activate"} : Goto(p, l) /\ (l = "rebind" => r = active)
      BY <1>1, <3>2 DEF Existing
    <3>3. QED
      BY <1>5, <3>1, <3>2 DEF FindSnapshot
  <2>2. /\ pc[p] = "finding" /\ UNCHANGED <<durable, issue, given, packet, late, raced, faults>>
    BY <1>5 DEF FindSnapshot, At
  <2>3. /\ pc'[p] = l /\ OthersStay(p)
        /\ story'[p].revision = r /\ story'[p].content = story[p].content
    <3>1. l \in Labels
      BY DEF Labels, Writing
    <3>2. /\ story' \in [Procs -> [content : Stories \cup {None}, revision : Nat]]
          /\ \A q \in Procs \ {p} : story'[q] = story[q]
      BY <1>1, <2>1, StoryTypes
    <3>3. OthersStay(p)
      BY <1>1, <2>1, <2>2, <3>1, <3>2, GotoTypes DEF OthersStay, TypeInv, TypeOK
    <3>4. QED
      BY <1>1, <2>1, <3>1, <3>3, GotoTypes
  <2>4. Place(p)'
    <3>1. story[p].content \in Stories
      BY <1>2, <2>2 DEF Place, Writing
    <3>2. l = "insert" => r \in 1..Len(snapshots) + 1
      BY <1>1, <2>1
    <3>3. QED
      BY <2>1, <2>2, <2>3, <3>1, <3>2 DEF Place, Writing, Kept, Grounding, Existing, durable
  <2>5. ~raced /\ runState # "CANCELLED" => OnTime(p)'
    BY <1>2, <2>1, <2>2, <2>3 DEF OnTime, Writing, Grounding, durable
  <2>6. QED
    BY <1>1, <2>2, <2>3, <2>4, <2>5, LocalStep DEF durable
<1>6. QED
  BY <1>3, <1>4, <1>5

LEMMA Ledger ==
  ASSUME IInv, NEW p \in Procs, FindLedger(p) \/ InitializeLedger(p)
  PROVE  IInv'
<1>1. TypeInv /\ faults \in 0..MaxFaults /\ ledger \in BOOLEAN /\ Place(p)
  BY DEF IInv, TypeInv, TypeOK
<1>2. CASE FindLedger(p)
  <2>1. PICK l \in {"leaving", "initializing"} : Read(p, l)
    BY <1>2 DEF FindLedger
  <2>2. l \in Labels \cup {"raise"} /\ l # "raise"
    BY DEF Labels
  <2>3. /\ OthersStay(p) /\ pc'[p] \in {"leaving", "initializing"}
        /\ UNCHANGED <<durable, issue, raced, faults, late>>
    BY <1>1, <1>2, <2>1, <2>2, ReadTypes DEF FindLedger
  <2>4. Place(p)' /\ OnTime(p)'
    BY <1>1, <1>2, <2>3 DEF FindLedger, At, Place, OnTime, Writing, Kept, Grounding, durable
  <2>5. QED
    BY <1>1, <2>3, <2>4, LocalStep DEF durable
<1>3. CASE InitializeLedger(p)
  <2>1. /\ pc'[p] = "leaving" /\ OthersStay(p)
    BY <1>1, <1>3, GotoTypes DEF InitializeLedger, OthersStay, Labels, TypeInv, TypeOK
  <2>2. Place(p)' /\ OnTime(p)'
    BY <1>1, <1>3, <2>1 DEF InitializeLedger, At, Place, OnTime, Writing, Kept, Grounding
  <2>3. QED
    BY <1>1, <1>3, <2>1, <2>2, LocalStep DEF InitializeLedger
<1>4. QED
  BY <1>2, <1>3

LEMMA Grounds ==
  ASSUME IInv, NEW p \in Procs, ReadStory(p) \/ FindEvidence(p) \/ ReadEvidence(p)
  PROVE  IInv'
<1>1. /\ TypeInv /\ faults \in 0..MaxFaults /\ ledger \in BOOLEAN
      /\ snapshots \in Seq(Stories)
      /\ story \in [Procs -> [content : Stories \cup {None}, revision : Nat]]
      /\ given \in [Procs -> Evidence \cup {None}]
      /\ packet \in [Procs -> Packets]
      /\ active # 0 => active \in DOMAIN snapshots
      /\ active \in Nat
      /\ \A r : Entry(evidence, r) \in Evidence \cup {None}
  BY DEF IInv, TypeInv, TypeOK, Entry, Range
<1>2. /\ Place(p)
      /\ ~raced /\ runState # "CANCELLED" => OnTime(p) /\ (active # 0 => Bound)
  BY DEF IInv, TypeInv, InTime
<1>3. CASE ReadStory(p)
  <2>1. /\ pc[p] = "reading" /\ UNCHANGED <<durable, issue, given, packet, late, raced, faults>>
        /\ story' = [story EXCEPT ![p] = [content |-> snapshots[active], revision |-> active]]
    BY <1>3 DEF ReadStory, At
  <2>2. PICK l \in {"planned", "evidence", "grounding"} :
          /\ Goto(p, l)
          /\ l = "evidence" => given[p] # None
          /\ l = "grounding" => given[p] = None
    BY <1>3 DEF ReadStory
  <2>3. /\ active # 0 /\ runState \notin {"NEW", "INTAKE"}
    BY <1>2, <2>1 DEF Place, Kept
  <2>4. /\ active \in DOMAIN snapshots /\ snapshots[active] \in Stories
    BY <1>1, <2>3
  <2>5. /\ pc'[p] = l /\ OthersStay(p)
        /\ story'[p].content = snapshots[active] /\ story'[p].revision = active
    BY <1>1, <2>1, <2>2, <2>4, GotoTypes DEF OthersStay, Labels
  <2>6. Place(p)'
    BY <1>1, <2>1, <2>2, <2>3, <2>4, <2>5 DEF Place, Writing, Kept, Grounding, durable
  <2>7. ~raced /\ runState # "CANCELLED" => OnTime(p)'
    BY <1>2, <2>1, <2>2, <2>3, <2>5 DEF OnTime, Bound, Writing, Grounding, durable
  <2>8. QED
    BY <1>1, <2>1, <2>5, <2>6, <2>7, LocalStep DEF durable
<1>4. CASE FindEvidence(p)
  <2>1. PICK l \in {"inserting", "grounding", "raise"} :
          /\ Read(p, l) /\ pc[p] = "evidence" /\ UNCHANGED late
          /\ l = "grounding" => Entry(evidence, story[p].revision) = given[p]
    BY <1>4 DEF FindEvidence, At
  <2>2. l \in Labels \cup {"raise"}
    BY DEF Labels
  <2>3. /\ OthersStay(p) /\ UNCHANGED <<durable, issue, raced, faults>>
        /\ \/ pc'[p] = "idle"
           \/ /\ pc'[p] = l /\ l \in {"inserting", "grounding"}
              /\ story'[p] = story[p] /\ given'[p] = given[p]
    BY <1>1, <2>1, <2>2, ReadTypes
  <2>4. Place(p)'
    BY <1>2, <2>1, <2>3 DEF Place, Writing, Kept, Grounding, durable
  <2>5. ~raced /\ runState # "CANCELLED" => OnTime(p)'
    BY <1>2, <2>1, <2>3 DEF OnTime, Writing, Grounding, durable
  <2>6. QED
    BY <1>1, <2>1, <2>3, <2>4, <2>5, LocalStep DEF durable
<1>5. CASE ReadEvidence(p)
  <2>1. /\ pc[p] = "grounding" /\ UNCHANGED <<durable, issue, story, packet, late, raced, faults>>
        /\ Goto(p, "packing")
    BY <1>5 DEF ReadEvidence, At
  <2>2. PICK g \in Evidence \cup {None} :
          /\ given' = [given EXCEPT ![p] = g]
          /\ g = given[p] \/ g = Entry(evidence, story[p].revision)
    BY <1>1, <1>5 DEF ReadEvidence
  <2>3. pc'[p] = "packing" /\ OthersStay(p) /\ given'[p] = g
    BY <1>1, <2>1, <2>2, GotoTypes DEF OthersStay, Labels
  <2>4. Place(p)'
    BY <1>2, <2>1, <2>3 DEF Place, Writing, Kept, Grounding, durable
  <2>5. ~raced /\ runState # "CANCELLED" => OnTime(p)'
    BY <1>2, <2>1, <2>2, <2>3 DEF OnTime, Writing, Grounding, durable
  <2>6. QED
    BY <1>1, <2>1, <2>3, <2>4, <2>5, LocalStep DEF durable
<1>6. QED
  BY <1>3, <1>4, <1>5

LEMMA Packing ==
  ASSUME IInv, NEW p \in Procs, Pack(p) \/ Compose(p)
  PROVE  IInv'
<1>1. /\ TypeInv /\ faults \in 0..MaxFaults /\ ledger \in BOOLEAN
      /\ packet \in [Procs -> Packets]
      /\ Packet \in Packets /\ NoPacket \in Packets
  <2>1. runState \in RunState /\ storyHash \in Stories \cup {None} /\ active \in Nat
    BY PlanningStates DEF IInv, TypeInv, TypeOK
  <2>2. Packet \in Packets
    BY <2>1 DEF Packet, Packets
  <2>3. NoPacket \in Packets
    BY DEF NoPacket, Packets
  <2>4. QED
    BY <2>2, <2>3 DEF IInv, TypeInv, TypeOK
<1>2. /\ Place(p)
      /\ ~raced /\ runState # "CANCELLED" => OnTime(p)
  BY DEF IInv, TypeInv, InTime
<1>3. CASE Read(p, "raise") /\ UNCHANGED late
  <2>1. /\ OthersStay(p) /\ UNCHANGED <<durable, issue, raced, faults>>
        /\ pc'[p] = "idle"
    BY <1>1, <1>3, ReadTypes
  <2>2. Place(p)' /\ OnTime(p)'
    BY <2>1, Gone
  <2>3. QED
    BY <1>1, <1>3, <2>1, <2>2, LocalStep DEF durable
<1>4. CASE ~Read(p, "raise")
  <2>1. PICK l \in {"composing", "answered"} :
          /\ Goto(p, l) /\ pc[p] \in {"packing", "composing"}
          /\ \E x \in Packets : packet' = [packet EXCEPT ![p] = x]
          /\ UNCHANGED <<durable, issue, story, given, late, raced, faults>>
    BY <1>1, <1>4 DEF Pack, Compose, At
  <2>2. pc'[p] = l /\ OthersStay(p)
    BY <1>1, <2>1, GotoTypes DEF OthersStay, Labels, TypeInv, TypeOK
  <2>3. Place(p)'
    BY <1>2, <2>1, <2>2 DEF Place, Writing, Kept, Grounding, durable
  <2>4. ~raced /\ runState # "CANCELLED" => OnTime(p)'
    BY <1>2, <2>1, <2>2 DEF OnTime, Writing, Grounding, durable
  <2>5. QED
    BY <1>1, <2>1, <2>2, <2>3, <2>4, LocalStep DEF durable
<1>5. QED
  BY <1>3, <1>4 DEF Pack, Compose

(* Saving a snapshot: whoever is not late binds the run to what it activates. *)
LEMMA Saving ==
  ASSUME IInv, NEW p \in Procs, Rebind(p) \/ Activate(p) \/ Insert(p)
  PROVE  IInv'
<1> DEFINE c == story[p].content
<1>1. /\ TypeInv /\ TypeOK /\ Place(p) /\ Tables
      /\ snapshots \in Seq(Stories) /\ IsInjective(snapshots)
      /\ story \in [Procs -> [content : Stories \cup {None}, revision : Nat]]
  BY DEF IInv, TypeInv, TypeOK
<1>2. /\ pc[p] \in {"rebind", "activate", "insert"}
      /\ storyHash' = IF runState = "NEW" THEN c ELSE storyHash
      /\ Goto(p, "remembering")
      /\ late' = {q \in Procs \ {p} : pc[q] \in Writing}
      /\ raced' = (raced \/ p \in late)
      /\ story' = [story EXCEPT ![p] = Unbound]
      /\ UNCHANGED <<runState, ledger, evidence, plans, issue, given, packet, faults>>
  BY DEF Rebind, Activate, Insert, Saved, Bind, OthersAreLate, At
<1>3. c \in Stories
  BY <1>1, <1>2 DEF Place, Writing
<1>4. OthersStay(p) /\ pc'[p] = "remembering"
  <2>1. "remembering" \in Labels /\ Unbound \in [content : Stories \cup {None}, revision : Nat]
    BY DEF Labels, Unbound
  <2>2. QED
    BY <1>1, <1>2, <2>1, GotoTypes DEF OthersStay, TypeOK
(* The snapshots after the step, and the one that is active.                *)
<1>5. /\ \/ snapshots' = snapshots
         \/ /\ snapshots' = Append(snapshots, c) /\ Existing(c) = {} /\ pc[p] = "insert"
            /\ active' = Len(snapshots) + 1
      /\ pc[p] # "rebind" => active' \in DOMAIN snapshots' /\ snapshots'[active'] = c
      /\ pc[p] = "rebind" => active' = active /\ snapshots' = snapshots
  <2>1. CASE Rebind(p)
    BY <2>1 DEF Rebind, At
  <2>2. CASE Activate(p)
    BY <1>1, <2>2 DEF Activate, At, Place
  <2>3. CASE Insert(p)
    <3>1. /\ pc[p] = "insert" /\ snapshots' = Append(snapshots, c)
          /\ active' = Len(snapshots) + 1 /\ Existing(c) = {}
      BY <1>1, <2>3 DEF Insert, At, Place
    <3>2. /\ active' \in DOMAIN snapshots' /\ snapshots'[active'] = c
      BY <1>1, <1>3, <3>1
    <3>3. QED
      BY <3>1, <3>2
  <2>4. QED
    BY <2>1, <2>2, <2>3
<1>6. /\ snapshots' \in Seq(Stories) /\ IsInjective(snapshots')
      /\ Len(snapshots') \in {Len(snapshots), Len(snapshots) + 1}
      /\ Len(snapshots') = Len(snapshots) => snapshots' = snapshots
      /\ \A r \in DOMAIN snapshots : r \in DOMAIN snapshots' /\ snapshots'[r] = snapshots[r]
  <2>1. CASE snapshots' = snapshots
    BY <1>1, <2>1
  <2>2. CASE snapshots' = Append(snapshots, c) /\ Existing(c) = {}
    <3>1. /\ snapshots' \in Seq(Stories) /\ Len(snapshots') = Len(snapshots) + 1
          /\ DOMAIN snapshots' = 1..Len(snapshots) + 1 /\ DOMAIN snapshots = 1..Len(snapshots)
          /\ \A r \in 1..Len(snapshots) : snapshots'[r] = snapshots[r]
          /\ snapshots'[Len(snapshots) + 1] = c
      BY <1>1, <1>3, <2>2
    <3>2. \A r \in 1..Len(snapshots) : snapshots[r] # c
      BY <2>2, <3>1 DEF Existing
    <3>3. Len(snapshots) \in Nat
      BY <1>1
    <3>4. IsInjective(snapshots')
      <4> SUFFICES ASSUME NEW i \in DOMAIN snapshots', NEW j \in DOMAIN snapshots',
                          snapshots'[i] = snapshots'[j]
                   PROVE  i = j
        BY DEF IsInjective
      <4>1. /\ i \in 1..Len(snapshots) \/ i = Len(snapshots) + 1
            /\ j \in 1..Len(snapshots) \/ j = Len(snapshots) + 1
        BY <3>1, <3>3
      <4>2. QED
        BY <1>1, <3>1, <3>2, <4>1 DEF IsInjective
    <3>5. /\ Len(snapshots') \in {Len(snapshots), Len(snapshots) + 1}
          /\ Len(snapshots') # Len(snapshots)
      <4>1. Len(snapshots') = Len(snapshots) + 1
        BY <3>1
      <4>2. QED
        BY <3>3, <4>1
    <3>6. \A r \in DOMAIN snapshots : r \in DOMAIN snapshots' /\ snapshots'[r] = snapshots[r]
      BY <3>1, <3>3
    <3>7. QED
      BY <3>1, <3>4, <3>5, <3>6
  <2>3. QED
    BY <1>5, <2>1, <2>2
<1>7. active' \in DOMAIN snapshots' /\ active' # 0
  <2>1. pc[p] = "rebind" => active \in DOMAIN snapshots
    BY <1>1 DEF TypeOK, Place
  <2>2. active' \in DOMAIN snapshots'
    BY <1>5, <2>1
  <2>3. QED
    BY <1>6, <2>2
<1>8. TypeOK'
  BY <1>1, <1>2, <1>3, <1>4, <1>6, <1>7 DEF TypeOK, OthersStay
<1>9. Tables'
  BY <1>1, <1>2, <1>7 DEF Tables
<1>10. ASSUME NEW q \in Procs PROVE Place(q)'
  <2>1. CASE q = p
    BY <1>4, <1>7, <2>1 DEF Place, Writing, Kept, Grounding
  <2>2. CASE q # p
    <3>1. Place(q) /\ pc'[q] = pc[q] /\ story'[q] = story[q] /\ given'[q] = given[q]
      BY <1>4, <2>2 DEF IInv, TypeInv, OthersStay
    <3>2. pc[q] = "insert" =>
            /\ story[q].revision \in 1..Len(snapshots') + 1
            /\ story[q].revision = Len(snapshots') + 1 =>
                 {r \in DOMAIN snapshots' : snapshots'[r] = story[q].content} = {}
      <4>1. Len(snapshots) \in Nat
        BY <1>1
      <4>2. QED
        BY <1>6, <3>1, <4>1 DEF Place, Existing
    <3>3. QED
      BY <1>2, <1>6, <1>7, <3>1, <3>2 DEF Place, Existing
  <2>3. QED
    BY <2>1, <2>2
<1>11. InTime'
  <2> SUFFICES ASSUME ~raced, p \notin late, runState # "CANCELLED"
               PROVE  /\ Bound'
                      /\ \A q \in Procs : OnTime(q)'
                      /\ \A r \in DOMAIN plans :
                           /\ r = active' /\ plans[r].story = storyHash'
                           /\ plans[r].basis \in {None, Entry(evidence, r)}
    BY <1>2 DEF InTime, Entry
  <2>1. /\ active # 0 => Bound
        /\ \A q \in Procs : OnTime(q)
        /\ \A r \in DOMAIN plans :
             /\ r = active /\ plans[r].story = storyHash
             /\ plans[r].basis \in {None, Entry(evidence, r)}
    BY DEF IInv, InTime
  <2>2. /\ runState = "NEW" \/ c = storyHash
        /\ pc[p] = "rebind" => snapshots[active] = c /\ active # 0
    <3>1. active \in DOMAIN snapshots => active # 0
      BY <1>1
    <3>2. QED
      BY <1>1, <1>2, <2>1, <3>1 DEF OnTime, Writing, Place
  <2>3. CASE runState = "NEW"
    <3>1. plans = << >> /\ DOMAIN plans = {}
      BY <1>1, <2>3 DEF Tables
    <3>2. \A q \in Procs \ {p} : OnTime(q)'
      BY <1>2, <1>4, <1>10, <2>3 DEF OthersStay, OnTime, Place, Grounding
    <3>3. OnTime(p)'
      BY <1>4 DEF OnTime, Writing, Grounding
    <3>4. Bound'
      BY <1>2, <1>5, <1>7, <2>2, <2>3 DEF Bound
    <3>5. QED
      BY <3>1, <3>2, <3>3, <3>4
  <2>4. CASE runState # "NEW"
    <3>1. active # 0 /\ active \in DOMAIN snapshots /\ c = storyHash /\ snapshots[active] = c
      BY <1>1, <2>1, <2>2, <2>4 DEF Tables, Bound, TypeOK
    <3>2. Existing(c) # {}
      BY <3>1 DEF Existing
    <3>3. snapshots' = snapshots /\ active' = active /\ storyHash' = storyHash
      BY <1>1, <1>2, <1>5, <2>4, <3>1, <3>2 DEF IsInjective
    <3>4. \A q \in Procs \ {p} : OnTime(q)'
      BY <1>2, <1>4, <2>1, <3>3 DEF OthersStay, OnTime, Entry
    <3>5. OnTime(p)'
      BY <1>4 DEF OnTime, Writing, Grounding
    <3>6. QED
      BY <2>1, <3>1, <3>3, <3>4, <3>5 DEF Bound
  <2>5. QED
    BY <2>3, <2>4
<1>12. QED
  BY <1>8, <1>9, <1>10, <1>11 DEF IInv, TypeInv

(* The run moves on: who was about to save a snapshot is late now.          *)
LEMMA Moving ==
  ASSUME IInv, NEW p \in Procs, LeaveNew(p) \/ Analyze(p) \/ Planned(p)
  PROVE  IInv'
<1>1. /\ TypeInv /\ TypeOK /\ Place(p) /\ Tables
      /\ runState \in RunState
  BY PlanningStates DEF IInv, TypeInv, TypeOK
<1>2. CASE Read(p, "raise") /\ UNCHANGED late
  <2>1. /\ OthersStay(p) /\ UNCHANGED <<durable, issue, raced, faults>>
        /\ pc'[p] = "idle"
    BY <1>1, <1>2, ReadTypes
  <2>2. Place(p)' /\ OnTime(p)'
    BY <2>1, Gone
  <2>3. faults' \in 0..MaxFaults /\ ledger' \in BOOLEAN
    BY <1>1, <2>1 DEF TypeOK, durable
  <2>4. QED
    BY <1>2, <2>1, <2>2, <2>3, LocalStep DEF durable
<1>3. ASSUME NEW to \in {"INTAKE", "ANALYZE", "PLAN_READY"}, NEW l \in {"advancing", "reading"},
             l = "reading" => to = "ANALYZE",
             pc[p] \in {"leaving", "analyze", "planned"},
             ValidTransition(runState, to), runState' = to, Goto(p, l),
             story' = [story EXCEPT ![p] = Unbound], OthersAreLate(p),
             UNCHANGED <<storyHash, snapshots, active, ledger, evidence, plans, issue,
                         given, packet, raced, faults>>
      PROVE  IInv'
  <2>1. /\ to = "INTAKE" => runState = "NEW"
        /\ to = "ANALYZE" => runState = "INTAKE"
        /\ to = "PLAN_READY" => runState = "ANALYZE"
    BY <1>1, <1>3, PlanningStates
  <2>2. OthersStay(p) /\ pc'[p] = l
    <3>1. l \in Labels /\ Unbound \in [content : Stories \cup {None}, revision : Nat]
      BY DEF Labels, Unbound
    <3>2. QED
      BY <1>1, <1>3, <3>1, GotoTypes DEF OthersStay, TypeOK
  <2>3. active # 0
    BY <1>1, <1>3 DEF Place, Kept
  <2>4. TypeOK'
    BY <1>1, <1>3, <2>2 DEF TypeOK, OthersStay, OthersAreLate
  <2>5. Tables'
    BY <1>1, <1>3, <2>1, <2>3 DEF Tables
  <2>6. Place(p)'
    BY <1>3, <2>2, <2>3 DEF Place, Writing, Kept, Grounding
  <2>7. ASSUME NEW q \in Procs, q # p PROVE Place(q)'
    <3>1. Place(q) /\ pc'[q] = pc[q] /\ story'[q] = story[q] /\ given'[q] = given[q]
      BY <2>2, <2>7 DEF IInv, TypeInv, OthersStay
    <3>2. runState' # "NEW" /\ (runState' = "INTAKE" => runState = "NEW")
      BY <1>3, <2>1
    <3>3. QED
      BY <1>3, <3>1, <3>2 DEF Place, Existing
  <2>8. InTime'
    <3> SUFFICES ASSUME ~raced
                 PROVE  /\ active # 0 => Bound
                        /\ \A q \in Procs : OnTime(q)'
                        /\ \A r \in DOMAIN plans :
                             /\ r = active /\ plans[r].story = storyHash
                             /\ plans[r].basis \in {None, Entry(evidence, r)}
      BY <1>3 DEF InTime, Entry, Bound
    <3>1. runState # "CANCELLED"
      BY <1>3, <2>1
    <3>2. ASSUME NEW q \in Procs, q # p PROVE OnTime(q)'
      <4>1. OnTime(q) /\ pc'[q] = pc[q] /\ story'[q] = story[q] /\ given'[q] = given[q]
        BY <2>2, <3>1, <3>2 DEF IInv, InTime, OthersStay
      <4>2. pc[q] \in Writing => q \in late'
        BY <1>3, <3>2 DEF OthersAreLate
      <4>3. QED
        BY <1>3, <4>1, <4>2 DEF OnTime, Entry
    <3>3. OnTime(p)'
      BY <2>2 DEF OnTime, Writing, Grounding
    <3>4. QED
      BY <3>1, <3>2, <3>3 DEF IInv, InTime
  <2>9. QED
    BY <2>4, <2>5, <2>6, <2>7, <2>8 DEF IInv, TypeInv
<1>4. QED
  BY <1>2, <1>3 DEF LeaveNew, Analyze, Planned, Move, At

(* Rows of the two tables that go with the active story.                    *)
LEMMA Storing ==
  ASSUME IInv, None \notin Evidence, NEW p \in Procs, InsertEvidence(p) \/ SavePlan(p)
  PROVE  IInv'
<1>1. /\ TypeInv /\ TypeOK /\ Place(p) /\ Tables
      /\ story[p].revision \in DOMAIN snapshots
      /\ runState \notin {"NEW", "INTAKE"}
  BY DEF IInv, TypeInv, InsertEvidence, SavePlan, At, Place, Grounding
<1>2. PICK l \in {"grounding", "planned"} :
        /\ Goto(p, l)
        /\ UNCHANGED <<runState, storyHash, snapshots, active, ledger, issue, story, given, packet,
                       late, raced, faults>>
        /\ l = "planned" => evidence' = evidence
        /\ l = "grounding" => plans' = plans
  BY DEF InsertEvidence, SavePlan
<1>3. pc'[p] = l /\ OthersStay(p) /\ story' = story /\ given' = given
  <2>1. l \in Labels
    BY DEF Labels
  <2>2. QED
    BY <1>1, <1>2, <2>1, GotoTypes DEF OthersStay, TypeOK
<1>4. /\ DOMAIN evidence' \subseteq DOMAIN snapshots /\ Range(evidence') \subseteq Evidence
      /\ DOMAIN plans' \subseteq DOMAIN snapshots
  <2>1. CASE InsertEvidence(p)
    <3>1. given[p] \in Evidence /\ plans' = plans
      BY <1>1, <2>1 DEF InsertEvidence, At, Place
    <3>2. /\ DOMAIN evidence' = DOMAIN evidence \cup {story[p].revision}
          /\ \A r \in DOMAIN evidence' : evidence'[r] \in {given[p]} \cup Range(evidence)
      BY <2>1 DEF InsertEvidence, InsertOrIgnore, Range
    <3>3. QED
      BY <1>1, <3>1, <3>2 DEF TypeOK, Range
  <2>2. CASE SavePlan(p)
    <3>1. DOMAIN plans' = DOMAIN plans \cup {story[p].revision} /\ evidence' = evidence
      BY <2>2 DEF SavePlan, InsertOrIgnore
    <3>2. QED
      BY <1>1, <3>1 DEF TypeOK
  <2>3. QED
    BY <2>1, <2>2
<1>5. TypeOK'
  BY <1>1, <1>2, <1>3, <1>4 DEF TypeOK, OthersStay
<1>6. Tables'
  BY <1>1, <1>2 DEF Tables
<1>7. ASSUME NEW q \in Procs PROVE Place(q)'
  <2>1. CASE q = p
    <3>1. active # 0 /\ pc[p] \in Grounding
      BY <1>1 DEF InsertEvidence, SavePlan, At, Place, Kept, Grounding
    <3>2. QED
      BY <1>1, <1>2, <1>3, <2>1, <3>1 DEF Place, Writing, Kept, Grounding
  <2>2. CASE q # p
    <3>1. Place(q) /\ pc'[q] = pc[q]
      BY <1>3, <2>2 DEF IInv, TypeInv, OthersStay
    <3>2. QED
      BY <1>2, <1>3, <3>1 DEF Place, Existing
  <2>3. QED
    BY <2>1, <2>2
<1>8. InTime'
  <2> SUFFICES ASSUME ~raced, runState # "CANCELLED"
               PROVE  /\ active # 0 => Bound
                      /\ \A q \in Procs : OnTime(q)'
                      /\ \A r \in DOMAIN plans' :
                           /\ r = active /\ plans'[r].story = storyHash
                           /\ plans'[r].basis \in {None, Entry(evidence', r)}
    BY <1>2 DEF InTime, Entry, Bound
  <2>1. /\ active # 0 => Bound
        /\ \A q \in Procs : OnTime(q)
        /\ \A r \in DOMAIN plans :
             /\ r = active /\ plans[r].story = storyHash
             /\ plans[r].basis \in {None, Entry(evidence, r)}
    BY DEF IInv, InTime
  <2>2. story[p].content = storyHash /\ story[p].revision = active
    BY <2>1 DEF InsertEvidence, SavePlan, At, OnTime, Grounding
  <2>3. CASE InsertEvidence(p)
    <3>1. /\ pc[p] = "inserting" /\ Entry(evidence, active) = None /\ l = "grounding"
          /\ evidence' = InsertOrIgnore(evidence, active, given[p])
      BY <1>1, <1>2, <1>3, <2>2, <2>3 DEF InsertEvidence, At, Goto, TypeOK
    <3>2. active \notin DOMAIN evidence
      BY <1>1, <3>1 DEF Entry, TypeOK, Range
    <3>3. Entry(evidence', active) = given[p]
      BY <3>1, <3>2 DEF Entry, InsertOrIgnore
    <3>4. ASSUME NEW q \in Procs PROVE OnTime(q)'
      <4>1. CASE q = p
        BY <1>2, <1>3, <2>2, <3>1, <3>3, <4>1 DEF OnTime, Writing, Grounding
      <4>2. CASE q # p
        <5>1. OnTime(q) /\ pc'[q] = pc[q]
          BY <1>3, <2>1, <4>2 DEF OthersStay
        <5>2. QED
          BY <1>2, <1>3, <3>1, <3>3, <5>1 DEF OnTime
      <4>3. QED
        BY <4>1, <4>2
    <3>5. plans' = plans
      BY <1>2, <3>1
    <3>6. QED
      BY <2>1, <3>1, <3>4, <3>5
  <2>4. CASE SavePlan(p)
    <3>1. /\ pc[p] = "answered" /\ l = "planned" /\ evidence' = evidence
          /\ plans' = InsertOrIgnore(plans, active, [story |-> storyHash, basis |-> given[p]])
      BY <1>1, <1>2, <1>3, <2>2, <2>4 DEF SavePlan, At, Goto, TypeOK
    <3>2. given[p] \in {None, Entry(evidence, active)}
      BY <2>1, <3>1 DEF OnTime
    <3>3. ASSUME NEW r \in DOMAIN plans'
          PROVE  /\ r = active /\ plans'[r].story = storyHash
                 /\ plans'[r].basis \in {None, Entry(evidence, r)}
      BY <2>1, <3>1, <3>2 DEF InsertOrIgnore
    <3>4. ASSUME NEW q \in Procs PROVE OnTime(q)'
      <4>1. CASE q = p
        BY <1>3, <3>1, <4>1 DEF OnTime, Writing, Grounding
      <4>2. CASE q # p
        <5>1. OnTime(q) /\ pc'[q] = pc[q]
          BY <1>3, <2>1, <4>2 DEF OthersStay
        <5>2. QED
          BY <1>2, <1>3, <3>1, <5>1 DEF OnTime
      <4>3. QED
        BY <4>1, <4>2
    <3>5. QED
      BY <2>1, <3>1, <3>3, <3>4
  <2>5. QED
    BY <2>3, <2>4
<1>9. QED
  BY <1>5, <1>6, <1>7, <1>8 DEF IInv, TypeInv

(* Nobody of the runtime: the issue is edited, the run is cancelled.        *)
LEMMA Others ==
  ASSUME IInv, JiraEdits \/ Cancel \/ UNCHANGED vars
  PROVE  IInv'
<1>1. /\ UNCHANGED <<storyHash, snapshots, active, ledger, evidence, plans,
                     pc, story, given, packet, late, raced, faults>>
      /\ issue' \in Stories
      /\ runState' = runState \/ runState' = "CANCELLED"
  BY DEF JiraEdits, Cancel, vars, durable, local, IInv, TypeInv, TypeOK
<1>2. TypeOK' /\ Tables'
  BY <1>1 DEF IInv, TypeInv, TypeOK, Tables
<1>3. ASSUME NEW p \in Procs PROVE Place(p)'
  BY <1>1 DEF IInv, TypeInv, Place, Existing
<1>4. InTime'
  BY <1>1 DEF IInv, InTime, Bound, OnTime, Entry
<1>5. QED
  BY <1>2, <1>3, <1>4 DEF IInv, TypeInv

LEMMA IntakeStarts ==
  ASSUME MaxFaults \in Nat, Init
  PROVE  IInv
<1>1. TypeOK
  <2>1. /\ snapshots \in Seq(Stories) /\ IsInjective(snapshots) /\ DOMAIN evidence = {}
        /\ DOMAIN plans = {}
    BY DEF Init, IsInjective
  <2>2. /\ pc \in [Procs -> Labels] /\ given \in [Procs -> Evidence \cup {None}]
        /\ story \in [Procs -> [content : Stories \cup {None}, revision : Nat]]
        /\ packet \in [Procs -> Packets]
    BY DEF Init, Labels, Unbound, NoPacket, Packets
  <2>3. Range(evidence) \subseteq Evidence
    BY <2>1 DEF Range
  <2>4. /\ active = 0 /\ snapshots = << >> /\ ledger = FALSE /\ late = {} /\ raced = FALSE
        /\ runState = "NEW" /\ storyHash = None /\ issue \in Stories
    BY DEF Init
  <2>5. faults \in 0..MaxFaults
    BY DEF Init
  <2>6. DOMAIN evidence \subseteq DOMAIN snapshots /\ DOMAIN plans \subseteq DOMAIN snapshots
    BY <2>1
  <2>7. QED
    BY <2>1, <2>2, <2>3, <2>4, <2>5, <2>6 DEF TypeOK
<1>2. Tables
  BY DEF Init, Tables
<1>3. ASSUME NEW p \in Procs PROVE Place(p) /\ OnTime(p)
  BY DEF Init, Place, OnTime, Writing, Kept, Grounding
<1>4. InTime
  <2>1. active = 0 /\ DOMAIN plans = {}
    BY DEF Init
  <2>2. QED
    BY <1>3, <2>1 DEF InTime
<1>5. QED
  BY <1>1, <1>2, <1>3, <1>4 DEF IInv, TypeInv

LEMMA IntakeSteps ==
  ASSUME MaxFaults \in Nat, None \notin Evidence, IInv, [Next]_vars
  PROVE  IInv'
BY Giving, Starting, Reading, Ledger, Grounds, Packing, Saving, Moving, Storing, Others
DEF Next, Work

(* What the invariant says of the properties.                               *)
LEMMA IntakeHolds ==
  ASSUME IInv
  PROVE  TypeOK /\ StoryStaysBound
<1>1. ~raced /\ runState \notin {"NEW", "CANCELLED"} => active # 0
  BY DEF IInv, TypeInv, TypeOK, Tables
<1>2. StoryStaysBound
  BY <1>1 DEF IInv, InTime, StoryStaysBound
<1>3. QED
  BY <1>2 DEF IInv, TypeInv
=============================================================================
