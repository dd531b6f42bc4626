--------------------------- MODULE Services_proofs ---------------------------
(***************************************************************************)
(* Proofs about Services, part by part, for any value of the constants.     *)
(* Planning comes from the lemmas of Intake_proofs; the export of metrics,  *)
(* the paging of comments, the context window and the pinned skill have an  *)
(* invariant each, kept by the steps of their part and by all the others.   *)
(***************************************************************************)
EXTENDS Services, FiniteSetTheorems, SequenceTheorems, WellFoundedInduction, TLAPS

(* The lemmas about Intake, for the planning of Services.                   *)
Plan == INSTANCE Intake_proofs

(* They speak of the same steps.                                            *)
LEMMA PlanningIsIntake ==
  /\ Planning!Init => Plan!Init
  /\ [Planning!Next]_planning => [Plan!Next]_(Plan!vars)
<1>1. Planning!Init => Plan!Init
  BY DEF Planning!Init, Plan!Init, Planning!Unbound, Plan!Unbound, Planning!NoPacket, Plan!NoPacket
<1>2. ASSUME Planning!Next PROVE Plan!Next
  BY <1>2 DEF
    Planning!Next, Plan!Next, Planning!Work, Plan!Work, Planning!Start, Plan!Start,
    Planning!Advance, Plan!Advance, Planning!FindStored, Plan!FindStored, Planning!Fetch,
    Plan!Fetch, Planning!CheckBinding, Plan!CheckBinding, Planning!FindSnapshot,
    Plan!FindSnapshot, Planning!Rebind, Plan!Rebind, Planning!Activate, Plan!Activate,
    Planning!Insert, Plan!Insert, Planning!InsertRaises, Plan!InsertRaises, Planning!FindLedger,
    Plan!FindLedger, Planning!InitializeLedger, Plan!InitializeLedger,
    Planning!InitializeRaises, Plan!InitializeRaises, Planning!LeaveNew, Plan!LeaveNew,
    Planning!Analyze, Plan!Analyze, Planning!ReadStory, Plan!ReadStory, Planning!FindEvidence,
    Plan!FindEvidence, Planning!InsertEvidence, Plan!InsertEvidence,
    Planning!InsertEvidenceRaises, Plan!InsertEvidenceRaises, Planning!ReadEvidence,
    Plan!ReadEvidence, Planning!Pack, Plan!Pack, Planning!PackRaises, Plan!PackRaises,
    Planning!Compose, Plan!Compose, Planning!SavePlan, Plan!SavePlan, Planning!Planned,
    Plan!Planned, Planning!Fail, Plan!Fail, Planning!JiraEdits, Plan!JiraEdits, Planning!Cancel,
    Plan!Cancel, Planning!At, Plan!At, Planning!Goto, Plan!Goto, Planning!Leave, Plan!Leave,
    Planning!Fault, Plan!Fault, Planning!Read, Plan!Read, Planning!OthersAreLate,
    Plan!OthersAreLate, Planning!Writing, Plan!Writing, Planning!Move, Plan!Move,
    Planning!Existing, Plan!Existing, Planning!Bind, Plan!Bind, Planning!Saved, Plan!Saved,
    Planning!Entry, Plan!Entry, Planning!InsertOrIgnore, Plan!InsertOrIgnore, Planning!Packet,
    Plan!Packet, Planning!Bound, Plan!Bound, Planning!durable, Plan!durable, Planning!local,
    Plan!local, Planning!Unbound, Plan!Unbound, Planning!NoPacket, Plan!NoPacket,
    Planning!ValidTransition, Plan!ValidTransition, Planning!AllowedTransitions,
    Plan!AllowedTransitions, Planning!Flow, Plan!Flow, Planning!Terminal, Plan!Terminal,
    Planning!Aborted, Plan!Aborted
<1>3. UNCHANGED planning => UNCHANGED Plan!vars
  BY DEF planning, Plan!vars, Plan!durable, Plan!local
<1>4. QED
  BY <1>1, <1>2, <1>3

LEMMA PlanningStarts == Init => Plan!IInv
BY PlanningIsIntake, BoundsAssumption, Plan!IntakeStarts DEF Init

LEMMA PlanningSteps == Plan!IInv /\ [Next]_vars => Plan!IInv'
<1>1. [Next]_vars => [Planning!Next]_planning
  BY DEF Next, vars
<1>2. [Planning!Next]_planning => Plan!Next \/ UNCHANGED Plan!vars
  BY PlanningIsIntake
<1>3. ASSUME Plan!IInv, Plan!Next \/ UNCHANGED Plan!vars PROVE Plan!IInv'
  BY <1>3, BoundsAssumption, NoneAssumption, Plan!IntakeSteps
<1>4. QED
  BY <1>1, <1>2, <1>3

LEMMA PlanningHolds == Plan!IInv => Planning!TypeOK /\ StoryStaysBound
<1>1. Plan!TypeOK => Planning!TypeOK
  BY DEF Plan!TypeOK, Planning!TypeOK, Plan!Labels, Planning!Labels, Plan!Writing,
    Planning!Writing, Plan!Packets, Planning!Packets, Plan!RunState, Planning!RunState,
    Plan!Flow, Planning!Flow, Plan!Aborted, Planning!Aborted, Plan!Range, Planning!Range,
    Plan!IsInjective, Planning!IsInjective
<1>2. Plan!StoryStaysBound => StoryStaysBound
  BY DEF StoryStaysBound, Plan!StoryStaysBound, Planning!StoryStaysBound, Plan!Bound,
    Planning!Bound, Plan!Entry, Planning!Entry
<1>3. QED
  BY <1>1, <1>2, Plan!IntakeHolds

(* From INTAKE on a run is planned from the one story it is bound to.       *)
THEOREM PlanIsMadeFromTheBoundStory == Spec => []StoryStaysBound
<1>1. QED
  BY PlanningStarts, PlanningSteps, PlanningHolds, PTL DEF Spec
-----------------------------------------------------------------------------
(* Facts about numbers.                                                     *)
(* Every set of numbers has a least one, and a bounded one a greatest.      *)
LEMMA Least ==
  ASSUME NEW T \in SUBSET Nat, T # {}
  PROVE  \E x \in T : \A y \in T : x <= y
<1> DEFINE Below == OpToRel(<, Nat)
<1>1. PICK x \in T : \A y \in T : ~(<<y, x>> \in Below)
  <2>1. IsWellFoundedOn(Below, Nat)
    BY NatLessThanWellFounded
  <2> HIDE DEF Below
  <2>2. QED
    BY <2>1, WFMin
<1>2. \A y \in T : y < x => <<y, x>> \in Below
  BY DEF OpToRel
<1> HIDE DEF Below
<1>3. ASSUME NEW y \in T PROVE x <= y
  <2>1. x \in Nat /\ y \in Nat /\ ~(y < x)
    BY <1>1, <1>2
  <2>2. QED
    BY <2>1
<1>4. QED
  BY <1>3

LEMMA Greatest ==
  ASSUME NEW n \in Nat, NEW T \in SUBSET (0..n), T # {}
  PROVE  \E x \in T : \A y \in T : x >= y
<1> DEFINE Distance == {n - i : i \in T}
<1>1. Distance \in SUBSET Nat /\ Distance # {}
  <2>1. \A i \in T : n - i \in Nat /\ n - i \in Distance
    OBVIOUS
  <2>2. QED
    BY <2>1
<1>2. PICK d \in Distance : \A e \in Distance : d <= e
  BY <1>1, Least
<1>3. PICK x \in T : d = n - x
  OBVIOUS
<1>4. ASSUME NEW y \in T PROVE x >= y
  BY <1>2, <1>3, n - y \in Distance, n - x <= n - y
<1>5. QED
  BY <1>4
-----------------------------------------------------------------------------
(* The export of metrics.                                                   *)
(* Rows have ids that were given, and their ids have an end.                *)
ExportTypes ==
  /\ recorded \in Nat
  /\ DOMAIN table \subseteq 1..recorded
  /\ exporting = [p \in Procs |-> exporting[p]]
  /\ batch = [p \in Procs |-> batch[p]]
  /\ \A p \in Procs : exporting[p] \in {"idle", "exporting", "marking"}
  /\ Export!TypeOK

(* The row with an id that an export has selected is still the row that was *)
(* selected, or its event is known to be shadowed.                          *)
BatchIsSelected ==
  \A p \in Procs : \A i \in DOMAIN batch[p] \cap DOMAIN table :
    table[i].event = batch[p][i] \/ table[i].event \in shadowed

MarkedIsAccepted ==
  \A p \in Procs : exporting[p] = "marking" =>
    \A i \in DOMAIN batch[p] : batch[p][i] \in accepted

ExportInv == ExportTypes /\ BatchIsSelected /\ MarkedIsAccepted /\ NoEventIsLost

LEMMA FreshId ==
  ASSUME ExportTypes
  PROVE  Export!NextId \in 1..recorded + 1 /\ Export!NextId \notin DOMAIN table
<1>1. CASE DOMAIN table = {}
  BY <1>1 DEF Export!NextId, ExportTypes
<1>2. CASE DOMAIN table # {}
  <2>1. DOMAIN table # {} /\ DOMAIN table \in SUBSET (0..recorded) /\ recorded \in Nat
    BY <1>2 DEF ExportTypes
  <2>2. PICK x \in DOMAIN table : \A y \in DOMAIN table : x >= y
    BY <2>1, Greatest
  <2>3. /\ Export!Max(DOMAIN table) \in DOMAIN table
        /\ \A y \in DOMAIN table : Export!Max(DOMAIN table) >= y
    BY <2>2 DEF Export!Max
  <2>4. PICK m : m = Export!Max(DOMAIN table)
    OBVIOUS
  <2>5. m \in 1..recorded /\ \A y \in DOMAIN table : m >= y
    BY <2>3, <2>4 DEF ExportTypes
  <2>6. m + 1 \in 1..recorded + 1 /\ m + 1 \notin DOMAIN table
    BY <2>1, <2>5
  <2>7. QED
    BY <1>2, <2>4, <2>6 DEF Export!NextId
<1>3. QED
  BY <1>1, <1>2

LEMMA Recording ==
  ASSUME ExportInv, Export!RecordEvent
  PROVE  ExportInv'
<1> DEFINE id == Export!NextId
           new == recorded + 1
<1>1. /\ id \in 1..recorded + 1 /\ id \notin DOMAIN table /\ recorded \in Nat
      /\ recorded' = new /\ new \in Nat
  BY FreshId DEF ExportInv, ExportTypes, Export!RecordEvent
<1>2. /\ table' = [i \in DOMAIN table \cup {id} |->
                     IF i = id THEN [event |-> new, exported |-> FALSE] ELSE table[i]]
      /\ shadowed' = IF \E p \in Procs : id \in DOMAIN batch[p]
                     THEN shadowed \cup {new} ELSE shadowed
      /\ UNCHANGED <<exporting, batch, accepted>>
  BY <1>1 DEF Export!RecordEvent
<1> HIDE DEF id, new
<1>3. /\ DOMAIN table' = DOMAIN table \cup {id}
      /\ table'[id] = [event |-> new, exported |-> FALSE]
      /\ \A i \in DOMAIN table : table'[i] = table[i]
  BY <1>1, <1>2
<1>4. new \notin 1..recorded /\ 1..recorded' = 1..recorded \cup {new}
      /\ id \in 1..recorded'
  BY <1>1 DEF new
<1>5. \A i \in DOMAIN table : table[i].event # new
  BY <1>4 DEF ExportInv, ExportTypes, Export!TypeOK
<1>6. Export!TypeOK'
  <2>1. /\ \A i \in DOMAIN table : /\ table[i] \in [event : 1..recorded, exported : BOOLEAN]
                                   /\ table'[i] \in [event : 1..recorded', exported : BOOLEAN]
        /\ table'[id] \in [event : 1..recorded', exported : BOOLEAN]
    BY <1>3, <1>4 DEF ExportInv, ExportTypes, Export!TypeOK
  <2>2. \A i, j \in DOMAIN table' : table'[i].event = table'[j].event => i = j
    BY <1>3, <1>5 DEF ExportInv, ExportTypes, Export!TypeOK
  <2>3. 1..recorded \subseteq 1..recorded' /\ new \in 1..recorded'
    BY <1>4
  <2>4. accepted' \subseteq 1..recorded' /\ shadowed' \subseteq 1..recorded'
    BY <1>2, <2>3 DEF ExportInv, ExportTypes, Export!TypeOK
  <2>5. ASSUME NEW p \in Procs
        PROVE  /\ Export!Range(batch'[p]) \subseteq 1..recorded'
               /\ exporting'[p] = "idle" <=> DOMAIN batch'[p] = {}
    <3>1. batch'[p] = batch[p] /\ exporting'[p] = exporting[p]
      BY <1>2
    <3>2. /\ Export!Range(batch[p]) \subseteq 1..recorded
          /\ exporting[p] = "idle" <=> DOMAIN batch[p] = {}
      BY DEF ExportInv, ExportTypes, Export!TypeOK
    <3>3. QED
      BY <2>3, <3>1, <3>2
  <2>6. QED
    BY <1>3, <2>1, <2>2, <2>4, <2>5 DEF Export!TypeOK, Export!Range
<1>7. ExportTypes'
  BY <1>1, <1>2, <1>3, <1>4, <1>6 DEF ExportInv, ExportTypes
<1>8. BatchIsSelected'
  BY <1>2, <1>3 DEF ExportInv, BatchIsSelected
<1>9. MarkedIsAccepted'
  BY <1>2 DEF ExportInv, MarkedIsAccepted
<1>10. NoEventIsLost'
  <2>1. \A i \in DOMAIN table : ~table[i].exported => i \in Export!Pending'
    BY <1>3 DEF Export!Pending
  <2>2. id \in Export!Pending' /\ table'[id].event = new
    BY <1>3 DEF Export!Pending
  <2>3. ASSUME NEW e \in 1..recorded
        PROVE  e \in accepted' \cup shadowed' \/ \E i \in Export!Pending' : table'[i].event = e
    BY <1>2, <1>3, <2>1 DEF ExportInv, NoEventIsLost, Export!NoEventIsLost, Export!Pending
  <2>4. QED
    BY <1>4, <2>2, <2>3 DEF NoEventIsLost, Export!NoEventIsLost
<1>11. QED
  BY <1>7, <1>8, <1>9, <1>10 DEF ExportInv

(* The batch of p is put aside, and its exporter moves.                     *)
LEMMA Exporting ==
  ASSUME ExportInv, NEW p \in Procs, NEW to \in {"idle", "exporting", "marking"},
         NEW rows, Export!Range(rows) \subseteq 1..recorded,
         to = "idle" <=> DOMAIN rows = {},
         exporting' = [exporting EXCEPT ![p] = to], batch' = [batch EXCEPT ![p] = rows],
         UNCHANGED recorded
  PROVE  /\ batch' = [q \in Procs |-> batch'[q]] /\ exporting' = [q \in Procs |-> exporting'[q]]
         /\ \A q \in Procs : /\ exporting'[q] \in {"idle", "exporting", "marking"}
                             /\ Export!Range(batch'[q]) \subseteq 1..recorded'
                             /\ exporting'[q] = "idle" <=> DOMAIN batch'[q] = {}
         /\ batch'[p] = rows /\ exporting'[p] = to
         /\ \A q \in Procs \ {p} : batch'[q] = batch[q] /\ exporting'[q] = exporting[q]
<1>1. batch = [q \in Procs |-> batch[q]] /\ exporting = [q \in Procs |-> exporting[q]]
  BY DEF ExportInv, ExportTypes
<1>2. /\ batch' = [q \in Procs |-> IF q = p THEN rows ELSE batch[q]]
      /\ exporting' = [q \in Procs |-> IF q = p THEN to ELSE exporting[q]]
  BY <1>1
<1>3. /\ batch'[p] = rows /\ exporting'[p] = to
      /\ \A q \in Procs \ {p} : batch'[q] = batch[q] /\ exporting'[q] = exporting[q]
  BY <1>2
<1>4. \A q \in Procs : /\ exporting[q] \in {"idle", "exporting", "marking"}
                       /\ Export!Range(batch[q]) \subseteq 1..recorded
                       /\ exporting[q] = "idle" <=> DOMAIN batch[q] = {}
  BY DEF ExportInv, ExportTypes, Export!TypeOK
<1>5. ASSUME NEW q \in Procs
      PROVE  /\ exporting'[q] \in {"idle", "exporting", "marking"}
             /\ Export!Range(batch'[q]) \subseteq 1..recorded'
             /\ exporting'[q] = "idle" <=> DOMAIN batch'[q] = {}
  <2>1. CASE q = p
    BY <2>1, <1>3
  <2>2. CASE q # p
    BY <2>2, <1>3, <1>4
  <2>3. QED
    BY <2>1, <2>2
<1>6. batch' = [q \in Procs |-> batch'[q]] /\ exporting' = [q \in Procs |-> exporting'[q]]
  BY <1>2
<1>7. QED
  BY <1>3, <1>5, <1>6

LEMMA Selecting ==
  ASSUME ExportInv, NEW p \in Procs, Export!Select(p)
  PROVE  ExportInv'
<1> DEFINE first == {i \in Export!Pending :
                       Export!Cardinality({j \in Export!Pending : j < i}) < BatchSize}
           rows == [i \in first |-> table[i].event]
<1>0. batch' = [batch EXCEPT ![p] = rows]
  BY DEF Export!Select
<1>1. /\ exporting' = [exporting EXCEPT ![p] = "exporting"]
      /\ Export!Pending # {}
      /\ UNCHANGED <<table, recorded, accepted, shadowed>>
  BY DEF Export!Select, Export!Goto
<1>2. first \subseteq DOMAIN table
  BY DEF Export!Pending
<1>3. first # {}
  <2>1. Export!Pending \in SUBSET Nat
    BY DEF Export!Pending, ExportInv, ExportTypes
  <2>2. PICK x \in Export!Pending : \A y \in Export!Pending : x <= y
    BY <1>1, <2>1, Least
  <2>3. {j \in Export!Pending : j < x} = {}
    <3>1. ASSUME NEW j \in Export!Pending PROVE ~(j < x)
      <4>1. j \in Nat /\ x \in Nat /\ x <= j
        BY <2>1, <2>2
      <4>2. QED
        BY <4>1
    <3>2. QED
      BY <3>1
  <2>4. Export!Cardinality({j \in Export!Pending : j < x}) < BatchSize
    <3>1. Export!Cardinality({}) = Cardinality({})
      BY DEF Export!Cardinality, Cardinality, Export!IsFiniteSet, IsFiniteSet
    <3>2. QED
      BY <2>3, <3>1, FS_EmptySet, BoundsAssumption
  <2>5. QED
    BY <2>4
<1> HIDE DEF first
<1>4. DOMAIN rows = first /\ \A i \in first : rows[i] = table[i].event
  OBVIOUS
<1>5. Export!Range(rows) \subseteq 1..recorded
  BY <1>2, <1>4 DEF Export!Range, ExportInv, ExportTypes, Export!TypeOK
<1> HIDE DEF rows
<1>6. /\ batch' = [q \in Procs |-> batch'[q]] /\ exporting' = [q \in Procs |-> exporting'[q]]
      /\ \A q \in Procs : /\ exporting'[q] \in {"idle", "exporting", "marking"}
                          /\ Export!Range(batch'[q]) \subseteq 1..recorded'
                          /\ exporting'[q] = "idle" <=> DOMAIN batch'[q] = {}
      /\ batch'[p] = rows /\ exporting'[p] = "exporting"
      /\ \A q \in Procs \ {p} : batch'[q] = batch[q] /\ exporting'[q] = exporting[q]
  BY <1>0, <1>1, <1>3, <1>4, <1>5, Exporting
<1>7. ExportTypes'
  BY <1>1, <1>6 DEF ExportInv, ExportTypes, Export!TypeOK
<1>8. BatchIsSelected'
  BY <1>1, <1>4, <1>6 DEF ExportInv, BatchIsSelected
<1>9. MarkedIsAccepted'
  BY <1>1, <1>6 DEF ExportInv, MarkedIsAccepted
<1>10. NoEventIsLost'
  BY <1>1 DEF ExportInv, NoEventIsLost, Export!NoEventIsLost, Export!Pending
<1>11. QED
  BY <1>7, <1>8, <1>9, <1>10 DEF ExportInv

LEMMA Accepting ==
  ASSUME ExportInv, NEW p \in Procs, Export!Accept(p)
  PROVE  ExportInv'
<1>1. /\ exporting' = [exporting EXCEPT ![p] = "marking"] /\ exporting[p] = "exporting"
      /\ accepted' = accepted \cup Export!Range(batch[p])
      /\ UNCHANGED <<table, recorded, batch, shadowed>>
  BY DEF Export!Accept, Export!Goto
<1>2. batch' = [batch EXCEPT ![p] = batch[p]] /\ DOMAIN batch[p] # {}
      /\ Export!Range(batch[p]) \subseteq 1..recorded
  BY <1>1 DEF ExportInv, ExportTypes, Export!TypeOK
<1>3. /\ batch' = [q \in Procs |-> batch'[q]] /\ exporting' = [q \in Procs |-> exporting'[q]]
      /\ \A q \in Procs : /\ exporting'[q] \in {"idle", "exporting", "marking"}
                          /\ Export!Range(batch'[q]) \subseteq 1..recorded'
                          /\ exporting'[q] = "idle" <=> DOMAIN batch'[q] = {}
      /\ exporting'[p] = "marking"
      /\ \A q \in Procs \ {p} : exporting'[q] = exporting[q]
  BY <1>1, <1>2, Exporting
<1>4. ExportTypes'
  BY <1>1, <1>2, <1>3 DEF ExportInv, ExportTypes, Export!TypeOK
<1>5. BatchIsSelected'
  BY <1>1 DEF ExportInv, BatchIsSelected
<1>6. MarkedIsAccepted'
  BY <1>1, <1>3 DEF ExportInv, MarkedIsAccepted, Export!Range
<1>7. NoEventIsLost'
  BY <1>1 DEF ExportInv, NoEventIsLost, Export!NoEventIsLost, Export!Pending
<1>8. QED
  BY <1>4, <1>5, <1>6, <1>7 DEF ExportInv

(* Marking the rows of a batch: the events stay, and what is new among the  *)
(* exported ones is accepted or shadowed.                                   *)
LEMMA Marking ==
  ASSUME ExportInv, NEW p \in Procs, Export!Mark(p)
  PROVE  ExportInv'
<1>1. /\ exporting' = [exporting EXCEPT ![p] = "idle"] /\ exporting[p] = "marking"
      /\ batch' = [batch EXCEPT ![p] = << >>]
      /\ table' = [i \in DOMAIN table |->
                     [table[i] EXCEPT !.exported = table[i].exported \/ i \in DOMAIN batch[p]]]
      /\ UNCHANGED <<recorded, accepted, shadowed>>
  BY DEF Export!Mark, Export!Goto
<1>2. DOMAIN << >> = {} /\ Export!Range(<< >>) \subseteq 1..recorded
  BY DEF Export!Range
<1>3. /\ batch' = [q \in Procs |-> batch'[q]] /\ exporting' = [q \in Procs |-> exporting'[q]]
      /\ \A q \in Procs : /\ exporting'[q] \in {"idle", "exporting", "marking"}
                          /\ Export!Range(batch'[q]) \subseteq 1..recorded'
                          /\ exporting'[q] = "idle" <=> DOMAIN batch'[q] = {}
      /\ batch'[p] = << >> /\ exporting'[p] = "idle"
      /\ \A q \in Procs \ {p} : batch'[q] = batch[q] /\ exporting'[q] = exporting[q]
  BY <1>1, <1>2, Exporting
<1>4. ASSUME NEW i \in DOMAIN table
      PROVE  /\ table'[i] \in [event : 1..recorded, exported : BOOLEAN]
             /\ table'[i].event = table[i].event
             /\ table'[i].exported <=> table[i].exported \/ i \in DOMAIN batch[p]
  <2>1. table[i] \in [event : 1..recorded, exported : BOOLEAN]
    BY DEF ExportInv, ExportTypes, Export!TypeOK
  <2>2. table'[i] = [table[i] EXCEPT !.exported = table[i].exported \/ i \in DOMAIN batch[p]]
    BY <1>1
  <2>3. QED
    BY <2>1, <2>2
<1>5. DOMAIN table' = DOMAIN table
  BY <1>1
<1>6. Export!TypeOK'
  <2>1. \A i, j \in DOMAIN table' : table'[i].event = table'[j].event => i = j
    BY <1>4, <1>5 DEF ExportInv, ExportTypes, Export!TypeOK
  <2>2. accepted' \subseteq 1..recorded' /\ shadowed' \subseteq 1..recorded'
    BY <1>1 DEF ExportInv, ExportTypes, Export!TypeOK
  <2>3. QED
    BY <1>1, <1>3, <1>4, <1>5, <2>1, <2>2 DEF Export!TypeOK
<1>7. ExportTypes'
  BY <1>1, <1>3, <1>5, <1>6 DEF ExportInv, ExportTypes
<1>8. BatchIsSelected'
  <2>1. ASSUME NEW q \in Procs, NEW i \in DOMAIN batch'[q] \cap DOMAIN table'
        PROVE  table'[i].event = batch'[q][i] \/ table'[i].event \in shadowed'
    <3>1. q # p /\ batch'[q] = batch[q] /\ i \in DOMAIN batch[q] \cap DOMAIN table
      BY <1>2, <1>3, <1>5
    <3>2. table[i].event = batch[q][i] \/ table[i].event \in shadowed
      BY <3>1 DEF ExportInv, BatchIsSelected
    <3>3. QED
      BY <1>1, <1>4, <3>1, <3>2
  <2>2. QED
    BY <2>1 DEF BatchIsSelected
<1>9. MarkedIsAccepted'
  BY <1>1, <1>2, <1>3 DEF ExportInv, MarkedIsAccepted
<1>10. NoEventIsLost'
  <2>1. SUFFICES ASSUME NEW e \in 1..recorded, e \notin accepted \cup shadowed
                 PROVE  \E i \in Export!Pending' : table'[i].event = e
    BY <1>1 DEF NoEventIsLost, Export!NoEventIsLost
  <2>2. PICK i \in Export!Pending : table[i].event = e
    BY <2>1 DEF ExportInv, NoEventIsLost, Export!NoEventIsLost
  <2>3. i \in DOMAIN table /\ ~table[i].exported
    BY DEF Export!Pending
  <2>4. i \notin DOMAIN batch[p]
    BY <1>1, <2>1, <2>2, <2>3 DEF ExportInv, BatchIsSelected, MarkedIsAccepted
  <2>5. QED
    BY <1>4, <1>5, <2>2, <2>3, <2>4 DEF Export!Pending
<1>11. QED
  BY <1>7, <1>8, <1>9, <1>10 DEF ExportInv

LEMMA Abandoning ==
  ASSUME ExportInv, NEW p \in Procs, Export!Abandon(p)
  PROVE  ExportInv'
<1>1. /\ exporting' = [exporting EXCEPT ![p] = "idle"]
      /\ batch' = [batch EXCEPT ![p] = << >>]
      /\ UNCHANGED <<table, recorded, accepted, shadowed>>
  BY DEF Export!Abandon, Export!Goto
<1>2. DOMAIN << >> = {} /\ Export!Range(<< >>) \subseteq 1..recorded
  BY DEF Export!Range
<1>3. /\ batch' = [q \in Procs |-> batch'[q]] /\ exporting' = [q \in Procs |-> exporting'[q]]
      /\ \A q \in Procs : /\ exporting'[q] \in {"idle", "exporting", "marking"}
                          /\ Export!Range(batch'[q]) \subseteq 1..recorded'
                          /\ exporting'[q] = "idle" <=> DOMAIN batch'[q] = {}
      /\ batch'[p] = << >> /\ exporting'[p] = "idle"
      /\ \A q \in Procs \ {p} : batch'[q] = batch[q] /\ exporting'[q] = exporting[q]
  BY <1>1, <1>2, Exporting
<1>4. ExportTypes'
  BY <1>1, <1>3 DEF ExportInv, ExportTypes, Export!TypeOK
<1>5. BatchIsSelected' /\ MarkedIsAccepted'
  BY <1>1, <1>2, <1>3 DEF ExportInv, BatchIsSelected, MarkedIsAccepted
<1>6. NoEventIsLost'
  BY <1>1 DEF ExportInv, NoEventIsLost, Export!NoEventIsLost, Export!Pending
<1>7. QED
  BY <1>4, <1>5, <1>6 DEF ExportInv

(* Retention deletes no row that is pending.                                *)
LEMMA Retaining ==
  ASSUME ExportInv, NEW cutoff, Export!Retain(cutoff)
  PROVE  ExportInv'
<1> DEFINE kept == Export!Pending \cup (DOMAIN table \ Export!Old(cutoff))
<1>1. /\ table' = [i \in kept |-> table[i]]
      /\ UNCHANGED <<recorded, exporting, batch, accepted, shadowed>>
  BY DEF Export!Retain, Export!Restrict
<1>2. kept \subseteq DOMAIN table /\ Export!Pending \subseteq kept
  BY DEF Export!Pending
<1> HIDE DEF kept
<1>3. DOMAIN table' = kept /\ \A i \in kept : table'[i] = table[i]
  BY <1>1
<1>4. Export!TypeOK'
  BY <1>1, <1>2, <1>3 DEF ExportInv, ExportTypes, Export!TypeOK
<1>5. ExportTypes'
  BY <1>1, <1>2, <1>3, <1>4 DEF ExportInv, ExportTypes
<1>6. BatchIsSelected' /\ MarkedIsAccepted'
  BY <1>1, <1>2, <1>3 DEF ExportInv, BatchIsSelected, MarkedIsAccepted
<1>7. \A i \in Export!Pending : i \in Export!Pending' /\ table'[i] = table[i]
  BY <1>2, <1>3 DEF Export!Pending
<1>8. NoEventIsLost'
  BY <1>1, <1>7 DEF ExportInv, NoEventIsLost, Export!NoEventIsLost
<1>9. QED
  BY <1>5, <1>6, <1>8 DEF ExportInv

LEMMA ExportStarts == Init => ExportInv
<1>1. SUFFICES ASSUME Export!Init PROVE ExportInv
  BY DEF Init
<1>2. DOMAIN << >> = {} /\ Export!Range(<< >>) = {}
  BY DEF Export!Range
<1>3. ExportTypes
  BY <1>1, <1>2 DEF ExportTypes, Export!TypeOK, Export!Init
<1>4. BatchIsSelected /\ MarkedIsAccepted /\ NoEventIsLost
  BY <1>1, <1>2 DEF BatchIsSelected, MarkedIsAccepted, NoEventIsLost, Export!NoEventIsLost,
    Export!Init
<1>5. QED
  BY <1>3, <1>4 DEF ExportInv

LEMMA ExportSteps == ExportInv /\ [Next]_vars => ExportInv'
<1>1. SUFFICES ASSUME ExportInv, Export!Next \/ UNCHANGED export PROVE ExportInv'
  BY DEF Next, vars
<1>2. CASE UNCHANGED export
  BY <1>1, <1>2 DEF export, ExportInv, ExportTypes, BatchIsSelected, MarkedIsAccepted,
    NoEventIsLost, Export!NoEventIsLost, Export!TypeOK, Export!Pending
<1>3. QED
  BY <1>1, <1>2, Recording, Selecting, Accepting, Marking, Abandoning, Retaining
  DEF Export!Next

(* Until an event is exported it is in the table and pending, but for those *)
(* that got an id which an export under way had selected.                   *)
THEOREM EventsAreExported == Spec => []NoEventIsLost
<1>1. ExportInv => NoEventIsLost
  BY DEF ExportInv
<1>2. QED
  BY <1>1, ExportStarts, ExportSteps, PTL DEF Spec
-----------------------------------------------------------------------------
(* The paging of comments.                                                  *)
Increasing(s) == \A i, j \in DOMAIN s : i < j => s[i] < s[j]

PagingTypes ==
  /\ made \in Nat /\ made <= MaxComments /\ start \in Nat
  /\ comments \in Seq(1..made) /\ got \in Seq(1..made) /\ before \in Seq(1..made)
  /\ reading \in {"idle", "paging", "read"}
  /\ Increasing(comments) /\ Increasing(got)

(* What is still to be read is younger than what was read.                  *)
RestIsYounger ==
  \A i \in DOMAIN comments : i > start =>
    \A j \in DOMAIN got : got[j] < comments[i]

(* While the comments of the beginning are there they are the first ones;   *)
(* and those the paging has passed were read.                               *)
Untouched == \A i \in DOMAIN before : \E j \in DOMAIN comments : comments[j] = before[i]

FirstAreRead ==
  Untouched =>
    /\ Len(before) <= Len(comments)
    /\ \A i \in DOMAIN before : /\ comments[i] = before[i]
                                /\ i <= start => \E j \in DOMAIN got : got[j] = before[i]

(* At the end the paging has passed all of them.                            *)
AllAreRead == reading = "read" /\ Untouched => Len(before) <= start

PagingInv ==
  /\ PagingTypes
  /\ reading = "paging" => RestIsYounger
  /\ FirstAreRead /\ AllAreRead


LEMMA Numbered ==
  ASSUME NEW S, NEW n \in Nat, NEW s \in [1..n -> S]
  PROVE  s \in Seq(S) /\ Len(s) = n
<1>1. s \in Seq(S)
  BY SeqDef
<1>2. DOMAIN s = 1..n /\ DOMAIN s = 1..Len(s) /\ Len(s) \in Nat
  BY <1>1, LenProperties
<1>3. QED
  BY <1>1, <1>2

LEMMA Slice ==
  ASSUME NEW S, NEW s \in Seq(S), NEW a \in Nat, NEW b \in Nat, a < b, b <= Len(s)
  PROVE  /\ SubSeq(s, a + 1, b) \in Seq(S) /\ Len(SubSeq(s, a + 1, b)) = b - a
         /\ \A i \in 1..b - a : SubSeq(s, a + 1, b)[i] = s[a + i] /\ a + i \in DOMAIN s
<1>1. a + 1 \in 1..Len(s) /\ a + 1 <= b /\ b - (a + 1) + 1 = b - a
  OBVIOUS
<1>2. /\ SubSeq(s, a + 1, b) \in Seq(S) /\ Len(SubSeq(s, a + 1, b)) = b - (a + 1) + 1
      /\ \A i \in 1..b - (a + 1) + 1 : SubSeq(s, a + 1, b)[i] = s[a + 1 + i - 1]
  BY <1>1
<1>3. \A i \in 1..b - a : a + 1 + i - 1 = a + i /\ a + i \in 1..Len(s)
  OBVIOUS
<1>4. QED
  BY <1>1, <1>2, <1>3

LEMMA Joined ==
  ASSUME NEW S, NEW s \in Seq(S), NEW t \in Seq(S)
  PROVE  /\ s \o t \in Seq(S) /\ DOMAIN (s \o t) = 1..Len(s) + Len(t)
         /\ \A i \in DOMAIN s : i \in DOMAIN (s \o t) /\ (s \o t)[i] = s[i]
         /\ \A i \in DOMAIN t : Len(s) + i \in DOMAIN (s \o t) /\ (s \o t)[Len(s) + i] = t[i]
         /\ \A j \in DOMAIN (s \o t) : j \in DOMAIN s \/ \E i \in DOMAIN t : j = Len(s) + i
<1>1. /\ s \o t \in Seq(S) /\ DOMAIN (s \o t) = 1..Len(s) + Len(t)
      /\ DOMAIN s = 1..Len(s) /\ DOMAIN t = 1..Len(t) /\ Len(s) \in Nat /\ Len(t) \in Nat
  OBVIOUS
<1>2. \A i \in DOMAIN s : i \in DOMAIN (s \o t) /\ (s \o t)[i] = s[i]
  OBVIOUS
<1>3. \A i \in DOMAIN t : Len(s) + i \in DOMAIN (s \o t) /\ (s \o t)[Len(s) + i] = t[i]
  OBVIOUS
<1>4. ASSUME NEW j \in 1..Len(s) + Len(t), j \notin 1..Len(s)
      PROVE  \E i \in 1..Len(t) : j = Len(s) + i
  <2>1. PICK m \in Nat, n \in Nat : m = Len(s) /\ n = Len(t)
    BY <1>1
  <2>2. j - m \in 1..n /\ j = m + (j - m)
    BY <1>4, <2>1
  <2>3. QED
    BY <2>1, <2>2
<1>5. QED
  BY <1>1, <1>2, <1>3, <1>4

(* The smaller of two numbers; and what a page of the server holds.         *)
LEMMA Smaller ==
  ASSUME NEW a \in Int, NEW b \in Int
  PROVE  Paging!Min({a, b}) = IF a <= b THEN a ELSE b
<1> DEFINE m == IF a <= b THEN a ELSE b
<1>1. m \in {a, b} /\ \A y \in {a, b} : m <= y
  OBVIOUS
<1>2. \A x \in {a, b} : (\A y \in {a, b} : x <= y) => x = m
  OBVIOUS
<1> HIDE DEF m
<1>3. Paging!Min({a, b}) = m
  BY <1>1, <1>2 DEF Paging!Min
<1>4. QED
  BY <1>3 DEF m

LEMMA PageHolds ==
  ASSUME PagingTypes, NEW n \in Nat \ {0}
  PROVE  /\ Paging!Page(n) \in Seq(1..made)
         /\ \A i \in 1..Len(Paging!Page(n)) :
              /\ start + i \in DOMAIN comments
              /\ Paging!Page(n)[i] = comments[start + i]
         /\ Paging!Page(n) = << >> => start >= Len(comments)
<1>1. comments \in Seq(1..made) /\ start \in Nat /\ Len(comments) \in Nat
  BY DEF PagingTypes
<1>2. Paging!Page(n) =
        SubSeq(comments, start + 1, IF start + n <= Len(comments) THEN start + n ELSE Len(comments))
  <2>1. start + n \in Int /\ Len(comments) \in Int
    BY <1>1
  <2>2. QED
    BY <2>1, Smaller DEF Paging!Page
<1>3. CASE start >= Len(comments)
  <2>1. Paging!Page(n) = << >>
    BY <1>1, <1>2, <1>3
  <2>2. QED
    BY <1>3, <2>1
<1>4. CASE start < Len(comments)
  <2>1. PICK m \in Nat : m = IF start + n <= Len(comments) THEN start + n ELSE Len(comments)
    BY <1>1
  <2>2. start < m /\ m <= Len(comments)
    BY <1>1, <1>4, <2>1
  <2>3. Paging!Page(n) = SubSeq(comments, start + 1, m)
    BY <1>2, <2>1
  <2>4. /\ Paging!Page(n) \in Seq(1..made) /\ Len(Paging!Page(n)) = m - start
        /\ \A i \in 1..m - start : /\ Paging!Page(n)[i] = comments[start + i]
                                   /\ start + i \in DOMAIN comments
    <3>1. PICK S : S = 1..made
      OBVIOUS
    <3>2. PICK s \in Seq(S), a \in Nat : s = comments /\ a = start
      BY <1>1, <3>1
    <3>3. /\ SubSeq(s, a + 1, m) \in Seq(S) /\ Len(SubSeq(s, a + 1, m)) = m - a
          /\ \A i \in 1..m - a : SubSeq(s, a + 1, m)[i] = s[a + i] /\ a + i \in DOMAIN s
      BY <2>1, <2>2, <3>2, Slice
    <3>4. QED
      BY <2>3, <3>1, <3>2, <3>3
  <2>5. m - start # 0
    BY <1>1, <2>1, <2>2
  <2>6. Paging!Page(n) # << >>
    BY <2>4, <2>5
  <2>7. QED
    BY <2>4, <2>6
<1>5. QED
  BY <1>1, <1>3, <1>4

LEMMA Paged ==
  ASSUME PagingInv, NEW n \in 1..PageSize, Paging!GetPage(n)
  PROVE  PagingInv'
<1> DEFINE values == Paging!Page(n)
<1>1. /\ reading = "paging" /\ got' = got \o values /\ start' = start + Len(values)
      /\ reading' = IF values = << >> \/ start' >= Len(comments) THEN "read" ELSE "paging"
      /\ UNCHANGED <<comments, made, before>>
  BY DEF Paging!GetPage, Paging!server
<1>2. PagingTypes /\ RestIsYounger /\ FirstAreRead
  BY <1>1 DEF PagingInv
<1>3. /\ values \in Seq(1..made)
      /\ \A i \in 1..Len(values) : start + i \in DOMAIN comments /\ values[i] = comments[start + i]
      /\ values = << >> => start >= Len(comments)
  BY <1>2, PageHolds
<1> HIDE DEF values
<1>4. /\ got \in Seq(1..made) /\ comments \in Seq(1..made) /\ before \in Seq(1..made)
      /\ start \in Nat /\ made \in Nat /\ Len(values) \in Nat /\ Len(got) \in Nat
      /\ Len(comments) \in Nat /\ Len(before) \in Nat
  BY <1>2, <1>3 DEF PagingTypes
<1>5. /\ got' \in Seq(1..made) /\ \A i \in DOMAIN got : i \in DOMAIN got' /\ got'[i] = got[i]
      /\ \A i \in 1..Len(values) : /\ Len(got) + i \in DOMAIN got'
                                   /\ got'[Len(got) + i] = comments[start + i]
      /\ DOMAIN got = 1..Len(got) /\ DOMAIN got' \subseteq Nat
      /\ \A j \in DOMAIN got' : j \in DOMAIN got \/ \E i \in 1..Len(values) : j = Len(got) + i
  <2>1. DOMAIN values = 1..Len(values) /\ DOMAIN got = 1..Len(got)
    BY <1>3, <1>4
  <2>2. /\ got' \in Seq(1..made) /\ \A i \in DOMAIN got : i \in DOMAIN got' /\ got'[i] = got[i]
        /\ \A i \in DOMAIN values : /\ Len(got) + i \in DOMAIN got'
                                    /\ got'[Len(got) + i] = values[i]
        /\ \A j \in DOMAIN got' : j \in DOMAIN got \/ \E i \in DOMAIN values : j = Len(got) + i
    <3>1. PICK S : S = 1..made
      OBVIOUS
    <3>2. PICK s \in Seq(S), t \in Seq(S) : s = got /\ t = values
      BY <1>3, <1>4, <3>1
    <3>3. /\ s \o t \in Seq(S)
          /\ \A i \in DOMAIN s : i \in DOMAIN (s \o t) /\ (s \o t)[i] = s[i]
          /\ \A i \in DOMAIN t : Len(s) + i \in DOMAIN (s \o t) /\ (s \o t)[Len(s) + i] = t[i]
          /\ \A j \in DOMAIN (s \o t) : j \in DOMAIN s \/ \E i \in DOMAIN t : j = Len(s) + i
      BY Joined
    <3>4. QED
      BY <1>1, <3>1, <3>2, <3>3
  <2>3. DOMAIN got' \subseteq Nat
    BY <2>2
  <2>4. QED
    BY <1>3, <2>1, <2>2, <2>3
<1>6. \A j \in DOMAIN got' : \/ j \in DOMAIN got /\ got'[j] = got[j]
                             \/ \E i \in 1..Len(values) : /\ j = Len(got) + i
                                                          /\ got'[j] = comments[start + i]
                                                          /\ start + i \in DOMAIN comments
  BY <1>3, <1>5
<1>7. Increasing(got')
  <2>1. ASSUME NEW i \in DOMAIN got', NEW j \in DOMAIN got', i < j PROVE got'[i] < got'[j]
    <3>1. CASE j \in DOMAIN got /\ got'[j] = got[j]
      <4>1. i \in DOMAIN got /\ got'[i] = got[i]
        BY <1>4, <1>5, <2>1, <3>1
      <4>2. QED
        BY <1>2, <2>1, <3>1, <4>1 DEF PagingTypes, Increasing
    <3>2. ASSUME NEW k \in 1..Len(values), j = Len(got) + k, got'[j] = comments[start + k],
                 start + k \in DOMAIN comments
          PROVE  got'[i] < got'[j]
      <4>1. CASE i \in DOMAIN got /\ got'[i] = got[i]
        <5>1. start + k > start
          BY <1>4
        <5>2. QED
          BY <1>2, <3>2, <4>1, <5>1 DEF RestIsYounger
      <4>2. ASSUME NEW h \in 1..Len(values), i = Len(got) + h, got'[i] = comments[start + h],
                   start + h \in DOMAIN comments
            PROVE  got'[i] < got'[j]
        <5>1. start + h < start + k
          BY <1>4, <2>1, <3>2, <4>2
        <5>2. QED
          BY <1>2, <3>2, <4>2, <5>1 DEF PagingTypes, Increasing
      <4>3. QED
        BY <1>6, <4>1, <4>2
    <3>3. QED
      BY <1>6, <3>1, <3>2
  <2>2. QED
    BY <2>1 DEF Increasing
<1>8. PagingTypes'
  <2>1. Increasing(comments) /\ start' \in Nat
    BY <1>1, <1>2, <1>4 DEF PagingTypes
  <2>2. reading' \in {"idle", "paging", "read"}
    BY <1>1
  <2>3. Increasing(comments)' /\ Increasing(got)'
    BY <1>1, <1>7, <2>1 DEF Increasing
  <2>4. made' \in Nat /\ made' <= MaxComments /\ start' \in Nat
    <3>1. made' = made
      BY <1>1
    <3>2. made <= MaxComments
      BY <1>2 DEF PagingTypes
    <3>3. QED
      BY <1>4, <2>1, <3>1, <3>2
  <2>5. comments' \in Seq(1..made') /\ got' \in Seq(1..made') /\ before' \in Seq(1..made')
    BY <1>1, <1>4, <1>5
  <2>6. QED
    BY <2>2, <2>3, <2>4, <2>5 DEF PagingTypes
<1>9. RestIsYounger'
  <2>1. ASSUME NEW i \in DOMAIN comments, i > start + Len(values), NEW j \in DOMAIN got'
        PROVE  got'[j] < comments[i]
    <3>1. CASE j \in DOMAIN got /\ got'[j] = got[j]
      <4>1. i > start
        BY <1>4, <2>1
      <4>2. QED
        BY <1>2, <3>1, <4>1 DEF RestIsYounger
    <3>2. ASSUME NEW k \in 1..Len(values), got'[j] = comments[start + k],
                 start + k \in DOMAIN comments
          PROVE  got'[j] < comments[i]
      <4>1. start + k < i
        BY <1>4, <2>1
      <4>2. QED
        BY <1>2, <3>2, <4>1 DEF PagingTypes, Increasing
    <3>3. QED
      BY <1>6, <3>1, <3>2
  <2>2. QED
    BY <1>1, <2>1 DEF RestIsYounger
<1>10. FirstAreRead'
  <2>1. SUFFICES ASSUME Untouched
                 PROVE  /\ Len(before) <= Len(comments)
                        /\ \A i \in DOMAIN before : comments[i] = before[i]
                        /\ \A i \in DOMAIN before :
                             i <= start + Len(values) => \E j \in DOMAIN got' : got'[j] = before[i]
    BY <1>1 DEF FirstAreRead, Untouched
  <2>2. /\ Len(before) <= Len(comments)
        /\ \A i \in DOMAIN before : /\ comments[i] = before[i]
                                    /\ i <= start => \E j \in DOMAIN got : got[j] = before[i]
    BY <1>2, <2>1 DEF FirstAreRead
  <2>3. ASSUME NEW i \in DOMAIN before, i <= start + Len(values)
        PROVE  \E j \in DOMAIN got' : got'[j] = before[i]
    <3>1. CASE i <= start
      <4>1. PICK j \in DOMAIN got : got[j] = before[i]
        BY <2>2, <3>1
      <4>2. j \in DOMAIN got' /\ got'[j] = got[j]
        BY <1>5
      <4>3. QED
        BY <4>1, <4>2
    <3>2. CASE i > start
      <4>1. PICK k \in 1..Len(values) : i = start + k
        <5>1. i - start \in 1..Len(values) /\ i = start + (i - start)
          BY <1>4, <2>3, <3>2
        <5>2. QED
          BY <5>1
      <4>2. Len(got) + k \in DOMAIN got' /\ got'[Len(got) + k] = comments[i]
        BY <1>5, <4>1
      <4>3. QED
        BY <2>2, <4>2
    <3>3. QED
      BY <1>4, <3>1, <3>2
  <2>4. QED
    BY <2>2, <2>3
<1>11. AllAreRead'
  <2>1. SUFFICES ASSUME reading' = "read", Untouched PROVE Len(before) <= start'
    BY <1>1 DEF AllAreRead, Untouched
  <2>2. start' >= Len(comments)
    <3>1. CASE values = << >>
      BY <1>1, <1>3, <1>4, <3>1
    <3>2. CASE values # << >>
      BY <1>1, <2>1, <3>2
    <3>3. QED
      BY <3>1, <3>2
  <2>3. Len(before) <= Len(comments)
    BY <1>2, <2>1 DEF FirstAreRead
  <2>4. QED
    BY <1>1, <1>4, <2>2, <2>3
<1>12. QED
  BY <1>8, <1>9, <1>10, <1>11 DEF PagingInv

LEMMA Snapped ==
  ASSUME PagingInv, Paging!Snapshot
  PROVE  PagingInv'
<1>1. /\ reading' = "paging" /\ start' = 0 /\ got' = << >> /\ before' = comments
      /\ UNCHANGED <<comments, made>>
  BY DEF Paging!Snapshot, Paging!server
<1>2. PagingTypes
  BY DEF PagingInv
<1>3. DOMAIN got' = {} /\ got' \in Seq(1..made)
  BY <1>1
<1>4. PagingTypes'
  <2>1. Increasing(got)' /\ Increasing(comments)'
    BY <1>1, <1>2, <1>3 DEF Increasing, PagingTypes
  <2>2. QED
    BY <1>1, <1>2, <1>3, <2>1 DEF PagingTypes
<1>5. RestIsYounger'
  BY <1>3 DEF RestIsYounger
<1>6. FirstAreRead'
  <2>1. \A i \in DOMAIN comments : ~(i <= 0)
    BY <1>2 DEF PagingTypes
  <2>2. Len(comments) <= Len(comments)
    BY <1>2 DEF PagingTypes
  <2>3. QED
    BY <1>1, <2>1, <2>2 DEF FirstAreRead
<1>7. AllAreRead'
  BY <1>1 DEF AllAreRead
<1>8. QED
  BY <1>4, <1>5, <1>6, <1>7 DEF PagingInv

LEMMA Returned ==
  ASSUME PagingInv, Paging!Return
  PROVE  PagingInv'
<1>1. /\ reading' = "idle" /\ start' = 0 /\ got' = << >> /\ before' = << >>
      /\ UNCHANGED <<comments, made>>
  BY DEF Paging!Return, Paging!server
<1>2. PagingTypes
  BY DEF PagingInv
<1>3. DOMAIN got' = {} /\ got' \in Seq(1..made) /\ DOMAIN before' = {} /\ before' \in Seq(1..made)
      /\ Len(before') = 0
  BY <1>1
<1>4. PagingTypes'
  <2>1. Increasing(got)' /\ Increasing(comments)'
    BY <1>1, <1>2, <1>3 DEF Increasing, PagingTypes
  <2>2. QED
    BY <1>1, <1>2, <1>3, <2>1 DEF PagingTypes
<1>5. FirstAreRead'
  BY <1>1, <1>2, <1>3 DEF FirstAreRead, PagingTypes
<1>6. AllAreRead'
  BY <1>1 DEF AllAreRead
<1>7. QED
  BY <1>1, <1>4, <1>5, <1>6 DEF PagingInv

LEMMA Commented ==
  ASSUME PagingInv, Paging!AddComment
  PROVE  PagingInv'
<1>1. /\ made < MaxComments /\ made' = made + 1 /\ comments' = Append(comments, made + 1)
      /\ UNCHANGED <<reading, start, got, before>>
  BY DEF Paging!AddComment, Paging!reading
<1>2. PagingTypes
  BY DEF PagingInv
<1>3. /\ comments \in Seq(1..made) /\ got \in Seq(1..made) /\ before \in Seq(1..made)
      /\ made \in Nat /\ start \in Nat /\ Len(comments) \in Nat /\ Len(before) \in Nat
      /\ DOMAIN comments = 1..Len(comments)
  BY <1>2 DEF PagingTypes
<1>4. /\ \A i \in DOMAIN comments : i \in DOMAIN comments' /\ comments'[i] = comments[i]
      /\ comments'[Len(comments) + 1] = made + 1 /\ Len(comments') = Len(comments) + 1
      /\ DOMAIN comments' = DOMAIN comments \cup {Len(comments) + 1}
  BY <1>1, <1>3
<1>5. /\ comments' \in Seq(1..made') /\ got' \in Seq(1..made') /\ before' \in Seq(1..made')
      /\ made' \in Nat /\ made' <= MaxComments
  <2>1. 1..made \subseteq 1..made + 1 /\ made + 1 \in 1..made + 1
    BY <1>3
  <2>2. /\ comments \in Seq(1..made + 1) /\ got \in Seq(1..made + 1)
        /\ before \in Seq(1..made + 1)
    BY <1>3, <2>1
  <2>3. made + 1 \in Nat /\ made + 1 <= MaxComments
    BY <1>1, <1>3, BoundsAssumption
  <2>4. QED
    BY <1>1, <2>1, <2>2, <2>3
<1>6. Increasing(comments')
  <2>1. ASSUME NEW i \in DOMAIN comments', NEW j \in DOMAIN comments', i < j
        PROVE  comments'[i] < comments'[j]
    <3>1. CASE j \in DOMAIN comments
      <4>1. i \in DOMAIN comments
        BY <1>3, <1>4, <2>1, <3>1
      <4>2. QED
        BY <1>2, <1>4, <2>1, <3>1, <4>1 DEF PagingTypes, Increasing
    <3>2. CASE j = Len(comments) + 1
      <4>1. i \in DOMAIN comments /\ comments[i] \in 1..made
        BY <1>3, <1>4, <2>1, <3>2
      <4>2. QED
        BY <1>3, <1>4, <3>2, <4>1
    <3>3. QED
      BY <1>4, <3>1, <3>2
  <2>2. QED
    BY <2>1 DEF Increasing
<1>7. PagingTypes'
  <2>1. Increasing(got)'
    BY <1>1, <1>2 DEF PagingTypes, Increasing
  <2>2. reading' \in {"idle", "paging", "read"}
    BY <1>1, <1>2 DEF PagingTypes
  <2>3. Increasing(comments)'
    BY <1>6 DEF Increasing
  <2>4. QED
    BY <1>1, <1>3, <1>5, <2>1, <2>2, <2>3 DEF PagingTypes
<1>8. RestIsYounger => RestIsYounger'
  <2>1. \A j \in DOMAIN got : got[j] < made + 1
    <3>1. \A j \in DOMAIN got : got[j] \in 1..made
      BY <1>3
    <3>2. QED
      BY <1>3, <3>1
  <2>2. QED
    BY <1>1, <1>4, <2>1 DEF RestIsYounger
<1>9. Untouched' => Untouched
  <2>1. \A i \in DOMAIN before : before[i] # made + 1
    <3>1. \A i \in DOMAIN before : before[i] \in 1..made
      BY <1>3
    <3>2. QED
      BY <1>3, <3>1
  <2>2. QED
    BY <1>1, <1>4, <2>1 DEF Untouched
<1>10. FirstAreRead'
  <2>1. SUFFICES ASSUME Untouched' PROVE FirstAreRead'
    BY DEF FirstAreRead
  <2>2. /\ Len(before) <= Len(comments)
        /\ \A i \in DOMAIN before : /\ comments[i] = before[i]
                                    /\ i <= start => \E j \in DOMAIN got : got[j] = before[i]
    BY <1>9, <2>1 DEF PagingInv, FirstAreRead
  <2>3. DOMAIN before \subseteq DOMAIN comments /\ Len(before) <= Len(comments')
    BY <1>3, <1>4, <2>2
  <2>4. QED
    BY <1>1, <1>4, <2>2, <2>3 DEF FirstAreRead
<1>11. AllAreRead'
  BY <1>1, <1>9 DEF PagingInv, AllAreRead
<1>12. QED
  BY <1>1, <1>7, <1>8, <1>10, <1>11 DEF PagingInv

LEMMA Deleted ==
  ASSUME PagingInv, NEW d \in DOMAIN comments, Paging!DeleteComment(d)
  PROVE  PagingInv'
<1> DEFINE Old(j) == IF j < d THEN j ELSE j + 1
<1>1. /\ comments' = [j \in 1..Len(comments) - 1 |-> comments[Old(j)]]
      /\ UNCHANGED <<made, reading, start, got, before>>
  BY DEF Paging!DeleteComment, Paging!reading
<1>2. PagingTypes
  BY DEF PagingInv
<1>3. /\ comments \in Seq(1..made) /\ made \in Nat /\ start \in Nat /\ before \in Seq(1..made)
      /\ Len(comments) \in Nat /\ Len(before) \in Nat
      /\ DOMAIN comments = 1..Len(comments) /\ DOMAIN before = 1..Len(before)
  BY <1>2 DEF PagingTypes
<1>4. PICK n \in Nat : n + 1 = Len(comments)
  <2>1. Len(comments) # 0 /\ Len(comments) - 1 \in Nat /\ Len(comments) - 1 + 1 = Len(comments)
    BY <1>3
  <2>2. QED
    BY <2>1
<1>5. /\ \A j \in 1..n : Old(j) \in DOMAIN comments /\ Old(j) # d /\ j <= Old(j)
      /\ \A i, j \in 1..n : i < j => Old(i) < Old(j)
      /\ \A j \in 1..n : j < d => Old(j) = j
  BY <1>3, <1>4
<1> HIDE DEF Old
<1>6. DOMAIN comments' = 1..n /\ \A j \in 1..n : comments'[j] = comments[Old(j)]
  <2>1. Len(comments) - 1 = n
    BY <1>4
  <2>2. QED
    BY <1>1, <2>1
<1>7. comments' \in Seq(1..made) /\ Len(comments') = n
  <2>1. comments' = [j \in 1..n |-> comments[Old(j)]]
    <3>1. Len(comments) - 1 = n
      BY <1>4
    <3>2. QED
      BY <1>1, <3>1
  <2>2. \A j \in 1..n : comments[Old(j)] \in 1..made
    BY <1>3, <1>5
  <2>3. comments' \in [1..n -> 1..made]
    BY <2>1, <2>2
  <2>4. PICK S : S = 1..made
    OBVIOUS
  <2>5. PICK s \in [1..n -> S] : s = comments'
    BY <2>3, <2>4
  <2>6. s \in Seq(S) /\ Len(s) = n
    BY Numbered
  <2>7. QED
    BY <2>4, <2>5, <2>6
<1>8. Increasing(comments')
  BY <1>2, <1>5, <1>6 DEF PagingTypes, Increasing
<1>9. PagingTypes'
  <2>1. Increasing(got)' /\ Increasing(comments)'
    BY <1>1, <1>2, <1>8 DEF PagingTypes, Increasing
  <2>2. QED
    BY <1>1, <1>2, <1>7, <2>1 DEF PagingTypes
<1>10. RestIsYounger => RestIsYounger'
  <2>1. ASSUME RestIsYounger, NEW i \in 1..n, i > start, NEW j \in DOMAIN got
        PROVE  got[j] < comments'[i]
    <3>1. Old(i) > start
      BY <1>3, <1>5, <2>1
    <3>2. QED
      BY <1>5, <1>6, <2>1, <3>1 DEF RestIsYounger
  <2>2. QED
    BY <1>1, <1>6, <2>1 DEF RestIsYounger
<1>11. Untouched' => Untouched
  BY <1>1, <1>5, <1>6 DEF Untouched
<1>12. FirstAreRead'
  <2>1. SUFFICES ASSUME Untouched' PROVE FirstAreRead'
    BY DEF FirstAreRead
  <2>2. /\ Len(before) <= Len(comments)
        /\ \A i \in DOMAIN before : /\ comments[i] = before[i]
                                    /\ i <= start => \E j \in DOMAIN got : got[j] = before[i]
    BY <1>11, <2>1 DEF PagingInv, FirstAreRead
  <2>3. d \notin DOMAIN before
    <3>1. SUFFICES ASSUME d \in DOMAIN before PROVE FALSE
      OBVIOUS
    <3>2. PICK j \in 1..n : comments[Old(j)] = comments[d]
      BY <1>1, <1>6, <2>1, <2>2, <3>1 DEF Untouched
    <3>3. Old(j) < d \/ d < Old(j)
      BY <1>3, <1>5
    <3>4. comments[Old(j)] < comments[d] \/ comments[d] < comments[Old(j)]
      BY <1>2, <1>5, <3>3 DEF PagingTypes, Increasing
    <3>5. comments[d] \in 1..made
      BY <1>3
    <3>6. QED
      BY <1>3, <3>2, <3>4, <3>5
  <2>4. \A i \in DOMAIN before : i < d /\ i \in 1..n
    BY <1>3, <1>4, <2>2, <2>3
  <2>5. Len(before) <= n
    BY <1>3, <1>4, <2>2, <2>3
  <2>6. \A i \in DOMAIN before : comments'[i] = before[i]
    BY <1>5, <1>6, <2>2, <2>4
  <2>7. QED
    BY <1>1, <1>7, <2>2, <2>5, <2>6 DEF FirstAreRead
<1>13. AllAreRead'
  BY <1>1, <1>11 DEF PagingInv, AllAreRead
<1>14. QED
  BY <1>1, <1>9, <1>10, <1>12, <1>13 DEF PagingInv

LEMMA PagingStarts == Init => PagingInv
<1>1. SUFFICES ASSUME Init PROVE PagingInv
  OBVIOUS
<1>2. /\ made \in 0..MaxComments /\ comments = [i \in 1..made |-> i]
      /\ reading = "idle" /\ start = 0 /\ got = << >> /\ before = << >>
  BY <1>1 DEF Init, Paging!Init
<1>3. made \in Nat /\ made <= MaxComments
  BY <1>2, BoundsAssumption
<1>4. comments \in Seq(1..made) /\ DOMAIN comments = 1..made
  <2>1. comments \in [1..made -> 1..made]
    BY <1>2
  <2>2. PICK S : S = 1..made
    OBVIOUS
  <2>3. PICK n \in Nat : n = made
    BY <1>3
  <2>4. PICK s \in [1..n -> S] : s = comments
    BY <2>1, <2>2, <2>3
  <2>5. s \in Seq(S)
    BY Numbered
  <2>6. QED
    BY <2>1, <2>2, <2>4, <2>5
<1>5. Increasing(comments) /\ Increasing(got)
  BY <1>2, <1>3, <1>4 DEF Increasing
<1>6. /\ DOMAIN before = {} /\ Len(before) = 0 /\ Len(comments) \in Nat
      /\ before \in Seq(1..made) /\ got \in Seq(1..made)
  BY <1>2, <1>4
<1>7. PagingTypes
  BY <1>2, <1>3, <1>4, <1>5, <1>6 DEF PagingTypes
<1>8. FirstAreRead /\ AllAreRead
  BY <1>2, <1>6 DEF FirstAreRead, AllAreRead
<1>9. QED
  BY <1>2, <1>7, <1>8 DEF PagingInv

LEMMA PagingStands ==
  ASSUME PagingInv, UNCHANGED paging
  PROVE  PagingInv'
<1>1. UNCHANGED <<comments, made, reading, start, got, before>>
  BY DEF paging
<1>2. QED
  BY <1>1 DEF PagingInv, PagingTypes, Increasing, RestIsYounger, FirstAreRead, Untouched, AllAreRead

LEMMA PagingSteps == PagingInv /\ [Next]_vars => PagingInv'
<1>1. SUFFICES ASSUME PagingInv, [Next]_vars PROVE PagingInv'
  OBVIOUS
<1>2. CASE UNCHANGED paging
  BY <1>1, <1>2, PagingStands
<1>3. CASE Paging!Next
  BY <1>1, <1>3, Snapped, Paged, Returned, Commented, Deleted DEF Paging!Next
<1>4. QED
  BY <1>1, <1>2, <1>3 DEF Next, vars

(* What a snapshot has read is every comment that was there all the time,   *)
(* in its order and once (jira_read.py, comments()).                        *)
THEOREM SnapshotHasEveryComment == Spec => []NoCommentIsMissed
<1>1. PagingInv => NoCommentIsMissed
  <2>1. SUFFICES ASSUME PagingInv, reading = "read"
                 PROVE  /\ \A i, j \in DOMAIN got : i < j => got[i] < got[j]
                        /\ Paging!Range(before) \subseteq Paging!Range(comments)
                             => Paging!Range(before) \subseteq Paging!Range(got)
    BY DEF NoCommentIsMissed, Paging!NoCommentIsMissed
  <2>2. PagingTypes /\ FirstAreRead /\ AllAreRead
    BY <2>1 DEF PagingInv
  <2>3. ASSUME Paging!Range(before) \subseteq Paging!Range(comments), NEW i \in DOMAIN before
        PROVE  before[i] \in Paging!Range(got)
    <3>1. Untouched
      BY <2>3 DEF Untouched, Paging!Range
    <3>2. Len(before) <= start /\ i <= Len(before)
      BY <2>1, <2>2, <3>1 DEF AllAreRead, PagingTypes
    <3>3. i <= start
      BY <2>2, <3>2 DEF PagingTypes
    <3>4. PICK j \in DOMAIN got : got[j] = before[i]
      BY <2>2, <3>1, <3>3 DEF FirstAreRead
    <3>5. QED
      BY <3>4 DEF Paging!Range
  <2>4. QED
    BY <2>2, <2>3 DEF PagingTypes, Increasing, Paging!Range
<1>2. QED
  BY <1>1, PagingStarts, PagingSteps, PTL DEF Spec
-----------------------------------------------------------------------------
(* The context window.  First what a sum over a set of rounds is.           *)
Total(f, S) == Window!SumFunctionOnSet(f, S)

Picked(s) == CHOOSE x \in s : TRUE

(* What a fold computes, as the equation of its recursive function.         *)
Sum(f, s, g) == IF s = {} THEN 0 ELSE f[Picked(s)] + g[s \ {Picked(s)}]
Adds(f, S, g) == g = [s \in SUBSET S |-> Sum(f, s, g)]

LEMMA TotalIsAFold ==
  ASSUME NEW f, NEW S
  PROVE  Total(f, S) = (CHOOSE g : Adds(f, S, g))[S]
BY DEF Total, Adds, Sum, Picked, Window!SumFunctionOnSet, Window!FoldFunctionOnSet,
  Window!MapThenFoldSet

LEMMA Removed ==
  ASSUME NEW S, IsFiniteSet(S), NEW s \in SUBSET S
  PROVE  /\ IsFiniteSet(s) /\ Cardinality(s) \in Nat
         /\ \A x \in s : /\ Cardinality(s \ {x}) \in Nat
                         /\ Cardinality(s) = Cardinality(s \ {x}) + 1
         /\ s # {} => Picked(s) \in s
<1>1. IsFiniteSet(s) /\ Cardinality(s) \in Nat
  BY FS_Subset, FS_CardinalityType
<1>2. ASSUME NEW x \in s
      PROVE  Cardinality(s \ {x}) \in Nat /\ Cardinality(s) = Cardinality(s \ {x}) + 1
  <2>1. IsFiniteSet(s \ {x}) /\ Cardinality(s \ {x}) = Cardinality(s) - 1
    BY <1>1, FS_RemoveElement
  <2>2. Cardinality(s \ {x}) \in Nat
    BY <2>1, FS_CardinalityType
  <2>3. QED
    BY <1>1, <2>1, <2>2
<1>3. s # {} => Picked(s) \in s
  BY DEF Picked
<1>4. QED
  BY <1>1, <1>2, <1>3

(* The equation has a solution on the small sets, and on all of them.       *)
Small(S, n) == {s \in SUBSET S : Cardinality(s) <= n}

SmallSums(f, S, n) ==
  {g \in [Small(S, n) -> Nat] : \A s \in Small(S, n) : g[s] = Sum(f, s, g)}

LEMMA SmallSumsExist ==
  ASSUME NEW S, IsFiniteSet(S), NEW f, \A x \in S : f[x] \in Nat, NEW n \in Nat
  PROVE  SmallSums(f, S, n) # {}
<1> DEFINE Bad == {k \in Nat : SmallSums(f, S, k) = {}}
<1>1. SUFFICES ASSUME Bad # {} PROVE FALSE
  OBVIOUS
<1>2. PICK m \in Nat : SmallSums(f, S, m) = {} /\ \A k \in Nat : k < m => SmallSums(f, S, k) # {}
  <2>1. Bad \in SUBSET Nat
    OBVIOUS
  <2>2. PICK m \in Bad : \A k \in Bad : m <= k
    BY <1>1, <2>1, Least
  <2>3. ASSUME NEW k \in Nat, k < m PROVE SmallSums(f, S, k) # {}
    BY <2>2, <2>3
  <2>4. QED
    BY <2>2, <2>3
<1>3. CASE m = 0
  <2>1. ASSUME NEW s \in SUBSET S, Cardinality(s) <= 0, s # {} PROVE FALSE
    <3>1. PICK x \in s : TRUE
      BY <2>1
    <3>2. Cardinality(s \ {x}) \in Nat /\ Cardinality(s) = Cardinality(s \ {x}) + 1
      BY Removed
    <3>3. QED
      BY <2>1, <3>2
  <2>2. [s \in Small(S, 0) |-> 0] \in SmallSums(f, S, 0)
    BY <2>1 DEF SmallSums, Small, Sum
  <2>3. QED
    BY <1>2, <1>3, <2>2
<1>4. CASE m # 0
  <2>1. PICK k \in Nat : m = k + 1
    <3>1. m - 1 \in Nat /\ m = (m - 1) + 1
      BY <1>4
    <3>2. QED
      BY <3>1
  <2>2. PICK g \in [Small(S, k) -> Nat] : \A s \in Small(S, k) : g[s] = Sum(f, s, g)
    <3>1. k < m
      BY <2>1
    <3>2. QED
      BY <1>2, <3>1 DEF SmallSums
  <2> DEFINE h == [s \in Small(S, m) |-> Sum(f, s, g)]
  <2>3. ASSUME NEW s \in Small(S, m), s # {}
        PROVE  Picked(s) \in S /\ s \ {Picked(s)} \in Small(S, k)
    <3>1. s \in SUBSET S /\ Cardinality(s) <= k + 1
      BY <2>1 DEF Small
    <3>2. /\ Picked(s) \in s /\ Cardinality(s \ {Picked(s)}) \in Nat
          /\ Cardinality(s) = Cardinality(s \ {Picked(s)}) + 1
      BY <2>3, <3>1, Removed
    <3>3. Cardinality(s \ {Picked(s)}) <= k
      BY <3>1, <3>2
    <3>4. QED
      BY <3>1, <3>2, <3>3 DEF Small
  <2>4. h \in [Small(S, m) -> Nat]
    <3>1. ASSUME NEW s \in Small(S, m) PROVE Sum(f, s, g) \in Nat
      <4>1. CASE s = {}
        BY <4>1 DEF Sum
      <4>2. CASE s # {}
        <5>1. f[Picked(s)] \in Nat /\ g[s \ {Picked(s)}] \in Nat
          BY <2>3, <4>2
        <5>2. QED
          BY <4>2, <5>1 DEF Sum
      <4>3. QED
        BY <4>1, <4>2
    <3>2. QED
      BY <3>1
  <2>5. \A s \in Small(S, k) : h[s] = g[s]
    <3>1. Small(S, k) \subseteq Small(S, m)
      BY <2>1, Removed DEF Small
    <3>2. QED
      BY <2>2, <3>1
  <2>6. \A s \in Small(S, m) : h[s] = Sum(f, s, h)
    BY <2>3, <2>5 DEF Sum
  <2>7. h \in SmallSums(f, S, m)
    BY <2>4, <2>6 DEF SmallSums
  <2>8. QED
    BY <1>2, <2>7
<1>5. QED
  BY <1>3, <1>4

LEMMA SumsAreNumbers ==
  ASSUME NEW S, IsFiniteSet(S), NEW f, \A x \in S : f[x] \in Nat
  PROVE  \E g \in [SUBSET S -> Nat] : Adds(f, S, g)
<1>1. PICK n \in Nat : n = Cardinality(S)
  BY FS_CardinalityType
<1>2. Small(S, n) = SUBSET S
  <2>1. ASSUME NEW s \in SUBSET S PROVE Cardinality(s) <= n
    BY <1>1, FS_Subset
  <2>2. QED
    BY <2>1 DEF Small
<1>3. PICK g \in [SUBSET S -> Nat] : \A s \in SUBSET S : g[s] = Sum(f, s, g)
  <2>1. SmallSums(f, S, n) # {}
    BY SmallSumsExist
  <2>2. QED
    BY <1>2, <2>1 DEF SmallSums
<1>4. g = [s \in SUBSET S |-> Sum(f, s, g)]
  BY <1>3
<1>5. QED
  BY <1>4 DEF Adds

(* And it has no other.                                                     *)
LEMMA SumsAreUnique ==
  ASSUME NEW S, IsFiniteSet(S), NEW f, NEW g, Adds(f, S, g), NEW h, Adds(f, S, h)
  PROVE  g = h
<1> DEFINE Bad == {k \in Nat : \E s \in SUBSET S : k = Cardinality(s) /\ g[s] # h[s]}
<1>1. /\ g = [s \in SUBSET S |-> g[s]] /\ \A s \in SUBSET S : g[s] = Sum(f, s, g)
      /\ h = [s \in SUBSET S |-> h[s]] /\ \A s \in SUBSET S : h[s] = Sum(f, s, h)
  BY DEF Adds
<1>2. ASSUME NEW m \in Bad, \A k \in Bad : m <= k PROVE FALSE
  <2>1. PICK s \in SUBSET S : m = Cardinality(s) /\ g[s] # h[s]
    BY <1>2
  <2>2. s # {}
    BY <1>1, <2>1 DEF Sum
  <2>3. /\ Picked(s) \in s /\ Cardinality(s \ {Picked(s)}) \in Nat
        /\ Cardinality(s) = Cardinality(s \ {Picked(s)}) + 1
    BY <2>2, Removed
  <2>4. g[s \ {Picked(s)}] # h[s \ {Picked(s)}]
    BY <1>1, <2>1, <2>2 DEF Sum
  <2>5. Cardinality(s \ {Picked(s)}) \in Bad
    BY <2>3, <2>4
  <2>6. m <= Cardinality(s \ {Picked(s)})
    BY <1>2, <2>5
  <2>7. QED
    BY <2>1, <2>3, <2>6
<1>3. Bad = {}
  <2>1. Bad \in SUBSET Nat
    OBVIOUS
  <2> HIDE DEF Bad
  <2>2. QED
    BY <1>2, <2>1, Least
<1>4. \A s \in SUBSET S : g[s] = h[s]
  BY <1>3, Removed
<1>5. QED
  BY <1>1, <1>4

LEMMA TotalSolves ==
  ASSUME NEW S, IsFiniteSet(S), NEW f, NEW g, Adds(f, S, g), NEW s \in SUBSET S
  PROVE  Total(f, s) = g[s]
<1> DEFINE h == [r \in SUBSET s |-> g[r]]
<1>1. \A r \in SUBSET S : g[r] = Sum(f, r, g)
  BY DEF Adds
<1>2. Adds(f, s, h)
  <2>1. ASSUME NEW r \in SUBSET s PROVE h[r] = Sum(f, r, h)
    <3>1. r \ {Picked(r)} \in SUBSET s /\ r \in SUBSET S
      OBVIOUS
    <3>2. QED
      BY <1>1, <3>1 DEF Sum
  <2>2. h = [r \in SUBSET s |-> Sum(f, r, h)]
    BY <2>1
  <2>3. QED
    BY <2>2 DEF Adds
<1> HIDE DEF h
<1>3. IsFiniteSet(s)
  BY FS_Subset
<1>4. PICK k : k = (CHOOSE x : Adds(f, s, x)) /\ Adds(f, s, k)
  BY <1>2
<1>5. k = h
  BY <1>2, <1>3, <1>4, SumsAreUnique
<1>6. QED
  BY <1>4, <1>5, TotalIsAFold DEF h

(* So totals are numbers, and any element may be taken out of one.          *)
LEMMA TotalSteps ==
  ASSUME NEW S, IsFiniteSet(S), NEW f, \A x \in S : f[x] \in Nat
  PROVE  /\ Total(f, {}) = 0
         /\ \A s \in SUBSET S :
              /\ Total(f, s) \in Nat
              /\ s # {} => Total(f, s) = f[Picked(s)] + Total(f, s \ {Picked(s)})
<1>1. PICK g \in [SUBSET S -> Nat] : Adds(f, S, g)
  BY SumsAreNumbers
<1>2. \A s \in SUBSET S : Total(f, s) = g[s]
  BY <1>1, TotalSolves
<1>3. \A s \in SUBSET S : g[s] = Sum(f, s, g)
  BY <1>1 DEF Adds
<1>4. Total(f, {}) = 0
  <2>1. {} \in SUBSET S
    OBVIOUS
  <2>2. QED
    BY <1>2, <1>3, <2>1 DEF Sum
<1>5. ASSUME NEW s \in SUBSET S, s # {}
      PROVE  Total(f, s) = f[Picked(s)] + Total(f, s \ {Picked(s)})
  <2>1. PICK r \in SUBSET S : r = s \ {Picked(s)}
    OBVIOUS
  <2>2. g[s] = f[Picked(s)] + g[r]
    BY <1>3, <1>5, <2>1 DEF Sum
  <2>3. QED
    BY <1>2, <2>1, <2>2
<1>6. QED
  BY <1>1, <1>2, <1>4, <1>5

LEMMA TotalTakesOut ==
  ASSUME NEW S, IsFiniteSet(S), NEW f, \A x \in S : f[x] \in Nat
  PROVE  \A s \in SUBSET S : \A x \in s : Total(f, s) = f[x] + Total(f, s \ {x})
<1> DEFINE Fails(s) == \E x \in s : Total(f, s) # f[x] + Total(f, s \ {x})
           Bad == {k \in Nat : \E s \in SUBSET S : k = Cardinality(s) /\ Fails(s)}
<1>1. ASSUME NEW m \in Bad, \A k \in Bad : m <= k PROVE FALSE
  <2>1. PICK s \in SUBSET S : m = Cardinality(s) /\ Fails(s)
    BY <1>1
  <2>2. PICK x \in s : Total(f, s) # f[x] + Total(f, s \ {x})
    BY <2>1
  <2>3. PICK c \in s : c = Picked(s)
    BY <2>2, Removed
  <2>4. ASSUME NEW y \in s PROVE ~Fails(s \ {y})
    <3>1. /\ Cardinality(s \ {y}) \in Nat /\ Cardinality(s) = Cardinality(s \ {y}) + 1
      BY Removed
    <3>2. Cardinality(s \ {y}) \notin Bad
      <4>1. m \in Nat /\ ~(m <= Cardinality(s \ {y}))
        BY <2>1, <3>1
      <4>2. QED
        BY <1>1, <4>1
    <3> HIDE DEF Fails
    <3>3. QED
      BY <3>1, <3>2
  <2>5. Total(f, s) = f[c] + Total(f, s \ {c})
    BY <2>2, <2>3, TotalSteps
  <2>6. x # c
    BY <2>2, <2>5
  <2>7. Total(f, s \ {c}) = f[x] + Total(f, (s \ {c}) \ {x})
    BY <2>4, <2>6
  <2>8. Total(f, s \ {x}) = f[c] + Total(f, (s \ {x}) \ {c})
    BY <2>4, <2>6
  <2>9. (s \ {c}) \ {x} = (s \ {x}) \ {c} /\ (s \ {x}) \ {c} \in SUBSET S
    OBVIOUS
  <2>10. Total(f, (s \ {x}) \ {c}) \in Nat /\ f[x] \in Nat /\ f[c] \in Nat
    BY <2>9, TotalSteps
  <2>11. Total(f, s) = f[c] + (f[x] + Total(f, (s \ {x}) \ {c}))
    BY <2>5, <2>7, <2>9
  <2>12. QED
    BY <2>2, <2>8, <2>10, <2>11
<1>2. Bad = {}
  <2>1. Bad \in SUBSET Nat
    OBVIOUS
  <2> HIDE DEF Bad
  <2>2. QED
    BY <1>1, <2>1, Least
<1>3. ASSUME NEW s \in SUBSET S PROVE ~Fails(s)
  <2>1. Cardinality(s) \in Nat
    BY Removed
  <2> HIDE DEF Fails
  <2>2. QED
    BY <1>2, <2>1
<1>4. QED
  BY <1>3

Suffix(i) == i..Len(rounds)

WindowInv == Window!TypeOK /\ RequestShowsNewestRounds

LEMMA RoundFacts ==
  ASSUME Window!TypeOK
  PROVE  /\ Len(rounds) \in Nat /\ DOMAIN rounds = 1..Len(rounds)
         /\ \A i \in DOMAIN rounds : rounds[i] \in Nat
         /\ IsFiniteSet(DOMAIN rounds)
<1>1. Len(rounds) \in Nat /\ DOMAIN rounds = 1..Len(rounds)
  BY DEF Window!TypeOK
<1>2. \A i \in DOMAIN rounds : rounds[i] \in Nat
  <2>1. rounds \in Seq(Sizes)
    BY DEF Window!TypeOK
  <2>2. \A i \in DOMAIN rounds : rounds[i] \in Sizes
    BY <2>1
  <2>3. QED
    BY <2>2, BudgetAssumption
<1>3. IsFiniteSet(DOMAIN rounds)
  BY <1>1, FS_Interval
<1>4. QED
  BY <1>1, <1>2, <1>3

(* The fewer of the newest rounds, the fewer tokens.                        *)
LEMMA SuffixShrinks ==
  ASSUME Window!TypeOK, NEW i \in DOMAIN rounds, Window!Fits(Suffix(i))
  PROVE  Window!Fits(Suffix(i + 1))
<1>1. i \in Suffix(i) /\ Suffix(i) \ {i} = Suffix(i + 1) /\ i \in Nat
  BY RoundFacts DEF Suffix
<1>2. Suffix(i) \in SUBSET DOMAIN rounds /\ Suffix(i + 1) \in SUBSET DOMAIN rounds
  BY RoundFacts DEF Suffix
<1>3. Total(rounds, Suffix(i)) = rounds[i] + Total(rounds, Suffix(i + 1))
  BY <1>1, <1>2, RoundFacts, TotalTakesOut
<1>4. Total(rounds, Suffix(i + 1)) \in Nat /\ rounds[i] \in Nat
  BY <1>2, RoundFacts, TotalSteps
<1>5. QED
  BY <1>3, <1>4, BudgetAssumption DEF Window!Fits, Total

(* So there is an oldest round from which on they fit.                      *)
Oldest(b) == \A i \in 1..Len(rounds) + 1 : Window!Fits(Suffix(i)) <=> b <= i

LEMMA OldestExists ==
  ASSUME Window!TypeOK, NEW c \in 1..Len(rounds) + 1, Window!Fits(Suffix(c))
  PROVE  \E b \in 1..c : Oldest(b)
<1> DEFINE Fitting == {i \in 1..Len(rounds) + 1 : Window!Fits(Suffix(i))}
<1>1. Fitting \in SUBSET Nat /\ Fitting # {}
  BY RoundFacts
<1>2. PICK b \in Fitting : \A i \in Fitting : b <= i
  BY <1>1, Least
<1>3. ASSUME NEW m \in 1..Len(rounds) + 1, b <= m PROVE m \in Fitting
  <2> DEFINE Bad == {i \in Nat : b <= i /\ i <= Len(rounds) + 1 /\ i \notin Fitting}
  <2>1. ASSUME NEW k \in Bad, \A i \in Bad : k <= i PROVE FALSE
    <3>1. b # k /\ b \in 1..Len(rounds) + 1 /\ Len(rounds) \in Nat
      BY <1>2, <2>1, RoundFacts
    <3>2. PICK j \in Nat : k = j + 1
      <4>1. k - 1 \in Nat /\ k = (k - 1) + 1
        BY <2>1, <3>1
      <4>2. QED
        BY <4>1
    <3>3. j \in 1..Len(rounds) /\ b <= j /\ j <= Len(rounds) + 1 /\ ~(k <= j)
      BY <2>1, <3>1, <3>2
    <3>4. j \in Fitting
      BY <2>1, <3>2, <3>3
    <3>5. Window!Fits(Suffix(j + 1))
      BY <3>3, <3>4, RoundFacts, SuffixShrinks
    <3>6. QED
      BY <2>1, <3>1, <3>2, <3>5
  <2>2. Bad \in SUBSET Nat
    OBVIOUS
  <2> HIDE DEF Bad
  <2>3. Bad = {}
    BY <2>1, <2>2, Least
  <2>4. QED
    BY <1>3, <2>3, RoundFacts DEF Bad
<1>4. b \in 1..c /\ Oldest(b)
  BY <1>1, <1>2, <1>3, RoundFacts DEF Oldest
<1>5. QED
  BY <1>4

(* The loop over the older rounds, as the equation of its function; it ends *)
(* at the oldest round from which on they fit.                              *)
Came(i, g) ==
  IF i > Len(rounds) - RetainGroups THEN i..Len(rounds)
  ELSE IF i + 1 \in g[i + 1] /\ Window!Fits({i} \cup g[i + 1])
       THEN {i} \cup g[i + 1] ELSE g[i + 1]

Walks(g) == g = [i \in 1..Len(rounds) + 1 |-> Came(i, g)]

LEMMA SelectedIsAWalk == Window!Selected = (CHOOSE g : Walks(g))[1]
BY DEF Window!Selected, Walks, Came

LEMMA SelectedIsNewest ==
  ASSUME Window!TypeOK, RetainGroups < Len(rounds),
         NEW b \in 2..Len(rounds) - RetainGroups + 1, Oldest(b)
  PROVE  Window!Selected = Suffix(b)
<1> DEFINE h == [i \in 1..Len(rounds) + 1 |-> IF b <= i THEN Suffix(i) ELSE Suffix(b)]
<1>1. PICK n \in Nat, r \in Nat \ {0} : n = Len(rounds) /\ r = RetainGroups
  BY RoundFacts, BudgetAssumption
<1>2. r < n /\ b \in 2..n - r + 1 /\ b \in Nat
  BY <1>1
<1>3. ASSUME NEW i \in 1..n + 1 PROVE h[i] = Came(i, h)
  <2>1. CASE i > n - r
    <3>1. b <= i
      BY <1>2, <2>1
    <3>2. h[i] = Suffix(i)
      BY <1>1, <3>1
    <3>3. QED
      BY <1>1, <2>1, <3>2 DEF Came, Suffix
  <2>2. CASE i <= n - r
    <3>1. i + 1 \in 1..n /\ i + 1 \in 1..n + 1 /\ ~(i > n - r) /\ i \in Nat
      BY <1>2, <2>2
    <3>2. Came(i, h) = IF i + 1 \in h[i + 1] /\ Window!Fits({i} \cup h[i + 1])
                       THEN {i} \cup h[i + 1] ELSE h[i + 1]
      BY <1>1, <3>1 DEF Came
    <3>3. {i} \cup Suffix(i + 1) = Suffix(i) /\ i + 1 \in Suffix(i + 1)
      BY <1>1, <3>1 DEF Suffix
    <3>4. Window!Fits(Suffix(i)) <=> b <= i
      BY <1>1 DEF Oldest
    <3>5. h[i + 1] = IF b <= i + 1 THEN Suffix(i + 1) ELSE Suffix(b)
      BY <1>1, <3>1
    <3>6. CASE b <= i
      <4>1. h[i + 1] = Suffix(i + 1) /\ h[i] = Suffix(i)
        BY <1>1, <1>2, <3>1, <3>5, <3>6
      <4> HIDE DEF h
      <4>2. QED
        BY <3>2, <3>3, <3>4, <3>6, <4>1
    <3>7. CASE b = i + 1
      <4>1. h[i + 1] = Suffix(i + 1) /\ h[i] = Suffix(i + 1) /\ ~(b <= i)
        BY <1>1, <1>2, <3>1, <3>5, <3>7
      <4> HIDE DEF h
      <4>2. QED
        BY <3>2, <3>3, <3>4, <4>1
    <3>8. CASE i + 1 < b
      <4>1. h[i + 1] = Suffix(b) /\ h[i] = Suffix(b)
        BY <1>1, <1>2, <3>1, <3>5, <3>8
      <4>2. i + 1 \notin Suffix(b)
        BY <1>1, <1>2, <3>1, <3>8 DEF Suffix
      <4> HIDE DEF h
      <4>3. QED
        BY <3>2, <4>1, <4>2
    <3>9. QED
      BY <1>2, <3>1, <3>6, <3>7, <3>8
  <2>3. QED
    BY <1>2, <2>1, <2>2
<1>4. Walks(h)
  <2>1. h = [i \in 1..Len(rounds) + 1 |-> h[i]]
    OBVIOUS
  <2> HIDE DEF h
  <2>2. QED
    BY <1>1, <1>3, <2>1 DEF Walks
<1>5. PICK g : g = (CHOOSE x : Walks(x)) /\ Walks(g)
  <2> HIDE DEF h
  <2>1. QED
    BY <1>4
<1> HIDE DEF h
<1>6. ASSUME NEW k \in 0..n PROVE g[n + 1 - k] = h[n + 1 - k]
  <2> DEFINE Bad == {i \in 0..n : g[n + 1 - i] # h[n + 1 - i]}
  <2>1. ASSUME NEW m \in Bad, \A i \in Bad : m <= i PROVE FALSE
    <3>1. PICK j \in 1..n + 1 : j = n + 1 - m
      BY <2>1
    <3>2. g[j] = Came(j, g) /\ h[j] = Came(j, h)
      BY <1>1, <1>4, <1>5, <3>1 DEF Walks
    <3>3. CASE j > n - r
      BY <1>1, <2>1, <3>1, <3>2, <3>3 DEF Came
    <3>4. CASE j <= n - r
      <4>1. m - 1 \in 0..n /\ n + 1 - (m - 1) = j + 1 /\ ~(m <= m - 1)
        BY <1>2, <3>1, <3>4
      <4>2. m - 1 \notin Bad
        BY <2>1, <4>1
      <4>3. g[j + 1] = h[j + 1]
        BY <4>1, <4>2
      <4>4. QED
        BY <2>1, <3>1, <3>2, <4>3 DEF Came
    <3>5. QED
      BY <1>2, <3>1, <3>3, <3>4
  <2>2. Bad \in SUBSET Nat
    BY <1>2
  <2> HIDE DEF Bad
  <2>3. Bad = {}
    BY <2>1, <2>2, Least
  <2>4. QED
    BY <2>3 DEF Bad
<1>7. g[1] = h[1]
  <2>1. n \in 0..n /\ n + 1 - n = 1
    BY <1>2
  <2>2. QED
    BY <1>6, <2>1
<1>8. h[1] = Suffix(b)
  BY <1>1, <1>2 DEF h
<1>9. QED
  BY <1>5, <1>7, <1>8, SelectedIsAWalk

(* A request shows the newest rounds that fit.                              *)
LEMMA Composed ==
  ASSUME WindowInv, Window!Compose
  PROVE  WindowInv'
<1>1. Window!TypeOK /\ rounds' = rounds
  BY DEF WindowInv, Window!Compose
<1>2. /\ Len(rounds) \in Nat /\ DOMAIN rounds = 1..Len(rounds)
      /\ RetainGroups \in Nat \ {0} /\ Available \in Int
  BY <1>1, RoundFacts, BudgetAssumption
<1>3. PICK n \in Nat, r \in Nat : n = Len(rounds) /\ r = RetainGroups
  BY <1>2
<1>4. /\ \A i \in 1..n + 1 : n - (n + 1 - i) + 1 = i /\ n + 1 - i \in 0..n
      /\ \A k \in 0..n : n - k + 1 \in 1..n + 1
  OBVIOUS
<1>5. ASSUME NEW b \in 1..n + 1, Oldest(b), b = 1 \/ b <= n - r + 1,
             shown' = Suffix(b), asking' = "asking"
      PROVE  WindowInv'
  <2>1. n + 1 - b \in 0..n /\ Window!Newest(n + 1 - b) = Suffix(b)
    BY <1>3, <1>4 DEF Window!Newest, Suffix
  <2>2. Window!Mandatory \subseteq Suffix(b) /\ Suffix(b) \subseteq DOMAIN rounds
    BY <1>2, <1>3, <1>5 DEF Window!Mandatory, Suffix
  <2>3. ASSUME NEW k \in 0..n PROVE Window!Fits(Window!Newest(k)) <=> k <= n + 1 - b
    <3>1. Window!Newest(k) = Suffix(n - k + 1) /\ n - k + 1 \in 1..n + 1
      BY <1>3, <1>4 DEF Window!Newest, Suffix
    <3>2. Window!Fits(Window!Newest(k)) <=> b <= n - k + 1
      BY <1>3, <1>5, <3>1 DEF Oldest
    <3>3. QED
      BY <3>2
  <2>4. \A k \in 0..n : Window!Newest(k)' = Window!Newest(k)
    BY <1>1 DEF Window!Newest
  <2>5. \A k \in 0..n : Window!Fits(Window!Newest(k))' <=> Window!Fits(Window!Newest(k))
    BY <1>1, <2>4 DEF Window!Fits
  <2>6. Window!Mandatory' = Window!Mandatory
    BY <1>1 DEF Window!Mandatory
  <2>7. Window!TypeOK'
    BY <1>1, <1>5, <2>2 DEF Window!TypeOK
  <2>8. RequestShowsNewestRounds'
    BY <1>1, <1>3, <1>5, <2>1, <2>2, <2>3, <2>4, <2>5, <2>6
    DEF RequestShowsNewestRounds, Window!RequestShowsNewestRounds
  <2>9. QED
    BY <2>7, <2>8 DEF WindowInv
<1>6. CASE Window!Fits(DOMAIN rounds) /\ shown' = DOMAIN rounds /\ asking' = "asking"
  <2>1. DOMAIN rounds = Suffix(1) /\ 1 \in 1..Len(rounds) + 1
    BY <1>2 DEF Suffix
  <2>2. PICK b \in 1..1 : Oldest(b)
    BY <1>1, <1>6, <2>1, OldestExists
  <2>3. Oldest(1)
    BY <2>2
  <2>4. QED
    BY <1>3, <1>5, <1>6, <2>1, <2>3
<1>7. CASE /\ ~Window!Fits(DOMAIN rounds) /\ Window!Fits(Window!Mandatory)
           /\ shown' = Window!Selected /\ asking' = "asking"
  <2>1. r < n
    <3>1. r >= n => Window!Mandatory = DOMAIN rounds
      BY <1>2, <1>3 DEF Window!Mandatory
    <3>2. QED
      BY <1>3, <1>7, <3>1
  <2>2. PICK c \in 1..n + 1 : c = n - r + 1
    BY <2>1
  <2>3. Window!Mandatory = Suffix(c) /\ DOMAIN rounds = Suffix(1)
    BY <1>2, <1>3, <2>1, <2>2 DEF Window!Mandatory, Suffix
  <2>4. PICK b \in 1..c : Oldest(b)
    BY <1>1, <1>3, <1>7, <2>3, OldestExists
  <2>5. b # 1
    BY <1>2, <1>7, <2>3, <2>4 DEF Oldest
  <2>6. b \in 2..Len(rounds) - RetainGroups + 1 /\ RetainGroups < Len(rounds)
    BY <1>3, <2>1, <2>2, <2>4, <2>5
  <2>7. Window!Selected = Suffix(b)
    BY <1>1, <2>4, <2>6, SelectedIsNewest
  <2>8. b \in 1..n + 1 /\ b <= n - r + 1
    BY <2>2, <2>4
  <2>9. QED
    BY <1>5, <1>7, <2>4, <2>7, <2>8
<1>8. CASE ~Window!Fits(Window!Mandatory) /\ shown' = {} /\ asking' = "overflow"
  <2>1. \E k \in 0..r : Window!Newest(k) = Window!Mandatory
    <3>1. CASE r <= n
      <4>1. Window!Newest(r) = Window!Mandatory /\ r \in 0..r
        BY <1>2, <1>3, <3>1 DEF Window!Newest, Window!Mandatory
      <4>2. QED
        BY <4>1
    <3>2. CASE n < r
      <4>1. Window!Newest(n) = Window!Mandatory /\ n \in 0..r
        BY <1>2, <1>3, <3>2 DEF Window!Newest, Window!Mandatory
      <4>2. QED
        BY <4>1
    <3>3. QED
      BY <3>1, <3>2
  <2>2. \A k \in 0..r : Window!Fits(Window!Newest(k))' <=> Window!Fits(Window!Newest(k))
    BY <1>1 DEF Window!Fits, Window!Newest
  <2>3. RequestShowsNewestRounds'
    BY <1>3, <1>8, <2>1, <2>2 DEF RequestShowsNewestRounds, Window!RequestShowsNewestRounds
  <2>4. Window!TypeOK'
    BY <1>1, <1>8 DEF Window!TypeOK
  <2>5. QED
    BY <2>3, <2>4 DEF WindowInv
<1>9. QED
  BY <1>6, <1>7, <1>8 DEF Window!Compose

LEMMA Answered ==
  ASSUME WindowInv, NEW size \in Sizes, Window!Answer(size)
  PROVE  WindowInv'
<1>1. /\ Len(rounds) + 1 < MaxTurns /\ rounds' = Append(rounds, size)
      /\ asking' = "composing" /\ shown' = {}
  BY DEF Window!Answer
<1>2. rounds \in Seq(Sizes)
  BY DEF WindowInv, Window!TypeOK
<1>3. rounds' \in Seq(Sizes) /\ Len(rounds') = Len(rounds) + 1
  BY <1>1, <1>2
<1>4. Window!TypeOK'
  BY <1>1, <1>3 DEF Window!TypeOK
<1>5. RequestShowsNewestRounds'
  BY <1>1 DEF RequestShowsNewestRounds, Window!RequestShowsNewestRounds
<1>6. QED
  BY <1>4, <1>5 DEF WindowInv

LEMMA Ended ==
  ASSUME WindowInv, Window!End
  PROVE  WindowInv'
<1>1. rounds' = rounds /\ asking' = "ended" /\ shown' = {}
  BY DEF Window!End
<1>2. Window!TypeOK'
  BY <1>1 DEF WindowInv, Window!TypeOK
<1>3. RequestShowsNewestRounds'
  BY <1>1 DEF RequestShowsNewestRounds, Window!RequestShowsNewestRounds
<1>4. QED
  BY <1>2, <1>3 DEF WindowInv

LEMMA WindowStarts == Init => WindowInv
<1>1. SUFFICES ASSUME Init PROVE WindowInv
  OBVIOUS
<1>2. rounds = << >> /\ asking = "composing" /\ shown = {}
  BY <1>1 DEF Init, Window!Init
<1>3. rounds \in Seq(Sizes) /\ Len(rounds) < MaxTurns
  BY <1>2, BudgetAssumption
<1>4. QED
  BY <1>2, <1>3 DEF WindowInv, Window!TypeOK, RequestShowsNewestRounds,
    Window!RequestShowsNewestRounds

LEMMA WindowSteps == WindowInv /\ [Next]_vars => WindowInv'
<1>1. SUFFICES ASSUME WindowInv, [Next]_vars PROVE WindowInv'
  OBVIOUS
<1>2. CASE UNCHANGED window
  <2>1. rounds' = rounds /\ asking' = asking /\ shown' = shown
    BY <1>2 DEF window
  <2>2. QED
    BY <1>1, <2>1 DEF WindowInv, Window!TypeOK, RequestShowsNewestRounds,
      Window!RequestShowsNewestRounds, Window!Fits, Window!Newest, Window!Mandatory
<1>3. CASE Window!Next
  BY <1>1, <1>3, Composed, Answered, Ended DEF Window!Next
<1>4. QED
  BY <1>1, <1>2, <1>3 DEF Next, vars

(* What the model is asked with is the newest rounds of the session, all of *)
(* those that fit and no others, the retained ones among them               *)
(* (runner.py, ContextBudget.compose).                                      *)
THEOREM RequestHasTheNewestRounds == Spec => []RequestShowsNewestRounds
<1>1. WindowInv => RequestShowsNewestRounds
  BY DEF WindowInv
<1>2. QED
  BY <1>1, WindowStarts, WindowSteps, PTL DEF Spec
-----------------------------------------------------------------------------
(* The pinned skill.                                                        *)
Discovered == {"ready", "resolved", "working"}

(* A tool in a catalog is the reviewed one, or changed after discovery.     *)
CatalogIsReviewed(p) ==
  at[p] \in Discovered =>
    /\ DOMAIN catalog[p] \subseteq Tools \cup BuiltIn
    /\ \A t \in DOMAIN catalog[p] \cap Tools : offered[t] = "reviewed" \/ t \in drifted[p]

(* What was resolved is what was signed; and who works has the pinned skill *)
(* and what it grants in the catalog that the process still has.            *)
SkillIsGenuine(p) ==
  at[p] \in {"resolved", "working"} =>
    skill[p] = Pinning!Seal(skill[p].manifest, skill[p].content)

WorkIsPinned(p) ==
  at[p] = "working" =>
    /\ Pinning!SkillPin(skill[p]) = pin
    /\ grants[p] = Pinning!EffectiveCapabilities(p, skill[p])

Standing(p) == CatalogIsReviewed(p) /\ SkillIsGenuine(p) /\ WorkIsPinned(p)

SkillTypes ==
  /\ Pinning!TypeOK /\ now <= changes
  /\ registry = [p \in Procs |-> registry[p]] /\ trusted = [p \in Procs |-> trusted[p]]
  /\ catalog = [p \in Procs |-> catalog[p]] /\ skill = [p \in Procs |-> skill[p]]
  /\ grants = [p \in Procs |-> grants[p]] /\ drifted = [p \in Procs |-> drifted[p]]

SkillInv == SkillTypes /\ \A p \in Procs : Standing(p)

(* What is sealed is a package, and what a pin keeps of a package is one.   *)
LEMMA SealIsPackage ==
  ASSUME NEW m \in Pinning!Manifests, NEW c \in Contents
  PROVE  Pinning!Seal(m, c) \in Pinning!Packages
<1>1. m.signer \in Signers
  BY DEF Pinning!Manifests
<1>2. QED
  BY <1>1 DEF Pinning!Seal, Pinning!Packages, Pinning!Signatures

LEMMA EditedIsPackage ==
  ASSUME NEW x \in Pinning!Packages, NEW m \in Pinning!Manifests, NEW c \in Contents
  PROVE  Pinning!Edited(x, m, c) \in Pinning!Packages
BY DEF Pinning!Edited, Pinning!Packages

LEMMA PinIsNoNone ==
  ASSUME NEW x \in Pinning!Packages
  PROVE  Pinning!SkillPin(x) \in Pinning!Pins /\ Pinning!SkillPin(x) # None
<1>1. /\ x.manifest \in Pinning!Manifests /\ x.signature \in Pinning!Signatures
      /\ x.manifest.skill \in SkillIds /\ x.manifest.sha256 \in Contents
      /\ x.manifest.signer \in Signers
  BY DEF Pinning!Packages, Pinning!Manifests
<1>2. QED
  BY <1>1, NoneAssumption DEF Pinning!SkillPin, Pinning!Pins

(* The pin tells the package, if what is signed is what is there.           *)
LEMMA PinTellsPackage ==
  ASSUME NEW x \in Pinning!Packages, NEW y \in Pinning!Packages,
         x = Pinning!Seal(x.manifest, x.content), y = Pinning!Seal(y.manifest, y.content),
         Pinning!SkillPin(x) = Pinning!SkillPin(y)
  PROVE  x = y
<1>1. x.signature = y.signature
  BY DEF Pinning!SkillPin
<1>2. /\ x.signature.manifest = x.manifest /\ x.signature.content = x.content
      /\ y.signature.manifest = y.manifest /\ y.signature.content = y.content
  BY DEF Pinning!Seal
<1>3. QED
  BY <1>1, <1>2

(* What is resolvable is signed.                                            *)
LEMMA ResolvableIsGenuine ==
  ASSUME NEW p \in Procs, NEW k, registry[p][k] \in Pinning!Packages, Pinning!Resolvable(p, k)
  PROVE  registry[p][k] = Pinning!Seal(registry[p][k].manifest, registry[p][k].content)
<1>1. PICK x \in Pinning!Packages : x = registry[p][k]
  OBVIOUS
<1>2. x.signature = Pinning!Seal(x.manifest, x.content).signature
  BY <1>1 DEF Pinning!Resolvable, Pinning!Verified
<1>3. x = [manifest |-> x.manifest, content |-> x.content, signature |-> x.signature]
  BY DEF Pinning!Packages
<1>4. x = Pinning!Seal(x.manifest, x.content)
  BY <1>2, <1>3 DEF Pinning!Seal
<1>5. QED
  BY <1>1, <1>4

(* A replacement is a package.                                              *)
LEMMA ReplacementIsPackage ==
  ASSUME NEW x \in Pinning!Packages, now \in 0..MaxChanges,
         NEW y \in Pinning!Replacements(x)
  PROVE  y \in Pinning!Packages
<1> DEFINE m == x.manifest
<1>1. m \in Pinning!Manifests /\ x.content \in Contents
  BY DEF Pinning!Packages
<1>2. now \in 0..Pinning!Never
  BY BoundsAssumption DEF Pinning!Never
<1> HIDE DEF m
<1>3. /\ \A c \in Contents : [m EXCEPT !.sha256 = c] \in Pinning!Manifests
      /\ \A s \in Signers : [m EXCEPT !.signer = s] \in Pinning!Manifests
      /\ [m EXCEPT !.applies = FALSE] \in Pinning!Manifests
      /\ [m EXCEPT !.until = now] \in Pinning!Manifests
      /\ [m EXCEPT !.maximum = 1] \in Pinning!Manifests
  BY <1>1, <1>2 DEF Pinning!Manifests
<1>4. \/ \E n \in Pinning!Manifests, c \in Contents : y = Pinning!Seal(n, c)
      \/ \E n \in Pinning!Manifests, c \in Contents : y = Pinning!Edited(x, n, c)
  BY <1>1, <1>3 DEF Pinning!Replacements, m
<1>5. QED
  BY <1>4, SealIsPackage, EditedIsPackage

(* The facts about a process stand while nothing of it changes.             *)
LEMMA ProcessStands ==
  ASSUME NEW q \in Procs, Standing(q),
         at'[q] = at[q], catalog'[q] = catalog[q], skill'[q] = skill[q], grants'[q] = grants[q],
         at[q] = "working" => pin' = pin,
         at[q] \in Discovered =>
           /\ drifted[q] \subseteq drifted'[q]
           /\ \A t \in Tools : offered'[t] = offered[t] \/ t \in drifted'[q]
  PROVE  Standing(q)'
<1>1. CatalogIsReviewed(q)'
  BY DEF Standing, CatalogIsReviewed
<1>2. SkillIsGenuine(q)'
  BY DEF Standing, SkillIsGenuine, Pinning!Seal
<1>3. WorkIsPinned(q)'
  BY DEF Standing, WorkIsPinned, Pinning!SkillPin, Pinning!EffectiveCapabilities
<1>4. QED
  BY <1>1, <1>2, <1>3 DEF Standing

Places == {"down", "loaded", "connected", "ready", "resolved", "working"}

(* What TypeOK says of the variables of one process.                        *)
Typed(p) ==
  /\ IF at[p] = "down" THEN registry[p] = None ELSE registry[p] \in [SkillIds -> Pinning!Packages]
  /\ catalog[p] = None <=> at[p] \in {"down", "loaded", "connected"}
  /\ IF at[p] \in {"resolved", "working"} THEN skill[p] \in Pinning!Packages ELSE skill[p] = None
  /\ grants[p] \subseteq (Tools \cup BuiltIn) \X Pinning!Versions
  /\ drifted[p] \subseteq Tools

Functions ==
  /\ at \in [Procs -> Places]
  /\ registry = [p \in Procs |-> registry[p]] /\ trusted = [p \in Procs |-> trusted[p]]
  /\ catalog = [p \in Procs |-> catalog[p]] /\ skill = [p \in Procs |-> skill[p]]
  /\ grants = [p \in Procs |-> grants[p]] /\ drifted = [p \in Procs |-> drifted[p]]

(* The variables of the other processes stay.                               *)
Local(p) ==
  /\ Functions'
  /\ \A q \in Procs \ {p} :
       /\ at'[q] = at[q] /\ registry'[q] = registry[q] /\ catalog'[q] = catalog[q]
       /\ skill'[q] = skill[q] /\ grants'[q] = grants[q] /\ drifted'[q] = drifted[q]

LEMMA SkillFacts ==
  ASSUME SkillInv
  PROVE  /\ Functions /\ \A p \in Procs : Typed(p) /\ Standing(p)
         /\ pin \in Pinning!Pins \cup {None} /\ shelf \in [SkillIds -> Pinning!Packages]
BY DEF SkillInv, SkillTypes, Pinning!TypeOK, Functions, Typed, Places

(* A step of p: the others stay, and those who work keep the pin.           *)
LEMMA ProcessSteps ==
  ASSUME SkillInv, NEW p \in Procs,
         UNCHANGED <<shelf, signerUntil, offered, now, changes>>,
         Local(p), Typed(p)', Standing(p)',
         pin' \in Pinning!Pins \cup {None},
         \A q \in Procs \ {p} : at[q] = "working" => pin' = pin
  PROVE  SkillInv'
<1>1. ASSUME NEW q \in Procs PROVE Typed(q)'
  <2>1. CASE q = p
    BY <2>1
  <2>2. CASE q # p
    BY <2>2, SkillFacts DEF Local, Typed
  <2>3. QED
    BY <2>1, <2>2
<1>2. SkillTypes'
  <2>1. /\ shelf' \in [SkillIds -> Pinning!Packages]
        /\ signerUntil' \in [Signers -> 0..Pinning!Never]
        /\ offered' \in [Tools -> {"reviewed", "changed", "missing"}]
        /\ now' \in 0..MaxChanges /\ changes' \in 0..MaxChanges /\ now' <= changes'
    BY DEF SkillInv, SkillTypes, Pinning!TypeOK, Pinning!Never
  <2>2. Pinning!TypeOK'
    BY <1>1, <2>1 DEF Local, Functions, Typed, Pinning!TypeOK, Pinning!Packages,
      Pinning!Manifests, Pinning!Signatures, Pinning!Pins, Pinning!Never, Pinning!Versions, Places
  <2>3. QED
    BY <2>1, <2>2 DEF SkillTypes, Local, Functions
<1>3. ASSUME NEW q \in Procs \ {p} PROVE Standing(q)'
  <2>1. \A t \in Tools : offered'[t] = offered[t]
    OBVIOUS
  <2>2. QED
    BY <2>1, SkillFacts, ProcessStands DEF Local
<1>4. QED
  BY <1>2, <1>3 DEF SkillInv

LEMMA Loading ==
  ASSUME SkillInv, NEW p \in Procs, Pinning!Load(p)
  PROVE  SkillInv'
<1>1. /\ at[p] = "down" /\ at' = [at EXCEPT ![p] = "loaded"]
      /\ registry' = [registry EXCEPT ![p] = shelf]
      /\ trusted' = [trusted EXCEPT ![p] = signerUntil]
      /\ UNCHANGED <<shelf, signerUntil, offered, now, changes, pin>>
      /\ UNCHANGED <<catalog, skill, grants, drifted>>
  BY DEF Pinning!Load, Pinning!Goto, Pinning!world
<1>2. Local(p) /\ at'[p] = "loaded" /\ registry'[p] = shelf
  BY <1>1, SkillFacts DEF Local, Functions, Places
<1>3. Typed(p)'
  BY <1>1, <1>2, SkillFacts DEF Typed, Pinning!Packages, Pinning!Manifests,
    Pinning!Signatures, Pinning!Never, Pinning!Versions
<1>4. Standing(p)'
  BY <1>2 DEF Standing, CatalogIsReviewed, SkillIsGenuine, WorkIsPinned, Discovered
<1>5. QED
  BY <1>1, <1>2, <1>3, <1>4, SkillFacts, ProcessSteps

LEMMA Connecting ==
  ASSUME SkillInv, NEW p \in Procs, Pinning!Initialize(p)
  PROVE  SkillInv'
<1>1. /\ at[p] = "loaded" /\ at' = [at EXCEPT ![p] = "connected"]
      /\ UNCHANGED <<shelf, signerUntil, offered, now, changes, pin, registry, trusted,
                     catalog, skill, grants, drifted>>
  BY DEF Pinning!Initialize, Pinning!Goto, Pinning!world
<1>2. Local(p) /\ at'[p] = "connected"
  BY <1>1, SkillFacts DEF Local, Functions, Places
<1>3. Typed(p)'
  BY <1>1, <1>2, SkillFacts DEF Typed
<1>4. Standing(p)'
  BY <1>2 DEF Standing, CatalogIsReviewed, SkillIsGenuine, WorkIsPinned, Discovered
<1>5. QED
  BY <1>1, <1>2, <1>3, <1>4, SkillFacts, ProcessSteps

LEMMA Discovering ==
  ASSUME SkillInv, NEW p \in Procs, Pinning!Discover(p)
  PROVE  SkillInv'
<1> DEFINE found == {t \in Tools : offered[t] = "reviewed"}
           listed == [c \in found \cup BuiltIn |-> 1]
<1>1. /\ at[p] = "connected" /\ at' = [at EXCEPT ![p] = "ready"]
      /\ catalog' = [catalog EXCEPT ![p] = listed]
      /\ UNCHANGED <<shelf, signerUntil, offered, now, changes, pin, registry, trusted,
                     skill, grants, drifted>>
  BY DEF Pinning!Discover, Pinning!Goto, Pinning!world
<1>2. DOMAIN listed = found \cup BuiltIn
  OBVIOUS
<1>3. listed # None
  <2>1. found \in SUBSET Tools /\ listed \in [found \cup BuiltIn -> {1}]
    OBVIOUS
  <2> HIDE DEF listed, found
  <2>2. QED
    BY <2>1, NoneAssumption
<1>4. found \subseteq Tools /\ \A t \in found : offered[t] = "reviewed"
  OBVIOUS
<1> HIDE DEF listed, found
<1>5. Local(p) /\ at'[p] = "ready" /\ catalog'[p] = listed
  BY <1>1, SkillFacts DEF Local, Functions, Places
<1>6. Typed(p)'
  BY <1>1, <1>3, <1>5, SkillFacts DEF Typed
<1>7. CatalogIsReviewed(p)'
  <2>1. \A t \in DOMAIN listed \cap Tools : offered'[t] = "reviewed"
    BY <1>1, <1>2, <1>4, SkillsAssumption
  <2>2. QED
    BY <1>2, <1>4, <1>5, <2>1 DEF CatalogIsReviewed
<1>8. Standing(p)'
  BY <1>5, <1>7 DEF Standing, SkillIsGenuine, WorkIsPinned
<1>9. QED
  BY <1>1, <1>5, <1>6, <1>8, SkillFacts, ProcessSteps

LEMMA Stopping ==
  ASSUME SkillInv, NEW p \in Procs, Pinning!Stop(p)
  PROVE  SkillInv'
<1>1. /\ at' = [at EXCEPT ![p] = "down"]
      /\ registry' = [registry EXCEPT ![p] = None] /\ trusted' = [trusted EXCEPT ![p] = None]
      /\ catalog' = [catalog EXCEPT ![p] = None] /\ skill' = [skill EXCEPT ![p] = None]
      /\ grants' = [grants EXCEPT ![p] = {}] /\ drifted' = [drifted EXCEPT ![p] = {}]
      /\ UNCHANGED <<shelf, signerUntil, offered, now, changes, pin>>
  BY DEF Pinning!Stop, Pinning!Goto, Pinning!world
<1>2. /\ Local(p) /\ at'[p] = "down" /\ registry'[p] = None /\ catalog'[p] = None
      /\ skill'[p] = None /\ grants'[p] = {} /\ drifted'[p] = {}
  BY <1>1, SkillFacts DEF Local, Functions, Places
<1>3. Typed(p)'
  BY <1>2 DEF Typed
<1>4. Standing(p)'
  BY <1>2 DEF Standing, CatalogIsReviewed, SkillIsGenuine, WorkIsPinned, Discovered
<1>5. QED
  BY <1>1, <1>2, <1>3, <1>4, SkillFacts, ProcessSteps

(* Nobody works without a pin.                                              *)
LEMMA WorkerHasPin ==
  ASSUME SkillInv, NEW q \in Procs, at[q] = "working"
  PROVE  pin = Pinning!SkillPin(skill[q]) /\ pin # None
<1>1. skill[q] \in Pinning!Packages
  BY SkillFacts DEF Typed
<1>2. pin = Pinning!SkillPin(skill[q])
  BY SkillFacts DEF Standing, WorkIsPinned
<1>3. QED
  BY <1>1, <1>2, PinIsNoNone

LEMMA Resolving ==
  ASSUME SkillInv, NEW p \in Procs, NEW k \in SkillIds, Pinning!Resolve(p, k)
  PROVE  SkillInv'
<1>1. /\ at[p] = "ready" /\ at' = [at EXCEPT ![p] = "resolved"]
      /\ Pinning!Resolvable(p, k)
      /\ skill' = [skill EXCEPT ![p] = registry[p][k]]
      /\ UNCHANGED <<shelf, signerUntil, offered, now, changes, pin, registry, trusted,
                     catalog, grants, drifted>>
  BY DEF Pinning!Resolve, Pinning!Goto, Pinning!world
<1>2. registry[p][k] \in Pinning!Packages
  BY <1>1, SkillFacts DEF Typed
<1>3. PICK x \in Pinning!Packages : x = registry[p][k]
  BY <1>2
<1>4. x = Pinning!Seal(x.manifest, x.content)
  BY <1>1, <1>2, <1>3, ResolvableIsGenuine
<1>5. Local(p) /\ at'[p] = "resolved" /\ skill'[p] = x
  BY <1>1, <1>3, SkillFacts DEF Local, Functions, Places
<1>6. Typed(p)'
  <2>1. skill'[p] \in Pinning!Packages'
    BY <1>3, <1>5 DEF Pinning!Packages, Pinning!Manifests, Pinning!Signatures, Pinning!Never,
      Pinning!Versions
  <2>2. QED
    BY <1>1, <1>5, <2>1, SkillFacts DEF Typed
<1>7. Standing(p)'
  <2>1. CatalogIsReviewed(p)'
    BY <1>1, <1>5, SkillFacts DEF Standing, CatalogIsReviewed, Discovered
  <2>2. SkillIsGenuine(p)'
    BY <1>4, <1>5 DEF SkillIsGenuine, Pinning!Seal
  <2>3. QED
    BY <1>5, <2>1, <2>2 DEF Standing, WorkIsPinned
<1>8. QED
  BY <1>1, <1>5, <1>6, <1>7, SkillFacts, ProcessSteps

(* p goes to work with the genuine package x, and x is what is pinned.      *)
LEMMA Working ==
  ASSUME SkillInv, NEW p \in Procs, at[p] \in {"ready", "resolved"},
         NEW x \in Pinning!Packages, x = Pinning!Seal(x.manifest, x.content),
         pin \in {None, Pinning!SkillPin(x)}, pin' = Pinning!SkillPin(x),
         Pinning!WorkWith(p, x),
         UNCHANGED <<shelf, signerUntil, offered, now, changes, registry, trusted,
                     catalog, drifted>>
  PROVE  SkillInv'
<1>1. /\ at' = [at EXCEPT ![p] = "working"]
      /\ skill' = [skill EXCEPT ![p] = x]
      /\ grants' = [grants EXCEPT ![p] = Pinning!EffectiveCapabilities(p, x)]
  BY DEF Pinning!WorkWith, Pinning!Goto
<1>2. /\ Local(p) /\ at'[p] = "working" /\ skill'[p] = x
      /\ grants'[p] = Pinning!EffectiveCapabilities(p, x)
  BY <1>1, SkillFacts DEF Local, Functions, Places
<1>3. Typed(p)'
  <2>1. skill'[p] \in Pinning!Packages'
    BY <1>2 DEF Pinning!Packages, Pinning!Manifests, Pinning!Signatures, Pinning!Never,
      Pinning!Versions
  <2>2. x.manifest.grants \subseteq (Tools \cup BuiltIn) \X Pinning!Versions
    BY DEF Pinning!Packages, Pinning!Manifests
  <2>3. grants'[p] \subseteq (Tools \cup BuiltIn) \X Pinning!Versions
    BY <1>2, <2>2 DEF Pinning!EffectiveCapabilities
  <2>4. QED
    BY <1>2, <2>1, <2>3, SkillFacts DEF Typed, Pinning!Versions
<1>4. Standing(p)'
  <2>1. CatalogIsReviewed(p)'
    BY <1>2, SkillFacts DEF Standing, CatalogIsReviewed, Discovered
  <2>2. SkillIsGenuine(p)'
    BY <1>2 DEF SkillIsGenuine, Pinning!Seal
  <2>3. WorkIsPinned(p)'
    BY <1>2 DEF WorkIsPinned, Pinning!SkillPin, Pinning!EffectiveCapabilities
  <2>4. QED
    BY <2>1, <2>2, <2>3 DEF Standing
<1>5. pin' \in Pinning!Pins \cup {None}
  BY PinIsNoNone
<1>6. \A q \in Procs \ {p} : at[q] = "working" => pin' = pin
  BY WorkerHasPin
<1>7. QED
  BY <1>2, <1>3, <1>4, <1>5, <1>6, ProcessSteps

LEMMA Pinned ==
  ASSUME SkillInv, NEW p \in Procs, Pinning!PinSkill(p)
  PROVE  SkillInv'
<1>1. /\ at[p] = "resolved" /\ pin \in {None, Pinning!SkillPin(skill[p])}
      /\ pin' = Pinning!SkillPin(skill[p]) /\ Pinning!WorkWith(p, skill[p])
      /\ UNCHANGED <<shelf, signerUntil, offered, now, changes, registry, trusted,
                     catalog, drifted>>
  BY DEF Pinning!PinSkill, Pinning!world
<1>2. skill[p] \in Pinning!Packages
  BY <1>1, SkillFacts DEF Typed
<1>3. skill[p] = Pinning!Seal(skill[p].manifest, skill[p].content)
  BY <1>1, SkillFacts DEF Standing, SkillIsGenuine
<1>4. PICK x \in Pinning!Packages : x = skill[p]
  BY <1>2
<1>5. QED
  BY <1>1, <1>3, <1>4, Working

LEMMA Resuming ==
  ASSUME SkillInv, NEW p \in Procs, Pinning!Resume(p)
  PROVE  SkillInv'
<1> DEFINE k == pin.skill
<1>1. /\ at[p] = "ready" /\ pin # None /\ Pinning!Resolvable(p, k)
      /\ Pinning!SkillPin(registry[p][k]) = pin /\ pin' = pin
      /\ Pinning!WorkWith(p, registry[p][k])
      /\ UNCHANGED <<shelf, signerUntil, offered, now, changes, registry, trusted,
                     catalog, drifted>>
  BY DEF Pinning!Resume, Pinning!world
<1>2. k \in SkillIds
  BY <1>1, SkillFacts DEF Pinning!Pins
<1>3. registry[p][k] \in Pinning!Packages
  BY <1>1, <1>2, SkillFacts DEF Typed
<1> HIDE DEF k
<1>4. PICK x \in Pinning!Packages : x = registry[p][k]
  BY <1>3
<1>5. x = Pinning!Seal(x.manifest, x.content)
  BY <1>1, <1>3, <1>4, ResolvableIsGenuine
<1>6. QED
  BY <1>1, <1>4, <1>5, Working

(* Others change the world, and no process.                                 *)
LEMMA WorldTurns ==
  ASSUME SkillInv, UNCHANGED <<pin, at, registry, trusted, catalog, skill, grants>>,
         shelf' \in [SkillIds -> Pinning!Packages],
         signerUntil' \in [Signers -> 0..Pinning!Never],
         offered' \in [Tools -> {"reviewed", "changed", "missing"}],
         now' \in 0..MaxChanges, changes' \in 0..MaxChanges, now' <= changes',
         drifted' = [p \in Procs |-> drifted'[p]],
         \A p \in Procs :
           /\ drifted'[p] \subseteq Tools /\ drifted[p] \subseteq drifted'[p]
           /\ at[p] \in Discovered =>
                \A t \in Tools : offered'[t] = offered[t] \/ t \in drifted'[p]
  PROVE  SkillInv'
<1>1. ASSUME NEW p \in Procs PROVE Typed(p)' /\ Standing(p)'
  <2>1. Typed(p)'
    BY SkillFacts DEF Typed, Pinning!Packages, Pinning!Manifests, Pinning!Signatures,
      Pinning!Never, Pinning!Versions
  <2>2. Standing(p)'
    BY SkillFacts, ProcessStands
  <2>3. QED
    BY <2>1, <2>2
<1>2. Pinning!TypeOK'
  BY <1>1, SkillFacts DEF Functions, Typed, Pinning!TypeOK, Pinning!Packages,
    Pinning!Manifests, Pinning!Signatures, Pinning!Pins, Pinning!Never, Pinning!Versions, Places
<1>3. SkillTypes'
  BY <1>2, SkillFacts DEF SkillTypes, Functions
<1>4. QED
  BY <1>1, <1>3 DEF SkillInv

LEMMA WorldTypes ==
  ASSUME SkillInv
  PROVE  /\ shelf \in [SkillIds -> Pinning!Packages]
         /\ signerUntil \in [Signers -> 0..Pinning!Never]
         /\ offered \in [Tools -> {"reviewed", "changed", "missing"}]
         /\ now \in 0..MaxChanges /\ changes \in 0..MaxChanges /\ now <= changes
         /\ now \in 0..Pinning!Never
         /\ drifted = [p \in Procs |-> drifted[p]] /\ \A p \in Procs : drifted[p] \subseteq Tools
<1>1. now \in 0..MaxChanges => now \in 0..Pinning!Never
  BY BoundsAssumption DEF Pinning!Never
<1>2. QED
  BY <1>1 DEF SkillInv, SkillTypes, Pinning!TypeOK

LEMMA Replacing ==
  ASSUME SkillInv, NEW k \in SkillIds, Pinning!Replace(k)
  PROVE  SkillInv'
<1>1. PICK x \in Pinning!Replacements(shelf[k]) : shelf' = [shelf EXCEPT ![k] = x]
  BY DEF Pinning!Replace
<1>2. /\ changes < MaxChanges /\ changes' = changes + 1
      /\ UNCHANGED <<signerUntil, offered, now, pin, at, registry, trusted, catalog, skill,
                     grants, drifted>>
  BY DEF Pinning!Replace, Pinning!Change, Pinning!process
<1>3. x \in Pinning!Packages
  <2>1. PICK y \in Pinning!Packages : y = shelf[k]
    BY WorldTypes
  <2>2. QED
    BY <1>1, <2>1, WorldTypes, ReplacementIsPackage
<1>4. shelf' \in [SkillIds -> Pinning!Packages]
  BY <1>1, <1>3, WorldTypes
<1>5. changes' \in 0..MaxChanges /\ now' \in 0..MaxChanges /\ now' <= changes'
  BY <1>2, WorldTypes, BoundsAssumption
<1>6. QED
  BY <1>2, <1>4, <1>5, WorldTypes, WorldTurns

LEMMA Revoking ==
  ASSUME SkillInv, NEW s \in Signers, Pinning!RevokeSigner(s)
  PROVE  SkillInv'
<1>1. /\ signerUntil' = [signerUntil EXCEPT ![s] = now]
      /\ changes < MaxChanges /\ changes' = changes + 1
      /\ UNCHANGED <<shelf, offered, now, pin, at, registry, trusted, catalog, skill,
                     grants, drifted>>
  BY DEF Pinning!RevokeSigner, Pinning!Change, Pinning!process
<1>2. signerUntil' \in [Signers -> 0..Pinning!Never]
  BY <1>1, WorldTypes
<1>3. changes' \in 0..MaxChanges /\ now' \in 0..MaxChanges /\ now' <= changes'
  BY <1>1, WorldTypes, BoundsAssumption
<1>4. QED
  BY <1>1, <1>2, <1>3, WorldTypes, WorldTurns

LEMMA Changing ==
  ASSUME SkillInv, NEW t \in Tools, Pinning!ChangeTool(t)
  PROVE  SkillInv'
<1>1. /\ \E o \in {"reviewed", "changed", "missing"} : offered' = [offered EXCEPT ![t] = o]
      /\ drifted' = [p \in Procs |-> IF at[p] \in Discovered THEN drifted[p] \cup {t}
                                     ELSE drifted[p]]
      /\ changes < MaxChanges /\ changes' = changes + 1
      /\ UNCHANGED <<shelf, signerUntil, now, pin, at, registry, trusted, catalog, skill, grants>>
  BY DEF Pinning!ChangeTool, Pinning!Change, Pinning!process, Discovered
<1>2. /\ offered' \in [Tools -> {"reviewed", "changed", "missing"}]
      /\ \A u \in Tools : u # t => offered'[u] = offered[u]
  BY <1>1, WorldTypes
<1>3. drifted' = [p \in Procs |-> drifted'[p]]
  BY <1>1
<1>4. ASSUME NEW p \in Procs
      PROVE  /\ drifted'[p] \subseteq Tools /\ drifted[p] \subseteq drifted'[p]
             /\ at[p] \in Discovered => t \in drifted'[p]
  BY <1>1, WorldTypes
<1>5. changes' \in 0..MaxChanges /\ now' \in 0..MaxChanges /\ now' <= changes'
  BY <1>1, WorldTypes, BoundsAssumption
<1>6. QED
  BY <1>1, <1>2, <1>3, <1>4, <1>5, WorldTypes, WorldTurns

LEMMA Ticking ==
  ASSUME SkillInv, Pinning!Tick
  PROVE  SkillInv'
<1>1. /\ now' = now + 1 /\ changes < MaxChanges /\ changes' = changes + 1
      /\ UNCHANGED <<shelf, signerUntil, offered, pin, at, registry, trusted, catalog, skill,
                     grants, drifted>>
  BY DEF Pinning!Tick, Pinning!Change, Pinning!process
<1>2. changes' \in 0..MaxChanges /\ now' \in 0..MaxChanges /\ now' <= changes'
  BY <1>1, WorldTypes, BoundsAssumption
<1>3. QED
  BY <1>1, <1>2, WorldTypes, WorldTurns

LEMMA SkillsStart == Init => SkillInv
<1>1. SUFFICES ASSUME Pinning!Init PROVE SkillInv
  BY DEF Init
<1>2. ASSUME NEW k \in SkillIds PROVE Pinning!FirstPackage(k) \in Pinning!Packages
  <2> DEFINE text == CHOOSE c \in Contents : TRUE
             owner == CHOOSE s \in Signers : TRUE
  <2>1. text \in Contents /\ owner \in Signers
    BY SkillsAssumption
  <2> HIDE DEF text, owner
  <2>2. [skill |-> k, sha256 |-> text, signer |-> owner,
         grants |-> (Tools \cup BuiltIn) \X Pinning!Versions, maximum |-> 0,
         until |-> Pinning!Never, applies |-> TRUE] \in Pinning!Manifests
    BY <2>1, BoundsAssumption DEF Pinning!Manifests, Pinning!Never
  <2>3. QED
    BY <2>1, <2>2, SealIsPackage DEF Pinning!FirstPackage, text, owner
<1>3. Pinning!Never \in 0..Pinning!Never /\ 0 \in 0..MaxChanges
  BY BoundsAssumption DEF Pinning!Never
<1>4. Functions /\ \A p \in Procs : Typed(p) /\ at[p] = "down"
  BY <1>1 DEF Pinning!Init, Functions, Typed, Places
<1>5. SkillTypes
  <2>1. /\ shelf \in [SkillIds -> Pinning!Packages]
        /\ signerUntil \in [Signers -> 0..Pinning!Never]
        /\ offered \in [Tools -> {"reviewed", "changed", "missing"}]
        /\ now \in 0..MaxChanges /\ changes \in 0..MaxChanges /\ now <= changes
        /\ pin \in Pinning!Pins \cup {None}
    BY <1>1, <1>2, <1>3 DEF Pinning!Init
  <2>2. QED
    BY <1>4, <2>1 DEF SkillTypes, Pinning!TypeOK, Functions, Typed, Places
<1>6. \A p \in Procs : Standing(p)
  BY <1>4 DEF Standing, CatalogIsReviewed, SkillIsGenuine, WorkIsPinned, Discovered
<1>7. QED
  BY <1>5, <1>6 DEF SkillInv

LEMMA SkillsStep == SkillInv /\ [Next]_vars => SkillInv'
<1>1. SUFFICES ASSUME SkillInv, Pinning!Next \/ UNCHANGED skills PROVE SkillInv'
  BY DEF Next, vars
<1>2. CASE UNCHANGED skills
  <2>1. UNCHANGED <<shelf, signerUntil, offered, now, changes, pin, at, registry, trusted,
                    catalog, skill, grants, drifted>>
    BY <1>2 DEF skills
  <2>2. /\ shelf' \in [SkillIds -> Pinning!Packages]
        /\ signerUntil' \in [Signers -> 0..Pinning!Never]
        /\ offered' \in [Tools -> {"reviewed", "changed", "missing"}]
        /\ now' \in 0..MaxChanges /\ changes' \in 0..MaxChanges /\ now' <= changes'
        /\ drifted' = [p \in Procs |-> drifted'[p]] /\ \A p \in Procs : drifted'[p] \subseteq Tools
    BY <1>1, <2>1, WorldTypes
  <2>3. QED
    BY <1>1, <2>1, <2>2, WorldTurns
<1>3. QED
  BY <1>1, <1>2, Loading, Connecting, Discovering, Resolving, Pinned, Resuming, Stopping,
    Replacing, Revoking, Changing, Ticking
  DEF Pinning!Next

LEMMA SkillsHold ==
  ASSUME SkillInv
  PROVE  SkillStaysPinned
<1>1. ASSUME NEW p \in Procs, at[p] = "working"
      PROVE  /\ skill[p] \in Pinning!Packages
             /\ skill[p] = Pinning!Seal(skill[p].manifest, skill[p].content)
             /\ Pinning!SkillPin(skill[p]) = pin
             /\ grants[p] = Pinning!EffectiveCapabilities(p, skill[p])
             /\ DOMAIN catalog[p] \subseteq Tools \cup BuiltIn
             /\ \A t \in DOMAIN catalog[p] \cap Tools : offered[t] = "reviewed" \/ t \in drifted[p]
  BY <1>1, SkillFacts DEF Typed, Standing, CatalogIsReviewed, SkillIsGenuine, WorkIsPinned,
    Discovered
<1>2. ASSUME NEW p \in Procs, at[p] = "working"
      PROVE  /\ skill[p].signature.manifest = skill[p].manifest
             /\ skill[p].signature.content = skill[p].content
  <2>1. PICK x \in Pinning!Packages : x = skill[p] /\ x = Pinning!Seal(x.manifest, x.content)
    BY <1>1, <1>2
  <2>2. x.signature.manifest = x.manifest /\ x.signature.content = x.content
    BY <2>1 DEF Pinning!Seal
  <2>3. QED
    BY <2>1, <2>2
<1>3. ASSUME NEW p \in Procs, at[p] = "working", NEW q \in Procs, at[q] = "working"
      PROVE  skill[q] = skill[p]
  BY <1>1, <1>3, PinTellsPackage
<1>4. ASSUME NEW p \in Procs, at[p] = "working", NEW g \in grants[p]
      PROVE  /\ g \in skill[p].manifest.grants
             /\ Pinning!EffectRank(g[1]) <= skill[p].manifest.maximum
             /\ catalog[p][g[1]] = g[2]
             /\ g[1] \in Tools => offered[g[1]] = "reviewed" \/ g[1] \in drifted[p]
  BY <1>1, <1>4 DEF Pinning!EffectiveCapabilities
<1>5. QED
  BY <1>1, <1>2, <1>3, <1>4 DEF SkillStaysPinned, Pinning!SkillStaysPinned

(* Whoever works on a run works with the one skill that is pinned to it,    *)
(* word for word as it was signed.                                          *)
THEOREM WorkIsUnderThePinnedSkill == Spec => []SkillStaysPinned
<1>1. SkillInv => SkillStaysPinned
  BY SkillsHold
<1>2. QED
  BY <1>1, SkillsStart, SkillsStep, PTL DEF Spec
-----------------------------------------------------------------------------
(* All parts.                                                               *)
(* The variables of every part have the types that TypeOK gives them.      *)
THEOREM ServicesTypes == Spec => []TypeOK
<1>1. PagingInv => Paging!TypeOK
  BY BoundsAssumption DEF PagingInv, PagingTypes, Paging!TypeOK
<1>2. ExportInv => Export!TypeOK
  BY DEF ExportInv, ExportTypes
<1>3. WindowInv => Window!TypeOK
  BY DEF WindowInv
<1>4. SkillInv => Pinning!TypeOK
  BY DEF SkillInv, SkillTypes
<1>5. Plan!IInv /\ ExportInv /\ PagingInv /\ WindowInv /\ SkillInv => TypeOK
  BY <1>1, <1>2, <1>3, <1>4, PlanningHolds DEF TypeOK
<1>6. QED
  BY <1>5, PlanningStarts, PlanningSteps, ExportStarts, ExportSteps, PagingStarts, PagingSteps,
    WindowStarts, WindowSteps, SkillsStart, SkillsStep, PTL DEF Spec
=============================================================================
