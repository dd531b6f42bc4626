------------------------------ MODULE Metrics ------------------------------
(***************************************************************************)
(* SQLiteMetricsCollector: events are stored first and exported later, in   *)
(* batches, by several processes that share the table, and are deleted once *)
(* they are exported and old.  Export is at least once.                     *)
(*                                                                          *)
(* An event is the number of its record() call, which also stands for its   *)
(* timestamp.  Its fields, their validation and redaction are left out.     *)
(***************************************************************************)
EXTENDS Integers, FiniteSets, FiniteSetsExt, Functions

CONSTANTS
  Exporters,  \* the processes that export
  MaxEvents,  \* bound on the events recorded
  BatchSize   \* batch_size

VARIABLES
  table,      \* metric_events: id -> the event and whether exported_at is set
  recorded,   \* events recorded so far
  step,       \* of the export() call of each exporter
  batch,      \* the rows it has selected: id -> event
  accepted,   \* the events of batches that MetricsExporter.export returned for
  shadowed    \* events that were given an id which an export under way had selected

metrics == <<table, recorded, step, batch, accepted, shadowed>>

Init ==
  /\ table = << >> /\ recorded = 0
  /\ step = [p \in Exporters |-> "idle"]
  /\ batch = [p \in Exporters |-> << >>]
  /\ accepted = {} /\ shadowed = {}

Goto(p, to) == step' = [step EXCEPT ![p] = to]

(* INTEGER PRIMARY KEY without AUTOINCREMENT: one more than the largest id  *)
(* that is there now.                                                       *)
NextId == IF DOMAIN table = {} THEN 1 ELSE Max(DOMAIN table) + 1

(* record: the INSERT.                                                      *)
RecordEvent ==
  /\ recorded < MaxEvents
  /\ recorded' = recorded + 1
  /\ table' = [i \in DOMAIN table \cup {NextId} |->
                 IF i = NextId THEN [event |-> recorded', exported |-> FALSE] ELSE table[i]]
  /\ shadowed' = IF \E p \in Exporters : NextId \in DOMAIN batch[p]
                 THEN shadowed \cup {recorded'} ELSE shadowed
  /\ UNCHANGED <<step, batch, accepted>>

Pending == {i \in DOMAIN table : ~table[i].exported}

(* export: SELECT ... WHERE exported_at IS NULL ORDER BY id LIMIT ?         *)
Select(p) ==
  /\ step[p] = "idle" /\ Pending # {}
  /\ Goto(p, "exporting")
  /\ LET first == {i \in Pending : Cardinality({j \in Pending : j < i}) < BatchSize} IN
       batch' = [batch EXCEPT ![p] = [i \in first |-> table[i].event]]
  /\ UNCHANGED <<table, recorded, accepted, shadowed>>

(* exporter.export(events) returns.                                         *)
Accept(p) ==
  /\ step[p] = "exporting"
  /\ Goto(p, "marking")
  /\ accepted' = accepted \cup Range(batch[p])
  /\ UNCHANGED <<table, recorded, batch, shadowed>>

(* UPDATE ... SET exported_at=? WHERE id=? AND exported_at IS NULL          *)
Mark(p) ==
  /\ step[p] = "marking"
  /\ Goto(p, "idle")
  /\ table' = [i \in DOMAIN table |->
                 [table[i] EXCEPT !.exported = @ \/ i \in DOMAIN batch[p]]]
  /\ batch' = [batch EXCEPT ![p] = << >>]
  /\ UNCHANGED <<recorded, accepted, shadowed>>

(* exporter.export raises, or the process dies.                             *)
Abandon(p) ==
  /\ step[p] # "idle"
  /\ Goto(p, "idle")
  /\ batch' = [batch EXCEPT ![p] = << >>]
  /\ UNCHANGED <<table, recorded, accepted, shadowed>>

(* enforce_retention: the exported rows before a cutoff are deleted.        *)
Old(cutoff) == {i \in DOMAIN table : table[i].event < cutoff}

RetainByAge(cutoff) ==           \* broken form: AND exported_at IS NOT NULL is missing
  /\ Old(cutoff) # {}
  /\ table' = Restrict(table, DOMAIN table \ Old(cutoff))
  /\ UNCHANGED <<recorded, step, batch, accepted, shadowed>>

Retain(cutoff) ==
  /\ Old(cutoff) \ Pending # {}
  /\ table' = Restrict(table, Pending \cup (DOMAIN table \ Old(cutoff)))
  /\ UNCHANGED <<recorded, step, batch, accepted, shadowed>>

Next ==
  \/ RecordEvent
  \/ \E p \in Exporters : Select(p) \/ Accept(p) \/ Mark(p) \/ Abandon(p)
  \/ \E cutoff \in 2..MaxEvents + 1 : Retain(cutoff)
-----------------------------------------------------------------------------
(* Properties.                                                              *)
(* The variables have their types, and no two rows hold one event.          *)
TypeOK ==
  /\ \A i \in DOMAIN table : table[i] \in [event : 1..recorded, exported : BOOLEAN]
  /\ \A i, j \in DOMAIN table : table[i].event = table[j].event => i = j
  /\ \A p \in Exporters : /\ Range(batch[p]) \subseteq 1..recorded
                          /\ step[p] = "idle" <=> DOMAIN batch[p] = {}
  /\ accepted \subseteq 1..recorded /\ shadowed \subseteq 1..recorded

(* No event is lost: until it was exported it stays in the table and        *)
(* pending, whatever two exporters, their deaths and retention do.  The     *)
(* exception is real: the largest id is given again after its row was       *)
(* deleted, and an export that had selected the row before marks the new    *)
(* event, which was never exported.                                         *)
NoEventIsLost ==
  \A e \in 1..recorded :
    e \in accepted \cup shadowed \/ \E i \in Pending : table[i].event = e
=============================================================================
