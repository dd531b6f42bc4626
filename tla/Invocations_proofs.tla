------------------------- MODULE Invocations_proofs -------------------------
(***************************************************************************)
(* Proofs about Invocations, for any processes, contents and bounds.        *)
(***************************************************************************)
EXTENDS Invocations, TLAPS

Labels == {"idle", "answering", "calling", "selecting", "inserting", "restarting"} \cup Running

(* p stands at an invocation.                                               *)
Invoking == {"selecting", "inserting", "restarting"} \cup Running

(* What the place of a session says of its variables.                       *)
Control ==
  /\ DOMAIN records = Procs
  /\ \A p \in Procs :
       /\ pc[p] \notin {"idle", "answering"} => at[p].turn <= MaxTurns
       /\ pc[p] \in Invoking => call[p] \in Calls
       /\ pc[p] = "restarting" => MayRestart(call[p].effect)
       /\ pc[p] = "updating" => call[p].effect = Memory
       /\ pc[p] \in {"handling", "finishing"} => call[p].effect = Process
       /\ job[p].step # "idle" => job[p].content \in Contents
       /\ job[p].step = "writing" => job[p].revision < MaxItems

TypeInv == TypeOK /\ Control

(* The states in which a run has a gateway are states of a run.             *)
LEMMA StagesAreStates == Stages \subseteq RunState
<1>1. Flow[5] = "IMPLEMENT" /\ Flow[6] = "VALIDATE" /\ 5 \in 1..10 /\ 6 \in 1..10
  BY DEF Flow
<1>2. "IMPLEMENT" \in RunState /\ "VALIDATE" \in RunState
  BY <1>1 DEF RunState
<1>3. QED
  BY <1>2 DEF Stages, RunState, Aborted

(* The next tool call of an answer, or the next turn.                       *)
LEMMA ReturnTypes ==
  ASSUME TypeInv, NEW p \in Procs, at[p].turn <= MaxTurns, ReturnToModel(p)
  PROVE  /\ pc' \in [Procs -> Labels] /\ pc'[p] \in {"calling", "answering"}
         /\ pc'[p] = "calling" => at'[p].turn <= MaxTurns
         /\ at' \in [Procs -> Places]
         /\ call' \in [Procs -> Calls \cup {NoCall}]
         /\ job' = [job EXCEPT ![p] = Idle]
         /\ \A q \in Procs \ {p} :
              pc'[q] = pc[q] /\ at'[q] = at[q] /\ call'[q] = call[q]
<1>1. at[p] \in Places /\ at \in [Procs -> Places] /\ pc \in [Procs -> Labels]
  BY DEF TypeInv, TypeOK, Labels
<1>2. CASE at[p].tool < MaxTools /\ at' = [at EXCEPT ![p].tool = @ + 1] /\ Goto(p, "calling")
  <2>1. [at[p] EXCEPT !.tool = @ + 1] \in Places
    BY <1>1, <1>2, InvocationsAssumption DEF Places
  <2>2. at' = [at EXCEPT ![p] = [at[p] EXCEPT !.tool = @ + 1]]
    BY <1>1, <1>2
  <2>3. at'[p].turn = at[p].turn
    BY <1>1, <2>2 DEF Places
  <2>4. QED
    BY <1>1, <1>2, <2>1, <2>2, <2>3 DEF ReturnToModel, Goto, Labels, TypeInv, TypeOK
<1>3. CASE /\ at' = [at EXCEPT ![p] = [stage |-> @.stage, turn |-> @.turn + 1, tool |-> 1]]
           /\ Goto(p, "answering")
  <2>1. [stage |-> at[p].stage, turn |-> at[p].turn + 1, tool |-> 1] \in Places
    BY <1>1, InvocationsAssumption DEF Places
  <2>2. QED
    BY <1>1, <1>3, <2>1 DEF ReturnToModel, Goto, Labels, TypeInv, TypeOK
<1>4. QED
  BY <1>2, <1>3 DEF ReturnToModel

(* A tool call that ends keeps the types, whatever was recorded of it.      *)
LEMMA ReturnKeeps ==
  ASSUME TypeInv, NEW p \in Procs, at[p].turn <= MaxTurns, ReturnToModel(p),
         used' \in [Procs -> 0..MaxInvocations],
         DOMAIN rows' = DOMAIN rows, \A i \in DOMAIN rows : rows'[i] \in Status,
         DOMAIN records' = Procs,
         \A i \in DOMAIN records'[p] : records'[p][i] \in Status \cup {"CANCELLED"},
         \A q \in Procs \ {p} : records'[q] = records[q],
         UNCHANGED <<runState, memory, stolen>>
  PROVE  TypeInv'
<1>1. /\ pc' \in [Procs -> Labels] /\ pc'[p] \in {"calling", "answering"}
      /\ pc'[p] = "calling" => at'[p].turn <= MaxTurns
      /\ at' \in [Procs -> Places]
      /\ call' \in [Procs -> Calls \cup {NoCall}]
      /\ job' = [job EXCEPT ![p] = Idle]
      /\ \A q \in Procs \ {p} :
           pc'[q] = pc[q] /\ at'[q] = at[q] /\ call'[q] = call[q]
  BY ReturnTypes
<1>2. MemoryTypeOK'
  BY <1>1 DEF TypeInv, TypeOK, MemoryTypeOK, memory, Idle
<1>3. \A q \in Procs \ {p} : job'[q] = job[q]
  BY <1>1 DEF TypeInv, TypeOK, MemoryTypeOK
<1>4. job'[p].step = "idle"
  BY <1>1 DEF TypeInv, TypeOK, MemoryTypeOK, Idle
<1>5. TypeOK'
  <2>1. \A q \in Procs : pc'[q] \in Running =>
          Identity(q)' \in DOMAIN rows' /\ Identity(q)' \in DOMAIN records'[q]
    BY <1>1 DEF TypeInv, TypeOK, Running, Identity
  <2>2. \A q \in Procs : \A i \in DOMAIN records'[q] :
          records'[q][i] \in Status \cup {"CANCELLED"}
    BY DEF TypeInv, TypeOK
  <2>3. QED
    BY <1>1, <1>2, <2>1, <2>2 DEF TypeInv, TypeOK, Labels
<1>6. Control'
  BY <1>1, <1>3, <1>4 DEF TypeInv, Control, Invoking, Running
<1>7. QED
  BY <1>5, <1>6 DEF TypeInv

(* So does the end of a session.                                            *)
LEMMA LeaveKeeps ==
  ASSUME TypeInv, NEW p \in Procs, Leave(p), UNCHANGED <<runState, memory, rows, stolen>>
  PROVE  TypeInv'
<1>1. Start \in Places
  BY InvocationsAssumption DEF Start, Places, GatewayStages
<1>2. job' \in [Procs -> [step : {"idle", "reading", "stale", "writing", "returned", "raised"},
                          revision : Nat, content : Contents \cup {None}]]
  BY DEF Leave, TypeInv, TypeOK, MemoryTypeOK, Idle
<1>3. MemoryTypeOK'
  BY <1>2 DEF TypeInv, TypeOK, MemoryTypeOK, memory
<1>4. /\ pc' = [pc EXCEPT ![p] = "idle"] /\ at' = [at EXCEPT ![p] = Start]
      /\ call' = [call EXCEPT ![p] = NoCall] /\ used' = [used EXCEPT ![p] = 0]
      /\ records' = [records EXCEPT ![p] = << >>] /\ job' = [job EXCEPT ![p] = Idle]
  BY DEF Leave, Goto
<1>5. TypeOK'
  <2>1. \A q \in Procs : pc'[q] \in Running =>
          Identity(q)' \in DOMAIN rows' /\ Identity(q)' \in DOMAIN records'[q]
    BY <1>4 DEF TypeInv, TypeOK, Running, Identity, Control
  <2>2. \A q \in Procs : \A i \in DOMAIN records'[q] :
          records'[q][i] \in Status \cup {"CANCELLED"}
    BY <1>4 DEF TypeInv, TypeOK, Control
  <2>3. /\ pc' \in [Procs -> Labels] /\ at' \in [Procs -> Places]
        /\ call' \in [Procs -> Calls \cup {NoCall}] /\ used' \in [Procs -> 0..MaxInvocations]
    BY <1>1, <1>4, InvocationsAssumption DEF TypeInv, TypeOK, Labels
  <2>4. QED
    BY <1>3, <2>1, <2>2, <2>3 DEF TypeInv, TypeOK, Labels
<1>6. Control'
  BY <1>4 DEF TypeInv, TypeOK, MemoryTypeOK, Control, Invoking, Running, Idle
<1>7. QED
  BY <1>5, <1>6 DEF TypeInv

(* A session that only moves on, to where what it stands at allows.         *)
LEMMA MoveKeeps ==
  ASSUME TypeInv, NEW p \in Procs, NEW l \in Labels, Goto(p, l),
         pc[p] \in Invoking, l \in Invoking,
         l = "restarting" => MayRestart(call[p].effect),
         l # "updating",
         l \in {"handling", "finishing"} => call[p].effect = Process,
         l \in Running => pc[p] \in Running,
         UNCHANGED <<runState, memory, job, rows, at, call, used, records, stolen>>
  PROVE  TypeInv'
<1>1. pc' = [pc EXCEPT ![p] = l]
  BY DEF Goto
<1>2. TypeOK'
  BY <1>1 DEF TypeInv, TypeOK, MemoryTypeOK, memory, Labels, Identity
<1>3. Control'
  BY <1>1 DEF TypeInv, TypeOK, Control, Labels, Invoking, Running
<1>4. QED
  BY <1>2, <1>3 DEF TypeInv

(* The handler is called only after the row and the record are made.        *)
LEMMA RunKeeps ==
  ASSUME TypeInv, NEW p \in Procs, pc[p] \in {"inserting", "restarting"}, Run(p)
  PROVE  TypeInv'
<1> DEFINE i == Identity(p)
<1>1. call[p] \in Calls /\ i \in Places \X Calls
  BY DEF TypeInv, TypeOK, Control, Invoking, Identity
<1>2. call[p].effect \in {Memory, Process} /\ call[p].revision \in Nat
      /\ (call[p].effect = Memory => call[p].content \in Contents)
  BY <1>1, InvocationsAssumption DEF Calls, Memory, Process
<1>3. rows' = Put(rows, i, "RUNNING")
      /\ records' = [records EXCEPT ![p] = Put(records[p], i, "RUNNING")]
  BY DEF Run, Record, TypeInv, Control
<1>4. /\ DOMAIN rows' = DOMAIN rows \cup {i} /\ rows'[i] = "RUNNING"
      /\ \A j \in DOMAIN rows : j # i => rows'[j] = rows[j]
  BY <1>3 DEF Put
<1>5. /\ DOMAIN records'[p] = DOMAIN records[p] \cup {i} /\ records'[p][i] = "RUNNING"
      /\ \A j \in DOMAIN records[p] : j # i => records'[p][j] = records[p][j]
      /\ DOMAIN records' = Procs /\ \A q \in Procs \ {p} : records'[q] = records[q]
  BY <1>3 DEF Put, TypeInv, Control
<1>6. UNCHANGED <<runState, memory, at, call, used, stolen>>
  BY DEF Run
<1>7. \/ /\ call[p].effect = Memory /\ pc' = [pc EXCEPT ![p] = "updating"]
         /\ job' = [job EXCEPT ![p] = [step |-> "reading", revision |-> call[p].revision,
                                       content |-> call[p].content]]
      \/ call[p].effect = Process /\ pc' = [pc EXCEPT ![p] = "handling"] /\ job' = job
  BY DEF Run, CallHandler, CallUpdate, Goto
<1>8. MemoryTypeOK'
  <2>1. job' \in [Procs -> [step : {"idle", "reading", "stale", "writing", "returned", "raised"},
                            revision : Nat, content : Contents \cup {None}]]
    BY <1>2, <1>7 DEF TypeInv, TypeOK, MemoryTypeOK
  <2>2. QED
    BY <1>6, <2>1 DEF TypeInv, TypeOK, MemoryTypeOK, memory
<1>9. TypeOK'
  <2>1. DOMAIN rows' \subseteq Places \X Calls /\ \A j \in DOMAIN rows' : rows'[j] \in Status
    BY <1>1, <1>4 DEF TypeInv, TypeOK, Status
  <2>2. \A q \in Procs : \A j \in DOMAIN records'[q] :
          records'[q][j] \in Status \cup {"CANCELLED"}
    BY <1>5 DEF TypeInv, TypeOK, Status
  <2>3. pc' \in [Procs -> Labels]
    BY <1>7 DEF TypeInv, TypeOK, Labels, Running
  <2>4. \A q \in Procs : pc'[q] \in Running =>
          Identity(q)' \in DOMAIN rows' /\ Identity(q)' \in DOMAIN records'[q]
    <3>1. \A q \in Procs : Identity(q)' = Identity(q)
      BY <1>6 DEF Identity
    <3>2. QED
      BY <1>4, <1>5, <1>7, <3>1 DEF TypeInv, TypeOK, Running
  <2>5. stolen' \subseteq DOMAIN rows'
    BY <1>4, <1>6 DEF TypeInv, TypeOK
  <2>6. QED
    BY <1>6, <1>8, <2>1, <2>2, <2>3, <2>4, <2>5 DEF TypeInv, TypeOK, Labels
<1>10. Control'
  <2>1. \A q \in Procs \ {p} : pc'[q] = pc[q] /\ job'[q] = job[q]
    BY <1>7 DEF TypeInv, TypeOK, MemoryTypeOK
  <2>2. at[p].turn <= MaxTurns
    BY DEF TypeInv, Control
  <2>3. /\ pc'[p] \in {"updating", "handling"}
        /\ pc'[p] = "updating" => call[p].effect = Memory
        /\ pc'[p] = "handling" => call[p].effect = Process
        /\ job'[p].step # "idle" => job'[p].content \in Contents
        /\ job'[p].step = "writing" => job'[p].revision < MaxItems
    BY <1>2, <1>7 DEF TypeInv, TypeOK, MemoryTypeOK, Control
  <2>4. QED
    BY <1>1, <1>5, <1>6, <2>1, <2>2, <2>3 DEF TypeInv, Control
<1>11. QED
  BY <1>9, <1>10 DEF TypeInv
-----------------------------------------------------------------------------
(* A step of update().                                                      *)
LEMMA UpdateTypes ==
  ASSUME TypeInv, NEW p \in Procs, UpdateMemory(p)
  PROVE  TypeInv'
<1>1. UNCHANGED <<runState, rows, pc, at, call, used, records, ran, stolen>>
  BY DEF UpdateMemory, Update, ReadLedger, FindApplied, WriteLedger, RejectWrite, session
<1>2. /\ job \in [Procs -> [step : {"idle", "reading", "stale", "writing", "returned", "raised"},
                            revision : Nat, content : Contents \cup {None}]]
      /\ ledger \in Seq(Contents) /\ Len(ledger) \in Nat /\ Len(ledger) <= MaxItems
  BY DEF TypeInv, TypeOK, MemoryTypeOK
<1>3. PICK s \in {"stale", "raised", "writing", "returned"} :
          /\ job' = [job EXCEPT ![p].step = s]
          /\ s = "writing" => job[p].revision < MaxItems
  BY <1>2, InvocationsAssumption DEF UpdateMemory, Update, ReadLedger, FindApplied, WriteLedger,
    RejectWrite, JobGoes
<1>4. job[p].step # "idle"
  BY <1>2 DEF UpdateMemory, Update, ReadLedger, FindApplied, WriteLedger, RejectWrite, JobAt
<1>5. job' \in [Procs -> [step : {"idle", "reading", "stale", "writing", "returned", "raised"},
                            revision : Nat, content : Contents \cup {None}]]
  BY <1>2, <1>3
<1>6. /\ ledger' \in Seq(Contents) /\ Len(ledger') <= MaxItems
      /\ DOMAIN updates' = {r \in 1..Len(ledger') : r > Len(ledger') - MaxHistory}
  <2>1. CASE UNCHANGED memory
    BY <2>1 DEF memory, TypeInv, TypeOK, MemoryTypeOK
  <2>2. CASE WriteLedger(p)
    <3>1. job[p].content \in Contents /\ Len(ledger) = job[p].revision
          /\ Len(ledger) < MaxItems /\ ledger' = Append(ledger, job[p].content)
      BY <1>2, <1>4, <2>2 DEF WriteLedger, TypeInv, Control, JobAt
    <3>2. ledger' \in Seq(Contents) /\ Len(ledger') = Len(ledger) + 1
      BY <1>2, <3>1
    <3>3. DOMAIN updates' = Kept(Len(ledger) + 1)
      BY <2>2, <3>1 DEF WriteLedger
    <3>4. DOMAIN updates = {r \in 1..Len(ledger) : r > Len(ledger) - MaxHistory}
      BY DEF TypeInv, TypeOK, MemoryTypeOK
    <3>5. QED
      BY <1>2, <3>1, <3>2, <3>3, <3>4, InvocationsAssumption DEF Kept
  <2>3. QED
    BY <2>1, <2>2 DEF UpdateMemory, Update, ReadLedger, FindApplied, RejectWrite
<1>7. TypeOK'
  BY <1>1, <1>5, <1>6 DEF TypeInv, TypeOK, MemoryTypeOK, Identity
<1>8. Control'
  BY <1>1, <1>2, <1>3, <1>4 DEF TypeInv, Control
<1>9. QED
  BY <1>7, <1>8 DEF TypeInv

(* A recovery only turns RUNNING into INTERRUPTED, and remembers where it   *)
(* met a process that was alive.                                            *)
LEMMA RecoverDoes ==
  ASSUME Recover
  PROVE  /\ DOMAIN rows' = DOMAIN rows
         /\ \A i \in DOMAIN rows :
              rows'[i] = IF rows[i] = "RUNNING" THEN "INTERRUPTED" ELSE rows[i]
         /\ stolen \subseteq stolen' /\ stolen' \subseteq stolen \cup DOMAIN rows
         /\ \A i \in DOMAIN rows : rows[i] = "RUNNING" /\ RunnersOf(i) # {} => i \in stolen'
         /\ UNCHANGED <<runState, memory, job, pc, at, call, used, records, ran>>
<1> DEFINE running == {i \in DOMAIN rows : rows[i] = "RUNNING"}
<1>1. /\ rows' = [i \in DOMAIN rows |-> IF i \in running THEN "INTERRUPTED" ELSE rows[i]]
      /\ stolen' = stolen \cup {i \in running : RunnersOf(i) # {}}
      /\ UNCHANGED <<runState, memory, job, pc, at, call, used, records, ran>>
  BY DEF Recover, session
<1>2. /\ DOMAIN rows' = DOMAIN rows
      /\ \A i \in DOMAIN rows :
           rows'[i] = IF rows[i] = "RUNNING" THEN "INTERRUPTED" ELSE rows[i]
  BY <1>1
<1>3. /\ stolen \subseteq stolen' /\ stolen' \subseteq stolen \cup DOMAIN rows
      /\ \A i \in DOMAIN rows : rows[i] = "RUNNING" /\ RunnersOf(i) # {} => i \in stolen'
  BY <1>1
<1>4. QED
  BY <1>1, <1>2, <1>3

(* A session that has called something is at a place, with a call, of the   *)
(* right types.                                                             *)
LEMMA RunsAreTyped ==
  ASSUME TypeInv, NEW p \in Procs, pc[p] \notin {"idle", "answering"}
  PROVE  /\ at[p].turn <= MaxTurns
         /\ pc[p] \in Invoking => Identity(p) \in Places \X Calls
BY DEF TypeInv, TypeOK, Control, Identity

(* The types and the control are kept by every step.                        *)
LEMMA TypeStep ==
  ASSUME TypeInv, [Next]_vars
  PROVE  TypeInv'
<1> USE DEF At
<1>1. ASSUME NEW p \in Procs, RunSession(p) PROVE TypeInv'
  <2>1. /\ pc' = [pc EXCEPT ![p] = "answering"] /\ at' = [at EXCEPT ![p].stage = runState]
        /\ runState \in GatewayStages
        /\ UNCHANGED <<runState, memory, job, rows, call, used, records, stolen>>
    BY <1>1 DEF RunSession, Goto
  <2>2. at' \in [Procs -> Places]
    BY <2>1 DEF TypeInv, TypeOK, Places
  <2>3. TypeOK'
    BY <2>1, <2>2 DEF TypeInv, TypeOK, MemoryTypeOK, memory, Identity, Running
  <2>4. Control'
    BY <2>1 DEF TypeInv, TypeOK, Control, Invoking, Running
  <2>5. QED
    BY <2>3, <2>4 DEF TypeInv
<1>2. ASSUME NEW p \in Procs, EndSession(p) \/ InvocationLimit(p) \/ Crash(p) PROVE TypeInv'
  BY <1>2, LeaveKeeps DEF EndSession, InvocationLimit, Crash
<1>3. ASSUME NEW p \in Procs, NEW c \in Calls, Invoke(p, c) PROVE TypeInv'
  <2>1. /\ pc' = [pc EXCEPT ![p] = "selecting"] /\ call' = [call EXCEPT ![p] = c]
        /\ used' = [used EXCEPT ![p] = @ + 1] /\ used[p] < MaxInvocations
        /\ UNCHANGED <<runState, memory, job, rows, at, records, stolen>>
    BY <1>3 DEF Invoke, Goto
  <2>2. at[p].turn <= MaxTurns
    BY <1>3 DEF Invoke, MayCall, TypeInv, Control
  <2>3. used' \in [Procs -> 0..MaxInvocations]
    BY <2>1, InvocationsAssumption DEF TypeInv, TypeOK
  <2>4. TypeOK'
    BY <2>1, <2>3 DEF TypeInv, TypeOK, MemoryTypeOK, memory, Identity, Running
  <2>5. Control'
    BY <2>1, <2>2 DEF TypeInv, TypeOK, Control, Invoking, Running
  <2>6. QED
    BY <2>4, <2>5 DEF TypeInv
<1>4. ASSUME NEW p \in Procs, NEW c \in Calls, Deny(p, c) PROVE TypeInv'
  <2>1. at[p].turn <= MaxTurns
    BY <1>4 DEF Deny, MayCall, TypeInv, Control
  <2>2. used' \in [Procs -> 0..MaxInvocations]
    BY <1>4, InvocationsAssumption DEF Deny, TypeInv, TypeOK
  <2>3. /\ ReturnToModel(p) /\ UNCHANGED <<runState, memory, rows, records, stolen>>
        /\ \A i \in DOMAIN rows : rows[i] \in Status
        /\ \A i \in DOMAIN records[p] : records[p][i] \in Status \cup {"CANCELLED"}
        /\ DOMAIN records = Procs
    BY <1>4 DEF Deny, TypeInv, TypeOK, Control
  <2>4. QED
    BY <2>1, <2>2, <2>3, ReturnKeeps
<1>5. ASSUME NEW p \in Procs, NEW i \in DOMAIN records[p], ModelCancels(p, i) PROVE TypeInv'
  <2>1. at[p].turn <= MaxTurns
    BY <1>5 DEF ModelCancels, MayCall, TypeInv, Control
  <2>2. records' = [records EXCEPT ![p] = Put(records[p], i, "CANCELLED")]
    BY <1>5 DEF ModelCancels, Record, TypeInv, Control
  <2>3. QED
    BY <1>5, <2>1, <2>2, ReturnKeeps DEF ModelCancels, Put, TypeInv, TypeOK, Control
<1>6. ASSUME NEW p \in Procs, FindNone(p) \/ FindInterrupted(p) \/ FinishRaises(p)
      PROVE  TypeInv'
  <2>1. CASE FindNone(p)
    BY <2>1, MoveKeeps DEF FindNone, Labels, Running, Invoking
  <2>2. CASE FindInterrupted(p)
    BY <2>2, MoveKeeps DEF FindInterrupted, Restartable, Labels, Running, Invoking
  <2>3. CASE FinishRaises(p)
    BY <2>3, MoveKeeps DEF FinishRaises, Handled, Labels, Running, Invoking
  <2>4. QED
    BY <1>6, <2>1, <2>2, <2>3
<1>7. ASSUME NEW p \in Procs, Replay(p) PROVE TypeInv'
  <2>1. at[p].turn <= MaxTurns
    BY <1>7, RunsAreTyped DEF Replay
  <2>2. Shown(StatusOf(Identity(p))) \in Status
    BY <1>7 DEF Replay, Shown, StatusOf, Status, TypeInv, TypeOK
  <2>3. records' = [records EXCEPT ![p] =
                      Put(records[p], Identity(p), Shown(StatusOf(Identity(p))))]
    BY <1>7 DEF Replay, Record, TypeInv, Control
  <2>4. QED
    BY <1>7, <2>1, <2>2, <2>3, ReturnKeeps DEF Replay, Put, TypeInv, TypeOK, Control
<1>8. ASSUME NEW p \in Procs, Insert(p) \/ Restart(p) PROVE TypeInv'
  BY <1>8, RunKeeps DEF Insert, Restart
<1>9. ASSUME NEW p \in Procs, BeginRaises(p) PROVE TypeInv'
  <2>1. at[p].turn <= MaxTurns
    BY <1>9, RunsAreTyped DEF BeginRaises
  <2>2. QED
    BY <1>9, <2>1, ReturnKeeps DEF BeginRaises, TypeInv, TypeOK, Control
<1>10. ASSUME NEW p \in Procs, HandleProcess(p) PROVE TypeInv'
  <2>1. PICK l \in {"finishing", "failing"} : Goto(p, l)
    BY <1>10 DEF HandleProcess
  <2>2. pc[p] = "handling" /\ call[p].effect = Process
    BY <1>10 DEF HandleProcess, TypeInv, Control
  <2>3. QED
    BY <1>10, <2>1, <2>2, MoveKeeps DEF HandleProcess, Labels, Running, Invoking
<1>11. ASSUME NEW p \in Procs, UpdateMemory(p) PROVE TypeInv'
  BY <1>11, UpdateTypes
<1>12. ASSUME NEW p \in Procs, Finish(p) \/ Fail(p) PROVE TypeInv'
  <2>1. at[p].turn <= MaxTurns
    BY <1>12, RunsAreTyped DEF Finish, Fail, Handled, HasRaised
  <2>2. PICK e \in {"SUCCEEDED", "FAILED"} :
          /\ rows' = [rows EXCEPT ![Identity(p)] = IF @ = "RUNNING" THEN e ELSE @]
                \/ rows' = [rows EXCEPT ![Identity(p)] = e]
          /\ records' = [records EXCEPT ![p] = Put(records[p], Identity(p), e)]
    BY <1>12 DEF Finish, Fail, Record, TypeInv, Control
  <2>3. DOMAIN rows' = DOMAIN rows /\ \A i \in DOMAIN rows : rows'[i] \in Status
    BY <2>2 DEF TypeInv, TypeOK, Status
  <2>4. ReturnToModel(p) /\ UNCHANGED <<runState, memory, used, stolen>>
    BY <1>12 DEF Finish, Fail
  <2>5. QED
    BY <2>1, <2>2, <2>3, <2>4, ReturnKeeps DEF Put, TypeInv, TypeOK, Control, Status
<1>13. ASSUME Recover PROVE TypeInv'
  <2>1. TypeOK'
    BY <1>13, RecoverDoes DEF TypeInv, TypeOK, MemoryTypeOK, memory, Identity, Status
  <2>2. Control'
    BY <1>13, RecoverDoes DEF TypeInv, Control
  <2>3. QED
    BY <2>1, <2>2 DEF TypeInv
<1>14. ASSUME NEW to \in Stages, MoveRun(to) PROVE TypeInv'
  BY <1>14, StagesAreStates DEF MoveRun, session, TypeInv, TypeOK, MemoryTypeOK, memory, Control,
    Identity
<1>15. CASE UNCHANGED vars
  BY <1>15 DEF vars, session, TypeInv, TypeOK, MemoryTypeOK, memory, Control, Identity
<1>16. QED
  BY <1>1, <1>2, <1>3, <1>4, <1>5, <1>6, <1>7, <1>8, <1>9, <1>10, <1>11, <1>12, <1>13, <1>14,
    <1>15 DEF Next, Work

LEMMA TypeInit == Init => TypeInv
<1> SUFFICES ASSUME Init PROVE TypeInv
  OBVIOUS
<1>1. Start \in Places
  BY InvocationsAssumption DEF Start, Places, GatewayStages
<1>2. PICK c \in Contents :
        rows = [i \in {<<Start, [effect |-> Memory, revision |-> 0, content |-> c]>>} |-> "LEGACY"]
  BY DEF Init
<1>3. [effect |-> Memory, revision |-> 0, content |-> c] \in Calls
  BY InvocationsAssumption DEF Calls
<1>4. DOMAIN rows \subseteq Places \X Calls /\ \A i \in DOMAIN rows : rows[i] \in Status
  BY <1>1, <1>2, <1>3 DEF Status
<1>5. runState \in Stages /\ runState \in RunState
  BY StagesAreStates DEF Init, GatewayStages, Stages
<1>6. MemoryTypeOK
  <2>1. ledger = << >> /\ updates = << >> /\ job = [p \in Procs |-> Idle]
    BY DEF Init, MemoryInit
  <2>2. ledger \in Seq(Contents) /\ Len(ledger) = 0 /\ DOMAIN updates = {}
    BY <2>1
  <2>3. QED
    BY <1>5, <2>1, <2>2, InvocationsAssumption DEF MemoryTypeOK, Idle
<1>7. TypeOK
  BY <1>1, <1>4, <1>5, <1>6, InvocationsAssumption DEF Init, TypeOK, Running
<1>8. Control
  BY DEF Init, MemoryInit, Control, Invoking, Running, Idle
<1>9. QED
  BY <1>7, <1>8 DEF TypeInv

LEMMA TypesHold == Spec => []TypeInv
<1>1. TypeInv /\ [Next]_vars => TypeInv'
  BY TypeStep
<1>2. QED
  BY <1>1, TypeInit, PTL DEF Spec

(* The variables have their types, and a session that is at a handler has   *)
(* its row and its record.                                                  *)
THEOREM TypesAreKept == Spec => []TypeOK
<1>1. TypeInv => TypeOK
  BY DEF TypeInv
<1>2. QED
  BY <1>1, TypesHold, PTL
-----------------------------------------------------------------------------
(* What a step does to the processes that are at a handler, to the rows and *)
(* to the effects: three lemmas, so that the proofs below need not look at  *)
(* every action again.                                                      *)

(* Whoever is at a handler after the step was there before it.              *)
SameRunners ==
  \A q \in Procs : pc'[q] \in Running =>
    /\ pc[q] \in Running
    /\ Identity(q)' = Identity(q)
    /\ pc'[q] = "handling" => pc[q] = "handling"
    /\ pc'[q] = "updating" => pc[q] = "updating"

LEMMA MovingOn ==
  ASSUME TypeInv, NEW p \in Procs, NEW l \in {"finishing", "failing"}, Goto(p, l),
         pc[p] \in Running, UNCHANGED <<at, call>>
  PROVE  SameRunners
BY DEF SameRunners, Goto, Identity, Running, TypeInv, TypeOK

LEMMA NobodyNew ==
  ASSUME TypeInv, NEW p \in Procs, pc'[p] \notin Running,
         \A q \in Procs \ {p} : pc'[q] = pc[q] /\ at'[q] = at[q] /\ call'[q] = call[q]
  PROVE  SameRunners
BY DEF SameRunners, Identity

LEMMA RunnersStay ==
  ASSUME TypeInv, [Next]_vars
  PROVE  SameRunners \/ \E p \in Procs : Insert(p) \/ Restart(p)
<1> USE DEF At
<1>1. ASSUME NEW p \in Procs, RunSession(p) PROVE SameRunners
  BY <1>1, NobodyNew DEF RunSession, Goto, Running, TypeInv, TypeOK
<1>2. ASSUME NEW p \in Procs, EndSession(p) \/ InvocationLimit(p) \/ Crash(p) PROVE SameRunners
  BY <1>2, NobodyNew DEF EndSession, InvocationLimit, Crash, Leave, Goto, Running, TypeInv, TypeOK
<1>3. ASSUME NEW p \in Procs, NEW c \in Calls, Invoke(p, c) PROVE SameRunners
  BY <1>3, NobodyNew DEF Invoke, Goto, Running, TypeInv, TypeOK
<1>4. ASSUME NEW p \in Procs, ReturnToModel(p), at[p].turn <= MaxTurns PROVE SameRunners
  BY <1>4, ReturnTypes, NobodyNew DEF Running
<1>5. ASSUME NEW p \in Procs, NEW c \in Calls, Deny(p, c) PROVE SameRunners
  BY <1>4, <1>5 DEF Deny, MayCall, TypeInv, Control
<1>6. ASSUME NEW p \in Procs, NEW i \in DOMAIN records[p], ModelCancels(p, i) PROVE SameRunners
  BY <1>4, <1>6 DEF ModelCancels, MayCall, TypeInv, Control
<1>7. ASSUME NEW p \in Procs, FindNone(p) \/ FindInterrupted(p) PROVE SameRunners
  BY <1>7, NobodyNew DEF FindNone, FindInterrupted, Goto, Running, TypeInv, TypeOK
<1>8. ASSUME NEW p \in Procs, Replay(p) \/ BeginRaises(p) \/ Finish(p) \/ Fail(p) PROVE SameRunners
  BY <1>4, <1>8, RunsAreTyped DEF Replay, BeginRaises, Finish, Fail, Handled, HasRaised
<1>9. ASSUME NEW p \in Procs, HandleProcess(p) \/ FinishRaises(p) PROVE SameRunners
  BY <1>9, MovingOn DEF HandleProcess, FinishRaises, Handled, Running
<1>10. ASSUME NEW p \in Procs, UpdateMemory(p) PROVE SameRunners
  BY <1>10 DEF UpdateMemory, session, SameRunners, Identity
<1>11. ASSUME Recover PROVE SameRunners
  BY <1>11, RecoverDoes DEF SameRunners, Identity
<1>12. ASSUME NEW to \in Stages, MoveRun(to) PROVE SameRunners
  BY <1>12 DEF MoveRun, session, SameRunners, Identity
<1>13. CASE UNCHANGED vars
  BY <1>13 DEF vars, session, SameRunners, Identity
<1>14. QED
  BY <1>1, <1>2, <1>3, <1>5, <1>6, <1>7, <1>8, <1>9, <1>10, <1>11, <1>12, <1>13 DEF Next, Work

(* A row is made or started again, is given an end, or is interrupted.      *)
LEMMA RowsChange ==
  ASSUME [Next]_vars
  PROVE  \/ UNCHANGED <<rows, stolen>>
         \/ Recover
         \/ \E p \in Procs : Insert(p) \/ Restart(p) \/ Finish(p) \/ Fail(p)
BY DEF Next, Work, vars, RunSession, EndSession, InvocationLimit, Crash, Invoke, Deny,
  ModelCancels, FindNone, Replay, FindInterrupted, BeginRaises, HandleProcess, UpdateMemory,
  FinishRaises, MoveRun

(* Only a handler has an effect.                                            *)
LEMMA OnlyHandlersAct ==
  ASSUME [Next]_vars
  PROVE  ran' = ran \/ \E p \in Procs : HandleProcess(p)
BY DEF Next, Work, vars, RunSession, EndSession, InvocationLimit, Crash, Invoke, Deny,
  ModelCancels, FindNone, Replay, FindInterrupted, Insert, Restart, Run, BeginRaises,
  UpdateMemory, Finish, FinishRaises, Fail, Recover, MoveRun

(* What Run, Finish and Fail do to the rows.                                *)
LEMMA RunDoes ==
  ASSUME TypeInv, NEW p \in Procs, Run(p)
  PROVE  /\ DOMAIN rows' = DOMAIN rows \cup {Identity(p)}
         /\ rows'[Identity(p)] = "RUNNING"
         /\ \A i \in DOMAIN rows : i # Identity(p) => rows'[i] = rows[i]
         /\ pc'[p] = "updating" \/ (call[p].effect = Process /\ pc'[p] = "handling")
         /\ \A q \in Procs \ {p} : pc'[q] = pc[q]
         /\ \A q \in Procs : Identity(q)' = Identity(q)
         /\ UNCHANGED <<memory, ran, stolen, at, call>>
<1>1. /\ rows' = Put(rows, Identity(p), "RUNNING")
      /\ \/ pc' = [pc EXCEPT ![p] = "updating"]
         \/ call[p].effect = Process /\ pc' = [pc EXCEPT ![p] = "handling"]
      /\ UNCHANGED <<memory, ran, stolen, at, call>>
  BY DEF Run, CallHandler, Goto
<1>2. /\ DOMAIN rows' = DOMAIN rows \cup {Identity(p)}
      /\ rows'[Identity(p)] = "RUNNING"
      /\ \A i \in DOMAIN rows : i # Identity(p) => rows'[i] = rows[i]
  BY <1>1 DEF Put
<1>3. QED
  BY <1>1, <1>2 DEF TypeInv, TypeOK, Identity

LEMMA EndDoes ==
  ASSUME TypeInv, NEW p \in Procs, Finish(p) \/ Fail(p)
  PROVE  /\ pc[p] \in Running /\ pc'[p] \notin Running
         /\ Identity(p) \in DOMAIN rows
         /\ DOMAIN rows' = DOMAIN rows
         /\ \A i \in DOMAIN rows : i # Identity(p) => rows'[i] = rows[i]
         /\ rows[Identity(p)] = "RUNNING" => rows'[Identity(p)] \in {"SUCCEEDED", "FAILED"}
         /\ rows[Identity(p)] # "RUNNING" => rows'[Identity(p)] = rows[Identity(p)]
         /\ UNCHANGED <<memory, ran, stolen>>
<1>1. pc[p] \in Running
  BY DEF Finish, Fail, Handled, HasRaised, At, Running
<1>2. Identity(p) \in DOMAIN rows
  BY <1>1 DEF TypeInv, TypeOK
<1>3. pc'[p] \notin Running
  BY <1>1, RunsAreTyped, ReturnTypes DEF Finish, Fail, Running
<1>4. QED
  BY <1>1, <1>2, <1>3 DEF Finish, Fail, StatusOf
-----------------------------------------------------------------------------
(* Every row lives the life of an invocation.                               *)
LEMMA RowsLive == TypeInv /\ [Next]_vars => [Life!Next]_rows
<1> SUFFICES ASSUME TypeInv, [Next]_vars, rows' # rows PROVE Life!Next
  OBVIOUS
<1> USE DEF Life!Next, Life!Begin, Life!Finish, Life!Restart, Life!Keep
<1>1. ASSUME NEW p \in Procs, Insert(p) PROVE Life!Next
  BY <1>1, RunDoes DEF Insert
<1>2. ASSUME NEW p \in Procs, Restart(p) PROVE Life!Next
  <2>1. /\ Identity(p) \in DOMAIN rows /\ rows[Identity(p)] = "INTERRUPTED"
        /\ MayRestart(call[p].effect)
    BY <1>2 DEF Restart, StatusOf, At, TypeInv, Control
  <2>2. InvocationMayRestart(Identity(p))
    BY <2>1 DEF InvocationMayRestart, Identity
  <2>3. QED
    BY <1>2, <2>1, <2>2, RunDoes DEF Restart
<1>3. ASSUME NEW p \in Procs, Finish(p) \/ Fail(p) PROVE Life!Next
  BY <1>3, EndDoes
<1>4. ASSUME Recover PROVE Life!Next
  BY <1>4, RecoverDoes
<1>5. QED
  BY <1>1, <1>2, <1>3, <1>4, RowsChange

(* The table of invocations implements the life of an invocation: made      *)
(* once, final once it has a result or an error, run again only after an    *)
(* interruption and only when the effect may be repeated.                   *)
THEOREM InvocationsLive == Spec => ImplementsInvocationLife
<1>1. Init => Life!Init
  BY DEF Init, Life!Init
<1>2. QED
  BY <1>1, TypesHold, RowsLive, PTL DEF Spec, ImplementsInvocationLife, Life!Spec
-----------------------------------------------------------------------------
(* Why an effect happens once: whoever is at the handler of a process is    *)
(* alone there and it has not run before, because its row was made by the   *)
(* insert and is never run again.                                           *)
OnceInv ==
  /\ EffectsHappenOnce
  /\ DOMAIN ran \subseteq DOMAIN rows
  /\ \A p \in Procs : pc[p] = "handling" => Identity(p) \notin DOMAIN ran
  /\ \A p, q \in Procs :
       p # q /\ pc[p] = "handling" /\ pc[q] = "handling" => Identity(p) # Identity(q)

LEMMA OnceStep ==
  ASSUME TypeInv, OnceInv, [Next]_vars
  PROVE  OnceInv'
<1>1. ASSUME NEW p \in Procs, Insert(p) PROVE OnceInv'
  <2>1. Identity(p) \notin DOMAIN rows /\ Run(p)
    BY <1>1 DEF Insert
  <2>2. \A q \in Procs : pc[q] = "handling" => Identity(q) \in DOMAIN rows
    BY DEF TypeInv, TypeOK, Running
  <2>3. \A q \in Procs \ {p} : Identity(q)' = Identity(q) /\ pc'[q] = pc[q]
    BY <2>1, RunDoes
  <2>4. /\ Identity(p)' = Identity(p) /\ ran' = ran
        /\ DOMAIN rows' = DOMAIN rows \cup {Identity(p)}
    BY <2>1, RunDoes
  <2>5. QED
    BY <2>1, <2>2, <2>3, <2>4 DEF OnceInv, EffectsHappenOnce
<1>2. ASSUME NEW p \in Procs, Restart(p) PROVE OnceInv'
  <2>1. call[p].effect # Process /\ Run(p)
    BY <1>2 DEF Restart, At, TypeInv, Control, MayRestart
  <2>2. \A q \in Procs : pc'[q] = "handling" => pc[q] = "handling"
    BY <2>1, RunDoes
  <2>3. /\ \A q \in Procs : Identity(q)' = Identity(q)
        /\ ran' = ran /\ DOMAIN rows \subseteq DOMAIN rows'
    BY <2>1, RunDoes
  <2>4. QED
    BY <2>2, <2>3 DEF OnceInv, EffectsHappenOnce
<1>3. CASE SameRunners
  <2>1. DOMAIN rows \subseteq DOMAIN rows'
    BY <1>3, RowsChange, RunDoes, EndDoes, RecoverDoes DEF Insert, Restart
  <2>2. CASE ran' = ran
    BY <1>3, <2>1, <2>2 DEF OnceInv, EffectsHappenOnce, SameRunners, Running
  <2>3. ASSUME NEW p \in Procs, HandleProcess(p), ran' # ran PROVE OnceInv'
    <3>1. /\ pc[p] = "handling" /\ pc'[p] # "handling"
          /\ ran' = Put(ran, Identity(p), TimesRan(Identity(p)) + 1)
      BY <2>3 DEF HandleProcess, At, Goto, TypeInv, TypeOK
    <3>2. Identity(p) \notin DOMAIN ran /\ Identity(p) \in DOMAIN rows
      BY <3>1 DEF OnceInv, TypeInv, TypeOK, Running
    <3>3. TimesRan(Identity(p)) + 1 = 1
      BY <3>2 DEF TimesRan
    <3>4. /\ DOMAIN ran' = DOMAIN ran \cup {Identity(p)}
          /\ ran'[Identity(p)] = 1
          /\ \A i \in DOMAIN ran : ran'[i] = ran[i]
      BY <3>1, <3>2, <3>3 DEF Put
    <3>5. QED
      BY <1>3, <2>1, <3>1, <3>2, <3>4 DEF OnceInv, EffectsHappenOnce, SameRunners, Running
  <2>4. QED
    BY <2>2, <2>3, OnlyHandlersAct
<1>4. QED
  BY <1>1, <1>2, <1>3, RunnersStay

LEMMA OnceHolds == Spec => []OnceInv
<1>1. Init => OnceInv
  BY DEF Init, OnceInv, EffectsHappenOnce
<1>2. TypeInv /\ OnceInv /\ [Next]_vars => OnceInv'
  BY OnceStep
<1>3. QED
  BY <1>1, <1>2, TypesHold, PTL DEF Spec

(* An effect that must not be repeated takes place once per invocation, for *)
(* any number of processes, crashes, repeated sessions and recoveries.      *)
THEOREM OncePerInvocation == Spec => []EffectsHappenOnce
<1>1. OnceInv => EffectsHappenOnce
  BY DEF OnceInv
<1>2. QED
  BY <1>1, OnceHolds, PTL
-----------------------------------------------------------------------------
(* Why nobody else is at an invocation: the row of whoever is at a handler  *)
(* is RUNNING, unless a recovery hit a live process, and a RUNNING row is   *)
(* neither inserted nor restarted.                                          *)
RunnerInv ==
  /\ OneRunnerAtATime
  /\ \A p \in Procs :
       pc[p] \in Running /\ Identity(p) \notin stolen => rows[Identity(p)] = "RUNNING"

LEMMA RunnerStep ==
  ASSUME TypeInv, RunnerInv, [Next]_vars
  PROVE  RunnerInv'
<1>1. \A q \in Procs : pc[q] \in Running => Identity(q) \in DOMAIN rows
  BY DEF TypeInv, TypeOK
<1>2. ASSUME NEW p \in Procs, Insert(p) \/ Restart(p) PROVE RunnerInv'
  <2>1. Run(p) /\ (Identity(p) \notin DOMAIN rows \/ rows[Identity(p)] # "RUNNING")
    BY <1>2 DEF Insert, Restart, StatusOf
  <2>2. /\ \A q \in Procs \ {p} : pc'[q] = pc[q]
        /\ \A q \in Procs : Identity(q)' = Identity(q)
        /\ rows'[Identity(p)] = "RUNNING" /\ stolen' = stolen
        /\ \A i \in DOMAIN rows : i # Identity(p) => rows'[i] = rows[i]
    BY <2>1, RunDoes
  <2>3. \A q \in Procs : pc[q] \in Running /\ Identity(q) = Identity(p) => Identity(p) \in stolen
    BY <1>1, <2>1 DEF RunnerInv
  <2>4. OneRunnerAtATime'
    BY <2>2, <2>3 DEF RunnerInv, OneRunnerAtATime
  <2>5. QED
    BY <1>1, <2>2, <2>4 DEF RunnerInv
<1>3. CASE SameRunners /\ UNCHANGED <<rows, stolen>>
  BY <1>3 DEF SameRunners, RunnerInv, OneRunnerAtATime
<1>4. ASSUME NEW p \in Procs, Finish(p) \/ Fail(p), SameRunners PROVE RunnerInv'
  BY <1>1, <1>4, EndDoes DEF SameRunners, RunnerInv, OneRunnerAtATime
<1>5. CASE Recover /\ SameRunners
  <2>1. \A q \in Procs : pc[q] \in Running => RunnersOf(Identity(q)) # {}
    BY DEF RunnersOf
  <2>2. \A q \in Procs : pc'[q] \in Running => Identity(q)' \in stolen'
    BY <1>1, <1>5, <2>1, RecoverDoes DEF SameRunners, RunnerInv
  <2>3. QED
    BY <2>2 DEF RunnerInv, OneRunnerAtATime
<1>6. QED
  BY <1>2, <1>3, <1>4, <1>5, RunnersStay, RowsChange

LEMMA RunnersHold == Spec => []RunnerInv
<1>1. Init => RunnerInv
  BY DEF Init, RunnerInv, OneRunnerAtATime, Running
<1>2. TypeInv /\ RunnerInv /\ [Next]_vars => RunnerInv'
  BY RunnerStep
<1>3. QED
  BY <1>1, <1>2, TypesHold, PTL DEF Spec

(* Two processes are never at the same invocation, except after a recovery  *)
(* that hit a process which was alive.                                      *)
THEOREM OneRunner == Spec => []OneRunnerAtATime
<1>1. RunnerInv => OneRunnerAtATime
  BY DEF RunnerInv
<1>2. QED
  BY <1>1, RunnersHold, PTL
-----------------------------------------------------------------------------
(* What a record in memory may say of a row, now and for ever after: a      *)
(* recorded success is stored; a recorded failure is stored for good, as a  *)
(* failure or as an interruption that nobody may restart.                   *)
Honest(i, v) ==
  /\ v = "SUCCEEDED" => rows[i] = "SUCCEEDED"
  /\ v = "FAILED" => \/ i \in stolen
                     \/ rows[i] \in {"FAILED", "LEGACY"}
                     \/ rows[i] = "INTERRUPTED" /\ ~InvocationMayRestart(i)

HonestInv ==
  \A p \in Procs : \A i \in DOMAIN records[p] : i \in DOMAIN rows /\ Honest(i, records[p][i])

LEMMA HonestyLasts ==
  ASSUME TypeInv, [Next]_vars, NEW i \in DOMAIN rows, NEW v, Honest(i, v)
  PROVE  i \in DOMAIN rows' /\ Honest(i, v)'
<1>1. stolen \subseteq stolen'
  BY RowsChange, RecoverDoes, RunDoes, EndDoes DEF Insert, Restart
<1>2. CASE rows' = rows
  BY <1>1, <1>2 DEF Honest, InvocationMayRestart
<1>3. CASE Life!Next
  BY <1>1, <1>3 DEF Honest, InvocationMayRestart, Life!Next, Life!Begin, Life!Finish,
    Life!Restart, Life!Keep
<1>4. QED
  BY <1>2, <1>3, RowsLive

(* A record that is honest once the step is taken does no harm.             *)
LEMMA RecordKeeps ==
  ASSUME TypeInv, HonestInv, [Next]_vars, NEW p \in Procs, NEW i, NEW v, Record(p, i, v),
         i \in DOMAIN rows', Honest(i, v)'
  PROVE  HonestInv'
<1>1. records' = [records EXCEPT ![p] = Put(records[p], i, v)]
  BY DEF Record, TypeInv, Control
<1>2. /\ DOMAIN records'[p] = DOMAIN records[p] \cup {i} /\ records'[p][i] = v
      /\ \A j \in DOMAIN records[p] : j # i => records'[p][j] = records[p][j]
      /\ \A q \in Procs \ {p} : records'[q] = records[q]
  BY <1>1 DEF Put, TypeInv, Control
<1>3. \A q \in Procs : \A j \in DOMAIN records[q] : \A w :
        w = records[q][j] => j \in DOMAIN rows' /\ Honest(j, w)'
  BY HonestyLasts DEF HonestInv
<1>4. QED
  BY <1>2, <1>3 DEF HonestInv, Honest

LEMMA HonestStep ==
  ASSUME TypeInv, RunnerInv, HonestInv, [Next]_vars
  PROVE  HonestInv'
<1>1. \A q \in Procs : \A j \in DOMAIN records[q] : \A w :
        w = records[q][j] => j \in DOMAIN rows' /\ Honest(j, w)'
  BY HonestyLasts DEF HonestInv
<1>2. ASSUME records' = records \/ \E p \in Procs : records' = [records EXCEPT ![p] = << >>]
      PROVE  HonestInv'
  <2>1. \A q \in Procs : records'[q] = records[q] \/ DOMAIN records'[q] = {}
    BY <1>2 DEF TypeInv, Control
  <2>2. QED
    BY <1>1, <2>1 DEF HonestInv, Honest
<1>3. ASSUME NEW p \in Procs, EndSession(p) \/ InvocationLimit(p) \/ Crash(p) PROVE HonestInv'
  BY <1>2, <1>3 DEF EndSession, InvocationLimit, Crash, Leave
<1>4. ASSUME NEW p \in Procs, NEW i \in DOMAIN records[p], ModelCancels(p, i) PROVE HonestInv'
  <2>1. i \in DOMAIN rows'
    BY <1>1
  <2>2. Honest(i, "CANCELLED")'
    BY DEF Honest
  <2>3. QED
    BY <1>4, <2>1, <2>2, RecordKeeps DEF ModelCancels
<1>5. ASSUME NEW p \in Procs, Replay(p) PROVE HonestInv'
  <2>1. PICK i : i = Identity(p)
    OBVIOUS
  <2>2. PICK v : v = Shown(rows[i])
    OBVIOUS
  <2>3. /\ i \in DOMAIN rows /\ UNCHANGED <<rows, stolen>> /\ Record(p, i, v)
        /\ rows[i] = "INTERRUPTED" => ~InvocationMayRestart(i)
    BY <1>5, <2>1, <2>2 DEF Replay, Restartable, StatusOf, InvocationMayRestart, Identity
  <2>4. Honest(i, v)'
    BY <2>2, <2>3 DEF Honest, Shown, InvocationMayRestart
  <2>5. QED
    BY <2>3, <2>4, RecordKeeps
<1>6. ASSUME NEW p \in Procs, Insert(p) \/ Restart(p) PROVE HonestInv'
  <2>1. PICK i : i = Identity(p)
    OBVIOUS
  <2>2. Run(p) /\ Record(p, i, "RUNNING")
    BY <1>6, <2>1 DEF Insert, Restart, Run
  <2>3. i \in DOMAIN rows' /\ Honest(i, "RUNNING")'
    BY <2>1, <2>2, RunDoes DEF Honest
  <2>4. QED
    BY <2>2, <2>3, RecordKeeps
<1>7. ASSUME NEW p \in Procs, Finish(p) PROVE HonestInv'
  <2>1. PICK i : i = Identity(p)
    OBVIOUS
  <2>2. Record(p, i, "SUCCEEDED") /\ i \in DOMAIN rows /\ rows' = [rows EXCEPT ![i] = "SUCCEEDED"]
    BY <1>7, <2>1, EndDoes DEF Finish
  <2>3. i \in DOMAIN rows' /\ Honest(i, "SUCCEEDED")'
    BY <2>2 DEF Honest
  <2>4. QED
    BY <2>2, <2>3, RecordKeeps
<1>8. ASSUME NEW p \in Procs, Fail(p) PROVE HonestInv'
  <2>1. PICK i : i = Identity(p)
    OBVIOUS
  <2>2. /\ Record(p, i, "FAILED") /\ i \in DOMAIN rows /\ pc[p] \in Running /\ stolen' = stolen
        /\ rows' = [rows EXCEPT ![i] = IF @ = "RUNNING" THEN "FAILED" ELSE @]
    BY <1>8, <2>1, EndDoes DEF Fail
  <2>3. rows[i] = "RUNNING" \/ i \in stolen
    BY <2>1, <2>2 DEF RunnerInv
  <2>4. i \in DOMAIN rows' /\ Honest(i, "FAILED")'
    BY <2>2, <2>3 DEF Honest
  <2>5. QED
    BY <2>2, <2>4, RecordKeeps
<1>9. QED
  BY <1>2, <1>3, <1>4, <1>5, <1>6, <1>7, <1>8 DEF Next, Work, vars, RunSession, Invoke, Deny,
    FindNone, FindInterrupted, BeginRaises, HandleProcess, UpdateMemory, FinishRaises, Recover,
    MoveRun, session

LEMMA HonestyHolds == Spec => []HonestInv
<1>1. Init => HonestInv
  BY DEF Init, HonestInv
<1>2. TypeInv /\ RunnerInv /\ HonestInv /\ [Next]_vars => HonestInv'
  BY HonestStep
<1>3. QED
  BY <1>1, <1>2, TypesHold, RunnersHold, PTL DEF Spec

(* What the gateway of a process tells its session agrees with the durable  *)
(* record, except for an invocation that was recovered under a live process.*)
THEOREM RecordsAreTrue == Spec => []RecordsTellTheTruth
<1>1. HonestInv => RecordsTellTheTruth
  BY DEF HonestInv, Honest, RecordsTellTheTruth, ExecutionStatus, Shown, StatusOf
<1>2. QED
  BY <1>1, HonestyHolds, PTL
-----------------------------------------------------------------------------
(* Why a stored success of a memory update is in the ledger: the ledger     *)
(* only grows, what update() remembers of it is true, and a call that has   *)
(* returned found or made its entry.                                        *)
InLedger(c) == c.revision < Len(ledger) /\ ledger[c.revision + 1] = c.content

LedgerInv ==
  /\ SuccessIsInTheLedger
  /\ \A r \in DOMAIN updates : updates[r] = ledger[r]
  /\ \A p \in Procs : pc[p] = "updating" =>
       /\ job[p].revision = call[p].revision /\ job[p].content = call[p].content
       /\ job[p].step = "returned" => InLedger(call[p])

(* Only update() writes the ledger, and nobody else touches the call of a   *)
(* process that is in it.                                                   *)
LEMMA JobsStay ==
  ASSUME TypeInv, [Next]_vars
  PROVE  \/ \E p \in Procs : UpdateMemory(p) \/ Insert(p) \/ Restart(p)
         \/ UNCHANGED memory /\ \A q \in Procs : pc'[q] = "updating" => job'[q] = job[q]
<1> DEFINE Stay == UNCHANGED memory /\ \A q \in Procs : pc'[q] = "updating" => job'[q] = job[q]
<1>1. ASSUME NEW p \in Procs, EndSession(p) \/ InvocationLimit(p) \/ Crash(p) PROVE Stay
  BY <1>1 DEF EndSession, InvocationLimit, Crash, Leave, Goto, TypeInv, TypeOK, MemoryTypeOK
<1>2. ASSUME NEW p \in Procs, ReturnToModel(p), UNCHANGED memory PROVE Stay
  <2>1. pc'[p] # "updating" /\ job' = [job EXCEPT ![p] = Idle]
    BY <1>2 DEF ReturnToModel, Goto, TypeInv, TypeOK
  <2>2. QED
    BY <1>2, <2>1 DEF TypeInv, TypeOK, MemoryTypeOK
<1>3. ASSUME UNCHANGED <<memory, job>> PROVE Stay
  BY <1>3
<1>4. QED
  BY <1>1, <1>2, <1>3 DEF Next, Work, vars, RunSession, Invoke, Deny, ModelCancels, FindNone,
    Replay, FindInterrupted, BeginRaises, HandleProcess, Finish, FinishRaises, Fail, Recover,
    MoveRun

LEMMA LedgerGrows ==
  ASSUME TypeInv, NEW p \in Procs, UpdateMemory(p)
  PROVE  /\ Len(ledger) \in Nat /\ Len(ledger') \in Nat /\ Len(ledger) <= Len(ledger')
         /\ \A k \in 1..Len(ledger) : ledger'[k] = ledger[k]
<1>1. ledger \in Seq(Contents) /\ Len(ledger) \in Nat
  BY DEF TypeInv, TypeOK, MemoryTypeOK
<1>2. CASE ledger' = ledger
  BY <1>1, <1>2
<1>3. CASE WriteLedger(p)
  <2>1. ledger' = Append(ledger, job[p].content) /\ job[p].content \in Contents
    BY <1>3 DEF WriteLedger, JobAt, TypeInv, Control
  <2>2. QED
    BY <1>1, <2>1
<1>4. QED
  BY <1>2, <1>3 DEF UpdateMemory, Update, ReadLedger, FindApplied, RejectWrite, memory

(* What a call has once found in the ledger stays there.                    *)
LEMMA EntriesStay ==
  ASSUME TypeInv, NEW p \in Procs, UpdateMemory(p), NEW c \in Calls, InLedger(c)
  PROVE  InLedger(c)'
<1>1. c.revision \in Nat
  BY InvocationsAssumption DEF Calls
<1>2. QED
  BY <1>1, LedgerGrows DEF InLedger

(* A step of update(): the process it belongs to, and the others.           *)
LEMMA UpdateIsTrue ==
  ASSUME TypeInv, LedgerInv, NEW p \in Procs, UpdateMemory(p)
  PROVE  LedgerInv'
<1>1. /\ UNCHANGED <<rows, pc, at, call>>
      /\ ReadLedger(p) \/ FindApplied(p) \/ WriteLedger(p) \/ RejectWrite(p)
      /\ pc[p] = "updating"
  BY DEF UpdateMemory, Update, session, At
<1>2. /\ job \in [Procs -> [step : {"idle", "reading", "stale", "writing", "returned", "raised"},
                            revision : Nat, content : Contents \cup {None}]]
      /\ ledger \in Seq(Contents) /\ Len(ledger) \in Nat
      /\ DOMAIN updates = {r \in 1..Len(ledger) : r > Len(ledger) - MaxHistory}
      /\ call[p] \in Calls /\ call[p].revision \in Nat
      /\ job[p].revision = call[p].revision /\ job[p].content = call[p].content
  BY <1>1, InvocationsAssumption DEF TypeInv, TypeOK, MemoryTypeOK, Control, Invoking, Running,
    LedgerInv, Calls
<1>3. PICK s \in {"stale", "raised", "writing", "returned"} : job' = [job EXCEPT ![p].step = s]
  BY <1>1 DEF ReadLedger, FindApplied, WriteLedger, RejectWrite, JobGoes
<1>4. /\ job'[p].step = s /\ job'[p].revision = job[p].revision
      /\ job'[p].content = job[p].content
      /\ \A q \in Procs \ {p} : job'[q] = job[q]
  BY <1>2, <1>3
<1>5. SuccessIsInTheLedger'
  <2>1. \A i \in DOMAIN rows : i[2] \in Calls
    BY DEF TypeInv, TypeOK
  <2>2. \A i \in DOMAIN rows : i[2].effect = Memory /\ rows[i] = "SUCCEEDED" => InLedger(i[2])
    BY DEF LedgerInv, SuccessIsInTheLedger, InLedger
  <2>3. \A c \in Calls : InLedger(c) => InLedger(c)'
    BY EntriesStay
  <2>4. \A i \in DOMAIN rows :
          i[2].effect = Memory /\ rows[i] = "SUCCEEDED" =>
            i[2].revision < Len(ledger') /\ ledger'[i[2].revision + 1] = i[2].content
    BY <2>1, <2>2, <2>3 DEF InLedger
  <2>5. QED
    BY <1>1, <2>4 DEF SuccessIsInTheLedger
<1>6. \A r \in DOMAIN updates' : updates'[r] = ledger'[r]
  <2>1. CASE WriteLedger(p)
    BY <2>1 DEF WriteLedger
  <2>2. CASE UNCHANGED memory
    BY <2>2 DEF memory, LedgerInv
  <2>3. QED
    BY <1>1, <2>1, <2>2 DEF ReadLedger, FindApplied, RejectWrite
<1>7. s = "returned" => InLedger(call[p])'
  <2>1. CASE WriteLedger(p)
    <3>1. ledger' = Append(ledger, job[p].content) /\ Len(ledger) = call[p].revision
          /\ job[p].content \in Contents
      BY <1>2, <2>1 DEF WriteLedger, JobAt, TypeInv, Control
    <3>2. QED
      BY <1>1, <1>2, <3>1 DEF InLedger
  <2>2. CASE FindApplied(p) /\ s = "returned"
    <3>1. /\ call[p].revision + 1 \in DOMAIN updates
          /\ updates[call[p].revision + 1] = call[p].content
      BY <1>2, <1>4, <2>2 DEF FindApplied, JobGoes
    <3>2. InLedger(call[p])
      BY <1>2, <3>1 DEF InLedger, LedgerInv
    <3>3. QED
      BY <1>1, <2>2, <3>2 DEF InLedger, FindApplied, memory
  <2>3. CASE (ReadLedger(p) \/ RejectWrite(p)) /\ s = "returned"
    BY <1>2, <1>4, <2>3 DEF ReadLedger, RejectWrite, JobGoes
  <2>4. QED
    BY <1>1, <2>1, <2>2, <2>3
<1>8. \A q \in Procs \ {p} :
        pc[q] = "updating" /\ job[q].step = "returned" => InLedger(call[q])'
  <2>1. \A q \in Procs : pc[q] = "updating" => call[q] \in Calls
    BY DEF TypeInv, Control, Invoking, Running
  <2>2. \A c \in Calls : InLedger(c) => InLedger(c)'
    BY EntriesStay
  <2>3. QED
    BY <1>1, <2>1, <2>2 DEF LedgerInv, InLedger
<1>9. QED
  BY <1>1, <1>2, <1>4, <1>5, <1>6, <1>7, <1>8 DEF LedgerInv

LEMMA LedgerStep ==
  ASSUME TypeInv, LedgerInv, [Next]_vars
  PROVE  LedgerInv'
<1>1. ASSUME NEW p \in Procs, Insert(p) \/ Restart(p) PROVE LedgerInv'
  <2>1. Run(p)
    BY <1>1 DEF Insert, Restart
  <2>2. \/ pc' = [pc EXCEPT ![p] = "handling"] /\ job' = job
        \/ /\ pc' = [pc EXCEPT ![p] = "updating"]
           /\ job' = [job EXCEPT ![p] = [step |-> "reading", revision |-> call[p].revision,
                                         content |-> call[p].content]]
    BY <2>1 DEF Run, CallHandler, CallUpdate, Goto
  <2>3. UNCHANGED <<memory, call>>
    BY <2>1 DEF Run
  <2>4. SuccessIsInTheLedger'
    <3>1. \A i \in DOMAIN rows' :
            rows'[i] = "SUCCEEDED" => i \in DOMAIN rows /\ rows[i] = "SUCCEEDED"
      BY <2>1, RunDoes
    <3>2. ledger' = ledger
      BY <2>3 DEF memory
    <3>3. QED
      BY <3>1, <3>2 DEF LedgerInv, SuccessIsInTheLedger
  <2>5. QED
    BY <2>2, <2>3, <2>4 DEF LedgerInv, InLedger, memory, TypeInv, TypeOK, MemoryTypeOK
<1>2. ASSUME UNCHANGED memory, \A q \in Procs : pc'[q] = "updating" => job'[q] = job[q],
             SameRunners
      PROVE  LedgerInv'
  <2>1. \A q \in Procs : pc'[q] = "updating" => pc[q] = "updating" /\ call'[q] = call[q]
    BY <1>2 DEF SameRunners, Running, Identity
  <2>2. \A i \in DOMAIN rows' : rows'[i] = "SUCCEEDED" =>
          \/ i \in DOMAIN rows /\ rows[i] = "SUCCEEDED"
          \/ \E p \in Procs : Finish(p) /\ i = Identity(p)
    <3>1. ASSUME NEW p \in Procs, Fail(p)
          PROVE  \A i \in DOMAIN rows' :
                   rows'[i] = "SUCCEEDED" => i \in DOMAIN rows /\ rows[i] = "SUCCEEDED"
      BY <3>1 DEF Fail
    <3>2. ASSUME NEW p \in Procs, Insert(p) \/ Restart(p)
          PROVE  \A i \in DOMAIN rows' :
                   rows'[i] = "SUCCEEDED" => i \in DOMAIN rows /\ rows[i] = "SUCCEEDED"
      BY <3>2, RunDoes DEF Insert, Restart
    <3>3. QED
      BY <3>1, <3>2, RowsChange, RecoverDoes, EndDoes
  <2>3. \A p \in Procs : Finish(p) /\ call[p].effect = Memory => InLedger(call[p])
    BY DEF Finish, Handled, At, JobAt, LedgerInv, TypeInv, Control, Memory, Process
  <2>4. \A p \in Procs : Identity(p)[2] = call[p]
    BY DEF Identity
  <2>5. \A i \in DOMAIN rows' :
          i[2].effect = Memory /\ rows'[i] = "SUCCEEDED" => InLedger(i[2])
    BY <2>2, <2>3, <2>4 DEF SuccessIsInTheLedger, LedgerInv, InLedger
  <2>6. SuccessIsInTheLedger'
    <3>1. ledger' = ledger
      BY <1>2 DEF memory
    <3>2. QED
      BY <2>5, <3>1 DEF SuccessIsInTheLedger, InLedger
  <2>7. QED
    BY <1>2, <2>1, <2>6 DEF LedgerInv, InLedger, memory
<1>3. QED
  BY <1>1, <1>2, UpdateIsTrue, JobsStay, RunnersStay

LEMMA LedgerHolds == Spec => []LedgerInv
<1>1. Init => LedgerInv
  BY DEF Init, MemoryInit, LedgerInv, SuccessIsInTheLedger
<1>2. TypeInv /\ LedgerInv /\ [Next]_vars => LedgerInv'
  BY LedgerStep
<1>3. QED
  BY <1>1, <1>2, TypesHold, PTL DEF Spec

(* A memory update that is stored as SUCCEEDED is in the ledger, exactly at *)
(* the revision it was made for, however often its session is repeated.     *)
THEOREM SuccessIsRecorded == Spec => []SuccessIsInTheLedger
<1>1. LedgerInv => SuccessIsInTheLedger
  BY DEF LedgerInv
<1>2. QED
  BY <1>1, LedgerHolds, PTL
=============================================================================
