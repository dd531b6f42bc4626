-------------------------- MODULE Workspace_proofs --------------------------
(***************************************************************************)
(* Proofs about Workspace, for any processes, mutations and number of       *)
(* exceptions and deaths.                                                   *)
(***************************************************************************)
EXTENDS Workspace, TLAPS

(* A directory tree is complete or left in part.                            *)
AnyTree == Seq(Mutations) \cup {Partial}

AreDirs(dirs, names) ==
  DOMAIN dirs \subseteq names /\ \A n \in DOMAIN dirs : dirs[n] \in AnyTree

DiskTypes ==
  /\ row \in Nat \cup {NoRow}
  /\ log \in Seq(Mutations)
  /\ AreDirs(gens, Nat) /\ AreDirs(candidates, Mutations)

LocalTypes ==
  /\ runState \in Stages
  /\ lock \in Procs \cup {None}
  /\ pc \in [Procs -> {"idle", "copying"} \cup Waiting \cup Holding]
  /\ call \in [Procs -> Mutations \cup {None, Profile}]
  /\ gen \in [Procs -> Nat \cup {NoRow}]
  /\ \A p \in Procs : lock = p <=> pc[p] \in Holding

LEMMA AreDirsMeans ==
  ASSUME NEW dirs, NEW names
  PROVE  AreDirs(dirs, names)
           <=> DOMAIN dirs \subseteq names /\ Range(dirs) \subseteq Seq(Mutations) \cup {Partial}
BY DEF AreDirs, AnyTree, Range

(* The ways in which a set of directories grows and shrinks.                *)
LEMMA DirsChange ==
  ASSUME NEW dirs, NEW names, AreDirs(dirs, names)
  PROVE  /\ \A n \in names, t \in AnyTree : AreDirs(Put(dirs, n, t), names)
         /\ \A S : AreDirs(Without(dirs, S), names)
         /\ \A S : AreDirs(Restrict(dirs, DOMAIN dirs \cap S), names)
BY DEF AreDirs, Put, Without, Restrict

(* A tree that is extended.                                                 *)
LEMMA AppendTree ==
  ASSUME NEW s \in Seq(Mutations), NEW m \in Mutations
  PROVE  /\ Append(s, m) \in Seq(Mutations)
         /\ Len(Append(s, m)) = Len(s) + 1 /\ Len(s) \in Nat
         /\ Range(Append(s, m)) = Range(s) \cup {m}
<1>1. /\ Append(s, m) \in Seq(Mutations)
      /\ Len(Append(s, m)) = Len(s) + 1 /\ Len(s) \in Nat
  OBVIOUS
<1>2. /\ DOMAIN s = 1..Len(s) /\ DOMAIN Append(s, m) = 1..(Len(s) + 1)
      /\ Append(s, m)[Len(s) + 1] = m
      /\ \A i \in 1..Len(s) : Append(s, m)[i] = s[i]
  OBVIOUS
<1>3. Range(Append(s, m)) = Range(s) \cup {m}
  <2>1. ASSUME NEW x \in Range(Append(s, m)) PROVE x \in Range(s) \cup {m}
    <3>1. PICK i \in 1..(Len(s) + 1) : x = Append(s, m)[i]
      BY <1>2, <2>1 DEF Range
    <3>2. QED
      BY <1>1, <1>2, <3>1 DEF Range
  <2>2. ASSUME NEW x \in Range(s) PROVE x \in Range(Append(s, m))
    <3>1. PICK i \in 1..Len(s) : x = s[i]
      BY <1>2, <2>2 DEF Range
    <3>2. QED
      BY <1>1, <1>2, <3>1 DEF Range
  <2>3. m \in Range(Append(s, m))
    BY <1>1, <1>2 DEF Range
  <2>4. QED
    BY <2>1, <2>2, <2>3
<1>4. QED
  BY <1>1, <1>3
-----------------------------------------------------------------------------
(* The inductive invariant.  Beyond what the runs check it says             *)
(*  - what the process that has the lock has done so far (Progress);        *)
(*  - that a validation the run still waits for has the tree to itself from *)
(*    the moment its acquire() returns (ValidatesAlone).                    *)
Writing == {"copied", "operated", "renamed", "checked"}

Progress(p) ==
  /\ pc[p] \in {"seeding", "seeded"} => row = NoRow /\ DOMAIN gens = {0}
  /\ pc[p] = "seeded" => gens[0] = Base
  /\ pc[p] \in {"again", "working", "reading", "copying", "committed"} \cup Writing => row # NoRow
  /\ pc[p] \in Writing => call[p] \in Mutations /\ ~Applied(call[p]) /\ gen[p] = row
  /\ pc[p] = "copied" => call[p] \in DOMAIN candidates /\ candidates[call[p]] = log
  /\ pc[p] = "operated" =>
       call[p] \in DOMAIN candidates /\ candidates[call[p]] = Append(log, call[p])
  /\ pc[p] \in {"renamed", "checked"} =>
       row + 1 \in DOMAIN gens /\ gens[row + 1] = Append(log, call[p])
  /\ pc[p] = "committed" => gen[p] \in Nat /\ gen[p] + 1 = row
  /\ pc[p] = "reading" => gen[p] = row
  /\ pc[p] = "copying" => call[p] = Profile

ValidatesAlone ==
  \A p \in Procs : call[p] = Profile /\ p \notin overtaken =>
    /\ runState = "VALIDATE"
    /\ pc[p] \in {"again", "copying"} => ~Committing
    /\ pc[p] = "copying" => gen[p] = row

IInv ==
  /\ DiskTypes /\ LocalTypes /\ TreeMatchesLog
  /\ \A p \in Procs : Progress(p)
  /\ ValidatesAlone

LEMMA TypesFollow == IInv => TypeOK
BY AreDirsMeans DEF IInv, DiskTypes, LocalTypes, TypeOK

(* The process that has the lock goes on: nobody else is between lock and   *)
(* unlock, and only the insert and the commit change the row.               *)
LEMMA HolderGoes ==
  ASSUME IInv, NEW p \in Procs, pc[p] \in Holding, NEW l \in Holding,
         pc' = [pc EXCEPT ![p] = l], lock' = lock, call' = call,
         UNCHANGED <<runState, overtaken>>,
         gen' = gen \/ gen' = [gen EXCEPT ![p] = row],
         DiskTypes', TreeMatchesLog', Progress(p)',
         row' = row \/ (row' # NoRow /\ pc[p] \in {"seeded", "checked"}),
         l = "checked" => runState # "VALIDATE"
  PROVE  IInv'
<1>1. LocalTypes /\ DiskTypes
  BY DEF IInv
<1>2. /\ pc'[p] = l
      /\ \A q \in Procs \ {p} : pc'[q] = pc[q] /\ gen'[q] = gen[q] /\ pc[q] \notin Holding
  BY <1>1 DEF LocalTypes
<1>3. LocalTypes'
  BY <1>1, <1>2 DEF LocalTypes, DiskTypes
<1>4. ASSUME NEW q \in Procs \ {p} PROVE Progress(q)'
  <2>1. Progress(q) /\ (row # NoRow => row' # NoRow)
    BY DEF IInv
  <2>2. QED
    BY <1>2, <1>4, <2>1 DEF IInv, Progress, Holding, Writing
<1>5. ValidatesAlone'
  <2>1. ASSUME NEW q \in Procs \ {p}, call'[q] = Profile, q \notin overtaken'
        PROVE  /\ runState' = "VALIDATE"
               /\ pc'[q] \in {"again", "copying"} => ~Committing'
               /\ pc'[q] = "copying" => gen'[q] = row'
    <3>1. /\ runState = "VALIDATE" /\ l # "checked"
          /\ pc[q] \in {"again", "copying"} => ~Committing /\ row # NoRow
          /\ pc[q] = "copying" => gen[q] = row
      BY <2>1 DEF IInv, ValidatesAlone, Progress
    <3>2. pc[q] \in {"again", "copying"} => ~Committing'
      BY <1>2, <3>1 DEF Committing, At
    <3>3. pc[q] \in {"again", "copying"} => row' = row
      BY <3>1 DEF Committing, At, IInv, Progress
    <3>4. QED
      BY <1>2, <3>1, <3>2, <3>3
  <2>2. ASSUME call'[p] = Profile, p \notin overtaken' PROVE runState' = "VALIDATE"
    BY <2>2 DEF IInv, ValidatesAlone
  <2>3. pc'[p] \notin {"again", "copying"}
    BY <1>2 DEF Holding
  <2>4. QED
    BY <2>1, <2>2, <2>3 DEF ValidatesAlone
<1>6. QED
  BY <1>3, <1>4, <1>5 DEF IInv

(* The process that has the lock returns or raises.                         *)
LEMMA HolderLeaves ==
  ASSUME IInv, NEW p \in Procs, pc[p] \in Holding, Leave(p), UNCHANGED <<runState, row, log>>,
         DiskTypes', TreeMatchesLog'
  PROVE  IInv'
<1>1. LocalTypes /\ DiskTypes
  BY DEF IInv
<1>2. /\ pc'[p] = "idle" /\ call'[p] = None /\ gen'[p] = NoRow /\ lock' = None
      /\ overtaken' = overtaken \ {p}
      /\ \A q \in Procs \ {p} :
           pc'[q] = pc[q] /\ call'[q] = call[q] /\ gen'[q] = gen[q] /\ pc[q] \notin Holding
  BY <1>1 DEF LocalTypes, Leave, Goto
<1>3. LocalTypes'
  BY <1>1, <1>2, WorkspaceAssumption DEF LocalTypes, DiskTypes, Leave, Goto, Holding
<1>4. Progress(p)'
  BY <1>2 DEF Progress, Writing
<1>5. ASSUME NEW q \in Procs \ {p} PROVE Progress(q)'
  BY <1>2, <1>5 DEF IInv, Progress, Holding, Writing
<1>6. ValidatesAlone'
  <2>1. Committing' => Committing
    BY <1>2 DEF Committing, At
  <2>2. QED
    BY <1>2, <2>1, WorkspaceAssumption DEF IInv, ValidatesAlone
<1>7. QED
  BY <1>3, <1>4, <1>5, <1>6 DEF IInv
-----------------------------------------------------------------------------
(* The steps of a process that has the lock and keeps it.                   *)
LEMMA SeedSteps ==
  ASSUME IInv, NEW p \in Procs, BeginSeed(p) \/ Seed(p) \/ InsertRow(p)
  PROVE  IInv'
<1>1. << >> \in Seq(Mutations) /\ Partial \in AnyTree /\ Base \in AnyTree /\ 0 \in Nat
  BY DEF AnyTree, Base
<1>2. DiskTypes /\ Progress(p) /\ TreeMatchesLog
  BY DEF IInv
<1>3. CASE BeginSeed(p)
  <2>1. /\ pc[p] = "acquiring" /\ row = NoRow /\ row' = row /\ log' = log
        /\ pc' = [pc EXCEPT ![p] = "seeding"] /\ pc'[p] = "seeding"
        /\ lock' = lock /\ call' = call /\ gen' = gen /\ UNCHANGED <<runState, overtaken>>
        /\ gens' = [n \in {0} |-> Partial] /\ candidates' = << >>
    BY <1>3 DEF BeginSeed, At, Goto, IInv, LocalTypes
  <2>2. AreDirs(gens', Nat)
    BY <1>1, <2>1 DEF AreDirs
  <2>3. AreDirs(candidates', Mutations)
    BY <2>1, DOMAIN << >> = {} DEF AreDirs
  <2>4. DiskTypes'
    BY <1>2, <2>1, <2>2, <2>3 DEF DiskTypes
  <2>5. Progress(p)' /\ TreeMatchesLog'
    BY <1>2, <2>1 DEF Progress, TreeMatchesLog, Writing
  <2>6. QED
    BY <2>1, <2>4, <2>5, HolderGoes DEF Holding
<1>4. CASE Seed(p)
  <2>1. /\ pc[p] = "seeding" /\ UNCHANGED <<row, log, candidates>>
        /\ pc' = [pc EXCEPT ![p] = "seeded"] /\ pc'[p] = "seeded"
        /\ lock' = lock /\ call' = call /\ gen' = gen /\ UNCHANGED <<runState, overtaken>>
        /\ gens' = [gens EXCEPT ![0] = Base]
    BY <1>4 DEF Seed, At, Goto, IInv, LocalTypes
  <2>2. AreDirs(gens', Nat)
    BY <1>1, <1>2, <2>1 DEF DiskTypes, AreDirs
  <2>3. DiskTypes'
    BY <1>2, <2>1, <2>2 DEF DiskTypes
  <2>4. Progress(p)' /\ TreeMatchesLog'
    BY <1>2, <2>1 DEF Progress, TreeMatchesLog, Writing
  <2>5. QED
    BY <2>1, <2>3, <2>4, HolderGoes DEF Holding
<1>5. CASE InsertRow(p)
  <2>1. /\ pc[p] = "seeded" /\ UNCHANGED <<log, gens, candidates>> /\ row' = 0
        /\ pc' = [pc EXCEPT ![p] = "acquiring"] /\ pc'[p] = "acquiring"
        /\ lock' = lock /\ call' = call /\ gen' = gen /\ UNCHANGED <<runState, overtaken>>
    BY <1>5 DEF InsertRow, At, Goto, IInv, LocalTypes
  <2>2. row = NoRow /\ DOMAIN gens = {0} /\ gens[0] = Base /\ log = << >>
    BY <1>2, <2>1 DEF Progress, TreeMatchesLog
  <2>3. DiskTypes' /\ Progress(p)'
    BY <1>1, <1>2, <2>1 DEF DiskTypes, Progress, Writing
  <2>4. TreeMatchesLog' /\ row' # NoRow
    BY <2>1, <2>2 DEF TreeMatchesLog, NoRow, Base
  <2>5. QED
    BY <2>1, <2>3, <2>4, HolderGoes DEF Holding
<1>6. QED
  BY <1>3, <1>4, <1>5

LEMMA ReadAndCheckSteps ==
  ASSUME IInv, NEW p \in Procs, BeginRead(p) \/ Check(p)
  PROVE  IInv'
<1>1. DiskTypes /\ Progress(p) /\ TreeMatchesLog /\ LocalTypes
  BY DEF IInv
<1>2. PICK l \in {"reading", "checked"} :
        /\ pc[p] = IF l = "reading" THEN "working" ELSE "renamed"
        /\ UNCHANGED durable
        /\ pc' = [pc EXCEPT ![p] = l] /\ pc'[p] = l
        /\ lock' = lock /\ call' = call /\ UNCHANGED <<runState, overtaken>>
        /\ IF l = "reading" THEN gen' = [gen EXCEPT ![p] = row] /\ gen'[p] = row
           ELSE gen' = gen /\ runState = "IMPLEMENT"
  BY <1>1 DEF BeginRead, Check, At, Goto, LocalTypes
<1>3. DiskTypes' /\ TreeMatchesLog'
  BY <1>1, <1>2 DEF DiskTypes, TreeMatchesLog, durable
<1>4. Progress(p)'
  BY <1>1, <1>2 DEF Progress, durable, Writing, Applied
<1>5. QED
  BY <1>2, <1>3, <1>4, HolderGoes DEF Holding, durable

LEMMA CopySteps ==
  ASSUME IInv, NEW p \in Procs, Copy(p) \/ Operate(p)
  PROVE  IInv'
<1>1. DiskTypes /\ Progress(p) /\ TreeMatchesLog /\ LocalTypes
  BY DEF IInv
<1>2. CASE Copy(p)
  <2>1. /\ pc[p] = "working" /\ call[p] \in Mutations /\ ~Applied(call[p])
        /\ pc' = [pc EXCEPT ![p] = "copied"] /\ pc'[p] = "copied"
        /\ lock' = lock /\ call' = call /\ UNCHANGED <<runState, overtaken, row, log, gens>>
        /\ gen' = [gen EXCEPT ![p] = row] /\ gen'[p] = row
        /\ candidates' = Put(candidates, call[p], gens[row])
    BY <1>1, <1>2 DEF Copy, Fresh, At, Goto, LocalTypes
  <2>2. gens[row] = log /\ log \in AnyTree /\ row # NoRow
    BY <1>1, <2>1 DEF Progress, TreeMatchesLog, DiskTypes, AnyTree
  <2>3. call[p] \in DOMAIN candidates' /\ candidates'[call[p]] = log
    BY <2>1, <2>2 DEF Put
  <2>4. DiskTypes'
    BY <1>1, <2>1, <2>2, DirsChange DEF DiskTypes
  <2>5. Progress(p)' /\ TreeMatchesLog'
    BY <1>1, <2>1, <2>2, <2>3 DEF Progress, TreeMatchesLog, Writing, Applied
  <2>6. QED
    BY <2>1, <2>4, <2>5, HolderGoes DEF Holding
<1>3. CASE Operate(p)
  <2>1. /\ pc[p] = "copied"
        /\ pc' = [pc EXCEPT ![p] = "operated"] /\ pc'[p] = "operated"
        /\ lock' = lock /\ call' = call /\ gen' = gen
        /\ UNCHANGED <<runState, overtaken, row, log, gens>>
        /\ candidates' = [candidates EXCEPT ![call[p]] = Append(candidates[call[p]], call[p])]
    BY <1>1, <1>3 DEF Operate, At, Goto, LocalTypes
  <2>2. /\ call[p] \in Mutations /\ ~Applied(call[p]) /\ gen[p] = row /\ row # NoRow
        /\ call[p] \in DOMAIN candidates /\ candidates[call[p]] = log
    BY <1>1, <2>1 DEF Progress, Writing
  <2>3. Append(log, call[p]) \in AnyTree
    BY <1>1, <2>2, AppendTree DEF AnyTree, DiskTypes
  <2>4. call[p] \in DOMAIN candidates' /\ candidates'[call[p]] = Append(log, call[p])
    BY <2>1, <2>2
  <2>5. AreDirs(candidates', Mutations)
    BY <1>1, <2>1, <2>2, <2>3 DEF DiskTypes, AreDirs
  <2>6. DiskTypes' /\ TreeMatchesLog'
    BY <1>1, <2>1, <2>5 DEF DiskTypes, TreeMatchesLog
  <2>7. Progress(p)'
    BY <2>1, <2>2, <2>4 DEF Progress, Writing, Applied
  <2>8. QED
    BY <2>1, <2>6, <2>7, HolderGoes DEF Holding
<1>4. QED
  BY <1>2, <1>3

LEMMA RenameStep ==
  ASSUME IInv, NEW p \in Procs, Rename(p)
  PROVE  IInv'
<1>1. DiskTypes /\ Progress(p) /\ TreeMatchesLog /\ LocalTypes
  BY DEF IInv
<1>2. /\ pc[p] = "operated" /\ gen[p] + 1 \notin DOMAIN gens
      /\ pc' = [pc EXCEPT ![p] = "renamed"] /\ pc'[p] = "renamed"
      /\ lock' = lock /\ call' = call /\ gen' = gen /\ UNCHANGED <<runState, overtaken, row, log>>
      /\ gens' = Put(gens, gen[p] + 1, candidates[call[p]])
      /\ candidates' = Without(candidates, {call[p]})
  BY <1>1 DEF Rename, At, Goto, LocalTypes
<1>3. /\ call[p] \in Mutations /\ ~Applied(call[p]) /\ gen[p] = row /\ row # NoRow
      /\ candidates[call[p]] = Append(log, call[p])
      /\ row \in DOMAIN gens /\ 0 \in DOMAIN gens /\ row + 1 \in Nat
  BY <1>1, <1>2 DEF Progress, Writing, TreeMatchesLog, DiskTypes, NoRow
<1>4. Append(log, call[p]) \in AnyTree
  BY <1>1, <1>3, AppendTree DEF AnyTree, DiskTypes
<1>5. DiskTypes'
  BY <1>1, <1>2, <1>3, <1>4, DirsChange DEF DiskTypes
<1>6. /\ row + 1 \in DOMAIN gens' /\ gens'[row + 1] = Append(log, call[p])
      /\ row \in DOMAIN gens' /\ gens'[row] = gens[row]
      /\ 0 \in DOMAIN gens' /\ gens'[0] = gens[0]
  BY <1>2, <1>3 DEF Put
<1>7. Progress(p)' /\ TreeMatchesLog'
  BY <1>1, <1>2, <1>3, <1>6 DEF Progress, TreeMatchesLog, Writing, Applied
<1>8. QED
  BY <1>2, <1>5, <1>7, HolderGoes DEF Holding

LEMMA CommitStep ==
  ASSUME IInv, NEW p \in Procs, Commit(p)
  PROVE  /\ IInv'
         /\ call[p] \in Mutations /\ ~Applied(call[p]) /\ log' = Append(log, call[p])
         /\ pc[p] = "checked"
<1>1. DiskTypes /\ Progress(p) /\ TreeMatchesLog /\ LocalTypes
  BY DEF IInv
<1>2. /\ pc[p] = "checked" /\ ~Applied(call[p])
      /\ pc' = [pc EXCEPT ![p] = "committed"] /\ pc'[p] = "committed"
      /\ lock' = lock /\ call' = call /\ gen' = gen
      /\ UNCHANGED <<runState, overtaken, gens, candidates>>
      /\ log' = Append(log, call[p])
      /\ row' = IF row = gen[p] THEN gen[p] + 1 ELSE row
  BY <1>1 DEF Commit, At, Goto, LocalTypes
<1>3. /\ call[p] \in Mutations /\ gen[p] = row /\ row # NoRow
      /\ row + 1 \in DOMAIN gens /\ gens[row + 1] = Append(log, call[p])
  BY <1>1, <1>2 DEF Progress, Writing
<1>4. row \in Nat /\ row' = row + 1 /\ row' # NoRow
  BY <1>1, <1>2, <1>3 DEF DiskTypes, NoRow
<1>5. log' \in Seq(Mutations) /\ Len(log') = Len(log) + 1
  BY <1>1, <1>2, <1>3, AppendTree DEF DiskTypes
<1>6. DiskTypes'
  BY <1>1, <1>2, <1>4, <1>5 DEF DiskTypes
<1>7. TreeMatchesLog'
  BY <1>1, <1>2, <1>3, <1>4, <1>5 DEF TreeMatchesLog
<1>8. Progress(p)'
  BY <1>2, <1>3, <1>4 DEF Progress, Writing
<1>9. QED
  BY <1>2, <1>3, <1>4, <1>6, <1>7, <1>8, HolderGoes DEF Holding
-----------------------------------------------------------------------------
(* The ways in which the holder of the lock returns or raises.              *)

(* A directory the table does not name, other than gen-0, goes.             *)
LEMMA TreeStays ==
  ASSUME DiskTypes, TreeMatchesLog, row' = row, log' = log,
         row # NoRow => /\ 0 \in DOMAIN gens' /\ gens'[0] = gens[0]
                        /\ row \in DOMAIN gens' /\ gens'[row] = gens[row]
  PROVE  TreeMatchesLog'
BY DEF TreeMatchesLog

LEMMA UndoStep ==
  ASSUME IInv, NEW p \in Procs, pc[p] \in Writing \cup {"committed"}, NEW dirs, Undo(p, dirs),
         AreDirs(dirs, Nat), 0 \in DOMAIN dirs /\ dirs[0] = gens[0],
         row \in DOMAIN dirs /\ dirs[row] = gens[row]
  PROVE  IInv'
<1>1. DiskTypes /\ Progress(p) /\ TreeMatchesLog
  BY DEF IInv
<1>2. /\ candidates' = Without(candidates, {call[p]})
      /\ gens' = Without(dirs, {gen[p] + 1} \ {row})
      /\ Leave(p) /\ UNCHANGED <<runState, row, log>>
  BY DEF Undo
<1>3. gen[p] \in Nat
  BY <1>1 DEF Progress, DiskTypes, NoRow
<1>4. 0 \notin {gen[p] + 1} \ {row} /\ row \notin {gen[p] + 1} \ {row}
  BY <1>3
<1>5. DiskTypes'
  BY <1>1, <1>2, DirsChange DEF DiskTypes
<1>6. /\ 0 \in DOMAIN gens' /\ gens'[0] = gens[0]
      /\ row \in DOMAIN gens' /\ gens'[row] = gens[row]
  BY <1>2, <1>4 DEF Without, Restrict
<1>7. TreeMatchesLog'
  BY <1>1, <1>2, <1>6, TreeStays
<1>8. pc[p] \in Holding
  BY DEF Writing, Holding
<1>9. QED
  BY <1>2, <1>5, <1>7, <1>8, HolderLeaves

LEMMA UndoSteps ==
  ASSUME IInv, NEW p \in Procs, Refused(p) \/ Fails(p) \/ RemoveOldFails(p)
  PROVE  IInv'
<1>1. DiskTypes /\ Progress(p) /\ TreeMatchesLog
  BY DEF IInv
<1>2. CASE Refused(p) \/ Fails(p)
  <2>1. pc[p] \in Writing /\ Undo(p, gens)
    BY <1>2 DEF Refused, Fails, At, Writing
  <2>2. QED
    BY <1>1, <2>1, UndoStep DEF DiskTypes, TreeMatchesLog, Progress
<1>3. CASE RemoveOldFails(p)
  <2>1. /\ pc[p] = "committed" /\ gen[p] # 0
        /\ Undo(p, [gens EXCEPT ![gen[p]] = Partial])
    BY <1>3 DEF RemoveOldFails, At
  <2>2. gen[p] \in Nat /\ gen[p] + 1 = row /\ row # NoRow
    BY <1>1, <2>1 DEF Progress
  <2>3. PICK dirs : dirs = [gens EXCEPT ![gen[p]] = Partial]
    OBVIOUS
  <2>4. AreDirs(dirs, Nat)
    BY <1>1, <2>3 DEF DiskTypes, AreDirs, AnyTree
  <2>5. /\ 0 \in DOMAIN dirs /\ dirs[0] = gens[0]
        /\ row \in DOMAIN dirs /\ dirs[row] = gens[row]
    BY <1>1, <2>1, <2>2, <2>3 DEF TreeMatchesLog
  <2>6. Undo(p, dirs)
    BY <2>1, <2>3
  <2>7. QED
    BY <2>1, <2>4, <2>5, <2>6, UndoStep
<1>4. QED
  BY <1>2, <1>3

LEMMA LeaveSteps ==
  ASSUME IInv, NEW p \in Procs,
         \/ SeedFails(p) \/ EndRead(p) \/ Replay(p) \/ Denied(p) \/ CopyBlocked(p)
         \/ CopyFails(p) \/ RemoveOld(p)
  PROVE  IInv'
<1>1. DiskTypes /\ Progress(p) /\ TreeMatchesLog
  BY DEF IInv
<1>2. CASE EndRead(p) \/ Replay(p) \/ Denied(p) \/ CopyBlocked(p)
  <2>1. pc[p] \in Holding /\ Leave(p) /\ UNCHANGED <<runState, durable>>
    BY <1>2 DEF EndRead, Replay, Denied, CopyBlocked, Fresh, At, Holding
  <2>2. DiskTypes' /\ TreeMatchesLog'
    BY <1>1, <2>1 DEF durable, DiskTypes, TreeMatchesLog
  <2>3. QED
    BY <2>1, <2>2, HolderLeaves DEF durable
<1>3. CASE SeedFails(p)
  <2>1. /\ pc[p] \in {"seeding", "seeded"} /\ Leave(p)
        /\ gens' = << >> /\ UNCHANGED <<runState, row, log, candidates>>
    BY <1>3 DEF SeedFails
  <2>2. row = NoRow /\ pc[p] \in Holding
    BY <1>1, <2>1 DEF Progress, Holding
  <2>3. AreDirs(gens', Nat)
    BY <2>1, DOMAIN << >> = {} DEF AreDirs
  <2>4. DiskTypes' /\ TreeMatchesLog'
    BY <1>1, <2>1, <2>2, <2>3 DEF DiskTypes, TreeMatchesLog
  <2>5. QED
    BY <2>1, <2>2, <2>4, HolderLeaves
<1>4. CASE CopyFails(p)
  <2>1. /\ pc[p] \in Holding /\ Leave(p) /\ call[p] \in Mutations
        /\ candidates' = Put(candidates, call[p], Partial)
        /\ UNCHANGED <<runState, row, log, gens>>
    BY <1>4 DEF CopyFails, Fresh, At, Holding
  <2>2. DiskTypes' /\ TreeMatchesLog'
    BY <1>1, <2>1, DirsChange DEF DiskTypes, TreeMatchesLog, AnyTree
  <2>3. QED
    BY <2>1, <2>2, HolderLeaves
<1>5. CASE RemoveOld(p)
  <2>1. /\ pc[p] = "committed" /\ Leave(p)
        /\ gens' = Without(gens, {gen[p]} \ {0})
        /\ UNCHANGED <<runState, row, log, candidates>>
    BY <1>5 DEF RemoveOld, At
  <2>2. gen[p] \in Nat /\ gen[p] + 1 = row /\ row # NoRow
    BY <1>1, <2>1 DEF Progress
  <2>3. row \notin {gen[p]} \ {0} /\ 0 \notin {gen[p]} \ {0}
    BY <2>2
  <2>4. DiskTypes'
    BY <1>1, <2>1, DirsChange DEF DiskTypes
  <2>5. /\ 0 \in DOMAIN gens' /\ gens'[0] = gens[0]
        /\ row \in DOMAIN gens' /\ gens'[row] = gens[row]
    BY <1>1, <2>1, <2>2, <2>3 DEF Without, Restrict, TreeMatchesLog
  <2>6. TreeMatchesLog'
    BY <1>1, <2>1, <2>5, TreeStays
  <2>7. QED
    BY <2>1, <2>4, <2>6, HolderLeaves DEF Holding
<1>6. QED
  BY <1>2, <1>3, <1>4, <1>5
-----------------------------------------------------------------------------
(* The steps without the lock, and those that take and give it.             *)
LEMMA LockSteps ==
  ASSUME IInv, NEW p \in Procs, Lock(p) \/ Cleanup(p)
  PROVE  IInv'
<1>1. DiskTypes /\ LocalTypes /\ TreeMatchesLog /\ ValidatesAlone
      /\ \A q \in Procs : Progress(q)
  BY DEF IInv
<1>2. CASE Lock(p)
  <2>1. PICK l \in {"acquiring", "working"} :
          /\ pc' = [pc EXCEPT ![p] = l] /\ pc'[p] = l
          /\ pc[p] = IF l = "working" THEN "again" ELSE "acquire"
    BY <1>1, <1>2 DEF Lock, Wanted, At, Goto, LocalTypes
  <2>2. /\ lock = None /\ lock' = p
        /\ UNCHANGED <<runState, row, log, gens, candidates, call, gen, overtaken>>
    BY <1>2 DEF Lock, durable
  <2>3. \A q \in Procs \ {p} : pc'[q] = pc[q]
    BY <1>1, <2>1 DEF LocalTypes
  <2>4. LocalTypes'
    BY <1>1, <2>1, <2>2, <2>3, WorkspaceAssumption DEF LocalTypes, Holding, Waiting
  <2>5. DiskTypes' /\ TreeMatchesLog'
    BY <1>1, <2>2 DEF DiskTypes, TreeMatchesLog
  <2>6. \A q \in Procs : Progress(q)'
    BY <1>1, <2>1, <2>2, <2>3 DEF Progress, Writing, Applied
  <2>7. ValidatesAlone'
    BY <1>1, <2>1, <2>2, <2>3 DEF ValidatesAlone, Committing, At
  <2>8. QED
    BY <2>4, <2>5, <2>6, <2>7 DEF IInv
<1>3. CASE Cleanup(p)
  <2>1. /\ pc[p] = "acquiring" /\ row # NoRow
        /\ pc' = [pc EXCEPT ![p] = "again"] /\ pc'[p] = "again"
        /\ gens' = Restrict(gens, DOMAIN gens \cap {0, row}) /\ candidates' = << >>
        /\ lock' = None /\ UNCHANGED <<runState, row, log, call, gen, overtaken>>
    BY <1>1, <1>3 DEF Cleanup, At, Goto, LocalTypes
  <2>2. \A q \in Procs \ {p} : pc'[q] = pc[q] /\ pc[q] \notin Holding
    BY <1>1, <2>1 DEF LocalTypes, Holding
  <2>3. LocalTypes'
    BY <1>1, <2>1, <2>2, WorkspaceAssumption DEF LocalTypes, Holding, Waiting
  <2>4. AreDirs(candidates', Mutations) /\ AreDirs(gens', Nat)
    BY <1>1, <2>1, DOMAIN << >> = {} DEF AreDirs, DiskTypes, Restrict
  <2>5. DiskTypes'
    BY <1>1, <2>1, <2>4 DEF DiskTypes
  <2>6. /\ 0 \in DOMAIN gens' /\ gens'[0] = gens[0]
        /\ row \in DOMAIN gens' /\ gens'[row] = gens[row]
    BY <1>1, <2>1 DEF Restrict, TreeMatchesLog
  <2>7. TreeMatchesLog'
    BY <1>1, <2>1, <2>6, TreeStays
  <2>8. Progress(p)'
    BY <2>1 DEF Progress, Writing
  <2>9. ASSUME NEW q \in Procs \ {p} PROVE Progress(q)'
    BY <1>1, <2>1, <2>2, <2>9 DEF Progress, Holding, Writing
  <2>10. ~Committing'
    BY <2>1, <2>2 DEF Committing, At, Holding
  <2>11. ValidatesAlone'
    BY <1>1, <2>1, <2>2, <2>10 DEF ValidatesAlone
  <2>12. QED
    BY <2>3, <2>5, <2>7, <2>8, <2>9, <2>11 DEF IInv
<1>4. QED
  BY <1>2, <1>3

LEMMA CallSteps ==
  ASSUME IInv, NEW p \in Procs,
         \/ \E m \in Mutations \cup {None} : Start(p, m)
         \/ StartValidation(p) \/ BeginCopy(p) \/ EndCopy(p)
  PROVE  IInv'
<1>1. DiskTypes /\ LocalTypes /\ TreeMatchesLog /\ ValidatesAlone
      /\ \A q \in Procs : Progress(q)
  BY DEF IInv
<1>2. PICK l \in {"acquire", "copying", "idle"} : pc' = [pc EXCEPT ![p] = l] /\ pc'[p] = l
  BY <1>1 DEF Start, StartValidation, BeginCopy, EndCopy, Goto, LocalTypes
<1>3. /\ call' \in [Procs -> Mutations \cup {None, Profile}]
      /\ gen' \in [Procs -> Nat \cup {NoRow}]
      /\ \A q \in Procs \ {p} : pc'[q] = pc[q] /\ call'[q] = call[q] /\ gen'[q] = gen[q]
      /\ l = "acquire" /\ call'[p] = Profile => runState = "VALIDATE"
      /\ l = "copying" => /\ call'[p] = Profile /\ call[p] = Profile
                          /\ gen'[p] = row /\ pc[p] = "again"
      /\ l = "idle" => call'[p] = None
      /\ overtaken' = overtaken \/ (overtaken' = overtaken \ {p} /\ l = "idle")
  <2>1. call \in [Procs -> Mutations \cup {None, Profile}] /\ gen \in [Procs -> Nat \cup {NoRow}]
        /\ row \in Nat \cup {NoRow} /\ \A q \in Procs \ {p} : pc'[q] = pc[q]
    BY <1>1, <1>2 DEF LocalTypes, DiskTypes
  <2>2. ASSUME NEW m \in Mutations \cup {None}, Start(p, m)
        PROVE  /\ l = "acquire" /\ call' = [call EXCEPT ![p] = m] /\ gen' = gen /\ m # Profile
               /\ overtaken' = overtaken
    BY <1>1, <1>2, <2>2, WorkspaceAssumption DEF Start, Goto, LocalTypes
  <2>3. ASSUME StartValidation(p)
        PROVE  /\ l = "acquire" /\ call' = [call EXCEPT ![p] = Profile] /\ gen' = gen
               /\ overtaken' = overtaken /\ runState = "VALIDATE"
    BY <1>1, <1>2, <2>3 DEF StartValidation, Goto, LocalTypes
  <2>4. ASSUME BeginCopy(p)
        PROVE  /\ l = "copying" /\ call' = call /\ gen' = [gen EXCEPT ![p] = row]
               /\ overtaken' = overtaken /\ call[p] = Profile /\ pc[p] = "again"
    BY <1>1, <1>2, <2>4 DEF BeginCopy, Goto, LocalTypes, At
  <2>5. ASSUME EndCopy(p)
        PROVE  /\ l = "idle" /\ overtaken' = overtaken \ {p}
               /\ call' = [call EXCEPT ![p] = None] /\ gen' = [gen EXCEPT ![p] = NoRow]
    BY <1>1, <1>2, <2>5 DEF EndCopy, Goto, LocalTypes
  <2>6. CASE \E m \in Mutations \cup {None} : Start(p, m)
    BY <2>1, <2>2, <2>6
  <2>7. CASE StartValidation(p)
    BY <2>1, <2>3, <2>7
  <2>8. CASE BeginCopy(p)
    BY <2>1, <2>4, <2>8
  <2>9. CASE EndCopy(p)
    BY <2>1, <2>5, <2>9
  <2>10. QED
    BY <2>6, <2>7, <2>8, <2>9
<1>4. pc[p] \notin Holding /\ UNCHANGED <<runState, row, log, gens, candidates, lock>>
  BY DEF Start, StartValidation, BeginCopy, EndCopy, durable, At, Holding
<1>5. LocalTypes'
  BY <1>1, <1>2, <1>3, <1>4 DEF LocalTypes, Holding, Waiting
<1>6. DiskTypes' /\ TreeMatchesLog'
  BY <1>1, <1>4 DEF DiskTypes, TreeMatchesLog
<1>7. Progress(p)'
  BY <1>1, <1>2, <1>3, <1>4 DEF Progress, Writing
<1>8. ASSUME NEW q \in Procs \ {p} PROVE Progress(q)'
  BY <1>1, <1>3, <1>4, <1>8 DEF Progress, Writing, Applied
<1>9. Committing' => Committing
  BY <1>2, <1>3 DEF Committing, At
<1>10. ValidatesAlone'
  <2>1. ASSUME NEW q \in Procs \ {p}, call'[q] = Profile, q \notin overtaken'
        PROVE  /\ runState' = "VALIDATE"
               /\ pc'[q] \in {"again", "copying"} => ~Committing'
               /\ pc'[q] = "copying" => gen'[q] = row'
    BY <1>1, <1>3, <1>4, <1>9, <2>1 DEF ValidatesAlone
  <2>2. ASSUME call'[p] = Profile, p \notin overtaken'
        PROVE  /\ runState' = "VALIDATE"
               /\ pc'[p] \in {"again", "copying"} => ~Committing'
               /\ pc'[p] = "copying" => gen'[p] = row'
    BY <1>1, <1>2, <1>3, <1>4, <1>9, <2>2, WorkspaceAssumption DEF ValidatesAlone
  <2>3. QED
    BY <2>1, <2>2 DEF ValidatesAlone
<1>11. QED
  BY <1>5, <1>6, <1>7, <1>8, <1>10 DEF IInv

LEMMA OutsideSteps ==
  ASSUME IInv,
         \/ \E p \in Procs : Crash(p)
         \/ \E to \in Stages : MoveRun(to)
         \/ UNCHANGED vars
  PROVE  IInv'
<1>1. DiskTypes /\ LocalTypes /\ TreeMatchesLog /\ ValidatesAlone
      /\ \A q \in Procs : Progress(q)
  BY DEF IInv
<1>2. ASSUME NEW p \in Procs, Crash(p) PROVE IInv'
  <2>1. /\ pc'[p] = "idle" /\ call'[p] = None /\ gen'[p] = NoRow
        /\ lock' = IF lock = p THEN None ELSE lock
        /\ overtaken' = overtaken \ {p}
        /\ UNCHANGED <<runState, row, log, gens, candidates>>
        /\ \A q \in Procs \ {p} : pc'[q] = pc[q] /\ call'[q] = call[q] /\ gen'[q] = gen[q]
    BY <1>1, <1>2 DEF Crash, Goto, LocalTypes, durable
  <2>2. LocalTypes'
    BY <1>1, <1>2, <2>1, WorkspaceAssumption DEF Crash, Goto, LocalTypes, Holding
  <2>3. DiskTypes' /\ TreeMatchesLog'
    BY <1>1, <2>1 DEF DiskTypes, TreeMatchesLog
  <2>4. Progress(p)'
    BY <2>1 DEF Progress, Writing
  <2>5. ASSUME NEW q \in Procs \ {p} PROVE Progress(q)'
    BY <1>1, <2>1, <2>5 DEF Progress, Writing, Applied
  <2>6. Committing' => Committing
    BY <2>1 DEF Committing, At
  <2>7. ValidatesAlone'
    BY <1>1, <2>1, <2>6, WorkspaceAssumption DEF ValidatesAlone
  <2>8. QED
    BY <2>2, <2>3, <2>4, <2>5, <2>7 DEF IInv
<1>3. ASSUME NEW to \in Stages, MoveRun(to) PROVE IInv'
  <2>1. /\ runState' = to /\ UNCHANGED <<row, log, gens, candidates, lock, pc, call, gen>>
        /\ overtaken' = IF runState = "VALIDATE"
                        THEN overtaken \cup {p \in Procs : call[p] = Profile} ELSE overtaken
    BY <1>3 DEF MoveRun, durable, local
  <2>2. LocalTypes' /\ DiskTypes' /\ TreeMatchesLog'
    BY <1>1, <2>1 DEF LocalTypes, DiskTypes, TreeMatchesLog
  <2>3. \A q \in Procs : Progress(q)'
    BY <1>1, <2>1 DEF Progress, Applied
  <2>4. ValidatesAlone'
    BY <1>1, <2>1 DEF ValidatesAlone
  <2>5. QED
    BY <2>2, <2>3, <2>4 DEF IInv
<1>4. CASE UNCHANGED vars
  <2>1. UNCHANGED <<runState, row, log, gens, candidates, lock, pc, call, gen, overtaken>>
    BY <1>4 DEF vars, durable, local
  <2>2. LocalTypes' /\ DiskTypes' /\ TreeMatchesLog' /\ ValidatesAlone'
    BY <1>1, <2>1 DEF LocalTypes, DiskTypes, TreeMatchesLog, ValidatesAlone, Committing, At
  <2>3. \A q \in Procs : Progress(q)'
    BY <1>1, <2>1 DEF Progress, Applied
  <2>4. QED
    BY <2>2, <2>3 DEF IInv
<1>5. QED
  BY <1>2, <1>3, <1>4

LEMMA InvStep ==
  ASSUME IInv, [Next]_vars
  PROVE  IInv'
BY SeedSteps, ReadAndCheckSteps, CopySteps, RenameStep, CommitStep, UndoSteps, LeaveSteps,
  LockSteps, CallSteps, OutsideSteps
DEF Next, Work

LEMMA InvHolds == Spec => []IInv
<1>1. Init => IInv
  <2> SUFFICES ASSUME Init PROVE IInv
    OBVIOUS
  <2>1. DiskTypes
    <3>1. AreDirs(gens, Nat) /\ AreDirs(candidates, Mutations)
      BY DOMAIN << >> = {} DEF Init, AreDirs
    <3>2. QED
      BY <3>1 DEF Init, DiskTypes
  <2>2. LocalTypes
    BY WorkspaceAssumption DEF Init, LocalTypes, Stages, Holding
  <2>3. TreeMatchesLog
    BY DEF Init, TreeMatchesLog
  <2>4. \A p \in Procs : Progress(p)
    BY DEF Init, Progress, Writing
  <2>5. ValidatesAlone
    BY WorkspaceAssumption DEF Init, ValidatesAlone
  <2>6. QED
    BY <2>1, <2>2, <2>3, <2>4, <2>5 DEF IInv
<1>2. IInv /\ [Next]_vars => IInv'
  BY InvStep
<1>3. QED
  BY <1>1, <1>2, PTL DEF Spec
-----------------------------------------------------------------------------
(* The variables have their types, and a process has the lock exactly while *)
(* it is between lock and unlock.                                           *)
THEOREM WorkspaceTypes == Spec => []TypeOK
BY InvHolds, TypesFollow, PTL

(* The table, the log of mutations and the directory on disk agree in every *)
(* state, whatever fails or dies, and the base revision stays.              *)
THEOREM TablesAndTreeAgree == Spec => []TreeMatchesLog
<1>1. IInv => TreeMatchesLog
  BY DEF IInv
<1>2. QED
  BY <1>1, InvHolds, PTL

(* Who reads a generation, under the lock or for a validation the run still *)
(* waits for, reads the current one, and all of it.                         *)
THEOREM ReadersSeeOneTree == Spec => []ReadsOneTree
<1>1. IInv => ReadsOneTree
  <2> SUFFICES ASSUME IInv, NEW p \in Procs,
                      At(p, "reading") \/ (At(p, "copying") /\ p \notin overtaken)
               PROVE  gen[p] = row /\ gen[p] \in DOMAIN gens /\ gens[gen[p]] = log
    BY DEF ReadsOneTree
  <2>1. gen[p] = row /\ row # NoRow
    BY DEF IInv, Progress, ValidatesAlone, At
  <2>2. QED
    BY <2>1 DEF IInv, TreeMatchesLog
<1>2. QED
  BY <1>1, InvHolds, PTL

(* Only the commit of a new mutation changes the log.                       *)
LEMMA LogStep ==
  ASSUME IInv, [Next]_vars
  PROVE  \/ log' = log
         \/ \E m \in Mutations : ~Applied(m) /\ log' = Append(log, m)
<1>1. ASSUME NEW p \in Procs, Undo(p, gens) \/ Undo(p, [gens EXCEPT ![gen[p]] = Partial])
      PROVE  log' = log
  BY <1>1 DEF Undo
<1>2. QED
  BY <1>1, CommitStep DEF Next, Work, vars, durable, Start, StartValidation, Crash, MoveRun, Lock,
    BeginSeed, Seed, InsertRow, SeedFails, Cleanup, BeginRead, EndRead, BeginCopy, EndCopy,
    Replay, Denied, Copy, CopyBlocked, CopyFails, Operate, Rename, Check, RemoveOld, Refused,
    Fails, RemoveOldFails

(* The workspace implements the versioned tree: its current tree is the log *)
(* applied to the base revision.                                            *)
THEOREM WorkspaceIsAVersionedTree == Spec => ImplementsVersionedTree
<1>1. Init => Tree!Init
  BY DEF Init, Tree!Init, Base
<1>2. IInv /\ IInv' /\ [Next]_vars => [Tree!Next]_(IF row = NoRow THEN Base ELSE gens[row])
  <2> SUFFICES ASSUME IInv, IInv', [Next]_vars
               PROVE  [Tree!Next]_(IF row = NoRow THEN Base ELSE gens[row])
    OBVIOUS
  <2>1. /\ (IF row = NoRow THEN Base ELSE gens[row]) = log
        /\ (IF row' = NoRow THEN Base ELSE gens'[row']) = log'
    BY DEF IInv, TreeMatchesLog, Base, NoRow
  <2>2. CASE log' = log
    BY <2>1, <2>2
  <2>3. CASE \E m \in Mutations : ~Applied(m) /\ log' = Append(log, m)
    <3>1. PICK m \in Mutations : m \notin Range(log) /\ log' = Append(log, m)
      BY <2>3 DEF Applied
    <3>2. Tree!Apply(m)
      BY <2>1, <3>1 DEF Tree!Apply, Tree!Range, Range
    <3>3. QED
      BY <3>2 DEF Tree!Next
  <2>4. QED
    BY <2>2, <2>3, LogStep
<1>3. QED
  BY <1>1, <1>2, InvHolds, PTL DEF Spec, ImplementsVersionedTree, Tree!Spec

(* A cancelled run whose last check has passed keeps its generation.        *)
Frozen(k) == runState = "CANCELLED" /\ ~Committing /\ row = k

LEMMA FrozenStep ==
  ASSUME IInv, NEW k \in Nat, Frozen(k), [Next]_vars
  PROVE  Frozen(k)'
<1>1. row # NoRow /\ row = k /\ runState = "CANCELLED" /\ \A p \in Procs : pc[p] # "checked"
  BY DEF Frozen, NoRow, Committing, At
<1>2. runState' = "CANCELLED"
  <2>1. \A p \in Procs : \A dirs : Undo(p, dirs) => runState' = runState
    BY DEF Undo
  <2>2. \A to \in Stages : ~MoveRun(to)
    BY <1>1 DEF MoveRun, ValidTransition, Terminal, Aborted
  <2>3. QED
    BY <1>1, <2>1, <2>2 DEF Next, Work, vars, Start, StartValidation, Crash, Lock, BeginSeed, Seed,
      InsertRow, SeedFails, Cleanup, BeginRead, EndRead, BeginCopy, EndCopy, Replay, Denied, Copy,
      CopyBlocked, CopyFails, Operate, Rename, Check, Commit, RemoveOld, Refused, Fails,
      RemoveOldFails
<1>3. row' = row
  <2>1. \A p \in Procs : \A dirs : Undo(p, dirs) => row' = row
    BY DEF Undo
  <2>2. \A p \in Procs : ~InsertRow(p) /\ ~Commit(p)
    BY <1>1 DEF InsertRow, Commit, At, IInv, Progress
  <2>3. QED
    BY <2>1, <2>2 DEF Next, Work, vars, durable, Start, StartValidation, Crash, MoveRun, Lock,
      BeginSeed, Seed, SeedFails, Cleanup, BeginRead, EndRead, BeginCopy, EndCopy, Replay, Denied,
      Copy, CopyBlocked, CopyFails, Operate, Rename, Check, RemoveOld, Refused, Fails,
      RemoveOldFails
<1>4. ASSUME NEW p \in Procs PROVE pc'[p] # "checked"
  <2>1. \A q \in Procs : ~Check(q)
    BY <1>1 DEF Check
  <2>2. pc' = pc \/ \E q \in Procs, l \in {"idle", "copying"} \cup Waiting \cup Holding :
                      l # "checked" /\ pc' = [pc EXCEPT ![q] = l]
    <3>1. \A q \in Procs : \A dirs : Undo(q, dirs) => pc' = [pc EXCEPT ![q] = "idle"]
      BY DEF Undo, Leave, Goto
    <3>2. QED
      BY <2>1, <3>1 DEF Next, Work, vars, local, Start, StartValidation, Crash, MoveRun, Lock,
        BeginSeed, Seed, InsertRow, SeedFails, Cleanup, BeginRead, EndRead, BeginCopy, EndCopy,
        Replay, Denied, Copy, CopyBlocked, CopyFails, Operate, Rename, Commit, RemoveOld,
        Refused, Fails, RemoveOldFails, Leave, Goto, Holding, Waiting
  <2>3. QED
    BY <1>1, <2>2 DEF IInv, LocalTypes
<1>5. QED
  BY <1>1, <1>2, <1>3, <1>4 DEF Frozen, Committing, At

(* Nothing is written for a cancelled run, but for a mutation whose last    *)
(* check came before.                                                       *)
THEOREM CancellationFreezes == Spec => CancelFreezesTheTree
<1> SUFFICES ASSUME NEW k \in 0..Cardinality(Mutations)
             PROVE  Spec => [](runState = "CANCELLED" /\ ~Committing /\ row = k => [](row = k))
  BY DEF CancelFreezesTheTree
<1>1. k \in Nat
  OBVIOUS
<1>2. IInv /\ Frozen(k) /\ [Next]_vars => Frozen(k)'
  BY <1>1, FrozenStep
<1>3. Frozen(k) <=> runState = "CANCELLED" /\ ~Committing /\ row = k
  BY DEF Frozen
<1>4. QED
  BY <1>2, <1>3, InvHolds, PTL DEF Spec
=============================================================================
