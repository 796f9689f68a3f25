------------------------- MODULE StoreEngineProofs -------------------------
(***************************************************************************)
(* The store, the mutation lock it is built on, and the command receipts    *)
(* that are built on it (last two sections).                               *)
(*                                                                         *)
(* The store keeps its types, its mutations are whole, and it implements   *)
(* the log of ObjectLog: for every set of processes, calls, operations and *)
(* objects, every number of crashes and of failed writes.  Boot is         *)
(* harmless where one process writes the store (OneWriter), and a retry is *)
(* idempotent where an operation has one caller (SeparateCallers).         *)
(*                                                                         *)
(* Versions carry the refinement: of every prefix of the store file an     *)
(* object that occurs in it has a highest version, so that Latest is one   *)
(* of them, and an update's line is the successor of the version that its  *)
(* operation expects, so that the compare fails once the line is there.    *)
(***************************************************************************)
EXTENDS MutationLock, StoreEngine, CommandReceipts, SequenceTheorems, TLAPS

ObjLine == [op : Ops, id : Ids, ver : Nat, base : Nat]
TraceLine ==
    {t \in [action : {"create", "update"}, op : Ops, id : Ids] : t.id = TargetOf[t.op]}
      \union {TruncateTrace}

Disk ==
    /\ file \in [Files -> [lines : Seq(ObjLine \union TraceLine), torn : BOOLEAN]]
    /\ Objs \in Seq(ObjLine)
    /\ Traces \in Seq(TraceLine)

CallsOK ==
    /\ pc \in [Clients -> {"idle", "wantAppend", "wantComplete", "appended"}]
    /\ op \in [Clients -> Ops \union {None}]
    /\ base \in [Clients -> Nat] /\ expected \in [Ops -> Nat]
    /\ \A c \in Clients : pc[c] # "idle" => op[c] \in Ops
    /\ \A c \in Clients :
         pc[c] = "wantAppend" /\ ActionOf[op[c]] = "update" => expected[op[c]] > 0

MemosOK ==
    /\ memo \in [Procs -> [Files -> Int]]
    /\ \A e \in Procs, f \in Files : memo[e][f] \in NoMemo .. Len(file[f].lines)

OthersOK ==
    /\ tombs \subseteq Ids
    /\ lock \in Clients \union Procs \union {None}
    /\ eng \in [Procs -> Stages]
    /\ acked \subseteq Ops /\ refused \subseteq Ops
    /\ misled \subseteq landed /\ landed \subseteq Ops
    /\ lost \subseteq Files \X (Ops \union {None})

(* The highest version of an object among the first n lines is one of them. *)
Summit(lines, n, id) ==
    (\E i \in 1 .. n : lines[i].id = id) =>
        \E j \in 1 .. n :
            /\ lines[j].id = id
            /\ \A k \in 1 .. n : lines[k].id = id => lines[k].ver <= lines[j].ver

Versions ==
    /\ \A i \in 1 .. Len(Objs) :
         /\ Objs[i].id = TargetOf[Objs[i].op] /\ Objs[i].ver > 0
         /\ ActionOf[Objs[i].op] = "update" =>
              /\ expected[Objs[i].op] > 0
              /\ Objs[i].ver = expected[Objs[i].op] + 1
    /\ \A n \in 0 .. Len(Objs), id \in Ids : Summit(Objs, n, id)

(* What a call is about to complete has its object line.                    *)
Pending ==
    \A c \in Clients :
        /\ pc[c] = "appended" => HasLine(Lines("objs"), op[c]) \/ <<"objs", op[c]>> \in lost
        /\ pc[c] = "wantComplete" => HasLine(Lines("objs"), op[c])

Types == Disk /\ CallsOK /\ MemosOK /\ OthersOK
IInv == Types /\ Versions /\ Pending /\ MutationsAreWhole

-----------------------------------------------------------------------------
(* What a reader sees of the object file, and its highest version.          *)

(* Latest of a prefix is the highest version in it, or 0 for no object.     *)
LEMMA LatestIs ==
    ASSUME Types, Versions, NEW n \in 0 .. Len(Objs), NEW id \in Ids
    PROVE  LET latest == Latest({Objs[i] : i \in 1 .. n}, id)
           IN  /\ latest \in Nat
               /\ latest = 0 => \A i \in 1 .. n : Objs[i].id # id
               /\ latest > 0 => \E i \in 1 .. n : Objs[i].id = id /\ Objs[i].ver = latest
               /\ \A i \in 1 .. n : Objs[i].id = id => Objs[i].ver <= latest
  <1>a. Len(Objs) \in Nat /\ \A i \in 1 .. Len(Objs) : Objs[i] \in ObjLine
    BY DEF Types, Disk
  <1> DEFINE seen == {Objs[i] : i \in 1 .. n}
             versions == {l.ver : l \in {m \in seen : m.id = id}}
             latest == Latest(seen, id)
  <1>0. /\ Len(Objs) \in Nat
        /\ \A i \in 1 .. n : Objs[i] \in ObjLine /\ Objs[i].ver \in Nat /\ Objs[i].ver > 0
    <2>2. n \in Nat /\ n <= Len(Objs) BY <1>a
    <2>3. \A i \in 1 .. Len(Objs) : Objs[i].ver \in Nat BY <1>a DEF ObjLine
    <2>4. \A i \in 1 .. Len(Objs) : Objs[i].ver > 0 BY DEF Versions
    <2>5. 1 .. n \subseteq 1 .. Len(Objs) BY <1>a, <2>2
    <2> QED BY <1>a, <2>3, <2>4, <2>5
  <1>1. \A i \in 1 .. n : Objs[i].id = id => Objs[i].ver \in versions
    OBVIOUS
  <1>2. \A v \in versions : \E i \in 1 .. n : Objs[i].id = id /\ Objs[i].ver = v
    OBVIOUS
  <1>3. CASE versions = {}
    <2>1. latest = 0 BY <1>3 DEF Latest
    <2>2. \A i \in 1 .. n : Objs[i].id # id BY <1>1, <1>3
    <2> QED BY <2>1, <2>2
  <1>4. CASE versions # {}
    <2>1. PICK i \in 1 .. n : Objs[i].id = id BY <1>2, <1>4
    <2>2. Summit(Objs, n, id) BY DEF Versions
    <2>3. PICK j \in 1 .. n : /\ Objs[j].id = id
                              /\ \A k \in 1 .. n : Objs[k].id = id => Objs[k].ver <= Objs[j].ver
      BY <2>1, <2>2 DEF Summit
    <2>4. Objs[j].ver \in versions /\ \A w \in versions : w <= Objs[j].ver
      BY <1>1, <1>2, <2>3
    <2>5. latest \in versions /\ \A w \in versions : w <= latest
      <3>1. latest = CHOOSE v \in versions : \A w \in versions : w <= v
        BY <1>4 DEF Latest
      <3>2. \E v \in versions : \A w \in versions : w <= v BY <2>4
      <3> HIDE DEF latest, versions
      <3> QED BY <3>1, <3>2
    <2>6. PICK m \in 1 .. n : Objs[m].id = id /\ Objs[m].ver = latest
      <3> HIDE DEF latest, versions
      <3> QED BY <1>2, <2>5
    <2>7. latest \in Nat /\ latest > 0
      <3> HIDE DEF latest, versions
      <3> QED BY <1>0, <2>6
    <2>8. \A k \in 1 .. n : Objs[k].id = id => Objs[k].ver <= latest BY <1>1, <2>5
    <2>9. /\ latest \in Nat
          /\ latest = 0 => \A i1 \in 1 .. n : Objs[i1].id # id
          /\ \E i1 \in 1 .. n : Objs[i1].id = id /\ Objs[i1].ver = latest
      <3> HIDE DEF latest, versions
      <3> QED BY <2>6, <2>7
    <2> QED BY ONLY <2>8, <2>9
  <1> QED BY <1>3, <1>4

(* A reader sees a prefix of a file.                                        *)
LEMMA ViewIs ==
    ASSUME Types, NEW e \in Procs, NEW f \in Files
    PROVE  /\ ViewLen(e, f) \in 0 .. Len(file[f].lines)
           /\ View(e, f) = {file[f].lines[i] : i \in 1 .. ViewLen(e, f)}
           /\ View(e, f) \subseteq Lines(f)
  <1>1. Len(file[f].lines) \in Nat BY DEF Types, Disk
  <1>2. ViewLen(e, f) \in 0 .. Len(file[f].lines)
    BY <1>1 DEF Types, MemosOK, ViewLen, NoMemo
  <1> QED BY <1>1, <1>2 DEF View, Lines

(* What the compare-and-set reads inside the lock, and what readers merge.  *)
LEMMA LatestInFile ==
    ASSUME Types, Versions, NEW id \in Ids
    PROVE  LET latest == Latest(Lines("objs"), id)
           IN  /\ latest \in Nat
               /\ latest = 0 => \A i \in 1 .. Len(Objs) : Objs[i].id # id
               /\ latest > 0 => \E i \in 1 .. Len(Objs) : Objs[i].id = id /\ Objs[i].ver = latest
               /\ \A i \in 1 .. Len(Objs) : Objs[i].id = id => Objs[i].ver <= latest
  <1>1. Len(Objs) \in 0 .. Len(Objs) BY DEF Types, Disk
  <1>2. Lines("objs") = {Objs[i] : i \in 1 .. Len(Objs)} BY DEF Lines, Objs
  <1> QED BY <1>1, <1>2, LatestIs

LEMMA LatestInView ==
    ASSUME Types, Versions, NEW e \in Procs, NEW id \in Ids
    PROVE  Latest(View(e, "objs"), id) \in Nat
  <1>1. "objs" \in Files BY DEF Files
  <1>2. /\ ViewLen(e, "objs") \in 0 .. Len(Objs)
        /\ View(e, "objs") = {Objs[i] : i \in 1 .. ViewLen(e, "objs")}
    BY <1>1, ViewIs DEF Objs
  <1> QED BY <1>2, LatestIs

-----------------------------------------------------------------------------
(* How the files move: not at all, or by one line of one file, which lands  *)
(* or is lost.                                                              *)

DiskType == [Files -> [lines : Seq(ObjLine \union TraceLine), torn : BOOLEAN]]

Still ==
    /\ file' \in DiskType /\ lost' = lost
    /\ \A f \in Files : file'[f].lines = file[f].lines

Grows(f, line) ==
    /\ file' \in DiskType
    /\ \A g \in Files \ {f} : file'[g].lines = file[g].lines
    /\ file'[f].lines \in {file[f].lines, Append(file[f].lines, line)}
    /\ lost \subseteq lost' /\ lost' \subseteq lost \union {<<f, line.op>>}

Landed(f, line) == line \in Lines(f)' \/ <<f, line.op>> \in lost'

(* A whole append grows its file by the line, which lands or is lost.       *)
LEMMA AppendGrows ==
    ASSUME Types, NEW f \in Files, NEW line \in ObjLine \union TraceLine, WholeAppend(f, line)
    PROVE  Grows(f, line) /\ Landed(f, line)
  <1> DEFINE old == file[f].lines
  <1>1. file \in DiskType BY DEF Types, Disk, DiskType
  <1>2. old \in Seq(ObjLine \union TraceLine) /\ file[f].torn \in BOOLEAN
    BY <1>1 DEF DiskType
  <1>3. Append(old, line) \in Seq(ObjLine \union TraceLine)
    BY <1>2
  <1>4. file'[f].lines = IF file[f].torn THEN old ELSE Append(old, line)
    BY <1>1 DEF WholeAppend, DiskType
  <1>5. file' \in DiskType /\ \A g \in Files \ {f} : file'[g] = file[g]
    BY <1>1, <1>2, <1>3 DEF WholeAppend, DiskType
  <1>6. lost' = IF file[f].torn THEN lost \union {<<f, line.op>>} ELSE lost
    BY DEF WholeAppend
  <1>7. Grows(f, line)
    <2>1. \A g \in Files \ {f} : file'[g].lines = file[g].lines BY <1>5
    <2>2. file'[f].lines \in {file[f].lines, Append(file[f].lines, line)} BY <1>4
    <2>3. lost \subseteq lost' /\ lost' \subseteq lost \union {<<f, line.op>>} BY <1>6
    <2> QED BY <1>5, <2>1, <2>2, <2>3 DEF Grows
  <1>8. CASE file[f].torn BY <1>6, <1>7, <1>8 DEF Landed
  <1>9. CASE ~file[f].torn
    <2>1. file'[f].lines = Append(old, line) BY <1>4, <1>9
    <2>2. /\ Len(file'[f].lines) \in Nat
          /\ Len(file'[f].lines) \in 1 .. Len(file'[f].lines)
          /\ file'[f].lines[Len(file'[f].lines)] = line
      BY <1>2, <2>1
    <2>3. line \in {file'[f].lines[i] : i \in 1 .. Len(file'[f].lines)} BY <2>2
    <2>4. Lines(f)' = {file'[f].lines[i] : i \in 1 .. Len(file'[f].lines)} BY DEF Lines
    <2> QED BY <1>7, <2>3, <2>4 DEF Landed
  <1> QED BY <1>7, <1>8, <1>9

(* A broken append grows its file by no other line.                         *)
LEMMA BrokenGrows ==
    ASSUME Types, NEW f \in Files, NEW line \in ObjLine \union TraceLine, BrokenAppend(f, line)
    PROVE  Grows(f, line)
  <1>1. file \in DiskType BY DEF Types, Disk, DiskType
  <1>2. CASE file' = file /\ lost' = lost
    BY <1>1, <1>2 DEF Grows
  <1>3. CASE file' = [file EXCEPT ![f].torn = TRUE] /\ lost' = lost
    <2>1. file' \in DiskType /\ \A g \in Files : file'[g].lines = file[g].lines
      BY <1>1, <1>3 DEF DiskType
    <2> QED BY <1>3, <2>1 DEF Grows
  <1>4. CASE WholeAppend(f, line)
    BY <1>4, AppendGrows
  <1> QED BY <1>2, <1>3, <1>4 DEF BrokenAppend

(* A file grows by no other line than the one appended to it.               *)
LEMMA GrowsByOne ==
    ASSUME Types, NEW f \in Files, NEW line, Grows(f, line)
    PROVE  Lines(f)' \subseteq Lines(f) \union {line}
  <1> DEFINE old == file[f].lines
             new == file'[f].lines
  <1>1. old \in Seq(ObjLine \union TraceLine) BY DEF Types, Disk
  <1>2. new = old \/ new = Append(old, line) BY DEF Grows
  <1>3. {new[i] : i \in 1 .. Len(new)} \subseteq {old[i] : i \in 1 .. Len(old)} \union {line}
    <2>1. CASE new = old BY <2>1
    <2>2. CASE new = Append(old, line)
      <3>1. /\ Len(old) \in Nat /\ Len(new) = Len(old) + 1 /\ new[Len(new)] = line
            /\ \A i \in 1 .. Len(old) : new[i] = old[i]
        BY <1>1, <2>2
      <3>2. \A i \in 1 .. Len(new) : i \in 1 .. Len(old) \/ i = Len(new) BY <3>1
      <3> HIDE DEF old, new
      <3> QED BY <3>1, <3>2
    <2> QED BY <1>2, <2>1, <2>2
  <1> QED BY <1>3 DEF Lines

(* The line that a mutation in the lock appends.                            *)
LEMMA NewLineIs ==
    ASSUME Types, Versions, NEW c \in Clients, pc[c] = "wantAppend"
    PROVE  /\ NewLine(c) \in ObjLine
           /\ NewLine(c).op = op[c] /\ NewLine(c).id = TargetOf[op[c]]
           /\ op[c] \in Ops /\ TargetOf[op[c]] \in Ids
  <1>1. op[c] \in Ops BY DEF Types, CallsOK
  <1>2. TargetOf[op[c]] \in Ids BY <1>1, StoreAssumption DEF StoreAssumption
  <1>3. Latest(Lines("objs"), TargetOf[op[c]]) \in Nat BY <1>2, LatestInFile
  <1>4. base[c] \in Nat BY DEF Types, CallsOK
  <1>5. (IF ActionOf[op[c]] = "create" THEN 1 ELSE Latest(Lines("objs"), TargetOf[op[c]]) + 1) \in Nat
    BY <1>3
  <1> QED BY <1>1, <1>2, <1>4, <1>5 DEF NewLine, ObjLine

(* The trace that a mutation appends.                                       *)
LEMMA TraceLineIs ==
    ASSUME Types, NEW c \in Clients, pc[c] # "idle", NEW action \in {"create", "update"}
    PROVE  /\ TraceOf(op[c], action) \in TraceLine
           /\ TraceOf(op[c], action).op = op[c] /\ op[c] \in Ops
  <1>1. op[c] \in Ops BY DEF Types, CallsOK
  <1>2. TargetOf[op[c]] \in Ids BY <1>1, StoreAssumption DEF StoreAssumption
  <1> QED BY <1>1, <1>2 DEF TraceOf, TraceLine

(* The trace of a truncation names no operation.                            *)
LEMMA TruncateIs == TruncateTrace \in TraceLine /\ TruncateTrace.op = None
  BY DEF TruncateTrace, TraceLine

-----------------------------------------------------------------------------
(* Every step moves the files in one of three ways.                         *)

MovesObjs ==
    \E c \in Clients : /\ pc[c] = "wantAppend" /\ CasHolds(op[c]) /\ expected' = expected
                       /\ Grows("objs", NewLine(c))
MovesTraces ==
    \E line \in TraceLine :
        /\ Grows("traces", line) /\ expected' = expected
        /\ \/ line.op = None
           \/ \E c \in Clients : pc[c] \in {"appended", "wantComplete"} /\ op[c] = line.op

(* A step that leaves the files alone.                                      *)
LEMMA StillIs ==
    ASSUME Types PROVE (file' = file /\ lost' = lost) => Still
  BY DEF Still, Types, Disk, DiskType

(* Cutting a torn tail takes no line away.                                  *)
LEMMA CutIs ==
    ASSUME Types, NEW e \in Procs, NEW f \in Files, NEW note, NEW next, Cut(e, f, note, next)
    PROVE  Still
  <1>1. file \in DiskType BY DEF Types, Disk, DiskType
  <1>2. file' = [file EXCEPT ![f].torn = FALSE] /\ lost' = lost BY DEF Cut
  <1>3. file' \in DiskType /\ \A g \in Files : file'[g].lines = file[g].lines
    BY <1>1, <1>2 DEF DiskType
  <1> QED BY <1>2, <1>3 DEF Still

(* Every step: still, an object line by a compare-and-set, or a trace.      *)
LEMMA FilesMove ==
    ASSUME Types, Versions, Next
    PROVE  Still \/ MovesObjs \/ MovesTraces
  <1> USE DEF Files
  <1>1. ASSUME NEW c \in Clients, AppendObject(c) \/ FailObject(c) PROVE MovesObjs
    <2>1. pc[c] = "wantAppend" /\ CasHolds(op[c]) /\ expected' = expected
      BY <1>1 DEF AppendObject, FailObject, GetLock, Goto, FailsOrDies, Answer, Die
    <2>2. NewLine(c) \in ObjLine \union TraceLine BY <2>1, NewLineIs
    <2>3. WholeAppend("objs", NewLine(c)) \/ BrokenAppend("objs", NewLine(c))
      BY <1>1 DEF AppendObject, FailObject
    <2>4. Grows("objs", NewLine(c)) BY <2>2, <2>3, AppendGrows, BrokenGrows
    <2> QED BY <2>1, <2>4 DEF MovesObjs
  <1>2. ASSUME NEW c \in Clients,
               AppendTrace(c) \/ CompleteTrace(c) \/ FailTrace(c) \/ FailComplete(c)
        PROVE  MovesTraces
    <2>1. expected' = expected /\ pc[c] \in {"appended", "wantComplete"}
      BY <1>2 DEF AppendTrace, CompleteTrace, FailTrace, FailComplete, GetLock, FailsOrDies,
                  Answer, Die
    <2>2. PICK action \in {"create", "update"} :
             \/ WholeAppend("traces", TraceOf(op[c], action))
             \/ BrokenAppend("traces", TraceOf(op[c], action))
      <3>1. op[c] \in Ops BY <2>1 DEF Types, CallsOK
      <3>2. ActionOf[op[c]] \in {"create", "update"}
        BY <3>1, StoreAssumption DEF StoreAssumption
      <3> QED BY <1>2, <3>2 DEF AppendTrace, CompleteTrace, FailTrace, FailComplete
    <2>3. TraceOf(op[c], action) \in TraceLine /\ TraceOf(op[c], action).op = op[c]
      BY <2>1, TraceLineIs
    <2>4. Grows("traces", TraceOf(op[c], action)) BY <2>2, <2>3, AppendGrows, BrokenGrows
    <2> QED BY <2>1, <2>3, <2>4 DEF MovesTraces
  <1>3. ASSUME NEW e \in Procs, NoteCut(e) \/ FailNote(e) PROVE MovesTraces
    <2>1. expected' = expected BY <1>3 DEF NoteCut, FailNote, Die, call
    <2>2. WholeAppend("traces", TruncateTrace) \/ BrokenAppend("traces", TruncateTrace)
      BY <1>3 DEF NoteCut, FailNote
    <2>3. Grows("traces", TruncateTrace) BY <2>2, TruncateIs, AppendGrows, BrokenGrows
    <2> QED BY <2>1, <2>3, TruncateIs DEF MovesTraces
  <1>4. ASSUME NEW e \in Procs, CutObjs(e) \/ CutTraces(e) PROVE Still
    BY <1>4, CutIs DEF CutObjs, CutTraces
  <1>5. ASSUME NEW c \in Clients, Conflict(c) \/ LockBusy(c) \/ \E o \in Ops : Start(c, o)
        PROVE  Still
    BY <1>5, StillIs DEF Conflict, LockBusy, Start, disk, history
  <1>6. ASSUME NEW e \in Procs,
               Tombstone(e) \/ BootBusy(e) \/ Crash(e) \/ \E f \in Files : Glance(e, f) \/ Expire(e, f)
        PROVE  Still
    BY <1>6, StillIs DEF Tombstone, BootBusy, Crash, Glance, Expire, disk, history
  <1> QED BY <1>1, <1>2, <1>3, <1>4, <1>5, <1>6 DEF Next, Boot, Commit

-----------------------------------------------------------------------------
(* No line is ever taken out, and none of the wrong kind gets in.           *)

Later ==
    /\ \A f \in Files :
         /\ Len(file[f].lines) <= Len(file'[f].lines)
         /\ \A i \in 1 .. Len(file[f].lines) : file'[f].lines[i] = file[f].lines[i]
         /\ Lines(f) \subseteq Lines(f)'
    /\ lost \subseteq lost'

(* A file that grows keeps its lines and the kind of its lines.             *)
LEMMA GrowIsLater ==
    ASSUME Types, NEW f \in Files, NEW line \in ObjLine \union TraceLine, Grows(f, line),
           f = "objs" => line \in ObjLine, f = "traces" => line \in TraceLine
    PROVE  Disk' /\ Later /\ lost' \subseteq Files \X (Ops \union {None})
  <1>1. Objs \in Seq(ObjLine) /\ Traces \in Seq(TraceLine) BY DEF Types, Disk
  <1>2. \A g \in Files : file[g].lines \in Seq(ObjLine \union TraceLine)
    BY DEF Types, Disk
  <1>3. /\ file' \in DiskType
        /\ \A g \in Files \ {f} : file'[g].lines = file[g].lines
        /\ file'[f].lines \in {file[f].lines, Append(file[f].lines, line)}
    BY DEF Grows
  <1>4. Disk'
    <2>1. Objs' \in Seq(ObjLine)
      <3>1. Objs' = file'["objs"].lines /\ Objs = file["objs"].lines BY DEF Objs
      <3>2. Objs' = Objs \/ (line \in ObjLine /\ Objs' = Append(Objs, line))
        BY <1>3, <3>1 DEF Files
      <3> QED BY <1>1, <3>2
    <2>2. Traces' \in Seq(TraceLine)
      <3>1. Traces' = file'["traces"].lines /\ Traces = file["traces"].lines BY DEF Traces
      <3>2. Traces' = Traces \/ (line \in TraceLine /\ Traces' = Append(Traces, line))
        BY <1>3, <3>1 DEF Files
      <3> QED BY <1>1, <3>2
    <2> QED BY <1>3, <2>1, <2>2 DEF Disk, DiskType
  <1>5. ASSUME NEW g \in Files
        PROVE  /\ Len(file[g].lines) <= Len(file'[g].lines)
               /\ \A i \in 1 .. Len(file[g].lines) : file'[g].lines[i] = file[g].lines[i]
               /\ Lines(g) \subseteq Lines(g)'
    <2> DEFINE old == file[g].lines
               new == file'[g].lines
    <2>1. old \in Seq(ObjLine \union TraceLine) BY <1>2
    <2>2. new = old \/ new = Append(old, line) BY <1>3
    <2>3. Len(old) \in Nat /\ Len(new) \in Nat /\ Len(old) <= Len(new)
      BY <2>1, <2>2
    <2>4. \A i \in 1 .. Len(old) : new[i] = old[i]
      BY <2>1, <2>2
    <2>5. Lines(g) = {old[i] : i \in 1 .. Len(old)} /\ Lines(g)' = {new[i] : i \in 1 .. Len(new)}
      BY DEF Lines
    <2>6. {old[i] : i \in 1 .. Len(old)} \subseteq {new[i] : i \in 1 .. Len(new)}
      <3> HIDE DEF old, new
      <3>1. 1 .. Len(old) \subseteq 1 .. Len(new) BY <2>3
      <3> QED BY <2>4, <3>1
    <2> QED BY <2>3, <2>4, <2>5, <2>6
  <1>6. lost \subseteq lost' BY DEF Grows
  <1>7. lost' \subseteq Files \X (Ops \union {None})
    <2>1. line.op \in Ops \union {None} BY DEF ObjLine, TraceLine, TruncateTrace
    <2>2. lost' \subseteq lost \union {<<f, line.op>>} BY DEF Grows
    <2> QED BY <2>1, <2>2 DEF Types, OthersOK
  <1> QED BY <1>4, <1>5, <1>6, <1>7 DEF Later

(* So do files that stand still.                                            *)
LEMMA StillIsLater ==
    ASSUME Types, Still
    PROVE  Disk' /\ Later /\ lost' = lost
  <1>1. \A f \in Files : file'[f].lines = file[f].lines BY DEF Still
  <1>2. Objs' = Objs /\ Traces' = Traces BY <1>1 DEF Objs, Traces, Files
  <1>3. Disk' BY <1>2 DEF Still, Types, Disk, DiskType
  <1>4. \A f \in Files : Lines(f)' = Lines(f) BY <1>1 DEF Lines
  <1>5. \A f \in Files : Len(file[f].lines) \in Nat BY DEF Types, Disk
  <1>6. \A f \in Files : Len(file[f].lines) <= Len(file'[f].lines) BY <1>1, <1>5
  <1> QED BY <1>1, <1>3, <1>4, <1>6 DEF Later, Still

(* So does every step.                                                      *)
LEMMA NextIsLater ==
    ASSUME Types, Versions, Next
    PROVE  Disk' /\ Later /\ lost' \subseteq Files \X (Ops \union {None})
  <1>1. CASE Still BY <1>1, StillIsLater DEF Types, OthersOK
  <1>2. CASE MovesObjs
    <2>1. PICK c \in Clients : pc[c] = "wantAppend" /\ Grows("objs", NewLine(c))
      BY <1>2 DEF MovesObjs
    <2>2. NewLine(c) \in ObjLine BY <2>1, NewLineIs
    <2>3. "objs" \in Files /\ "objs" # "traces" BY DEF Files
    <2> QED BY <2>1, <2>2, <2>3, GrowIsLater
  <1>3. CASE MovesTraces
    <2>1. PICK line \in TraceLine : Grows("traces", line) BY <1>3 DEF MovesTraces
    <2>2. "traces" \in Files /\ "objs" # "traces" BY DEF Files
    <2> QED BY <2>1, <2>2, GrowIsLater
  <1> QED BY <1>1, <1>2, <1>3, FilesMove

-----------------------------------------------------------------------------
(* The types are kept.                                                      *)

(* A call that is under way has an operation, which has an action.          *)
LEMMA ActionIs ==
    ASSUME Types, NEW c \in Clients, pc[c] # "idle"
    PROVE  op[c] \in Ops /\ ActionOf[op[c]] \in {"create", "update"}
  BY StoreAssumption DEF Types, CallsOK, StoreAssumption

(* A call ends, or all calls of a process do: the others keep what they have. *)
LEMMA EndingKeepsCalls ==
    ASSUME CallsOK, UNCHANGED <<op, base, expected>>,
           pc' \in [Clients -> {"idle", "wantAppend", "wantComplete", "appended"}],
           \A c \in Clients : pc'[c] \in {"idle", pc[c]}
    PROVE  CallsOK'
  BY DEF CallsOK

(* One call is answered.                                                    *)
LEMMA AnswerKeepsCalls ==
    ASSUME CallsOK, NEW c \in Clients, Answer(c) PROVE CallsOK'
  <1>1. /\ pc' = [pc EXCEPT ![c] = "idle"] /\ UNCHANGED <<op, base, expected>>
    BY DEF Answer
  <1>2. /\ pc' \in [Clients -> {"idle", "wantAppend", "wantComplete", "appended"}]
        /\ \A d \in Clients : pc'[d] \in {"idle", pc[d]}
    BY <1>1 DEF CallsOK
  <1> QED BY <1>1, <1>2, EndingKeepsCalls

(* All calls of a process are gone.                                         *)
LEMMA DieKeepsCalls ==
    ASSUME CallsOK, NEW e \in Procs, Die(e) PROVE CallsOK'
  <1>1. /\ pc' = [c \in Clients |-> IF EngineOf[c] = e THEN "idle" ELSE pc[c]]
        /\ UNCHANGED <<op, base, expected>>
    BY DEF Die
  <1>2. /\ pc' \in [Clients -> {"idle", "wantAppend", "wantComplete", "appended"}]
        /\ \A d \in Clients : pc'[d] \in {"idle", pc[d]}
    BY <1>1 DEF CallsOK
  <1> QED BY <1>1, <1>2, EndingKeepsCalls

(* A call starts: an update has an expected version from then on.           *)
LEMMA StartKeepsCalls ==
    ASSUME Types, Versions, NEW c \in Clients, NEW o \in Ops, Start(c, o)
    PROVE  CallsOK'
  <1>0. CallsOK /\ TargetOf[o] \in Ids /\ EngineOf[c] \in Procs
    BY StoreAssumption DEF Types, StoreAssumption
  <1>1. CASE UNCHANGED call
    BY <1>0, <1>1 DEF CallsOK, call
  <1>2. CASE /\ Goto(c, "wantComplete") /\ op' = [op EXCEPT ![c] = o]
             /\ UNCHANGED <<base, expected>>
    BY <1>0, <1>2 DEF CallsOK, Goto
  <1>3. CASE /\ ActionOf[o] = "create" /\ Goto(c, "wantAppend") /\ op' = [op EXCEPT ![c] = o]
             /\ UNCHANGED <<base, expected>>
    BY <1>0, <1>3 DEF CallsOK, Goto
  <1>4. CASE /\ ActionOf[o] = "update"
             /\ \E reader \in Procs :
                  LET seen == Latest(View(reader, "objs"), TargetOf[o]) IN
                  /\ CanRun(reader) /\ seen > 0
                  /\ expected' = [expected EXCEPT ![o] = IF @ = 0 THEN seen ELSE @]
             /\ base' = [base EXCEPT ![c] = Latest(View(EngineOf[c], "objs"), TargetOf[o])]
             /\ Goto(c, "wantAppend") /\ op' = [op EXCEPT ![c] = o]
    <2>1. PICK reader \in Procs :
             /\ Latest(View(reader, "objs"), TargetOf[o]) > 0
             /\ expected' = [expected EXCEPT ![o] =
                               IF @ = 0 THEN Latest(View(reader, "objs"), TargetOf[o]) ELSE @]
      BY <1>4
    <2>2. /\ Latest(View(reader, "objs"), TargetOf[o]) \in Nat
          /\ Latest(View(EngineOf[c], "objs"), TargetOf[o]) \in Nat
      BY <1>0, LatestInView
    <2>3. expected' \in [Ops -> Nat] /\ base' \in [Clients -> Nat]
      BY <1>0, <1>4, <2>1, <2>2 DEF CallsOK
    <2>4. expected'[o] > 0 /\ \A p \in Ops \ {o} : expected'[p] = expected[p]
      BY <1>0, <2>1, <2>2 DEF CallsOK
    <2>5. /\ pc' = [pc EXCEPT ![c] = "wantAppend"] /\ op' = [op EXCEPT ![c] = o]
      BY <1>4 DEF Goto
    <2>6. /\ pc' \in [Clients -> {"idle", "wantAppend", "wantComplete", "appended"}]
          /\ op' \in [Clients -> Ops \union {None}]
          /\ \A d \in Clients : pc'[d] # "idle" => op'[d] \in Ops
      BY <1>0, <2>5 DEF CallsOK
    <2>7. ASSUME NEW d \in Clients, pc'[d] = "wantAppend", ActionOf[op'[d]] = "update"
          PROVE  expected'[op'[d]] > 0
      <3>1. CASE d = c BY <1>0, <2>4, <2>5, <3>1 DEF CallsOK
      <3>2. CASE d # c
        <4>1. pc[d] = "wantAppend" /\ op'[d] = op[d] /\ op[d] \in Ops
          BY <1>0, <2>5, <2>7, <3>2 DEF CallsOK
        <4>2. expected[op[d]] > 0 BY <1>0, <2>7, <4>1 DEF CallsOK
        <4> QED BY <2>4, <4>1, <4>2
      <3> QED BY <3>1, <3>2
    <2> QED BY <2>3, <2>6, <2>7 DEF CallsOK
  <1> QED BY <1>1, <1>2, <1>3, <1>4 DEF Start, StartCreate, StartUpdate

(* Calls keep their types.                                                  *)
LEMMA CallsKept ==
    ASSUME Types, Versions, Next
    PROVE  CallsOK'
  <1>0. CallsOK BY DEF Types
  <1>1. ASSUME NEW c \in Clients, Conflict(c) \/ AppendTrace(c) \/ CompleteTrace(c) \/ LockBusy(c)
        PROVE  CallsOK'
    BY <1>0, <1>1, AnswerKeepsCalls DEF Conflict, AppendTrace, CompleteTrace, LockBusy
  <1>2. ASSUME NEW c \in Clients, AppendObject(c) PROVE CallsOK'
    BY <1>0, <1>2 DEF AppendObject, GetLock, Goto, CallsOK
  <1>3. ASSUME NEW c \in Clients, FailObject(c) \/ FailTrace(c) \/ FailComplete(c)
        PROVE  CallsOK'
    <2>1. \E f \in Files : FailsOrDies(c, f)
      BY <1>3 DEF FailObject, FailTrace, FailComplete, Files
    <2>2. Answer(c) \/ Die(EngineOf[c]) BY <2>1 DEF FailsOrDies
    <2>3. EngineOf[c] \in Procs BY StoreAssumption DEF StoreAssumption
    <2> QED BY <1>0, <2>2, <2>3, AnswerKeepsCalls, DieKeepsCalls
  <1>4. ASSUME NEW e \in Procs, Crash(e) \/ FailNote(e) PROVE CallsOK'
    <2>1. Die(e) \/ UNCHANGED call BY <1>4 DEF Crash, FailNote
    <2>2. CASE UNCHANGED call BY <1>0, <2>2 DEF CallsOK, call
    <2> QED BY <1>0, <2>1, <2>2, DieKeepsCalls
  <1>5. ASSUME NEW e \in Procs, Boot(e) \/ BootBusy(e) \/ \E f \in Files : Glance(e, f) \/ Expire(e, f)
        PROVE  CallsOK'
    <2>1. UNCHANGED call
      BY <1>5 DEF Boot, CutObjs, CutTraces, Cut, NoteCut, Tombstone, BootBusy, Glance, Expire
    <2> QED BY <1>0, <2>1 DEF CallsOK, call
  <1> QED BY <1>1, <1>2, <1>3, <1>4, <1>5, StartKeepsCalls DEF Next, Commit

(* A step leaves a memoised length, drops it, or takes the length before it. *)
LEMMA MemosMove ==
    ASSUME Types, Next
    PROVE  /\ memo' \in [Procs -> [Files -> Int]]
           /\ \A e \in Procs, f \in Files : memo'[e][f] \in {NoMemo, memo[e][f], Len(file[f].lines)}
  <1> DEFINE Moved ==
        /\ memo' \in [Procs -> [Files -> Int]]
        /\ \A e \in Procs, f \in Files : memo'[e][f] \in {NoMemo, memo[e][f], Len(file[f].lines)}
  <1>0. /\ memo \in [Procs -> [Files -> Int]]
        /\ \A f \in Files : Len(file[f].lines) \in Int
        /\ NoMemo \in Int /\ "traces" \in Files
    <2>1. \A f \in Files : file[f].lines \in Seq(ObjLine \union TraceLine) BY DEF Types, Disk
    <2>2. ASSUME NEW f \in Files PROVE Len(file[f].lines) \in Int BY <2>1
    <2>3. memo \in [Procs -> [Files -> Int]] BY DEF Types, MemosOK
    <2> QED BY <2>2, <2>3 DEF NoMemo, Files
  <1>1. ASSUME memo' = memo PROVE Moved BY <1>0, <1>1
  <1>2. ASSUME NEW e \in Procs, Bust(e) PROVE Moved BY <1>0, <1>2 DEF Bust
  <1>3. ASSUME NEW e \in Procs, NEW f \in Files, KeepsOld(e, f) PROVE Moved
    BY <1>0, <1>3 DEF KeepsOld
  <1>4. ASSUME NEW e \in Procs, NEW f \in Files, Glance(e, f) \/ Expire(e, f) PROVE Moved
    <2>1. PICK n \in Int : n \in {NoMemo, Len(file[f].lines)} /\ memo' = [memo EXCEPT ![e][f] = n]
      BY <1>0, <1>4 DEF Glance, Expire
    <2>2. memo' \in [Procs -> [Files -> Int]]
      <3>1. memo \in [Procs -> [Files -> Int]] BY <1>0
      <3> QED BY <2>1, <3>1
    <2>3. ASSUME NEW d \in Procs, NEW g \in Files
          PROVE  memo'[d][g] \in {NoMemo, memo[d][g], Len(file[g].lines)}
      BY <1>0, <2>1
    <2> QED BY <2>2, <2>3
  <1>5. ASSUME NEW e \in Procs, memo' = [memo EXCEPT ![e]["traces"] = ViewLen(e, "traces")]
        PROVE  Moved
    BY <1>0, <1>5 DEF ViewLen
  <1> HIDE DEF Moved
  <1>6. ASSUME NEW c \in Clients, \/ \E o \in Ops : Start(c, o)
                                  \/ Commit(c) \/ LockBusy(c)
                                  \/ FailObject(c) \/ FailTrace(c) \/ FailComplete(c)
        PROVE  Moved
    <2>1. EngineOf[c] \in Procs BY StoreAssumption DEF StoreAssumption
    <2>2. CASE FailObject(c) \/ FailTrace(c) \/ FailComplete(c)
      <3>1. \E f \in Files : FailsOrDies(c, f)
        BY <2>2 DEF FailObject, FailTrace, FailComplete, Files
      <3>2. Bust(EngineOf[c]) \/ \E f \in Files : KeepsOld(EngineOf[c], f)
        BY <3>1 DEF FailsOrDies, Die
      <3> QED BY <1>2, <1>3, <2>1, <3>2
    <2>3. CASE (\E o \in Ops : Start(c, o)) \/ Commit(c) \/ LockBusy(c)
      <3>1. memo' = memo \/ Bust(EngineOf[c])
        BY <2>3 DEF Start, Commit, Conflict, AppendObject, AppendTrace, CompleteTrace, LockBusy
      <3> QED BY <1>1, <1>2, <2>1, <3>1
    <2> QED BY <1>6, <2>2, <2>3
  <1>7. ASSUME NEW e \in Procs, Boot(e) \/ BootBusy(e) \/ FailNote(e) \/ Crash(e) PROVE Moved
    <2>1. \/ memo' = memo \/ Bust(e)
          \/ memo' = [memo EXCEPT ![e]["traces"] = ViewLen(e, "traces")]
      BY <1>7 DEF Boot, CutObjs, CutTraces, Cut, NoteCut, Tombstone, BootBusy, FailNote, Crash, Die
    <2> QED BY <1>1, <1>2, <1>5, <2>1
  <1>8. Moved BY <1>4, <1>6, <1>7 DEF Next
  <1> QED BY <1>8 DEF Moved

(* A memoised length is never beyond the file.                              *)
LEMMA MemosKept ==
    ASSUME Types, Versions, Next
    PROVE  MemosOK'
  <1>1. /\ \A f \in Files : Len(file[f].lines) \in Nat /\ Len(file'[f].lines) \in Nat
        /\ \A f \in Files : Len(file[f].lines) <= Len(file'[f].lines)
    <2>1. Disk' /\ Later BY NextIsLater
    <2> QED BY <2>1 DEF Types, Disk, Later
  <1>2. ASSUME NEW e \in Procs, NEW f \in Files PROVE memo'[e][f] \in NoMemo .. Len(file'[f].lines)
    <2>1. memo[e][f] \in NoMemo .. Len(file[f].lines) BY DEF Types, MemosOK
    <2>2. memo'[e][f] \in {NoMemo, memo[e][f], Len(file[f].lines)} BY MemosMove
    <2> QED BY <1>1, <2>1, <2>2 DEF NoMemo
  <1> QED BY <1>2, MemosMove DEF MemosOK

(* The two histories of failed appends that landed only grow, and an        *)
(* operation is misled about a line of its own that landed.                 *)
LEMMA DoubtGrows ==
    ASSUME Types, Next
    PROVE  /\ landed \subseteq landed' /\ misled \subseteq misled'
           /\ misled' \subseteq landed' /\ landed' \subseteq Ops
  <1>0. misled \subseteq landed /\ landed \subseteq Ops BY DEF Types, OthersOK
  <1>1. CASE UNCHANGED doubt BY <1>0, <1>1 DEF doubt
  <1>2. ASSUME NEW c \in Clients, NEW o \in Ops, Start(c, o)
        PROVE  /\ landed' = landed
               /\ misled' = misled \/ (o \in landed /\ misled' = misled \union {o})
    BY <1>2 DEF Start
  <1>3. ASSUME NEW c \in Clients, FailObject(c) \/ FailTrace(c) \/ FailComplete(c)
        PROVE  /\ misled' = misled /\ op[c] \in Ops
               /\ landed' = landed \/ landed' = landed \union {op[c]}
    <2>1. misled' = misled /\ \E f \in Files : FailsOrDies(c, f)
      BY <1>3 DEF FailObject, FailTrace, FailComplete, Files
    <2>2. op[c] \in Ops BY <1>3, ActionIs DEF FailObject, FailTrace, FailComplete, GetLock
    <2> QED BY <2>1, <2>2 DEF FailsOrDies
  <1>4. ASSUME NEW c \in Clients, Commit(c) \/ LockBusy(c) PROVE UNCHANGED doubt
    BY <1>4 DEF Commit, Conflict, AppendObject, AppendTrace, CompleteTrace, LockBusy, doubt, history
  <1>5. ASSUME NEW e \in Procs, \/ Boot(e) \/ BootBusy(e) \/ FailNote(e) \/ Crash(e)
                                \/ \E f \in Files : Glance(e, f) \/ Expire(e, f)
        PROVE  UNCHANGED doubt
    BY <1>5 DEF Boot, CutObjs, CutTraces, Cut, NoteCut, Tombstone, BootBusy, FailNote, Crash,
                Glance, Expire, doubt, history
  <1>6. \/ UNCHANGED doubt
        \/ \E c \in Clients : \E o \in Ops : Start(c, o)
        \/ \E c \in Clients : FailObject(c) \/ FailTrace(c) \/ FailComplete(c)
    BY <1>4, <1>5 DEF Next
  <1> QED BY <1>0, <1>1, <1>2, <1>3, <1>6

(* Tombstones, lock, boot stages and histories keep their types.            *)
LEMMA OthersKept ==
    ASSUME Types, Versions, Next
    PROVE  OthersOK'
  <1>0. OthersOK /\ CallsOK /\ Traces \in Seq(TraceLine) BY DEF Types, Disk
  <1>1. /\ lost' \subseteq Files \X (Ops \union {None})
        /\ misled' \subseteq landed' /\ landed' \subseteq Ops
    BY NextIsLater, DoubtGrows
  <1>2. ASSUME NEW c \in Clients, NEW o \in Ops, Start(c, o) PROVE OthersOK'
    <2>1. acked' \in {acked, acked \union {o}} BY <1>2 DEF Start, StartCreate, StartUpdate
    <2>2. UNCHANGED <<tombs, lock, eng, refused>> BY <1>2 DEF Start, disk
    <2> QED BY <1>0, <1>1, <2>1, <2>2 DEF OthersOK
  <1>3. ASSUME NEW c \in Clients, Conflict(c) \/ LockBusy(c) PROVE OthersOK'
    <2>1. op[c] \in Ops BY <1>3, ActionIs DEF Conflict, LockBusy, GetLock
    <2>2. /\ UNCHANGED <<tombs, lock, eng, acked>>
          /\ refused' \in {refused, refused \union {op[c]}}
      BY <1>3 DEF Conflict, LockBusy, disk, history
    <2> QED BY <1>0, <1>1, <2>1, <2>2 DEF OthersOK
  <1>4. ASSUME NEW c \in Clients, AppendObject(c) \/ AppendTrace(c) \/ CompleteTrace(c)
        PROVE  OthersOK'
    <2>1. op[c] \in Ops
      BY <1>4, ActionIs DEF AppendObject, AppendTrace, CompleteTrace, GetLock
    <2>2. /\ UNCHANGED <<tombs, eng, refused>>
          /\ acked' \in {acked, acked \union {op[c]}} /\ lock' \in {c, None, lock}
      BY <1>4 DEF AppendObject, AppendTrace, CompleteTrace
    <2> QED BY <1>0, <1>1, <2>1, <2>2 DEF OthersOK
  <1>5. ASSUME NEW e \in Procs, Die(e), UNCHANGED <<tombs, acked, refused>> PROVE OthersOK'
    <2>1. eng' = [eng EXCEPT ![e] = "up"] /\ lock' \in {None, lock}
      BY <1>5 DEF Die
    <2>2. eng' \in [Procs -> Stages] BY <1>0, <2>1 DEF OthersOK, Stages
    <2> QED BY <1>0, <1>1, <1>5, <2>1, <2>2 DEF OthersOK
  <1>6. ASSUME NEW c \in Clients, FailObject(c) \/ FailTrace(c) \/ FailComplete(c)
        PROVE  OthersOK'
    <2>1. /\ \E f \in Files : FailsOrDies(c, f)
          /\ UNCHANGED <<tombs, acked, refused>>
      BY <1>6 DEF FailObject, FailTrace, FailComplete, Files
    <2>2. EngineOf[c] \in Procs BY StoreAssumption DEF StoreAssumption
    <2>3. CASE lock' = None /\ eng' = eng
      BY <1>0, <1>1, <2>1, <2>3 DEF OthersOK
    <2> QED BY <1>5, <2>1, <2>2, <2>3 DEF FailsOrDies
  <1>7. ASSUME NEW e \in Procs, NEW stage \in Stages, Stage(e, stage),
               lock' \in {None, e, lock}, tombs' \subseteq Ids, UNCHANGED <<acked, refused>>
        PROVE  OthersOK'
    <2>1. eng' \in [Procs -> Stages] BY <1>0, <1>7 DEF OthersOK, Stage
    <2> QED BY <1>0, <1>1, <1>7, <2>1 DEF OthersOK
  <1>8. ASSUME NEW e \in Procs, Crash(e) \/ FailNote(e) PROVE OthersOK'
    <2>1. UNCHANGED <<tombs, acked, refused>> BY <1>8 DEF Crash, FailNote, disk, history
    <2>2. Die(e) \/ (Stage(e, "booted") /\ lock' = None) BY <1>8 DEF Crash, FailNote
    <2>3. "booted" \in Stages BY DEF Stages
    <2> QED BY <1>0, <1>5, <1>7, <2>1, <2>2, <2>3 DEF OthersOK
  <1>9. ASSUME NEW e \in Procs, Tombstone(e) PROVE OthersOK'
    <2>1. View(e, "traces") \subseteq TraceLine
      <3>1. "traces" \in Files BY DEF Files
      <3>2. Lines("traces") = {Traces[i] : i \in 1 .. Len(Traces)} BY DEF Lines, Traces
      <3>3. Lines("traces") \subseteq TraceLine BY <1>0, <3>2
      <3> QED BY <3>1, <3>3, ViewIs
    <2>2. {t.id : t \in {u \in View(e, "traces") : u.op # None}} \subseteq Ids
      BY <2>1 DEF TraceLine, TruncateTrace
    <2>3. tombs' \subseteq Ids /\ UNCHANGED <<acked, refused>>
      BY <1>0, <1>9, <2>2 DEF OthersOK, Tombstone, history
    <2>4. Stage(e, "booted") /\ lock' = None /\ "booted" \in Stages
      BY <1>9 DEF Tombstone, Stages
    <2> QED BY <1>7, <2>3, <2>4
  <1>10. ASSUME NEW e \in Procs, CutObjs(e) \/ CutTraces(e) \/ NoteCut(e) \/ BootBusy(e)
         PROVE  OthersOK'
    <2>1. UNCHANGED <<tombs, acked, refused>> /\ lock' \in {e, lock}
      BY <1>10 DEF CutObjs, CutTraces, Cut, NoteCut, BootBusy, disk, history
    <2>2. \E stage \in Stages : Stage(e, stage)
      <3>1. {"busy", "noteObjsCut", "cutTraces", "noteTracesCut", "tombs"} \subseteq Stages
        BY DEF Stages
      <3> QED BY <1>10, <3>1 DEF CutObjs, CutTraces, Cut, NoteCut, BootBusy
    <2> QED BY <1>0, <1>7, <2>1, <2>2 DEF OthersOK
  <1>11. ASSUME NEW e \in Procs, NEW f \in Files, Glance(e, f) \/ Expire(e, f) PROVE OthersOK'
    BY <1>0, <1>11 DEF Glance, Expire, OthersOK, disk, history
  <1> QED BY <1>2, <1>3, <1>4, <1>6, <1>8, <1>9, <1>10, <1>11 DEF Next, Commit, Boot

(* Every step keeps the types.                                              *)
LEMMA TypesKept ==
    ASSUME Types, Versions, Next
    PROVE  Types'
  <1>1. Disk' BY NextIsLater
  <1> QED BY <1>1, CallsKept, MemosKept, OthersKept DEF Types

-----------------------------------------------------------------------------
(* Mutations stay whole.                                                    *)

Kept(f, o) == (\E l \in Lines(f) : l.op = o) \/ <<f, o>> \in lost
KeptNext(f, o) == (\E l \in Lines(f)' : l.op = o) \/ <<f, o>> \in lost'

(* What has its line keeps it; what lost it, lost it.                       *)
LEMMA KeptStays ==
    ASSUME Later, NEW f \in Files, NEW o, Kept(f, o) PROVE KeptNext(f, o)
  BY DEF Kept, KeptNext, Later

(* Only these two steps bring a call closer to its end.                     *)
LEMMA CallsMove ==
    ASSUME Types, Versions, Next
    PROVE  \/ op' = op /\ \A c \in Clients : pc'[c] \in {"idle", pc[c]}
           \/ \E c \in Clients : AppendObject(c) \/ \E o \in Ops : Start(c, o)
  <1> DEFINE Ending == op' = op /\ \A c \in Clients : pc'[c] \in {"idle", pc[c]}
  <1>0. pc \in [Clients -> {"idle", "wantAppend", "wantComplete", "appended"}]
    BY DEF Types, CallsOK
  <1>1. ASSUME NEW c \in Clients, Answer(c) PROVE Ending
    BY <1>0, <1>1 DEF Answer
  <1>2. ASSUME NEW e \in Procs, Die(e) PROVE Ending
    BY <1>0, <1>2 DEF Die
  <1>3. ASSUME UNCHANGED call PROVE Ending BY <1>3 DEF call
  <1> HIDE DEF Ending
  <1>4. ASSUME NEW c \in Clients,
               \/ Conflict(c) \/ AppendTrace(c) \/ CompleteTrace(c) \/ LockBusy(c)
               \/ FailObject(c) \/ FailTrace(c) \/ FailComplete(c)
        PROVE  Ending
    <2>1. Answer(c) \/ Die(EngineOf[c])
      BY <1>4 DEF Conflict, AppendTrace, CompleteTrace, LockBusy, FailObject, FailTrace,
                  FailComplete, FailsOrDies
    <2>2. EngineOf[c] \in Procs BY StoreAssumption DEF StoreAssumption
    <2> QED BY <1>1, <1>2, <2>1, <2>2
  <1>5. ASSUME NEW e \in Procs,
               \/ Boot(e) \/ BootBusy(e) \/ FailNote(e) \/ Crash(e)
               \/ \E f \in Files : Glance(e, f) \/ Expire(e, f)
        PROVE  Ending
    <2>1. Die(e) \/ UNCHANGED call
      BY <1>5 DEF Boot, CutObjs, CutTraces, Cut, NoteCut, Tombstone, BootBusy, FailNote, Crash,
                  Glance, Expire
    <2> QED BY <1>2, <1>3, <2>1
  <1>6. Ending \/ \E c \in Clients : AppendObject(c) \/ \E o \in Ops : Start(c, o)
    BY <1>4, <1>5 DEF Next, Commit
  <1> QED BY <1>6 DEF Ending

(* A call that is about to write a trace has its object line.               *)
LEMMA PendingKept ==
    ASSUME Types, Versions, Pending, Next
    PROVE  Pending'
  <1>0. Later /\ "objs" \in Files /\ CallsOK BY NextIsLater DEF Files, Types
  <1> DEFINE Due(c) ==
        /\ pc[c] = "appended" => Kept("objs", op[c])
        /\ pc[c] = "wantComplete" => HasLine(Lines("objs"), op[c])
             DueNext(c) ==
        /\ pc'[c] = "appended" => KeptNext("objs", op'[c])
        /\ pc'[c] = "wantComplete" => HasLine(Lines("objs")', op'[c])
  <1>1. \A c \in Clients : Due(c) BY DEF Pending, Kept, KeptNext, HasLine
  <1>2. ASSUME NEW c \in Clients, pc'[c] \in {"idle", pc[c]}, op'[c] = op[c] PROVE DueNext(c)
    <2>1. pc'[c] = "appended" => KeptNext("objs", op'[c]) BY <1>0, <1>1, <1>2, KeptStays
    <2>2. pc'[c] = "wantComplete" => HasLine(Lines("objs")', op'[c])
      BY <1>0, <1>1, <1>2 DEF Later, HasLine
    <2> QED BY <2>1, <2>2
  <1>3. CASE op' = op /\ \A c \in Clients : pc'[c] \in {"idle", pc[c]}
    BY <1>2, <1>3 DEF Pending, Kept, KeptNext, HasLine
  <1>4. ASSUME NEW c \in Clients, AppendObject(c) PROVE Pending'
    <2>1. /\ pc[c] = "wantAppend" /\ WholeAppend("objs", NewLine(c))
          /\ pc' = [pc EXCEPT ![c] = "appended"] /\ op' = op
      BY <1>4 DEF AppendObject, GetLock, Goto
    <2>2. NewLine(c) \in ObjLine \union TraceLine /\ NewLine(c).op = op[c] BY <2>1, NewLineIs
    <2>3. Landed("objs", NewLine(c)) BY <1>0, <2>1, <2>2, AppendGrows
    <2>4. KeptNext("objs", op'[c]) BY <2>1, <2>2, <2>3 DEF KeptNext, Landed
    <2>5. pc'[c] = "appended" BY <1>0, <2>1 DEF CallsOK
    <2>6. DueNext(c) BY <2>4, <2>5
    <2>7. \A d \in Clients \ {c} : pc'[d] = pc[d] /\ op'[d] = op[d]
      BY <1>0, <2>1 DEF CallsOK
    <2>8. \A d \in Clients : DueNext(d) BY <1>2, <2>6, <2>7
    <2> QED BY <2>8 DEF Pending, Kept, KeptNext, HasLine
  <1>5. ASSUME NEW c \in Clients, NEW o \in Ops, Start(c, o) PROVE Pending'
    <2>1. EngineOf[c] \in Procs BY StoreAssumption DEF StoreAssumption
    <2>2. \/ UNCHANGED call
          \/ op' = [op EXCEPT ![c] = o] /\ pc' = [pc EXCEPT ![c] = "wantAppend"]
          \/ /\ op' = [op EXCEPT ![c] = o] /\ pc' = [pc EXCEPT ![c] = "wantComplete"]
             /\ PriorLine(EngineOf[c], o)
      BY <1>5 DEF Start, StartCreate, StartUpdate, Goto
    <2>3. \A d \in Clients \ {c} : pc'[d] = pc[d] /\ op'[d] = op[d]
      BY <1>0, <2>2 DEF CallsOK, call
    <2>4. DueNext(c)
      <3>1. CASE UNCHANGED call BY <1>2, <3>1 DEF call
      <3>2. CASE pc' = [pc EXCEPT ![c] = "wantAppend"]
        <4>1. pc'[c] = "wantAppend" BY <1>0, <3>2 DEF CallsOK
        <4> QED BY <4>1
      <3>3. CASE /\ op' = [op EXCEPT ![c] = o] /\ pc' = [pc EXCEPT ![c] = "wantComplete"]
                 /\ PriorLine(EngineOf[c], o)
        <4>1. pc'[c] = "wantComplete" /\ op'[c] = o BY <1>0, <3>3 DEF CallsOK
        <4>2. HasLine(View(EngineOf[c], "objs"), o) BY <3>3 DEF PriorLine
        <4>3. View(EngineOf[c], "objs") \subseteq Lines("objs") BY <1>0, <2>1, ViewIs
        <4>4. HasLine(Lines("objs")', o) BY <1>0, <4>2, <4>3 DEF HasLine, Later
        <4> QED BY <4>1, <4>4
      <3> QED BY <2>2, <3>1, <3>2, <3>3
    <2>5. \A d \in Clients : DueNext(d) BY <1>2, <2>3, <2>4
    <2> QED BY <2>5 DEF Pending, Kept, KeptNext, HasLine
  <1> QED BY <1>3, <1>4, <1>5, CallsMove

(* A trace is about an operation whose object line is there or lost.        *)
LEMMA TracesKept ==
    ASSUME Types, Versions, Pending, TraceHasObject, Next
    PROVE  TraceHasObject'
  <1>0. Later /\ "objs" \in Files /\ "traces" \in Files /\ "objs" # "traces"
    BY NextIsLater DEF Files
  <1>1. ASSUME NEW t \in Lines("traces"), t.op # None PROVE KeptNext("objs", t.op)
    <2>1. Kept("objs", t.op) BY <1>1 DEF TraceHasObject, HasLine, Kept, KeptNext
    <2> QED BY <1>0, <2>1, KeptStays
  <1>2. CASE file'["traces"].lines = file["traces"].lines
    BY <1>1, <1>2 DEF Lines, TraceHasObject, HasLine, Kept, KeptNext
  <1>3. CASE MovesTraces
    <2>1. PICK line \in TraceLine :
             /\ Grows("traces", line)
             /\ \/ line.op = None
                \/ \E c \in Clients : pc[c] \in {"appended", "wantComplete"} /\ op[c] = line.op
      BY <1>3 DEF MovesTraces
    <2>2. Lines("traces")' \subseteq Lines("traces") \union {line}
      BY <1>0, <2>1, GrowsByOne
    <2>3. line.op # None => Kept("objs", line.op)
      BY <2>1 DEF Pending, Kept, KeptNext, HasLine
    <2>4. line.op # None => KeptNext("objs", line.op) BY <1>0, <2>3, KeptStays
    <2> QED BY <1>1, <2>2, <2>4 DEF TraceHasObject, HasLine, Kept, KeptNext
  <1>4. CASE MovesObjs BY <1>0, <1>2, <1>4 DEF MovesObjs, Grows
  <1>5. CASE Still BY <1>0, <1>2, <1>5 DEF Still
  <1> QED BY <1>3, <1>4, <1>5, FilesMove

(* What is acknowledged has its two lines.                                  *)
LEMMA AckedKept ==
    ASSUME Types, Versions, Pending, MutationsAreWhole, Next
    PROVE  AckedIsComplete'
  <1>0. Later /\ "objs" \in Files /\ "traces" \in Files BY NextIsLater DEF Files
  <1> DEFINE Whole(o) == Kept("objs", o) /\ Kept("traces", o)
             WholeNext(o) == KeptNext("objs", o) /\ KeptNext("traces", o)
  <1>1. \A o \in acked : Whole(o)
    BY DEF MutationsAreWhole, AckedIsComplete, HasLine, HasTrace, Kept, KeptNext
  <1>2. ASSUME NEW o, Whole(o) PROVE WholeNext(o) BY <1>0, <1>2, KeptStays
  <1>3. CASE acked' = acked
    BY <1>1, <1>2, <1>3 DEF AckedIsComplete, HasLine, HasTrace, Kept, KeptNext
  <1>4. ASSUME NEW c \in Clients, NEW o \in Ops, Start(c, o), acked' # acked
        PROVE  AckedIsComplete'
    <2>1. PriorTrace(EngineOf[c], o) /\ acked' = acked \union {o}
      BY <1>4 DEF Start, StartCreate, StartUpdate
    <2>2. EngineOf[c] \in Procs BY StoreAssumption DEF StoreAssumption
    <2>3. PICK t \in Lines("traces") : t.op = o
      BY <1>0, <2>1, <2>2, ViewIs DEF PriorTrace, HasTrace
    <2>4. o # None BY StoreAssumption DEF StoreAssumption
    <2>5. Whole(o) BY <2>3, <2>4 DEF MutationsAreWhole, TraceHasObject, HasLine, Kept, KeptNext
    <2> QED BY <1>1, <1>2, <2>1, <2>5 DEF AckedIsComplete, HasLine, HasTrace, Kept, KeptNext
  <1>5. ASSUME NEW c \in Clients, AppendTrace(c) \/ CompleteTrace(c) PROVE AckedIsComplete'
    <2>1. /\ pc[c] \in {"appended", "wantComplete"} /\ acked' = acked \union {op[c]}
          /\ \E action \in {ActionOf[op[c]], "create"} :
               WholeAppend("traces", TraceOf(op[c], action))
      BY <1>5 DEF AppendTrace, CompleteTrace, GetLock
    <2>2. PICK action \in {"create", "update"} : WholeAppend("traces", TraceOf(op[c], action))
      BY <2>1, ActionIs
    <2>3. TraceOf(op[c], action) \in ObjLine \union TraceLine /\ TraceOf(op[c], action).op = op[c]
      BY <2>1, TraceLineIs
    <2>4. Landed("traces", TraceOf(op[c], action)) BY <1>0, <2>2, <2>3, AppendGrows
    <2>5. KeptNext("traces", op[c]) BY <2>3, <2>4 DEF Landed, KeptNext
    <2>6. Kept("objs", op[c]) BY <2>1 DEF Pending, Kept, KeptNext, HasLine
    <2>7. KeptNext("objs", op[c]) BY <1>0, <2>6, KeptStays
    <2> QED BY <1>1, <1>2, <2>1, <2>5, <2>7 DEF AckedIsComplete, HasLine, HasTrace, Kept, KeptNext
  <1>6. ASSUME acked' # acked
        PROVE  \E c \in Clients : AppendTrace(c) \/ CompleteTrace(c) \/ \E o \in Ops : Start(c, o)
    <2>1. ASSUME NEW c \in Clients, \/ Conflict(c) \/ AppendObject(c) \/ LockBusy(c)
                                    \/ FailObject(c) \/ FailTrace(c) \/ FailComplete(c)
          PROVE  FALSE
      BY <1>6, <2>1 DEF Conflict, AppendObject, LockBusy, FailObject, FailTrace, FailComplete, history
    <2>2. ASSUME NEW e \in Procs, \/ Boot(e) \/ BootBusy(e) \/ FailNote(e) \/ Crash(e)
                                  \/ \E f \in Files : Glance(e, f) \/ Expire(e, f)
          PROVE  FALSE
      BY <1>6, <2>2 DEF Boot, CutObjs, CutTraces, Cut, NoteCut, Tombstone, BootBusy, FailNote,
                        Crash, Glance, Expire, history
    <2> QED BY <2>1, <2>2 DEF Next, Commit
  <1> QED BY <1>3, <1>4, <1>5, <1>6

-----------------------------------------------------------------------------
(* Versions ascend.                                                         *)

(* The version an update expects is settled by its first attempt.           *)
LEMMA ExpectedStays ==
    ASSUME Types, Versions, Next
    PROVE  \A o \in Ops : expected[o] > 0 => expected'[o] = expected[o]
  <1>0. expected \in [Ops -> Nat] BY DEF Types, CallsOK
  <1>1. CASE expected' = expected BY <1>1
  <1>2. ASSUME NEW c \in Clients, NEW o \in Ops, Start(c, o), expected' # expected
        PROVE  \A p \in Ops : expected[p] > 0 => expected'[p] = expected[p]
    <2>1. \E seen : expected' = [expected EXCEPT ![o] = IF @ = 0 THEN seen ELSE @]
      BY <1>2 DEF Start, StartCreate, StartUpdate, call
    <2> QED BY <1>0, <2>1
  <1>3. expected' # expected => \E c \in Clients, o \in Ops : Start(c, o)
    <2>1. ASSUME NEW c \in Clients, \/ Commit(c) \/ LockBusy(c)
                                    \/ FailObject(c) \/ FailTrace(c) \/ FailComplete(c)
          PROVE  expected' = expected
      BY <2>1 DEF Commit, Conflict, AppendObject, AppendTrace, CompleteTrace, LockBusy, FailObject,
                  FailTrace, FailComplete, FailsOrDies, Answer, Die
    <2>2. ASSUME NEW e \in Procs, \/ Boot(e) \/ BootBusy(e) \/ FailNote(e) \/ Crash(e)
                                  \/ \E f \in Files : Glance(e, f) \/ Expire(e, f)
          PROVE  expected' = expected
      BY <2>2 DEF Boot, CutObjs, CutTraces, Cut, NoteCut, Tombstone, BootBusy, FailNote, Crash,
                  Glance, Expire, Die, call
    <2> QED BY <2>1, <2>2 DEF Next
  <1> QED BY <1>1, <1>2, <1>3

(* What the compare-and-set establishes for the line that is appended.      *)
LEMMA NewLineAscends ==
    ASSUME Types, Versions, NEW c \in Clients, pc[c] = "wantAppend", CasHolds(op[c])
    PROVE  LET line == NewLine(c)
               old == Latest(Lines("objs"), line.id)
           IN  /\ old \in Nat /\ line.ver > 0
               /\ \A i \in 1 .. Len(Objs) : Objs[i].id = line.id => Objs[i].ver < line.ver
               /\ ActionOf[line.op] = "create" =>
                    line.ver = 1 /\ \A i \in 1 .. Len(Objs) : Objs[i].id # line.id
               /\ ActionOf[line.op] = "update" =>
                    /\ old = expected[line.op] /\ old > 0 /\ line.ver = old + 1
                    /\ \E i \in 1 .. Len(Objs) : Objs[i].id = line.id /\ Objs[i].ver = old
                    /\ \A i \in 1 .. Len(Objs) : Objs[i].id = line.id => Objs[i].ver <= old
  <1> DEFINE line == NewLine(c)
             old == Latest(Lines("objs"), line.id)
  <1>1. /\ line \in ObjLine /\ line.op = op[c] /\ line.id = TargetOf[op[c]]
        /\ op[c] \in Ops /\ TargetOf[op[c]] \in Ids
    BY NewLineIs
  <1>2. /\ old \in Nat
        /\ old = 0 => \A i \in 1 .. Len(Objs) : Objs[i].id # line.id
        /\ old > 0 => \E i \in 1 .. Len(Objs) : Objs[i].id = line.id /\ Objs[i].ver = old
        /\ \A i \in 1 .. Len(Objs) : Objs[i].id = line.id => Objs[i].ver <= old
    BY <1>1, LatestInFile
  <1>3. line.ver = IF ActionOf[op[c]] = "create" THEN 1 ELSE old + 1
    BY <1>1 DEF NewLine
  <1>4. IF ActionOf[op[c]] = "create" THEN old = 0 ELSE old = expected[op[c]]
    BY <1>1 DEF CasHolds
  <1>5. ActionOf[op[c]] = "update" => expected[op[c]] > 0 BY DEF Types, CallsOK
  <1>6. \A i \in 1 .. Len(Objs) : Objs[i].ver \in Nat
    <2>1. Objs \in Seq(ObjLine) BY DEF Types, Disk
    <2>2. \A i \in 1 .. Len(Objs) : Objs[i] \in ObjLine BY <2>1
    <2> QED BY <2>2 DEF ObjLine
  <1> HIDE DEF line, old
  <1>7. line.ver > 0 /\ \A i \in 1 .. Len(Objs) : Objs[i].id = line.id => Objs[i].ver < line.ver
    BY <1>2, <1>3, <1>4, <1>6
  <1>8. ActionOf[line.op] = "create" =>
          line.ver = 1 /\ \A i \in 1 .. Len(Objs) : Objs[i].id # line.id
    BY <1>1, <1>2, <1>3, <1>4
  <1>9. ActionOf[line.op] = "update" =>
          /\ old = expected[line.op] /\ old > 0 /\ line.ver = old + 1
          /\ \E i \in 1 .. Len(Objs) : Objs[i].id = line.id /\ Objs[i].ver = old
    BY <1>1, <1>2, <1>3, <1>4, <1>5
  <1> QED BY <1>2, <1>7, <1>8, <1>9 DEF line, old

(* Every step keeps the versions ascending.                                 *)
LEMMA VersionsKept ==
    ASSUME Types, Versions, Next
    PROVE  Versions'
  <1>0. Objs \in Seq(ObjLine) /\ \A i \in 1 .. Len(Objs) : Objs[i].op \in Ops
    <2>1. Objs \in Seq(ObjLine) BY DEF Types, Disk
    <2>2. \A i \in 1 .. Len(Objs) : Objs[i] \in ObjLine BY <2>1
    <2> QED BY <2>1, <2>2 DEF ObjLine
  <1>1. CASE Objs' = Objs
    <2>1. ASSUME NEW n \in 0 .. Len(Objs), NEW id \in Ids PROVE Summit(Objs', n, id)
      <3>1. Summit(Objs, n, id) BY DEF Versions
      <3> QED BY <1>1, <3>1 DEF Summit
    <2>2. ASSUME NEW i \in 1 .. Len(Objs), ActionOf[Objs[i].op] = "update"
          PROVE  /\ expected'[Objs[i].op] > 0
                 /\ Objs[i].ver = expected'[Objs[i].op] + 1
      <3>1. expected[Objs[i].op] > 0 /\ Objs[i].ver = expected[Objs[i].op] + 1
        BY <2>2 DEF Versions
      <3>2. expected'[Objs[i].op] = expected[Objs[i].op] BY <1>0, <3>1, ExpectedStays
      <3> QED BY <3>1, <3>2
    <2> QED BY <1>1, <2>1, <2>2 DEF Versions
  <1>2. ASSUME NEW c \in Clients, pc[c] = "wantAppend", CasHolds(op[c]), expected' = expected,
               Objs' = Append(Objs, NewLine(c))
        PROVE  Versions'
    <2> DEFINE line == NewLine(c)
               m == Len(Objs)
    <2>1. /\ m \in Nat /\ Len(Objs') = m + 1 /\ Objs'[m + 1] = line
          /\ \A i \in 1 .. m : Objs'[i] = Objs[i]
      <3>1. line \in ObjLine BY <1>2, NewLineIs
      <3> QED BY <1>0, <1>2, <3>1
    <2>2. line.op \in Ops /\ line.id = TargetOf[line.op] BY <1>2, NewLineIs
    <2>3. /\ line.ver > 0
          /\ \A i \in 1 .. m : Objs[i].id = line.id => Objs[i].ver < line.ver
          /\ ActionOf[line.op] = "update" =>
               expected[line.op] > 0 /\ line.ver = expected[line.op] + 1
      BY <1>2, NewLineAscends
    <2>4. /\ line.ver \in Nat /\ \A i \in 1 .. m : Objs[i].ver \in Nat
      <3>1. line \in ObjLine BY <1>2, NewLineIs
      <3>2. \A i \in 1 .. m : Objs[i] \in ObjLine BY <1>0
      <3> QED BY <3>1, <3>2 DEF ObjLine
    <2> HIDE DEF line, m
    <2>5. ASSUME NEW i \in 1 .. m + 1
          PROVE  /\ Objs'[i].id = TargetOf[Objs'[i].op] /\ Objs'[i].ver > 0
                 /\ ActionOf[Objs'[i].op] = "update" =>
                      expected'[Objs'[i].op] > 0 /\ Objs'[i].ver = expected'[Objs'[i].op] + 1
      <3>1. CASE i = m + 1 BY <1>2, <2>1, <2>2, <2>3, <3>1
      <3>2. CASE i \in 1 .. m
        <4>1. Objs'[i] = Objs[i] BY <2>1, <3>2
        <4> QED BY <1>2, <3>2, <4>1 DEF Versions, m
      <3> QED BY <2>1, <3>1, <3>2
    <2>6. ASSUME NEW n \in 0 .. m, NEW id \in Ids PROVE Summit(Objs', n, id)
      <3>1. Summit(Objs, n, id) BY DEF Versions, m
      <3>2. \A i \in 1 .. n : Objs'[i] = Objs[i] BY <2>1
      <3> QED BY <3>1, <3>2 DEF Summit
    <2>7. ASSUME NEW id \in Ids PROVE Summit(Objs', m + 1, id)
      <3>0. 1 .. m + 1 = (1 .. m) \union {m + 1} /\ m + 1 \notin 1 .. m BY <2>1
      <3>1. CASE id = line.id
        <4>1. \A k \in 1 .. m : Objs'[k].id = id => Objs'[k].ver <= Objs'[m + 1].ver
          BY <2>1, <2>3, <2>4, <3>1
        <4>2. Objs'[m + 1].ver <= Objs'[m + 1].ver BY <2>1, <2>4
        <4> QED BY <2>1, <3>0, <3>1, <4>1, <4>2 DEF Summit
      <3>2. CASE id # line.id
        <4>1. Objs'[m + 1].id # id BY <2>1, <3>2
        <4>2. Summit(Objs, m, id) BY <2>1 DEF Versions, m
        <4>3. \A k \in 1 .. m : Objs'[k] = Objs[k] BY <2>1
        <4> QED BY <3>0, <4>1, <4>2, <4>3 DEF Summit
      <3> QED BY <3>1, <3>2
    <2>8. 0 .. Len(Objs') = (0 .. m) \union {m + 1} BY <2>1
    <2>9. \A n \in 0 .. Len(Objs'), id \in Ids : Summit(Objs', n, id)
      BY <2>6, <2>7, <2>8
    <2> QED BY <2>1, <2>5, <2>9 DEF Versions
  <1>3. CASE MovesObjs
    <2>1. PICK c \in Clients : /\ pc[c] = "wantAppend" /\ CasHolds(op[c]) /\ expected' = expected
                               /\ Grows("objs", NewLine(c))
      BY <1>3 DEF MovesObjs
    <2>2. Objs' = Objs \/ Objs' = Append(Objs, NewLine(c)) BY <2>1 DEF Grows, Objs
    <2> QED BY <1>1, <1>2, <2>1, <2>2
  <1>4. CASE Still \/ MovesTraces
    <2>1. Objs' = Objs BY <1>4 DEF Still, MovesTraces, Grows, Objs, Files
    <2> QED BY <1>1, <2>1
  <1> QED BY <1>3, <1>4, FilesMove

-----------------------------------------------------------------------------
(* The invariant, and what follows from it.                                 *)

(* The empty store satisfies the invariant.                                 *)
LEMMA Beginning ==
    ASSUME Init
    PROVE  IInv
  <1> DEFINE empty == [lines |-> << >>, torn |-> FALSE]
  <1>1. file = [f \in Files |-> empty] BY DEF Init
  <1>2. /\ Objs = << >> /\ Traces = << >>
        /\ \A f \in Files : file[f].lines = << >> /\ Len(file[f].lines) = 0
    BY <1>1 DEF Objs, Traces, Files
  <1>3. Disk
    <2>1. empty \in [lines : Seq(ObjLine \union TraceLine), torn : BOOLEAN] OBVIOUS
    <2> QED BY <1>1, <1>2, <2>1 DEF Disk
  <1>4. CallsOK BY DEF Init, CallsOK
  <1>5. MemosOK BY <1>2 DEF Init, MemosOK, NoMemo
  <1>6. OthersOK BY DEF Init, OthersOK, Stages
  <1>7. Versions
    <2>1. Len(Objs) = 0 BY <1>2
    <2>2. 1 .. Len(Objs) = {} /\ 0 .. Len(Objs) = {0} /\ 1 .. 0 = {} BY <2>1
    <2> QED BY <2>2 DEF Versions, Summit
  <1>8. Pending BY DEF Init, Pending
  <1>9. MutationsAreWhole
    <2>1. Lines("traces") = {} BY <1>2 DEF Lines, Files
    <2>2. acked = {} BY DEF Init
    <2> QED BY <2>1, <2>2 DEF MutationsAreWhole, AckedIsComplete, TraceHasObject
  <1> QED BY <1>3, <1>4, <1>5, <1>6, <1>7, <1>8, <1>9 DEF IInv, Types

(* Every step and every stutter keeps it.                                   *)
LEMMA Step ==
    ASSUME IInv, [Next]_vars
    PROVE  IInv'
  <1>1. CASE Next
    <2>1. Types /\ Versions /\ Pending /\ MutationsAreWhole /\ TraceHasObject
      BY DEF IInv, MutationsAreWhole
    <2> QED BY <1>1, <2>1, TypesKept, VersionsKept, PendingKept, AckedKept, TracesKept
        DEF IInv, MutationsAreWhole
  <1>2. CASE UNCHANGED vars
    <2>1. Types' BY <1>2 DEF vars, IInv, Types, Disk, Objs, Traces, CallsOK, MemosOK, OthersOK
    <2>2. Versions' BY <1>2 DEF vars, IInv, Versions, Objs
    <2>3. Pending' BY <1>2 DEF vars, IInv, Pending, Lines
    <2>4. MutationsAreWhole'
      BY <1>2 DEF vars, IInv, MutationsAreWhole, AckedIsComplete, TraceHasObject, Lines
    <2> QED BY <2>1, <2>2, <2>3, <2>4 DEF IInv
  <1> QED BY <1>1, <1>2

(* The conjunction of types, versions, due calls and whole mutations is an  *)
(* inductive invariant of the store.                                        *)
THEOREM Inductive == Spec => []IInv
  BY Beginning, Step, PTL DEF Spec

(* The types of the invariant are those that the runs check.                *)
LEMMA TypesImplyTypeOK == Types => TypeOK
  <1> SUFFICES ASSUME Types PROVE TypeOK OBVIOUS
  <1>1. /\ DOMAIN file = Files
        /\ \A f \in Files : file[f].torn \in BOOLEAN
    BY DEF Types, Disk
  <1>2. Lines("objs") \subseteq [op : Ops, id : Ids, ver : Nat, base : Nat]
    <2>1. Objs \in Seq(ObjLine) BY DEF Types, Disk
    <2>2. {Objs[i] : i \in 1 .. Len(Objs)} \subseteq ObjLine BY <2>1
    <2> QED BY <2>2 DEF Lines, Objs, ObjLine
  <1>3. Lines("traces") \subseteq
          [action : {"create", "update", "truncate"}, op : Ops \union {None},
           id : Ids \union {None}]
    <2>1. Traces \in Seq(TraceLine) BY DEF Types, Disk
    <2>2. {Traces[i] : i \in 1 .. Len(Traces)} \subseteq TraceLine BY <2>1
    <2>3. TraceLine \subseteq [action : {"create", "update", "truncate"},
                              op : Ops \union {None}, id : Ids \union {None}]
      BY DEF TraceLine, TruncateTrace
    <2> QED BY <2>2, <2>3 DEF Lines, Traces
  <1> QED BY <1>1, <1>2, <1>3 DEF Types, CallsOK, MemosOK, OthersOK, TypeOK

(* The files, the calls and the engines have their types.                   *)
THEOREM TypeCorrect == Spec => []TypeOK
  <1>1. IInv => TypeOK BY TypesImplyTypeOK DEF IInv
  <1> QED BY <1>1, Inductive, PTL

(* A mutation that a caller was told of has its object line and its trace   *)
(* in the files, and no trace stands for a mutation that left no object,    *)
(* unless the line in question landed on a torn tail; however many calls,   *)
(* crashes, failed writes and boots there are.                              *)
THEOREM Whole == Spec => []MutationsAreWhole
  <1>1. IInv => MutationsAreWhole BY DEF IInv
  <1> QED BY <1>1, Inductive, PTL

-----------------------------------------------------------------------------
(* The refinement: an object line that lands is a commit of the log, and    *)
(* nothing else changes it.                                                 *)

LogOf == [i \in 1 .. Len(Objs) |-> [op |-> Objs[i].op, id |-> Objs[i].id, ver |-> Objs[i].ver]]

(* The empty store is the empty log.                                        *)
LEMMA LogInit == Init => Log!Init
  <1> SUFFICES ASSUME Init PROVE Log!Init OBVIOUS
  <1>1. Objs = << >> BY DEF Init, Objs, Files
  <1>2. Len(Objs) = 0 BY <1>1
  <1>3. LogOf = << >> BY <1>2 DEF LogOf
  <1> QED BY <1>3 DEF Log!Init, LogOf

(* Every step of the store is a step of the log or leaves it alone.         *)
LEMMA LogStep ==
    ASSUME IInv, [Next]_vars
    PROVE  [Log!Next]_LogOf
  <1>0. Types /\ Versions BY DEF IInv
  <1>1. CASE Objs' = Objs BY <1>1 DEF LogOf
  <1>2. ASSUME NEW c \in Clients, pc[c] = "wantAppend", CasHolds(op[c]),
               Objs' = Append(Objs, NewLine(c))
        PROVE  Log!Next
    <2> DEFINE line == NewLine(c)
               m == Len(Objs)
               Entry(i) == [op |-> Objs[i].op, id |-> Objs[i].id, ver |-> Objs[i].ver]
               old == Latest(Lines("objs"), line.id)
    <2>1. Objs \in Seq(ObjLine) /\ line \in ObjLine /\ line.id = TargetOf[line.op]
      BY <1>0, <1>2, NewLineIs DEF Types, Disk
    <2>2. line.op \in Ops /\ ActionOf[line.op] \in {"create", "update"}
      BY <1>0, <1>2, NewLineIs, ActionIs
    <2>3. /\ m \in Nat /\ Len(Objs') = m + 1 /\ Objs'[m + 1] = line
          /\ \A i \in 1 .. m : Objs'[i] = Objs[i]
      BY <1>2, <2>1
    <2>4. /\ ActionOf[line.op] = "create" =>
                line.ver = 1 /\ \A i \in 1 .. m : Objs[i].id # line.id
          /\ ActionOf[line.op] = "update" =>
                /\ old \in Nat /\ old = expected[line.op] /\ line.ver = old + 1
                /\ \E i \in 1 .. m : Objs[i].id = line.id /\ Objs[i].ver = old
                /\ \A i \in 1 .. m : Objs[i].id = line.id => Objs[i].ver <= old
      BY <1>0, <1>2, NewLineAscends
    <2> HIDE DEF line, old
    <2>5. LogOf' = Append(LogOf, [op |-> line.op, id |-> line.id, ver |-> line.ver])
      <3>1. LogOf = [i \in 1 .. m |-> Entry(i)] BY DEF LogOf
      <3>2. Len(LogOf) = m BY <2>3, <3>1
      <3>3. LogOf' = [i \in 1 .. m + 1 |->
                       [op |-> Objs'[i].op, id |-> Objs'[i].id, ver |-> Objs'[i].ver]]
        BY <2>3 DEF LogOf
      <3>4. Append(LogOf, [op |-> line.op, id |-> line.id, ver |-> line.ver]) =
              [i \in 1 .. m + 1 |->
                 IF i = m + 1 THEN [op |-> line.op, id |-> line.id, ver |-> line.ver] ELSE LogOf[i]]
        BY <2>3, <3>1, <3>2
      <3>5. \A i \in 1 .. m + 1 :
              [op |-> Objs'[i].op, id |-> Objs'[i].id, ver |-> Objs'[i].ver] =
                IF i = m + 1 THEN [op |-> line.op, id |-> line.id, ver |-> line.ver] ELSE LogOf[i]
        BY <2>3, <3>1
      <3> QED BY <3>3, <3>4, <3>5
    <2>6. Log!Entries = {Entry(i) : i \in 1 .. m}
      <3>1. Log!Entries = {LogOf[i] : i \in 1 .. Len(LogOf)} BY DEF Log!Entries, LogOf
      <3>2. LogOf = [i \in 1 .. m |-> Entry(i)] BY DEF LogOf
      <3>3. Len(LogOf) = m BY <2>3, <3>2
      <3> QED BY <3>1, <3>2, <3>3
    <2>7. PICK o \in Ops : o = line.op BY <2>2
    <2>8. \A v : v = line.ver => Log!Commit(o, v)
      BY <2>1, <2>5, <2>7 DEF Log!Commit, LogOf
    <2>9. CASE ActionOf[o] = "create"
      <3>1. ~Log!Exists(TargetOf[o])
        BY <2>1, <2>4, <2>6, <2>7, <2>9 DEF Log!Exists
      <3>2. Log!Commit(o, 1) BY <2>4, <2>7, <2>8, <2>9
      <3>3. Log!Create(o) BY <2>9, <3>1, <3>2 DEF Log!Create
      <3> QED BY <3>3 DEF Log!Next
    <2>10. CASE ActionOf[o] = "update"
      <3>1. /\ old \in Nat /\ old = expected[o] /\ line.ver = old + 1
            /\ \E i \in 1 .. m : Objs[i].id = line.id /\ Objs[i].ver = old
            /\ \A i \in 1 .. m : Objs[i].id = line.id => Objs[i].ver <= old
        BY <2>4, <2>7, <2>10
      <3>2. ASSUME NEW i \in 1 .. m, Objs[i].op = o PROVE FALSE
        <4>1. Objs[i].id = line.id /\ Objs[i].ver = expected[o] + 1
          BY <1>0, <2>1, <2>7, <2>10, <3>2 DEF Versions
        <4>2. Objs[i].ver <= old BY <3>1, <4>1
        <4> QED BY <3>1, <4>1, <4>2
      <3>3. ~Log!Done(o) BY <2>6, <3>2 DEF Log!Done
      <3>4. PICK i \in 1 .. m : Objs[i].id = line.id /\ Objs[i].ver = old BY <3>1
      <3>5. PICK e \in Log!Entries : e.ver = old /\ e.id = line.id
        <4>1. Entry(i) \in Log!Entries BY <2>6
        <4>2. Entry(i).ver = old /\ Entry(i).id = line.id BY <3>4
        <4> HIDE DEF Entry
        <4> QED BY <4>1, <4>2
      <3>6. \A d \in Log!Entries : d.id = line.id => d.ver <= old BY <2>6, <3>1
      <3>7. Log!IsLatest(TargetOf[o], e.ver)
        BY <2>1, <2>7, <3>5, <3>6 DEF Log!IsLatest
      <3>8. Log!Commit(o, e.ver + 1) BY <2>8, <3>1, <3>5
      <3>9. Log!Update(o) BY <2>10, <3>3, <3>5, <3>7, <3>8 DEF Log!Update
      <3> QED BY <3>9 DEF Log!Next
    <2> QED BY <2>2, <2>7, <2>9, <2>10
  <1>3. CASE Next
    <2>1. CASE MovesObjs
      <3>1. PICK c \in Clients : /\ pc[c] = "wantAppend" /\ CasHolds(op[c])
                                 /\ Grows("objs", NewLine(c))
        BY <2>1 DEF MovesObjs
      <3>2. Objs' = Objs \/ Objs' = Append(Objs, NewLine(c)) BY <3>1 DEF Grows, Objs
      <3> QED BY <1>1, <1>2, <3>1, <3>2
    <2>2. CASE Still \/ MovesTraces
      <3>1. Objs' = Objs BY <2>2 DEF Still, MovesTraces, Grows, Objs, Files
      <3> QED BY <1>1, <3>1
    <2> QED BY <1>0, <1>3, <2>1, <2>2, FilesMove
  <1>4. CASE UNCHANGED vars
    <2>1. Objs' = Objs BY <1>4 DEF vars, Objs
    <2> QED BY <1>1, <2>1
  <1> QED BY <1>3, <1>4

(* Whatever processes, disks and readers do, the readable object lines are  *)
(* a log of committed operations: each update once, as the successor of the *)
(* latest version; each create where there was no object; none taken out.   *)
THEOREM Implements == Spec => ImplementsObjectLog
  <1>1. IInv /\ [Next]_vars => [Log!Next]_LogOf BY LogStep
  <1>2. [][Next]_vars /\ []IInv => [][Log!Next]_LogOf BY <1>1, PTL
  <1>3. Spec => Log!Init BY LogInit DEF Spec
  <1>4. Spec => [][Log!Next]_LogOf BY <1>2, Inductive, PTL DEF Spec
  <1> QED BY <1>3, <1>4, PTL DEF ImplementsObjectLog, Log!Spec, LogOf

-----------------------------------------------------------------------------
(* Boot repairs what a killed process left, and harms nothing else, as long *)
(* as one process writes the store, no wait for the lock gives up and no    *)
(* write fails in a process that lives on.  Files are torn only between the *)
(* death of that process and its boot, one of them at a time, and what boot *)
(* reads there is the whole of the files.                                   *)

OneWriter == (\A d, e \in Procs : d = e) /\ ~LockTimesOut /\ ~WritesFail

Tidy ==
    /\ lost = {} /\ tombs = {}
    /\ ~(file["objs"].torn /\ file["traces"].torn)
    /\ \A e \in Procs :
         /\ eng[e] # "busy"
         /\ eng[e] # "up" => ~file["objs"].torn
         /\ eng[e] \in {"noteObjsCut", "noteTracesCut", "tombs", "booted"}
              => ~file["traces"].torn
         /\ eng[e] # "booted" => \A f \in Files : memo[e][f] = NoMemo
    /\ \A c \in Clients : pc[c] # "idle" => eng[EngineOf[c]] = "booted"

(* An append to a file without a torn tail loses no line and leaves the     *)
(* other file alone.                                                        *)
LEMMA AppendOnWhole ==
    ASSUME Types, NEW f \in Files, NEW line, ~file[f].torn
    PROVE  /\ WholeAppend(f, line) =>
                lost' = lost /\ \A g \in Files : file'[g].torn = file[g].torn
           /\ BrokenAppend(f, line) =>
                lost' = lost /\ \A g \in Files \ {f} : file'[g].torn = file[g].torn
  <1>1. file \in DiskType BY DEF Types, Disk, DiskType
  <1>2. ASSUME WholeAppend(f, line)
        PROVE  lost' = lost /\ \A g \in Files : file'[g].torn = file[g].torn
    BY <1>1, <1>2 DEF WholeAppend, DiskType
  <1>3. CASE file' = [file EXCEPT ![f].torn = TRUE] /\ lost' = lost
    BY <1>1, <1>2, <1>3 DEF DiskType
  <1>4. CASE file' = file /\ lost' = lost BY <1>2, <1>4
  <1> QED BY <1>2, <1>3, <1>4 DEF BrokenAppend

(* The process dies: what it leaves is for its next boot.                   *)
LEMMA DieIsTidy ==
    ASSUME OneWriter, Types, NEW e \in Procs, Die(e), lost' = {}, tombs' = {},
           ~(file'["objs"].torn /\ file'["traces"].torn)
    PROVE  Tidy'
  <1>1. \A d \in Procs : d = e BY DEF OneWriter
  <1>2. \A d \in Procs : eng'[d] = "up" /\ \A f \in Files : memo'[d][f] = NoMemo
    BY <1>1 DEF Die, Bust, Types, OthersOK, MemosOK
  <1>3. \A c \in Clients : pc'[c] = "idle"
    BY <1>1, StoreAssumption DEF Die, StoreAssumption
  <1> QED BY <1>2, <1>3 DEF Tidy

(* The booted engine works on whole files.                                  *)
LEMMA BootedIsTidy ==
    ASSUME OneWriter, NEW e \in Procs, eng'[e] = "booted", lost' = {}, tombs' = {},
           ~file'["objs"].torn, ~file'["traces"].torn
    PROVE  Tidy'
  <1>1. \A d \in Procs : d = e BY DEF OneWriter
  <1> QED BY <1>1, StoreAssumption DEF Tidy, StoreAssumption

(* Boot goes through its stages: no call of the process is under way.       *)
LEMMA BootIsTidy ==
    ASSUME OneWriter, Types, Tidy, TraceHasObject, Versions,
           NEW e \in Procs, Boot(e)
    PROVE  Tidy'
  <1>1. \A d \in Procs : d = e BY DEF OneWriter
  <1>2. file \in DiskType /\ eng \in [Procs -> Stages] /\ "objs" \in Files /\ "traces" \in Files
    BY DEF Types, Disk, DiskType, OthersOK, Files
  <1>3. eng[e] # "booted" => \A c \in Clients : pc[c] = "idle"
    BY <1>1, StoreAssumption DEF Tidy, StoreAssumption
  <1>4. ASSUME CutObjs(e) PROVE Tidy'
    <2>1. /\ eng[e] # "booted" /\ lost' = lost /\ UNCHANGED <<tombs, memo, pc>>
          /\ file' = [file EXCEPT !["objs"].torn = FALSE]
          /\ eng' = [eng EXCEPT ![e] = IF file["objs"].torn THEN "noteObjsCut" ELSE "cutTraces"]
      BY <1>4 DEF CutObjs, Cut, Stage, call
    <2>2. ~file'["objs"].torn /\ file'["traces"].torn = file["traces"].torn
      BY <1>2, <2>1 DEF DiskType
    <2>3. eng'[e] = IF file["objs"].torn THEN "noteObjsCut" ELSE "cutTraces" BY <1>2, <2>1
    <2> QED BY <1>1, <1>3, <2>1, <2>2, <2>3 DEF Tidy
  <1>5. ASSUME CutTraces(e) PROVE Tidy'
    <2>1. /\ eng[e] = "cutTraces" /\ lost' = lost /\ UNCHANGED <<tombs, memo, pc>>
          /\ file' = [file EXCEPT !["traces"].torn = FALSE]
          /\ eng' = [eng EXCEPT ![e] = IF file["traces"].torn THEN "noteTracesCut" ELSE "tombs"]
      BY <1>5 DEF CutTraces, Cut, Stage, call
    <2>2. ~file'["traces"].torn /\ file'["objs"].torn = file["objs"].torn
      BY <1>2, <2>1 DEF DiskType
    <2>3. eng'[e] \in {"noteTracesCut", "tombs"} BY <1>2, <2>1
    <2> QED BY <1>1, <1>3, <2>1, <2>2, <2>3 DEF Tidy
  <1>6. ASSUME NoteCut(e) PROVE Tidy'
    <2>1. /\ eng[e] \in {"noteObjsCut", "noteTracesCut"} /\ UNCHANGED <<tombs, pc>>
          /\ WholeAppend("traces", TruncateTrace)
          /\ eng' = [eng EXCEPT ![e] = IF eng[e] = "noteObjsCut" THEN "cutTraces" ELSE "tombs"]
          /\ memo' = [memo EXCEPT ![e] = [f \in Files |-> NoMemo]]
      BY <1>6 DEF NoteCut, Stage, Bust, call
    <2>2. ~file["objs"].torn /\ ~file["traces"].torn BY <2>1 DEF Tidy
    <2>3. lost' = lost /\ ~file'["objs"].torn /\ ~file'["traces"].torn
      BY <1>2, <2>1, <2>2, AppendOnWhole
    <2>4. eng'[e] \in {"cutTraces", "tombs"} /\ \A f \in Files : memo'[e][f] = NoMemo
      BY <1>2, <2>1 DEF Types, MemosOK
    <2> QED BY <1>1, <1>3, <2>1, <2>3, <2>4 DEF Tidy
  <1>7. ASSUME Tombstone(e) PROVE Tidy'
    <2>1. /\ eng[e] = "tombs" /\ file' = file /\ lost' = lost
          /\ eng' = [eng EXCEPT ![e] = "booted"]
          /\ tombs' = tombs \union ({t.id : t \in {u \in View(e, "traces") : u.op # None}}
                                      \ {l.id : l \in View(e, "objs")})
      BY <1>7 DEF Tombstone, Stage, history
    <2>2. ~file["objs"].torn /\ ~file["traces"].torn /\ lost = {} /\ tombs = {}
      BY <2>1 DEF Tidy
    <2>3. View(e, "traces") = Lines("traces") /\ View(e, "objs") = Lines("objs")
      BY <1>2, <2>1 DEF Tidy, View, ViewLen, Lines
    <2>4. ASSUME NEW t \in Lines("traces"), t.op # None
          PROVE  \E l \in Lines("objs") : l.id = t.id
      <3>1. PICK l \in Lines("objs") : l.op = t.op
        BY <2>2, <2>4 DEF TraceHasObject, HasLine
      <3>2. l.id = TargetOf[l.op] BY DEF Versions, Lines, Objs
      <3>3. t.id = TargetOf[t.op]
        <4>1. t \in TraceLine BY DEF Types, Disk, Lines, Traces
        <4> QED BY <2>4, <4>1 DEF TraceLine, TruncateTrace
      <3> QED BY <3>1, <3>2, <3>3
    <2>5. tombs' = {} BY <2>1, <2>2, <2>3, <2>4
    <2>6. eng'[e] = "booted" BY <1>2, <2>1
    <2> QED BY <2>1, <2>2, <2>5, <2>6, BootedIsTidy
  <1> QED BY <1>4, <1>5, <1>6, <1>7 DEF Boot

(* Whatever else the process does: it works on whole files, or dies and     *)
(* leaves at most one of them torn.                                         *)
LEMMA TidyKept ==
    ASSUME OneWriter, IInv, Tidy, Next
    PROVE  Tidy'
  <1>0. /\ Types /\ Versions /\ TraceHasObject /\ lost = {} /\ tombs = {}
        /\ "objs" \in Files /\ "traces" \in Files /\ "objs" # "traces"
    BY DEF IInv, MutationsAreWhole, Tidy, Files
  <1>1. ASSUME NEW e \in Procs, eng[e] = "booted"
        PROVE  ~file["objs"].torn /\ ~file["traces"].torn
    BY <1>1 DEF Tidy
  <1>2. ASSUME NEW c \in Clients
        PROVE  /\ EngineOf[c] \in Procs
               /\ CanRun(EngineOf[c]) \/ pc[c] = "appended" => eng[EngineOf[c]] = "booted"
    BY StoreAssumption DEF StoreAssumption, CanRun, Tidy
  <1>3. ASSUME NEW c \in Clients, Conflict(c) \/ LockBusy(c) \/ \E o \in Ops : Start(c, o)
        PROVE  Tidy'
    <2>1. /\ eng[EngineOf[c]] = "booted" /\ eng' = eng /\ file' = file
          /\ lost' = lost /\ tombs' = tombs
      BY <1>2, <1>3 DEF Conflict, LockBusy, Start, GetLock, disk, history
    <2> QED BY <1>0, <1>1, <1>2, <2>1, BootedIsTidy
  <1>4. ASSUME NEW c \in Clients, AppendObject(c) \/ AppendTrace(c) \/ CompleteTrace(c)
        PROVE  Tidy'
    <2>1. /\ eng[EngineOf[c]] = "booted" /\ eng' = eng /\ tombs' = tombs
          /\ \E f \in Files : \E line : WholeAppend(f, line)
      BY <1>0, <1>2, <1>4 DEF AppendObject, AppendTrace, CompleteTrace, GetLock
    <2>2. ~file["objs"].torn /\ ~file["traces"].torn BY <1>1, <1>2, <2>1
    <2>3. lost' = {} /\ ~file'["objs"].torn /\ ~file'["traces"].torn
      BY <1>0, <2>1, <2>2, AppendOnWhole DEF Files
    <2> QED BY <1>0, <1>2, <2>1, <2>3, BootedIsTidy
  <1>5. ASSUME NEW e \in Procs, Die(e), tombs' = tombs, NEW f \in Files, NEW line,
               ~file["objs"].torn, ~file["traces"].torn, BrokenAppend(f, line)
        PROVE  Tidy'
    <2>1. ~file[f].torn BY <1>5 DEF Files
    <2>2. lost' = {} /\ \A g \in Files \ {f} : file'[g].torn = file[g].torn
      BY <1>0, <1>5, <2>1, AppendOnWhole
    <2>3. ~(file'["objs"].torn /\ file'["traces"].torn) BY <1>5, <2>2 DEF Files
    <2> QED BY <1>0, <1>5, <2>2, <2>3, DieIsTidy
  <1>6. ASSUME NEW c \in Clients, FailObject(c) \/ FailTrace(c) \/ FailComplete(c)
        PROVE  Tidy'
    <2>1. /\ eng[EngineOf[c]] = "booted" /\ tombs' = tombs /\ \E f \in Files : FailsOrDies(c, f)
          /\ \E f \in Files : \E line : BrokenAppend(f, line)
      BY <1>0, <1>2, <1>6 DEF FailObject, FailTrace, FailComplete, GetLock, Files
    <2>2. Die(EngineOf[c]) BY <2>1 DEF FailsOrDies, Survives, OneWriter
    <2> QED BY <1>1, <1>2, <1>5, <2>1, <2>2
  <1>7. ASSUME NEW e \in Procs, FailNote(e) PROVE Tidy'
    <2>1. /\ eng[e] \in {"noteObjsCut", "noteTracesCut"} /\ tombs' = tombs
          /\ BrokenAppend("traces", TruncateTrace) /\ Die(e)
      BY <1>7 DEF FailNote, Survives, OneWriter
    <2>2. ~file["objs"].torn /\ ~file["traces"].torn BY <2>1 DEF Tidy
    <2> QED BY <1>0, <1>5, <2>1, <2>2
  <1>8. ASSUME NEW e \in Procs, Crash(e) PROVE Tidy'
    <2>1. Die(e) /\ file' = file /\ tombs' = tombs /\ lost' = lost
      BY <1>8 DEF Crash, disk, history
    <2> QED BY <1>0, <2>1, DieIsTidy DEF Tidy
  <1>9. ASSUME NEW e \in Procs, BootBusy(e) PROVE Tidy'
    BY <1>9 DEF BootBusy, OneWriter
  <1>10. ASSUME NEW e \in Procs, NEW f \in Files, Glance(e, f) \/ Expire(e, f) PROVE Tidy'
    <2>1. eng[e] = "booted"
      BY <1>10 DEF Glance, Expire, CanRun, Tidy
    <2>2. eng' = eng /\ file' = file /\ tombs' = tombs /\ lost' = lost
      BY <1>10 DEF Glance, Expire, disk, history
    <2> QED BY <1>0, <1>1, <2>1, <2>2, BootedIsTidy
  <1> QED BY <1>0, <1>3, <1>4, <1>6, <1>7, <1>8, <1>9, <1>10, BootIsTidy DEF Next, Commit

(* A store that one process writes loses no line to a torn tail, and boot   *)
(* quarantines nothing that can be read: for every number of calls,         *)
(* operations, objects and deaths of the process, in the middle of a write  *)
(* or of an earlier boot.                                                   *)
THEOREM Harmless == ASSUME OneWriter PROVE Spec => []BootIsHarmless
  <1>1. Init => Tidy
    BY DEF Init, Tidy, Files
  <1>2. IInv /\ Tidy /\ [Next]_vars => Tidy'
    <2> SUFFICES ASSUME IInv, Tidy, [Next]_vars PROVE Tidy' OBVIOUS
    <2>1. CASE UNCHANGED vars BY <2>1 DEF vars, Tidy
    <2> QED BY <2>1, TidyKept
  <1>3. Tidy => BootIsHarmless
    BY DEF Tidy, BootIsHarmless, NothingLandsOnATear, OnlyOrphansQuarantined
  <1> QED BY <1>1, <1>2, <1>3, Inductive, PTL DEF Spec

-----------------------------------------------------------------------------
(* A retry is idempotent where each operation has one caller, which makes   *)
(* its attempts one after the other.  What the engine of a caller shows may *)
(* be old, but not older than the caller's own lines: an append drops the   *)
(* stats that its engine memoised.  One that fails does not, and may have   *)
(* landed: a retry that goes by the old stat is then misled, and is the     *)
(* only one that can be.                                                    *)

SeparateCallers == \A c, d \in Clients : MayRun[c] \intersect MayRun[d] # {} => c = d

Has(f, o) == \E l \in Lines(f) : l.op = o

Shown(e, f, o) == \E l \in View(e, f) : l.op = o

OwnLinesAreSeen ==
    \A c \in Clients, f \in Files : \A o \in MayRun[c] :
        Has(f, o) => Shown(EngineOf[c], f, o) \/ o \in landed

OwnCall(c) ==
    /\ op[c] \in MayRun[c]
    /\ pc[c] = "wantAppend" => ~Has("objs", op[c]) \/ op[c] \in misled
    /\ pc[c] = "wantComplete" => ~Has("traces", op[c]) \/ op[c] \in misled
    /\ pc[c] = "appended" =>
         ~Has("traces", op[c]) \/ <<"objs", op[c]>> \in lost \/ op[c] \in misled
OwnCalls == \A c \in Clients : pc[c] # "idle" => OwnCall(c)

RInv == OwnLinesAreSeen /\ OwnCalls /\ RetriesAreIdempotentUnlessMisled

Writes(c, f) ==
    \/ f = "objs" /\ (AppendObject(c) \/ FailObject(c))
    \/ f = "traces" /\ (AppendTrace(c) \/ FailTrace(c) \/ CompleteTrace(c) \/ FailComplete(c))

(* What writes a line about an operation is a call that runs it.            *)
LEMMA WriterIs ==
    ASSUME Types, Versions, Next, NEW f \in Files, file'[f].lines # file[f].lines
    PROVE  \/ \E c \in Clients, line \in ObjLine \union TraceLine :
                Writes(c, f) /\ line.op = op[c] /\ Grows(f, line)
           \/ f = "traces" /\ Grows(f, TruncateTrace)
  <1>0. "objs" \in Files /\ "traces" \in Files /\ "objs" # "traces" BY DEF Files
  <1>1. ASSUME Still PROVE FALSE
    BY <1>1 DEF Still
  <1>2. ASSUME NEW c \in Clients, AppendObject(c) \/ FailObject(c)
        PROVE  Writes(c, f) /\ NewLine(c).op = op[c] /\ NewLine(c) \in ObjLine /\ Grows(f, NewLine(c))
    <2>1. pc[c] = "wantAppend" BY <1>2 DEF AppendObject, FailObject, GetLock
    <2>2. NewLine(c) \in ObjLine /\ NewLine(c).op = op[c] BY <2>1, NewLineIs
    <2>3. WholeAppend("objs", NewLine(c)) \/ BrokenAppend("objs", NewLine(c))
      BY <1>2 DEF AppendObject, FailObject
    <2>4. Grows("objs", NewLine(c)) BY <1>0, <2>2, <2>3, AppendGrows, BrokenGrows
    <2>5. f = "objs" BY <1>0, <2>4 DEF Grows, Files
    <2> QED BY <1>2, <2>2, <2>4, <2>5 DEF Writes
  <1>3. ASSUME NEW c \in Clients,
               AppendTrace(c) \/ CompleteTrace(c) \/ FailTrace(c) \/ FailComplete(c)
        PROVE  \E line \in TraceLine : Writes(c, f) /\ line.op = op[c] /\ Grows(f, line)
    <2>1. pc[c] \in {"appended", "wantComplete"}
      BY <1>3 DEF AppendTrace, CompleteTrace, FailTrace, FailComplete, GetLock
    <2>2. PICK action \in {"create", "update"} :
             \/ WholeAppend("traces", TraceOf(op[c], action))
             \/ BrokenAppend("traces", TraceOf(op[c], action))
      <3>1. ActionOf[op[c]] \in {"create", "update"} BY <2>1, ActionIs
      <3> QED BY <1>3, <3>1 DEF AppendTrace, CompleteTrace, FailTrace, FailComplete
    <2>3. TraceOf(op[c], action) \in TraceLine /\ TraceOf(op[c], action).op = op[c]
      BY <2>1, TraceLineIs
    <2>4. Grows("traces", TraceOf(op[c], action)) BY <1>0, <2>2, <2>3, AppendGrows, BrokenGrows
    <2>5. f = "traces" BY <1>0, <2>4 DEF Grows, Files
    <2> QED BY <1>3, <2>3, <2>4, <2>5 DEF Writes
  <1>4. ASSUME NEW e \in Procs, NoteCut(e) \/ FailNote(e)
        PROVE  f = "traces" /\ Grows(f, TruncateTrace)
    <2>1. WholeAppend("traces", TruncateTrace) \/ BrokenAppend("traces", TruncateTrace)
      BY <1>4 DEF NoteCut, FailNote
    <2>2. Grows("traces", TruncateTrace) BY <1>0, <2>1, TruncateIs, AppendGrows, BrokenGrows
    <2>3. f = "traces" BY <1>0, <2>2 DEF Grows, Files
    <2> QED BY <2>2, <2>3
  <1>5. ASSUME NEW e \in Procs, CutObjs(e) \/ CutTraces(e) PROVE FALSE
    BY <1>0, <1>1, <1>5, CutIs DEF CutObjs, CutTraces
  <1>6. ASSUME NEW c \in Clients, Conflict(c) \/ LockBusy(c) \/ \E o \in Ops : Start(c, o)
        PROVE  FALSE
    BY <1>1, <1>6, StillIs DEF Conflict, LockBusy, Start, disk, history
  <1>7. ASSUME NEW e \in Procs,
               Tombstone(e) \/ BootBusy(e) \/ Crash(e) \/ \E g \in Files : Glance(e, g) \/ Expire(e, g)
        PROVE  FALSE
    BY <1>1, <1>7, StillIs DEF Tombstone, BootBusy, Crash, Glance, Expire, disk, history
  <1> QED BY <1>2, <1>3, <1>4, <1>5, <1>6, <1>7 DEF Next, Boot, Commit

(* A writer's engine is shown the whole file afterwards, or its operation   *)
(* is known to have landed; and its call is where it was no more.           *)
LEMMA WriterLooksAnew ==
    ASSUME Types, NEW c \in Clients, NEW f \in Files, Writes(c, f)
    PROVE  /\ \/ memo'[EngineOf[c]][f] = NoMemo
              \/ op[c] \in landed' \/ file'[f].lines = file[f].lines
           /\ f = "objs" => pc[c] = "wantAppend" /\ pc'[c] # "wantAppend"
           /\ f = "traces" => pc[c] \in {"appended", "wantComplete"} /\ pc'[c] = "idle"
  <1>1. /\ EngineOf[c] \in Procs /\ memo \in [Procs -> [Files -> Int]]
        /\ pc \in [Clients -> {"idle", "wantAppend", "wantComplete", "appended"}]
    BY StoreAssumption DEF StoreAssumption, Types, MemosOK, CallsOK
  <1>2. ASSUME Bust(EngineOf[c]) PROVE memo'[EngineOf[c]][f] = NoMemo
    BY <1>1, <1>2 DEF Bust
  <1>3. ASSUME FailsOrDies(c, f)
        PROVE  /\ \/ memo'[EngineOf[c]][f] = NoMemo
                  \/ op[c] \in landed' \/ file'[f].lines = file[f].lines
               /\ pc'[c] = "idle"
    <2>1. CASE Die(EngineOf[c]) BY <1>1, <1>2, <2>1 DEF Die
    <2>2. CASE Answer(c) /\ landed' = IF file'[f].lines = file[f].lines
                                        THEN landed ELSE landed \union {op[c]}
      BY <1>1, <2>2 DEF Answer
    <2> QED BY <1>3, <2>1, <2>2 DEF FailsOrDies
  <1>4. CASE f = "objs" /\ AppendObject(c)
    BY <1>1, <1>2, <1>4 DEF AppendObject, GetLock, Goto
  <1>5. CASE f = "objs" /\ FailObject(c)
    BY <1>3, <1>5 DEF FailObject, GetLock
  <1>6. CASE f = "traces" /\ (AppendTrace(c) \/ CompleteTrace(c))
    BY <1>1, <1>2, <1>6 DEF AppendTrace, CompleteTrace, GetLock, Answer
  <1>7. CASE f = "traces" /\ (FailTrace(c) \/ FailComplete(c))
    BY <1>3, <1>7 DEF FailTrace, FailComplete, GetLock
  <1> QED BY <1>4, <1>5, <1>6, <1>7 DEF Writes

(* What a reader saw once, it is shown from then on.                        *)
LEMMA ReadsAreMonotone ==
    ASSUME Types, Versions, Next, NEW e \in Procs, NEW f \in Files
    PROVE  View(e, f) \subseteq View(e, f)'
  <1>1. /\ Later /\ Len(file[f].lines) \in Nat /\ Len(file'[f].lines) \in Nat
        /\ memo \in [Procs -> [Files -> Int]]
    BY NextIsLater DEF Types, Disk, MemosOK
  <1>2. memo'[e][f] \in {NoMemo, memo[e][f], Len(file[f].lines)} BY MemosMove
  <1>3. ViewLen(e, f) \in 0 .. Len(file[f].lines) BY ViewIs
  <1>4. /\ Len(file[f].lines) <= Len(file'[f].lines)
        /\ \A i \in 1 .. Len(file[f].lines) : file'[f].lines[i] = file[f].lines[i]
    BY <1>1 DEF Later
  <1>5. ViewLen(e, f)' \in Nat /\ ViewLen(e, f) <= ViewLen(e, f)'
    BY <1>1, <1>2, <1>3, <1>4 DEF ViewLen, NoMemo, Types, MemosOK
  <1>6. ASSUME NEW i \in 1 .. ViewLen(e, f) PROVE file[f].lines[i] \in View(e, f)'
    <2>1. i \in 1 .. ViewLen(e, f)' /\ file[f].lines[i] = file'[f].lines[i]
      <3>1. i \in 1 .. ViewLen(e, f)' /\ i \in 1 .. Len(file[f].lines) BY <1>1, <1>3, <1>5
      <3> QED BY <1>4, <3>1
    <2>2. View(e, f)' = {file'[f].lines[j] : j \in 1 .. ViewLen(e, f)'} BY DEF View
    <2> QED BY <2>1, <2>2
  <1> QED BY <1>6 DEF View

(* Only the caller of an operation writes lines about it.                   *)
LEMMA OwnWriter ==
    ASSUME SeparateCallers, Types, Versions, OwnCalls, Next,
           NEW c \in Clients, NEW o \in MayRun[c], NEW f \in Files, Has(f, o)', ~Has(f, o)
    PROVE  Writes(c, f) /\ op[c] = o
  <1>1. o \in Ops /\ o # None BY StoreAssumption DEF StoreAssumption
  <1>2. PICK l \in Lines(f)' : l.op = o BY DEF Has
  <1>3. l \notin Lines(f) /\ file'[f].lines # file[f].lines BY <1>2 DEF Has, Lines
  <1>4. ASSUME Grows(f, TruncateTrace) PROVE FALSE
    BY <1>1, <1>2, <1>3, <1>4, GrowsByOne, TruncateIs
  <1>5. PICK d \in Clients, line \in ObjLine \union TraceLine :
           Writes(d, f) /\ line.op = op[d] /\ Grows(f, line)
    BY <1>2, <1>3, <1>4, WriterIs
  <1>6. op[d] = o BY <1>2, <1>3, <1>5, GrowsByOne
  <1>7. pc[d] # "idle" BY <1>5, WriterLooksAnew DEF Files
  <1>8. o \in MayRun[d] BY <1>6, <1>7 DEF OwnCalls, OwnCall
  <1>9. d = c BY <1>8 DEF SeparateCallers
  <1> QED BY <1>5, <1>6, <1>9

(* A caller's engine shows it the lines it wrote.                           *)
LEMMA OwnLinesKept ==
    ASSUME SeparateCallers, Types, Versions, OwnLinesAreSeen, OwnCalls, Next
    PROVE  OwnLinesAreSeen'
  <1> SUFFICES ASSUME NEW c \in Clients, NEW f \in Files, NEW o \in MayRun[c], Has(f, o)'
               PROVE  (\E l \in View(EngineOf[c], f)' : l.op = o) \/ o \in landed'
    BY DEF OwnLinesAreSeen, Shown
  <1>1. EngineOf[c] \in Procs /\ landed \subseteq landed'
    BY DoubtGrows, StoreAssumption DEF StoreAssumption
  <1>2. CASE Has(f, o)
    <2>1. (\E l \in View(EngineOf[c], f) : l.op = o) \/ o \in landed
      BY <1>2 DEF OwnLinesAreSeen, Shown
    <2> QED BY <1>1, <2>1, ReadsAreMonotone
  <1>3. CASE ~Has(f, o)
    <2>1. Writes(c, f) /\ op[c] = o BY <1>3, OwnWriter
    <2>2. file'[f].lines # file[f].lines BY <1>3 DEF Has, Lines
    <2>3. CASE o \in landed' BY <2>3
    <2>4. CASE memo'[EngineOf[c]][f] = NoMemo
      <3>1. View(EngineOf[c], f)' = Lines(f)' BY <2>4 DEF View, ViewLen, Lines
      <3> QED BY <3>1 DEF Has
    <2> QED BY <2>1, <2>2, <2>3, <2>4, WriterLooksAnew
  <1> QED BY <1>2, <1>3

(* A call that goes on is as far as it was: nobody else wrote its lines.    *)
LEMMA CallGoesOn ==
    ASSUME SeparateCallers, Types, Versions, OwnCalls, Next,
           NEW c \in Clients, pc'[c] = pc[c], pc[c] # "idle", op'[c] = op[c]
    PROVE  OwnCall(c)'
  <1>1. /\ OwnCall(c) /\ op[c] \in MayRun[c]
        /\ lost \subseteq lost' /\ misled \subseteq misled'
    BY NextIsLater, DoubtGrows DEF OwnCalls, OwnCall, Later
  <1>2. ASSUME pc[c] = "wantAppend", ~Has("objs", op[c])
        PROVE  ~(\E l \in Lines("objs")' : l.op = op[c])
    <2>1. ~Has("objs", op[c]) BY <1>2
    <2>2. "objs" \in Files BY DEF Files
    <2>3. ~Writes(c, "objs") BY <1>2, <2>2, WriterLooksAnew
    <2> QED BY <1>1, <2>1, <2>2, <2>3, OwnWriter DEF Has
  <1>3. ASSUME pc[c] \in {"wantComplete", "appended"}, ~Has("traces", op[c])
        PROVE  ~(\E l \in Lines("traces")' : l.op = op[c])
    <2>1. "traces" \in Files BY DEF Files
    <2>2. ~Writes(c, "traces") BY <1>3, <2>1, WriterLooksAnew
    <2> QED BY <1>1, <1>3, <2>1, <2>2, OwnWriter DEF Has
  <1> QED BY <1>1, <1>2, <1>3 DEF OwnCall, Has

(* The attempt of an operation that has a visible line does not append one. *)
LEMMA StartIsOwn ==
    ASSUME Types, Versions, OwnLinesAreSeen, NEW c \in Clients, NEW o \in Ops, Start(c, o),
           ~UNCHANGED call
    PROVE  OwnCall(c)'
  <1>1. /\ EngineOf[c] \in Procs /\ TargetOf[o] \in Ids
        /\ "objs" \in Files /\ "traces" \in Files
        /\ op \in [Clients -> Ops \union {None}]
        /\ pc \in [Clients -> {"idle", "wantAppend", "wantComplete", "appended"}]
    BY StoreAssumption DEF StoreAssumption, Types, CallsOK, Files
  <1>2. /\ o \in MayRun[c] /\ file' = file /\ op' = [op EXCEPT ![c] = o]
        /\ misled' = IF o \in landed /\ Hides(EngineOf[c], o) THEN misled \union {o} ELSE misled
        /\ \/ Goto(c, "wantComplete") /\ ~PriorTrace(EngineOf[c], o)
           \/ /\ Goto(c, "wantAppend")
              /\ \/ ~PriorLine(EngineOf[c], o)
                 \/ ~(Latest(View(EngineOf[c], "objs"), TargetOf[o]) > 0)
    BY DEF Start, StartCreate, StartUpdate, disk
  <1>3. op'[c] = o /\ \A f \in Files : Lines(f)' = Lines(f)
    BY <1>1, <1>2 DEF Lines
  <1>6. ASSUME NEW f \in Files, Has(f, o), ~Shown(EngineOf[c], f, o) PROVE o \in misled'
    <2>1. o \in landed BY <1>2, <1>6 DEF OwnLinesAreSeen
    <2>2. Hides(EngineOf[c], o) BY <1>6 DEF Hides, Has, Shown, HasLine
    <2> QED BY <1>2, <2>1, <2>2
  <1>4. CASE Goto(c, "wantComplete") /\ ~PriorTrace(EngineOf[c], o)
    <2>1. ~Has("traces", o) \/ o \in misled'
      <3>1. ~Shown(EngineOf[c], "traces", o) BY <1>4 DEF Shown, PriorTrace, HasTrace
      <3> QED BY <1>1, <1>6, <3>1
    <2>2. pc'[c] = "wantComplete" BY <1>1, <1>4 DEF Goto
    <2> QED BY <1>1, <1>2, <1>3, <2>1, <2>2 DEF OwnCall, Has
  <1>5. CASE /\ Goto(c, "wantAppend")
             /\ \/ ~PriorLine(EngineOf[c], o)
                \/ ~(Latest(View(EngineOf[c], "objs"), TargetOf[o]) > 0)
    <2>1. ASSUME Shown(EngineOf[c], "objs", o) PROVE FALSE
      <3>1. PICK l \in View(EngineOf[c], "objs") : l.op = o BY <2>1 DEF Shown
      <3>2. ~(Latest(View(EngineOf[c], "objs"), TargetOf[o]) > 0)
        BY <1>5, <3>1 DEF PriorLine, HasLine
      <3>3. /\ ViewLen(EngineOf[c], "objs") \in 0 .. Len(Objs)
            /\ View(EngineOf[c], "objs") = {Objs[i] : i \in 1 .. ViewLen(EngineOf[c], "objs")}
        BY <1>1, ViewIs DEF Objs
      <3>4. PICK i \in 1 .. ViewLen(EngineOf[c], "objs") : Objs[i] = l BY <3>1, <3>3
      <3>5. Objs[i].id = TargetOf[o]
        <4>1. i \in 1 .. Len(Objs) BY <3>3, <3>4
        <4> QED BY <3>1, <3>4, <4>1 DEF Versions
      <3>6. /\ Latest(View(EngineOf[c], "objs"), TargetOf[o]) \in Nat
            /\ Latest(View(EngineOf[c], "objs"), TargetOf[o]) # 0
        BY <1>1, <3>3, <3>4, <3>5, LatestIs
      <3> QED BY <3>2, <3>6
    <2>2. pc'[c] = "wantAppend" BY <1>1, <1>5 DEF Goto
    <2>3. ~Has("objs", o) \/ o \in misled' BY <1>1, <1>6, <2>1
    <2> QED BY <1>1, <1>2, <1>3, <2>2, <2>3 DEF OwnCall, Has
  <1> QED BY <1>2, <1>4, <1>5

(* What a call is about to write is not there yet.                          *)
LEMMA OwnCallsKept ==
    ASSUME SeparateCallers, IInv, OwnLinesAreSeen, OwnCalls, Next
    PROVE  OwnCalls'
  <1>0. Types /\ Versions /\ TraceHasObject BY DEF IInv, MutationsAreWhole
  <1>1. /\ op \in [Clients -> Ops \union {None}]
        /\ pc \in [Clients -> {"idle", "wantAppend", "wantComplete", "appended"}]
    BY <1>0 DEF Types, CallsOK
  <1>2. ASSUME op' = op, \A c \in Clients : pc'[c] \in {"idle", pc[c]} PROVE OwnCalls'
    BY <1>0, <1>2, CallGoesOn DEF OwnCalls
  <1>3. ASSUME NEW c \in Clients, AppendObject(c) PROVE OwnCalls'
    <2>1. /\ pc[c] = "wantAppend" /\ op' = op /\ pc' = [pc EXCEPT ![c] = "appended"]
          /\ WholeAppend("objs", NewLine(c))
      BY <1>3 DEF AppendObject, GetLock, Goto
    <2>2. ASSUME NEW d \in Clients \ {c}, pc'[d] # "idle" PROVE OwnCall(d)'
      BY <1>0, <1>1, <2>1, <2>2, CallGoesOn
    <2>3. OwnCall(c)'
      <3>1. OwnCall(c) /\ pc'[c] = "appended" /\ op'[c] = op[c] BY <1>1, <2>1 DEF OwnCalls
      <3>2. op[c] # None BY <1>0, <2>1, ActionIs, StoreAssumption DEF StoreAssumption
      <3>3. Lines("traces")' = Lines("traces")
        BY <1>0, <2>1 DEF WholeAppend, Lines, Types, Disk, Files
      <3>4. Has("traces", op[c]) => <<"objs", op[c]>> \in lost \/ op[c] \in misled
        BY <2>1, <3>1, <3>2, <1>0 DEF OwnCall, Has, TraceHasObject, HasLine
      <3>5. lost \subseteq lost' /\ misled \subseteq misled'
        BY <1>0, NextIsLater, DoubtGrows DEF Later
      <3> QED BY <3>1, <3>3, <3>4, <3>5 DEF OwnCall, Has
    <2> QED BY <2>2, <2>3 DEF OwnCalls
  <1>4. ASSUME NEW c \in Clients, NEW o \in Ops, Start(c, o) PROVE OwnCalls'
    <2>1. CASE UNCHANGED call BY <1>0, <1>2, <2>1 DEF call
    <2>2. CASE ~UNCHANGED call
      <3>1. OwnCall(c)' BY <1>0, <1>4, <2>2, StartIsOwn
      <3>2. \A d \in Clients \ {c} : op'[d] = op[d] /\ pc'[d] = pc[d]
        BY <1>1, <1>4, <2>2 DEF Start, StartCreate, StartUpdate, Goto
      <3>3. ASSUME NEW d \in Clients \ {c}, pc'[d] # "idle" PROVE OwnCall(d)'
        BY <1>0, <3>2, <3>3, CallGoesOn
      <3> QED BY <3>1, <3>3 DEF OwnCalls
    <2> QED BY <2>1, <2>2
  <1> QED BY <1>0, <1>2, <1>3, <1>4, CallsMove

(* No attempt is refused for the sake of its own line, unless it was misled. *)
LEMMA NoneRefused ==
    ASSUME Types, OwnCalls, NoConflictWithItself, Next
    PROVE  NoConflictWithItself'
  <1>0. misled \subseteq misled' BY DoubtGrows
  <1>1. ASSUME NEW c \in Clients, Conflict(c)
        PROVE  refused' \subseteq refused \union misled
    <2>1. pc[c] = "wantAppend" BY <1>1 DEF Conflict, GetLock
    <2>2. ~HasLine(Lines("objs"), op[c]) \/ op[c] \in misled
      BY <2>1 DEF OwnCalls, OwnCall, Has, HasLine
    <2> QED BY <1>1, <2>2 DEF Conflict
  <1>2. ASSUME NEW c \in Clients, \/ AppendObject(c) \/ AppendTrace(c) \/ CompleteTrace(c)
                                  \/ LockBusy(c) \/ FailObject(c) \/ FailTrace(c)
                                  \/ FailComplete(c) \/ \E o \in Ops : Start(c, o)
        PROVE  refused' = refused
    BY <1>2 DEF AppendObject, AppendTrace, CompleteTrace, LockBusy, FailObject, FailTrace,
                FailComplete, Start, history
  <1>3. ASSUME NEW e \in Procs, \/ Boot(e) \/ BootBusy(e) \/ FailNote(e) \/ Crash(e)
                                \/ \E f \in Files : Glance(e, f) \/ Expire(e, f)
        PROVE  refused' = refused
    BY <1>3 DEF Boot, CutObjs, CutTraces, Cut, NoteCut, Tombstone, BootBusy, FailNote, Crash,
                Glance, Expire, history
  <1> QED BY <1>0, <1>1, <1>2, <1>3 DEF Next, Commit, NoConflictWithItself

(* A second trace of an operation is only written for a lost object line,   *)
(* or by a retry that was misled.                                           *)
LEMMA OneTrace ==
    ASSUME Types, Versions, OwnCalls, TraceOneToOne, Next
    PROVE  TraceOneToOne'
  <1>0. /\ "traces" \in Files /\ "objs" # "traces" /\ Traces \in Seq(TraceLine)
        /\ lost \subseteq lost' /\ misled \subseteq misled'
    BY NextIsLater, DoubtGrows DEF Files, Later, Types, Disk
  <1>1. CASE Traces' = Traces
    BY <1>0, <1>1 DEF TraceOneToOne
  <1>2. ASSUME NEW line \in ObjLine \union TraceLine, Traces' = Append(Traces, line),
               line.op # None /\ Has("traces", line.op)
                 => <<"objs", line.op>> \in lost \/ line.op \in misled
        PROVE  TraceOneToOne'
    <2>1. /\ Len(Traces) \in Nat /\ Len(Traces') = Len(Traces) + 1
          /\ Traces'[Len(Traces')] = line
          /\ \A i \in 1 .. Len(Traces) : Traces'[i] = Traces[i]
      BY <1>0, <1>2
    <2>2. \A i \in 1 .. Len(Traces) : Traces[i] \in Lines("traces") BY DEF Lines, Traces
    <2>3. ASSUME NEW i \in 1 .. Len(Traces'), NEW j \in 1 .. Len(Traces'), i # j,
                 Traces'[i].op = Traces'[j].op, Traces'[i].op # None
          PROVE  <<"objs", Traces'[i].op>> \in lost \/ Traces'[i].op \in misled
      <3>1. CASE i \in 1 .. Len(Traces) /\ j \in 1 .. Len(Traces)
        BY <2>1, <2>3, <3>1 DEF TraceOneToOne
      <3>2. CASE i = Len(Traces') /\ j \in 1 .. Len(Traces)
        BY <1>2, <2>1, <2>2, <2>3, <3>2 DEF Has
      <3>3. CASE j = Len(Traces') /\ i \in 1 .. Len(Traces)
        BY <1>2, <2>1, <2>2, <2>3, <3>3 DEF Has
      <3> QED BY <2>1, <2>3, <3>1, <3>2, <3>3
    <2> QED BY <1>0, <2>3 DEF TraceOneToOne
  <1>3. CASE Traces' # Traces
    <2>0. file'["traces"].lines # file["traces"].lines BY <1>3 DEF Traces
    <2>1. CASE Grows("traces", TruncateTrace)
      <3>1. Traces' = Traces \/ Traces' = Append(Traces, TruncateTrace)
        BY <2>1 DEF Grows, Traces
      <3> QED BY <1>1, <1>2, <3>1, TruncateIs
    <2>2. CASE \E c \in Clients, line \in ObjLine \union TraceLine :
                  Writes(c, "traces") /\ line.op = op[c] /\ Grows("traces", line)
      <3>1. PICK c \in Clients, line \in ObjLine \union TraceLine :
               Writes(c, "traces") /\ line.op = op[c] /\ Grows("traces", line)
        BY <2>2
      <3>2. pc[c] \in {"appended", "wantComplete"} BY <1>0, <3>1, WriterLooksAnew
      <3>3. Has("traces", op[c]) => <<"objs", op[c]>> \in lost \/ op[c] \in misled
        BY <3>2 DEF OwnCalls, OwnCall
      <3>4. Traces' = Traces \/ Traces' = Append(Traces, line) BY <3>1 DEF Grows, Traces
      <3> QED BY <1>1, <1>2, <3>1, <3>3, <3>4
    <2> QED BY <1>0, <2>0, <2>1, <2>2, WriterIs
  <1> QED BY <1>1, <1>3

(* Attempts of one operation by its one caller are told of one outcome and  *)
(* leave one trace, whatever processes die in between, writes fail and      *)
(* waits give up, and however old the stats are that its engine goes by;    *)
(* except for one made while its engine hides what a failed append of the   *)
(* operation has landed.                                                    *)
THEOREM Retries == ASSUME SeparateCallers PROVE Spec => []RetriesAreIdempotentUnlessMisled
  <1>1. Init => RInv
    <2> SUFFICES ASSUME Init PROVE RInv OBVIOUS
    <2>1. \A f \in Files : file[f].lines = << >> BY DEF Init
    <2>2. \A f \in Files : Lines(f) = {} BY <2>1 DEF Lines
    <2>3. Len(Traces) = 0 BY <2>1 DEF Traces, Files
    <2>4. OwnLinesAreSeen BY <2>2 DEF OwnLinesAreSeen, Has
    <2>5. OwnCalls BY DEF Init, OwnCalls
    <2>6. RetriesAreIdempotentUnlessMisled
      BY <2>3 DEF Init, RetriesAreIdempotentUnlessMisled, NoConflictWithItself, TraceOneToOne
    <2> QED BY <2>4, <2>5, <2>6 DEF RInv
  <1>2. IInv /\ RInv /\ [Next]_vars => RInv'
    <2> SUFFICES ASSUME IInv, RInv, [Next]_vars PROVE RInv' OBVIOUS
    <2>1. CASE UNCHANGED vars
      BY <2>1 DEF vars, RInv, OwnLinesAreSeen, OwnCalls, OwnCall, Has, View, ViewLen, Lines, Shown,
                  RetriesAreIdempotentUnlessMisled, NoConflictWithItself, TraceOneToOne, Traces
    <2>2. CASE Next
      BY <2>2, OwnLinesKept, OwnCallsKept, NoneRefused, OneTrace
      DEF RInv, RetriesAreIdempotentUnlessMisled, IInv
    <2> QED BY <2>1, <2>2
  <1>3. RInv => RetriesAreIdempotentUnlessMisled BY DEF RInv
  <1> QED BY <1>1, <1>2, <1>3, Inductive, PTL DEF Spec

-----------------------------------------------------------------------------
(***************************************************************************)
(* The lock that StoreEngine takes for granted, for any number of          *)
(* processes and calls, with any number of crashes: exclusion and the      *)
(* absence of foreign errors can only be lost by two survivors breaking a  *)
(* dead holder's lock at the same time.                                    *)
(***************************************************************************)
(* Where a call owns the directory it created.                              *)
Inside == {"own", "held", "body", "relUnlink", "relRmdir"}

LiveAt(labels) == {c \in Calls : Live(c) /\ at[c] \in labels}

(* What owner.json says at each stage of a hold ...                         *)
HoldersNamed ==
    /\ \A c \in LiveAt({"held", "body", "relUnlink"}) : dir /\ owner = c
    /\ \A c \in LiveAt({"own", "relRmdir"}) : dir /\ owner = NoOwner

(* ... and of a takeover, during which nobody is inside.                    *)
BreakersJustified ==
    /\ \A c \in LiveAt({"unlink"}) : dir /\ OwnerIsDead
    /\ \A c \in LiveAt({"rmdir"}) : dir /\ owner = NoOwner /\ LiveAt(Inside) = {}

Alone(labels) == \A c, d \in LiveAt(labels) : c = d

Undisturbed ==
    /\ owner # NoOwner => dir
    /\ HoldersNamed
    /\ BreakersJustified
    /\ Alone(Inside)
    /\ Alone(Breaking)
    /\ \A c \in Calls : at[c] # "threw"

LockInv == LockTypeOK /\ (raced \/ Undisturbed)

LEMMA TypeInit == LockInit => LockTypeOK
<1>. USE LockAssumption DEF LockAssumption, PCs
<1>1. LockInit => at \in [Calls -> PCs]
  BY DEF LockInit
<1>2. LockInit => polls \in [Calls -> 0 .. MaxPolls]
  BY DEF LockInit
<1>. QED  BY <1>1, <1>2 DEF LockInit, LockTypeOK

(* Type correctness: every step keeps the lock state well formed.           *)
THEOREM LockTypeCorrect == LockSpec => []LockTypeOK
<1>. USE LockAssumption
       DEF LockAssumption, PCs, Waiting, Breaking, Holding, Leaving, Settled, MoveTo
<1>1. LockInit => LockTypeOK
  BY TypeInit
<1>2. ASSUME LockTypeOK, [LockNext]_lockVars PROVE LockTypeOK'
  <2>. USE <1>2 DEF LockTypeOK
  <2>1. ASSUME NEW c \in Calls, Begin(c) \/ Retry(c) PROVE LockTypeOK'
    BY <2>1 DEF Begin, Retry, Mkdir
  <2>2. ASSUME NEW c \in Calls, WriteOwner(c) PROVE LockTypeOK'
    BY <2>2 DEF WriteOwner
  <2>3. ASSUME NEW c \in Calls, FindDead(c) PROVE LockTypeOK'
    BY <2>3 DEF FindDead
  <2>4. ASSUME NEW c \in Calls, FindBusy(c) PROVE LockTypeOK'
    BY <2>4 DEF FindBusy
  <2>5. ASSUME NEW c \in Calls, TimeOut(c) \/ Enter(c) \/ ReleaseRead(c) PROVE LockTypeOK'
    BY <2>5 DEF TimeOut, Enter, ReleaseRead
  <2>6. ASSUME NEW c \in Calls, BreakUnlink(c) \/ ReleaseUnlink(c) PROVE LockTypeOK'
    BY <2>6 DEF BreakUnlink, ReleaseUnlink, Unlink
  <2>7. ASSUME NEW c \in Calls, BreakRmdir(c) \/ ReleaseRmdir(c) PROVE LockTypeOK'
    BY <2>7 DEF BreakRmdir, ReleaseRmdir, Rmdir
  <2>8. ASSUME NEW p \in Processes, Kill(p) PROVE LockTypeOK'
    BY <2>8 DEF Kill
  <2>9. CASE UNCHANGED lockVars
    BY <2>9 DEF lockVars
  <2>. QED
    BY <1>2, <2>1, <2>2, <2>3, <2>4, <2>5, <2>6, <2>7, <2>8, <2>9
    DEF LockNext, LockStep, Finished
<1>. QED  BY <1>1, <1>2, PTL DEF LockSpec

(***************************************************************************)
(* The inductive step, one lemma for each kind of step.                    *)
(***************************************************************************)
(* A directory is only created when there is none, so nobody is inside.     *)
LEMMA MkdirStep ==
    ASSUME LockTypeOK, Undisturbed, NEW c \in Calls, Live(c), Mkdir(c),
           at[c] = "idle" \/ at[c] \in Waiting
    PROVE  Undisturbed'
  BY DEF LockTypeOK, Undisturbed, HoldersNamed, BreakersJustified, Alone, LiveAt, Live,
         Inside, Waiting, Breaking, OwnerIsDead, Mkdir, MoveTo

(* Nobody can have removed the directory between mkdir and owner.json.      *)
LEMMA WriteOwnerStep ==
    ASSUME LockAssumption, LockTypeOK, Undisturbed, NEW c \in Calls, WriteOwner(c)
    PROVE  Undisturbed'
  BY DEF LockAssumption, LockTypeOK, Undisturbed, HoldersNamed, BreakersJustified, Alone,
         LiveAt, Live, CanStep, Inside, Breaking, OwnerIsDead, WriteOwner, MoveTo

(* A second breaker is exactly what raced records.                          *)
LEMMA FindDeadStep ==
    ASSUME LockTypeOK, Undisturbed, NEW c \in Calls, FindDead(c), ~raced'
    PROVE  Undisturbed'
  BY DEF LockTypeOK, Undisturbed, HoldersNamed, BreakersJustified, Alone, LiveAt, Live,
         CanStep, Inside, Breaking, OwnerIsDead, FindDead, MoveTo

(* A dead owner means no live call is inside, so the takeover hits nobody.  *)
LEMMA BreakStep ==
    ASSUME LockAssumption, LockTypeOK, Undisturbed,
           NEW c \in Calls, BreakUnlink(c) \/ BreakRmdir(c)
    PROVE  Undisturbed'
<1>. USE DEF LockAssumption, LockTypeOK, Undisturbed, HoldersNamed, BreakersJustified, Alone,
             LiveAt, Live, CanStep, Inside, Breaking, OwnerIsDead, MoveTo
<1>1. CASE BreakUnlink(c)
  BY <1>1 DEF BreakUnlink, Unlink
<1>2. CASE BreakRmdir(c)
  BY <1>2 DEF BreakRmdir, Rmdir
<1>. QED  BY <1>1, <1>2

(* A release only removes what still names the releaser.                    *)
LEMMA HoldStep ==
    ASSUME LockAssumption, LockTypeOK, Undisturbed, NEW c \in Calls,
           Enter(c) \/ ReleaseRead(c) \/ ReleaseUnlink(c) \/ ReleaseRmdir(c)
    PROVE  Undisturbed'
<1>. USE DEF LockAssumption, LockTypeOK, Undisturbed, HoldersNamed, BreakersJustified, Alone,
             LiveAt, Live, CanStep, Inside, Breaking, OwnerIsDead, MoveTo
<1>1. CASE Enter(c) \/ ReleaseRead(c)
  BY <1>1 DEF Enter, ReleaseRead
<1>2. CASE ReleaseUnlink(c)
  BY <1>2 DEF ReleaseUnlink, Unlink
<1>3. CASE ReleaseRmdir(c)
  BY <1>3 DEF ReleaseRmdir, Rmdir
<1>. QED  BY <1>1, <1>2, <1>3

LEMMA BusyStep ==
    ASSUME LockTypeOK, Undisturbed, NEW c \in Calls, FindBusy(c) \/ TimeOut(c)
    PROVE  Undisturbed'
  BY DEF LockTypeOK, Undisturbed, HoldersNamed, BreakersJustified, Alone, LiveAt, Live,
         CanStep, Inside, Breaking, OwnerIsDead, FindBusy, TimeOut, MoveTo

(* Killing a process shrinks every set of live calls, and keeps dead owners *)
(* dead.                                                                    *)
LEMMA CrashStep ==
    ASSUME LockTypeOK, Undisturbed, NEW p \in Processes, Kill(p)
    PROVE  Undisturbed'
  BY DEF LockTypeOK, Undisturbed, HoldersNamed, BreakersJustified, Alone, LiveAt, Live,
         OwnerIsDead, Kill

(* Takeovers are the only way to lose the lock: LockInv is inductive.       *)
THEOREM LockInvariant == LockSpec => []LockInv
<1>1. LockInit => LockInv
  <2>1. LockInit => LockTypeOK
    BY TypeInit
  <2>2. LockInit => Undisturbed
    BY DEF LockInit, Undisturbed, HoldersNamed, BreakersJustified, Alone, LiveAt, Inside, Breaking
  <2>. QED  BY <2>1, <2>2 DEF LockInv
<1>2. ASSUME LockInv, LockTypeOK', [LockNext]_lockVars PROVE LockInv'
  <2>1. CASE UNCHANGED lockVars
    BY <1>2, <2>1
    DEF lockVars, LockInv, Undisturbed, HoldersNamed, BreakersJustified, Alone, LiveAt, Live,
        OwnerIsDead
  <2>2. ASSUME LockNext, raced PROVE raced'
    BY <2>2 DEF LockNext, LockStep, Begin, Retry, Mkdir, WriteOwner, FindDead, FindBusy, TimeOut,
        BreakUnlink, BreakRmdir, Unlink, Rmdir, Enter, ReleaseRead, ReleaseUnlink,
        ReleaseRmdir, Kill, Finished, lockVars
  <2>3. ASSUME LockNext, Undisturbed, ~raced' PROVE Undisturbed'
    <3>. USE <1>2, <2>3, LockAssumption DEF LockInv
    <3>1. ASSUME NEW c \in Calls, Begin(c) \/ Retry(c) PROVE Undisturbed'
      BY <3>1, MkdirStep DEF Begin, Retry, CanStep
    <3>2. ASSUME NEW c \in Calls, LockStep(c), ~Retry(c) PROVE Undisturbed'
      BY <3>2, WriteOwnerStep, FindDeadStep, BreakStep, HoldStep, BusyStep DEF LockStep
    <3>3. ASSUME NEW p \in Processes, Kill(p) PROVE Undisturbed'
      BY <3>3, CrashStep
    <3>. QED
      BY <2>1, <2>3, <3>1, <3>2, <3>3 DEF LockNext, LockStep, Finished
  <2>. QED  BY <1>2, <2>1, <2>2, <2>3 DEF LockInv
<1>. QED  BY <1>1, <1>2, LockTypeCorrect, PTL DEF LockSpec

(* At most one running call has been told that it holds the lock, unless    *)
(* two survivors broke a dead holder's lock at once.                        *)
THEOREM Exclusion == LockSpec => []ExclusionUnlessRaced
<1>1. LockInv => ExclusionUnlessRaced
  BY DEF LockInv, Undisturbed, Alone, LiveAt, Inside, ExclusionUnlessRaced, MutualExclusion,
         Holders, Holding
<1>. QED  BY <1>1, LockInvariant, PTL

(* With the same exception no acquisition or release ends in a raw ENOENT   *)
(* or ENOTEMPTY.                                                            *)
THEOREM ForeignErrors == LockSpec => []NoForeignError
<1>1. LockInv => NoForeignError
  BY DEF LockInv, Undisturbed, NoForeignError
<1>. QED  BY <1>1, LockInvariant, PTL

(* Without crashes there are no takeovers, so exclusion is unconditional.   *)
THEOREM CrashFreeExclusion ==
    ASSUME MayCrash = {} PROVE LockSpec => []MutualExclusion
<1>. DEFINE Calm == alive = Processes /\ ~raced
<1>1. LockInit => Calm
  BY DEF LockInit
<1>2. ASSUME LockTypeOK, Calm, [LockNext]_lockVars PROVE Calm'
  <2>1. ~OwnerIsDead
    BY <1>2, LockAssumption DEF OwnerIsDead, LockTypeOK, LockAssumption
  <2>. QED
    BY <1>2, <2>1 DEF LockNext, LockStep, Begin, Retry, Mkdir, WriteOwner, FindDead, FindBusy,
        TimeOut, BreakUnlink, BreakRmdir, Unlink, Rmdir, Enter, ReleaseRead,
        ReleaseUnlink, ReleaseRmdir, Kill, Finished, lockVars
<1>3. Calm /\ ExclusionUnlessRaced => MutualExclusion
  BY DEF ExclusionUnlessRaced
<1>. QED  BY <1>1, <1>2, <1>3, LockTypeCorrect, Exclusion, PTL DEF LockSpec

-----------------------------------------------------------------------------
(* Command receipts: their safety, for any number of attempts, processes,   *)
(* requests, deaths and store failures.                                    *)

(* Attempts that work on an existing receipt; those that have executed.     *)
Going == {"reopen", "reopenWrite", "executing", "settle", "settleWrite"}
Executing == {"executing", "settle", "settleWrite"}

(* Whoever works on the receipt works on one that exists, for its request;  *)
(* all versions are about one request, and only executions get beyond it.   *)
OneRequest ==
    /\ \A i \in 1 .. Len(receipt) : receipt[i].request = receipt[1].request
    /\ \A c \in Attempts : (phase[c] \in Going \/ c \in ran) =>
          receipt # << >> /\ request[c] = receipt[1].request
    /\ \A c \in Attempts : phase[c] \in Executing => c \in ran

(* An unrepeatable command is never picked up from an existing receipt.     *)
NoSecondStart ==
    ~descriptor.replaySafe =>
        /\ \A c, d \in ran : c = d
        /\ \A c \in Attempts : phase[c] \notin {"reopen", "reopenWrite"}

(* Results and stored outcomes come from executions.                        *)
Provenance ==
    /\ \A c \in Attempts :
        /\ phase[c] \in {"idle", "open", "reopen", "reopenWrite", "executing"} =>
              result[c] = "none"
        /\ phase[c] \in {"settle", "settleWrite"} => result[c] \in Outcomes
    /\ \A i \in 1 .. Len(receipt) : receipt[i].outcome \in Outcomes =>
        \E d \in ran : request[d] = receipt[i].request /\ result[d] = receipt[i].outcome

Orderly == ~overlapped \/ ~descriptor.replaySafe

(* In an orderly history one attempt works at a time, on a receipt that is  *)
(* not settled.                                                             *)
OneAtATime ==
    /\ ~overlapped => \A c, d \in Attempts : Busy(c) /\ Busy(d) => c = d
    /\ Orderly => \A c \in Attempts : phase[c] \in Going => ~IsSettled(LatestVersion)
    /\ Orderly => SettledIsFinal

ReceiptInv ==
    /\ ReceiptTypeOK /\ OneRequest /\ NoSecondStart /\ Provenance /\ AnswersAreReal
    /\ OneAtATime

-----------------------------------------------------------------------------
(* A receipt is only ever extended, by one version.                         *)
LEMMA AppendFacts ==
    ASSUME NEW s \in Seq(ReceiptVersions), NEW v \in ReceiptVersions
    PROVE  /\ Append(s, v) \in Seq(ReceiptVersions)
           /\ Len(Append(s, v)) = Len(s) + 1
           /\ Append(s, v)[Len(s) + 1] = v
           /\ \A i \in 1 .. Len(s) : Append(s, v)[i] = s[i]
           /\ Append(s, v) # << >>
  OBVIOUS

LEMMA LatestFacts ==
    ASSUME ReceiptTypeOK, receipt # << >>
    PROVE  Len(receipt) \in Nat \ {0} /\ LatestVersion \in ReceiptVersions
           /\ receipt[1] \in ReceiptVersions
  BY DEF ReceiptTypeOK, LatestVersion

LEMMA InitReceiptInv == ASSUME ReceiptAssumption, ReceiptInit PROVE ReceiptInv
  <1>1. ReceiptTypeOK
    <2>1. receipt \in Seq(ReceiptVersions) /\ Len(receipt) = 0
      BY DEF ReceiptInit
    <2>2. /\ floor \in [Runners -> Nat] /\ heldVersion \in [Attempts -> Nat]
          /\ phase \in [Attempts -> AttemptSteps]
          /\ result \in [Attempts -> Outcomes \union {"none"}]
          /\ told \in [Attempts -> Answers]
      BY DEF ReceiptInit, AttemptSteps, Answers
    <2>3. (\A p \in Runners : floor[p] = 0) /\ (\A c \in Attempts : heldVersion[c] = 0)
      BY DEF ReceiptInit
    <2>4. ran \subseteq Attempts /\ overlapped \in BOOLEAN /\ deaths \in Nat /\ storeFaults \in Nat
      BY DEF ReceiptInit
    <2>5. /\ request \in [Attempts -> Requests]
          /\ descriptor \in [replaySafe : BOOLEAN, retain : BOOLEAN, keepRunning : BOOLEAN]
      BY DEF ReceiptInit
    <2> QED BY <2>1, <2>2, <2>3, <2>4, <2>5 DEF ReceiptTypeOK
  <1>2. OneRequest /\ NoSecondStart /\ Provenance
    BY DEF ReceiptInit, OneRequest, NoSecondStart, Provenance, Going, Executing
  <1>3. AnswersAreReal /\ OneAtATime
    BY DEF ReceiptInit, AnswersAreReal, OneAtATime, Outcomes, Busy, Going, SettledIsFinal
  <1> QED BY <1>1, <1>2, <1>3 DEF ReceiptInv

(* Whatever an attempt is newly told is an error of its own, or the result  *)
(* of an execution of its request.                                          *)
LEMMA AnswerReal ==
    ASSUME ReceiptTypeOK, AnswersAreReal, NEW c \in Attempts, NEW a \in Answers,
           told' \in {told, [told EXCEPT ![c] = a]},
           a \in Outcomes => \E e \in ran : request[e] = request[c] /\ result[e] = a,
           ran \subseteq ran', UNCHANGED <<request, result>>
    PROVE  AnswersAreReal'
  <1> SUFFICES ASSUME NEW d \in Attempts, told'[d] \in Outcomes
               PROVE  \E e \in ran : request[e] = request[d] /\ result[e] = told'[d]
    BY DEF AnswersAreReal, Outcomes
  <1>1. told'[d] = told[d] \/ (d = c /\ told'[d] = a)
    BY DEF ReceiptTypeOK
  <1> QED BY <1>1 DEF AnswersAreReal

(***************************************************************************)
(* Steps that leave the receipt, the results and the set of executions     *)
(* alone, and only move one attempt.                                       *)
(***************************************************************************)
Moves(c, s) ==
    /\ phase' = [phase EXCEPT ![c] = s]
    /\ UNCHANGED <<receipt, result, request, descriptor, ran>>

LEMMA MoveType ==
    ASSUME ReceiptTypeOK, NEW c \in Attempts, NEW s \in AttemptSteps, Moves(c, s),
           floor' \in [Runners -> Nat], \A p \in Runners : floor'[p] <= Len(receipt),
           heldVersion' \in [Attempts -> Nat], \A d \in Attempts : heldVersion'[d] <= Len(receipt),
           told' \in [Attempts -> Answers], overlapped' \in BOOLEAN,
           deaths' \in Nat, storeFaults' \in Nat
    PROVE  ReceiptTypeOK'
  BY DEF ReceiptTypeOK, Moves

LEMMA MoveInv ==
    ASSUME ReceiptTypeOK, OneRequest, NoSecondStart, Provenance,
           NEW c \in Attempts, NEW s \in AttemptSteps, Moves(c, s),
           s \in Going => receipt # << >> /\ request[c] = receipt[1].request,
           s \in Executing => c \in ran,
           s \in {"reopen", "reopenWrite"} => descriptor.replaySafe,
           s \in {"idle", "open", "reopen", "reopenWrite", "executing"} => result[c] = "none",
           s \in {"settle", "settleWrite"} => result[c] \in Outcomes
    PROVE  OneRequest' /\ NoSecondStart' /\ Provenance'
  <1>0. phase \in [Attempts -> AttemptSteps] BY DEF ReceiptTypeOK
  <1>1. OneRequest' BY <1>0 DEF OneRequest, Moves
  <1>2. NoSecondStart' BY <1>0 DEF NoSecondStart, Moves
  <1>3. Provenance' BY <1>0 DEF Provenance, Moves
  <1> QED BY <1>1, <1>2, <1>3

(* The attempt keeps working, stops, or joins an empty field.               *)
LEMMA MoveOrder ==
    ASSUME ReceiptTypeOK, OneAtATime, NEW c \in Attempts, NEW s \in AttemptSteps, Moves(c, s),
           ~overlapped' => ~overlapped,
           ~overlapped' => \/ Busy(c)
                      \/ s \in {"answered", "dead", "idle"}
                      \/ \A d \in Attempts \ {c} : ~Busy(d),
           Orderly' /\ s \in Going => phase[c] \in Going \/ ~IsSettled(LatestVersion)
    PROVE  OneAtATime'
  <1>0. phase \in [Attempts -> AttemptSteps] BY DEF ReceiptTypeOK
  <1>1. Orderly' => Orderly BY DEF Orderly, Moves
  <1>2. ~overlapped' => \A x, y \in Attempts : Busy(x)' /\ Busy(y)' => x = y
    BY <1>0 DEF OneAtATime, Moves, Busy
  <1>3. LatestVersion' = LatestVersion BY DEF Moves, LatestVersion
  <1>4. Orderly' => \A d \in Attempts : phase'[d] \in Going => ~IsSettled(LatestVersion)'
    BY <1>0, <1>1, <1>3 DEF OneAtATime, Moves, IsSettled
  <1>5. SettledIsFinal' <=> SettledIsFinal
    BY DEF Moves, SettledIsFinal, IsSettled
  <1> QED BY <1>1, <1>2, <1>4, <1>5 DEF OneAtATime

(***************************************************************************)
(* Steps that add a version.                                               *)
(***************************************************************************)
WritesReceipt(c, v, s) ==
    /\ receipt' = Append(receipt, v)
    /\ phase' = [phase EXCEPT ![c] = s]
    /\ UNCHANGED <<result, request, descriptor, overlapped>>

LEMMA WriteType ==
    ASSUME ReceiptTypeOK, NEW c \in Attempts, NEW s \in AttemptSteps,
           NEW v \in ReceiptVersions, WritesReceipt(c, v, s),
           Rebase(c), heldVersion' = heldVersion, told' \in [Attempts -> Answers], ran' \subseteq Attempts,
           ProcOf[c] \in Runners, deaths' \in Nat, storeFaults' \in Nat
    PROVE  ReceiptTypeOK'
  <1>1. receipt' \in Seq(ReceiptVersions) /\ Len(receipt') = Len(receipt) + 1
    BY AppendFacts DEF ReceiptTypeOK, WritesReceipt
  <1>2. floor' \in [Runners -> Nat] /\ \A p \in Runners : floor'[p] <= Len(receipt')
    BY <1>1 DEF ReceiptTypeOK, Rebase
  <1>3. \A d \in Attempts : heldVersion'[d] <= Len(receipt')
    BY <1>1 DEF ReceiptTypeOK
  <1> QED BY <1>1, <1>2, <1>3 DEF ReceiptTypeOK, WritesReceipt

LEMMA WriteInv ==
    ASSUME ReceiptTypeOK, OneRequest, NoSecondStart, Provenance,
           NEW c \in Attempts, NEW s \in {"answered", "executing"}, NEW v \in ReceiptVersions,
           WritesReceipt(c, v, s),
           v.request = request[c],
           receipt = << >> \/ v.request = receipt[1].request,
           s = "answered" => ran' = ran,
           s = "executing" => /\ ran' = ran \union {c}
                              /\ result[c] = "none"
                              /\ receipt = << >> \/ descriptor.replaySafe,
           v.outcome \in Outcomes =>
               \E d \in ran : request[d] = v.request /\ result[d] = v.outcome
    PROVE  OneRequest' /\ NoSecondStart' /\ Provenance'
  <1>0. /\ phase \in [Attempts -> AttemptSteps] /\ ran \subseteq Attempts
        /\ receipt' # << >>
        /\ Len(receipt') = Len(receipt) + 1 /\ Len(receipt) \in Nat
        /\ receipt'[Len(receipt) + 1] = v
        /\ \A i \in 1 .. Len(receipt) : receipt'[i] = receipt[i]
    BY AppendFacts DEF ReceiptTypeOK, WritesReceipt
  <1>1. receipt'[1].request = request[c]
    BY <1>0 DEF ReceiptTypeOK
  <1>2. receipt # << >> => receipt'[1].request = receipt[1].request
    BY <1>1
  <1>3. OneRequest'
    <2>1. \A i \in 1 .. Len(receipt') : receipt'[i].request = receipt'[1].request
      BY <1>0, <1>1, <1>2 DEF OneRequest
    <2>2. \A d \in Attempts : (phase'[d] \in Going \/ d \in ran') =>
            receipt' # << >> /\ request'[d] = receipt'[1].request
      BY <1>0, <1>1, <1>2 DEF OneRequest, WritesReceipt, Going
    <2>3. \A d \in Attempts : phase'[d] \in Executing => d \in ran'
      BY <1>0 DEF OneRequest, WritesReceipt, Executing
    <2> QED BY <2>1, <2>2, <2>3 DEF OneRequest
  <1>4. NoSecondStart'
    <2>1. receipt = << >> => ran = {}
      BY <1>0 DEF OneRequest
    <2> QED BY <1>0, <2>1 DEF NoSecondStart, WritesReceipt
  <1>5. Provenance'
    <2>1. ran \subseteq ran'
      BY <1>0
    <2>2. \A i \in 1 .. Len(receipt') : receipt'[i].outcome \in Outcomes =>
            \E d \in ran' : request'[d] = receipt'[i].request /\ result'[d] = receipt'[i].outcome
      BY <1>0, <2>1 DEF Provenance, WritesReceipt
    <2>3. \A d \in Attempts :
            /\ phase'[d] \in {"idle", "open", "reopen", "reopenWrite", "executing"} =>
                  result'[d] = "none"
            /\ phase'[d] \in {"settle", "settleWrite"} => result'[d] \in Outcomes
      BY <1>0 DEF Provenance, WritesReceipt
    <2> QED BY <2>2, <2>3 DEF Provenance, Outcomes
  <1> QED BY <1>3, <1>4, <1>5

LEMMA WriteOrder ==
    ASSUME ReceiptTypeOK, OneRequest, NoSecondStart, OneAtATime,
           NEW c \in Attempts, NEW s \in {"answered", "executing"}, NEW v \in ReceiptVersions,
           WritesReceipt(c, v, s), Busy(c),
           receipt = << >> \/ phase[c] \in Going,
           v.state = "running" \/ (s = "answered" /\ phase[c] = "settleWrite")
    PROVE  OneAtATime'
  <1>0. /\ phase \in [Attempts -> AttemptSteps] /\ ran \subseteq Attempts
        /\ Len(receipt') = Len(receipt) + 1 /\ Len(receipt) \in Nat
        /\ receipt'[Len(receipt) + 1] = v
        /\ \A i \in 1 .. Len(receipt) : receipt'[i] = receipt[i]
    BY AppendFacts DEF ReceiptTypeOK, WritesReceipt
  <1>1. LatestVersion' = v
    BY <1>0 DEF LatestVersion
  <1>2. Orderly' = Orderly
    BY DEF Orderly, WritesReceipt
  <1>3. ~overlapped' => \A x, y \in Attempts : Busy(x)' /\ Busy(y)' => x = y
    BY <1>0 DEF OneAtATime, WritesReceipt, Busy
  <1>4. Orderly => \A d \in Attempts : phase'[d] \in Going => ~IsSettled(v)
    <2>1. CASE v.state = "running"
      BY <2>1 DEF IsSettled
    <2>2. CASE s = "answered" /\ phase[c] = "settleWrite"
      <3> SUFFICES ASSUME Orderly, NEW d \in Attempts, phase'[d] \in Going
                   PROVE  FALSE
        OBVIOUS
      <3>1. d # c /\ phase[d] \in Going
        BY <1>0, <2>2 DEF WritesReceipt, Going
      <3>2. CASE ~overlapped
        BY <2>2, <3>1, <3>2 DEF OneAtATime, Busy, Going
      <3>3. CASE ~descriptor.replaySafe
        <4>1. c \in ran /\ d \in ran
          BY <2>2, <3>1, <3>3 DEF OneRequest, NoSecondStart, Going, Executing
        <4> QED BY <3>1, <3>3, <4>1 DEF NoSecondStart
      <3> QED BY <3>2, <3>3 DEF Orderly
    <2> QED BY <2>1, <2>2
  <1>5. Orderly => SettledIsFinal'
    <2>1. Orderly /\ receipt # << >> => ~IsSettled(LatestVersion)
      BY DEF OneAtATime
    <2> SUFFICES ASSUME Orderly, NEW i \in 1 .. Len(receipt), IsSettled(receipt'[i])
                 PROVE  IsSettled(receipt'[i + 1]) /\ receipt'[i + 1].outcome = receipt'[i].outcome
      BY <1>0 DEF SettledIsFinal, IsSettled
    <2>2. receipt # << >> /\ receipt'[i] = receipt[i]
      BY <1>0
    <2>3. i # Len(receipt)
      BY <2>1, <2>2 DEF LatestVersion
    <2>4. i \in 1 .. Len(receipt) - 1 /\ receipt'[i + 1] = receipt[i + 1]
      BY <1>0, <2>3
    <2> QED BY <2>2, <2>4 DEF OneAtATime, SettledIsFinal
  <1>6. Orderly' => \A d \in Attempts : phase'[d] \in Going => ~IsSettled(LatestVersion)'
    BY <1>1, <1>2, <1>4 DEF IsSettled
  <1> QED BY <1>2, <1>3, <1>5, <1>6 DEF OneAtATime

-----------------------------------------------------------------------------
(* One lemma for each kind of step.                                         *)

LEMMA GoesOnFacts ==
    ASSUME ReceiptTypeOK, NEW c \in Attempts, NEW v \in 0 .. Len(receipt), GoesOn(c, v)
    PROVE  /\ overlapped' \in BOOLEAN
           /\ ~overlapped' => /\ ~overlapped /\ v = Len(receipt)
                         /\ \A d \in Attempts \ {c} : ~Busy(d)
  <1>1. overlapped' \in BOOLEAN
    BY Zenon DEF GoesOn
  <1>2. ~overlapped' => ~overlapped /\ ~(v < Len(receipt)) /\ \A d \in Attempts \ {c} : ~Busy(d)
    BY Zenon DEF GoesOn
  <1>3. ~(v < Len(receipt)) => v = Len(receipt)
    BY DEF ReceiptTypeOK
  <1> QED BY <1>1, <1>2, <1>3

(* A read moves the floor of its process up to the version it saw.          *)
LEMMA FloorFacts ==
    ASSUME ReceiptTypeOK, NEW p \in Runners, NEW v \in 0 .. Len(receipt),
           floor' = [floor EXCEPT ![p] = v]
    PROVE  floor' \in [Runners -> Nat] /\ \A q \in Runners : floor'[q] <= Len(receipt)
  BY DEF ReceiptTypeOK

(* Reading ends the attempt, or moves it on beside nobody or with `raced`.  *)
LEMMA ReadStep ==
    ASSUME ReceiptAssumption, ReceiptInv, NEW c \in Attempts, NEW v \in 0 .. Len(receipt),
           \/ FindNone(c) /\ v = 0
           \/ v > 0 /\ (FindConflict(c, v) \/ Replay(c, v) \/ RefuseUncertain(c, v)
                         \/ FindRetryable(c, v))
    PROVE  ReceiptInv'
  <1>1. PICK s \in {"open", "answered", "reopen"} :
          /\ Moves(c, s) /\ Look(c, v)
          /\ s = "open" => FindNone(c) /\ v = 0
          /\ s = "reopen" => FindRetryable(c, v) /\ v > 0
    BY DEF FindNone, FindConflict, Replay, RefuseUncertain, FindRetryable, Goes, Reply,
           Moves, Look
  <1>2. /\ phase[c] = "idle" /\ receipt \in Seq(ReceiptVersions)
        /\ v > 0 => receipt[v] \in ReceiptVersions /\ receipt # << >>
    <2>1. phase[c] = "idle" /\ receipt \in Seq(ReceiptVersions)
      BY <1>1 DEF Look, ReceiptInv, ReceiptTypeOK
    <2>2. v > 0 => v \in 1 .. Len(receipt)
      BY DEF ReceiptInv, ReceiptTypeOK
    <2> QED BY <2>1, <2>2
  <1>3. ProcOf[c] \in Runners BY DEF ReceiptAssumption
  <1>4. overlapped' \in BOOLEAN
    BY DEF ReceiptInv, ReceiptTypeOK, FindNone, FindConflict, Replay, RefuseUncertain,
           FindRetryable, GoesOn
  <1>5. PICK a \in Answers :
          /\ told' \in {told, [told EXCEPT ![c] = a]}
          /\ a \in Outcomes => v > 0 /\ Replay(c, v) /\ a = receipt[v].outcome
    BY <1>2 DEF FindNone, FindConflict, Replay, RefuseUncertain, FindRetryable, Reply,
                Answers, Outcomes, ReceiptVersions
  <1>6. told' \in [Attempts -> Answers]
    BY <1>5 DEF ReceiptInv, ReceiptTypeOK
  <1>7. ReceiptTypeOK'
    <2>1. floor' \in [Runners -> Nat] /\ \A p \in Runners : floor'[p] <= Len(receipt)
      BY <1>1, <1>3, FloorFacts DEF Look, ReceiptInv
    <2>2. /\ heldVersion' \in [Attempts -> Nat] /\ \A d \in Attempts : heldVersion'[d] <= Len(receipt)
          /\ deaths' \in Nat /\ storeFaults' \in Nat
      BY <1>1 DEF Look, ReceiptInv, ReceiptTypeOK, mishaps
    <2>3. s \in AttemptSteps
      BY DEF AttemptSteps
    <2> QED BY <1>1, <1>4, <1>6, <2>1, <2>2, <2>3, MoveType DEF ReceiptInv
  <1>8. s = "reopen" => receipt # << >> /\ request[c] = receipt[1].request
                          /\ descriptor.replaySafe
    BY <1>1, <1>2 DEF FindRetryable, Matches, MayRepeat, ReceiptInv, OneRequest
  <1>9. result[c] = "none"
    BY <1>2 DEF ReceiptInv, Provenance
  <1>10. OneRequest' /\ NoSecondStart' /\ Provenance'
    BY <1>1, <1>8, <1>9, MoveInv DEF ReceiptInv, AttemptSteps, Going, Executing
  <1>11. a \in Outcomes => \E e \in ran : request[e] = request[c] /\ result[e] = a
    BY <1>5, <1>2 DEF Replay, Matches, ReceiptInv, Provenance
  <1>12. AnswersAreReal'
    BY <1>1, <1>5, <1>11, AnswerReal DEF ReceiptInv, Moves
  <1>13. ~overlapped' => ~overlapped /\ (s # "answered" => \A d \in Attempts \ {c} : ~Busy(d))
    BY <1>1, <1>2 DEF FindNone, FindConflict, Replay, RefuseUncertain, FindRetryable, GoesOn,
                ReceiptInv, ReceiptTypeOK
  <1>14. Orderly' /\ s \in Going => ~IsSettled(LatestVersion)
    <2> SUFFICES ASSUME Orderly', s = "reopen" PROVE ~IsSettled(LatestVersion)
      BY DEF Going
    <2>1. ~overlapped'
      BY <1>1, <1>8 DEF Orderly, Moves
    <2>2. v = Len(receipt)
      BY <1>1, <2>1, GoesOnFacts DEF FindRetryable, ReceiptInv
    <2> QED BY <1>1, <2>2 DEF FindRetryable, MayRepeat, LatestVersion
  <1>15. OneAtATime'
    BY <1>1, <1>13, <1>14, MoveOrder DEF ReceiptInv, AttemptSteps
  <1> QED BY <1>7, <1>10, <1>12, <1>15 DEF ReceiptInv

(* A running, replay-safe command is executed again.                        *)
LEMMA ResumeStep ==
    ASSUME ReceiptAssumption, ReceiptInv, NEW c \in Attempts, NEW v \in 1 .. Len(receipt),
           Resume(c, v)
    PROVE  ReceiptInv'
  <1> USE DEF Resume, Look, StartExecution, Goes
  <1>1. /\ phase[c] = "idle" /\ receipt # << >> /\ descriptor.replaySafe
        /\ request[c] = receipt[1].request /\ result[c] = "none"
        /\ ProcOf[c] \in Runners /\ phase \in [Attempts -> AttemptSteps]
    BY DEF Matches, MayRepeat, ReceiptInv, OneRequest, Provenance, ReceiptTypeOK, ReceiptAssumption
  <1>2. overlapped' \in BOOLEAN
    BY DEF GoesOn
  <1>3. ReceiptTypeOK'
    BY <1>1, <1>2 DEF ReceiptInv, ReceiptTypeOK, Sees, AttemptSteps, mishaps
  <1>4. OneRequest'
    BY <1>1 DEF ReceiptInv, OneRequest, Going, Executing
  <1>5. NoSecondStart'
    BY <1>1 DEF NoSecondStart
  <1>6. Provenance'
    BY <1>1 DEF ReceiptInv, Provenance
  <1>7. AnswersAreReal'
    BY DEF ReceiptInv, AnswersAreReal
  <1>8. OneAtATime'
    <2>1. ~overlapped' => /\ ~overlapped /\ v = Len(receipt)
                     /\ \A d \in Attempts \ {c} : ~Busy(d)
      BY GoesOnFacts DEF ReceiptInv
    <2>2. Orderly' => ~overlapped'
      BY <1>1 DEF Orderly
    <2>3. ~overlapped' => ~IsSettled(LatestVersion)
      BY <2>1 DEF MayRepeat, LatestVersion
    <2>4. ~overlapped' => \A x, y \in Attempts : Busy(x)' /\ Busy(y)' => x = y
      BY <1>1, <2>1 DEF Busy
    <2>5. Orderly' => \A d \in Attempts : phase'[d] \in Going => ~IsSettled(LatestVersion)'
      BY <2>2, <2>3 DEF IsSettled, LatestVersion
    <2>6. Orderly' => SettledIsFinal'
      BY <2>1, <2>2 DEF ReceiptInv, OneAtATime, Orderly, SettledIsFinal, IsSettled
    <2> QED BY <2>4, <2>5, <2>6 DEF OneAtATime
  <1> QED BY <1>3, <1>4, <1>5, <1>6, <1>7, <1>8 DEF ReceiptInv

LEMMA RereadStep ==
    ASSUME ReceiptAssumption, ReceiptInv, NEW c \in Attempts, NEW v \in 1 .. Len(receipt),
           Reread(c, v)
    PROVE  ReceiptInv'
  <1>1. PICK s \in {"reopenWrite", "settleWrite"} :
          /\ Moves(c, s)
          /\ s = "reopenWrite" => phase[c] = "reopen"
          /\ s = "settleWrite" => phase[c] = "settle"
    BY DEF Reread, Moves, Goes
  <1>2. phase[c] \in Going /\ Busy(c)
    BY DEF Reread, Going, Busy
  <1>3. ProcOf[c] \in Runners BY DEF ReceiptAssumption
  <1>4. ReceiptTypeOK'
    <2>1. floor' \in [Runners -> Nat] /\ \A p \in Runners : floor'[p] <= Len(receipt)
      <3>1. v \in 0 .. Len(receipt)
        BY DEF ReceiptInv, ReceiptTypeOK
      <3> QED BY <1>3, <3>1, FloorFacts DEF Reread, ReceiptInv
    <2>2. heldVersion' \in [Attempts -> Nat] /\ \A d \in Attempts : heldVersion'[d] <= Len(receipt)
      BY DEF Reread, ReceiptInv, ReceiptTypeOK
    <2>3. /\ deaths' \in Nat /\ storeFaults' \in Nat /\ overlapped' \in BOOLEAN
          /\ told' \in [Attempts -> Answers]
      BY DEF Reread, ReceiptInv, ReceiptTypeOK, mishaps
    <2>4. s \in AttemptSteps
      BY DEF AttemptSteps
    <2> QED BY <1>1, <2>1, <2>2, <2>3, <2>4, MoveType DEF ReceiptInv
  <1>5. OneRequest' /\ NoSecondStart' /\ Provenance'
    BY <1>1, <1>2, MoveInv DEF ReceiptInv, OneRequest, NoSecondStart, Provenance,
                                      AttemptSteps, Going, Executing
  <1>6. AnswersAreReal'
    BY DEF Reread, ReceiptInv, AnswersAreReal
  <1>7. OneAtATime'
    BY <1>1, <1>2, MoveOrder DEF ReceiptInv, Reread, AttemptSteps
  <1> QED BY <1>4, <1>5, <1>6, <1>7 DEF ReceiptInv

LEMMA ExecuteStep ==
    ASSUME ReceiptAssumption, ReceiptInv, NEW c \in Attempts, NEW r \in Outcomes, Execute(c, r)
    PROVE  ReceiptInv'
  <1> USE DEF Execute, Goes, Reply
  <1>1. /\ c \in ran /\ result[c] = "none" /\ phase[c] = "executing"
        /\ phase \in [Attempts -> AttemptSteps] /\ result \in [Attempts -> Outcomes \union {"none"}]
        /\ told \in [Attempts -> Answers]
    BY DEF ReceiptInv, OneRequest, Provenance, Executing, ReceiptTypeOK
  <1>2. ReceiptTypeOK'
    BY <1>1 DEF ReceiptInv, ReceiptTypeOK, AttemptSteps, Answers, Outcomes, mishaps
  <1>3. OneRequest' /\ NoSecondStart'
    BY <1>1 DEF ReceiptInv, OneRequest, NoSecondStart, Going, Executing
  <1>4. Provenance'
    BY <1>1 DEF ReceiptInv, Provenance, Outcomes
  <1>5. AnswersAreReal'
    <2> SUFFICES ASSUME NEW d \in Attempts, told'[d] \in Outcomes
                 PROVE  \E e \in ran : request[e] = request[d] /\ result'[e] = told'[d]
      BY DEF AnswersAreReal, Outcomes
    <2>1. CASE told'[d] = told[d]
      BY <1>1, <2>1 DEF ReceiptInv, AnswersAreReal, Outcomes
    <2>2. CASE d = c /\ told'[d] = "ok" /\ r = "ok"
      BY <1>1, <2>2
    <2> QED BY <1>1, <2>1, <2>2
  <1>6. OneAtATime'
    BY <1>1 DEF ReceiptInv, OneAtATime, Orderly, Busy, Going, LatestVersion,
                     IsSettled, SettledIsFinal
  <1> QED BY <1>2, <1>3, <1>4, <1>5, <1>6 DEF ReceiptInv

LEMMA ThrowStep ==
    ASSUME ReceiptAssumption, ReceiptInv, NEW c \in Attempts, Throw(c)
    PROVE  ReceiptInv'
  <1>1. /\ Moves(c, "answered") /\ told' = [told EXCEPT ![c] = "threw"]
        /\ UNCHANGED <<floor, heldVersion, overlapped, deaths, storeFaults>>
    BY DEF Throw, Reply, Goes, Moves, mishaps
  <1>2. "threw" \in Answers \ Outcomes /\ "answered" \in AttemptSteps
    BY DEF Answers, Outcomes, AttemptSteps
  <1>3. ReceiptTypeOK'
    BY <1>1, <1>2, MoveType DEF ReceiptInv, ReceiptTypeOK
  <1>4. OneRequest' /\ NoSecondStart' /\ Provenance'
    BY <1>1, <1>2, MoveInv DEF ReceiptInv, Going, Executing
  <1>5. AnswersAreReal'
    BY <1>1, <1>2, AnswerReal DEF ReceiptInv, Moves
  <1>6. OneAtATime'
    BY <1>1, <1>2, MoveOrder DEF ReceiptInv, Going
  <1> QED BY <1>3, <1>4, <1>5, <1>6 DEF ReceiptInv

LEMMA RunnerDiesStep ==
    ASSUME ReceiptAssumption, ReceiptInv, NEW p \in Runners, RunnerDies(p)
    PROVE  ReceiptInv'
  <1> USE DEF RunnerDies
  <1>1. /\ phase \in [Attempts -> AttemptSteps]
        /\ \A d \in Attempts : phase'[d] \in {phase[d], "dead"}
    BY DEF ReceiptInv, ReceiptTypeOK
  <1>2. ReceiptTypeOK'
    BY DEF ReceiptInv, ReceiptTypeOK, AttemptSteps
  <1>3. OneRequest' /\ NoSecondStart' /\ Provenance'
    BY <1>1 DEF ReceiptInv, OneRequest, NoSecondStart, Provenance, Going, Executing
  <1>4. AnswersAreReal'
    BY DEF ReceiptInv, AnswersAreReal
  <1>5. OneAtATime'
    BY <1>1 DEF ReceiptInv, OneAtATime, Orderly, Busy, Going, LatestVersion,
                     IsSettled, SettledIsFinal
  <1> QED BY <1>2, <1>3, <1>4, <1>5 DEF ReceiptInv

(* A write by the store: it happens, or it fails with nothing changed.      *)
LEMMA FailureFacts ==
    ASSUME ReceiptInv, NEW c \in Attempts, NEW v \in ReceiptVersions, ProcOf[c] \in Runners,
           StoreFails(c, v)
    PROVE  /\ deaths' \in Nat /\ storeFaults' \in Nat
           /\ \/ /\ receipt' = receipt
                 /\ floor' \in [Runners -> Nat] /\ \A p \in Runners : floor'[p] <= Len(receipt)
              \/ receipt' = Append(receipt, v) /\ Rebase(c)
  BY SMTT(30) DEF StoreFails, Rebase, ReceiptInv, ReceiptTypeOK

LEMMA LostFacts ==
    ASSUME ReceiptInv, NEW c \in Attempts, ProcOf[c] \in Runners, receipt' = receipt, Rebase(c)
    PROVE  floor' \in [Runners -> Nat] /\ \A p \in Runners : floor'[p] <= Len(receipt)
  BY DEF Rebase, ReceiptInv, ReceiptTypeOK

(* The attempt ends and the receipt is as it was.                           *)
LEMMA EndsUnwritten ==
    ASSUME ReceiptInv, NEW c \in Attempts, NEW a \in Answers, Busy(c), Reply(c, a),
           UNCHANGED <<receipt, heldVersion, result, request, descriptor, ran, overlapped>>,
           floor' \in [Runners -> Nat], \A p \in Runners : floor'[p] <= Len(receipt),
           deaths' \in Nat, storeFaults' \in Nat,
           a \in Outcomes => c \in ran /\ result[c] = a
    PROVE  ReceiptInv'
  <1>1. Moves(c, "answered") /\ told' = [told EXCEPT ![c] = a] /\ "answered" \in AttemptSteps
    BY DEF Reply, Goes, Moves, AttemptSteps
  <1>2. ReceiptTypeOK'
    BY <1>1, MoveType DEF ReceiptInv, ReceiptTypeOK
  <1>3. OneRequest' /\ NoSecondStart' /\ Provenance'
    BY <1>1, MoveInv DEF ReceiptInv, Going, Executing
  <1>4. AnswersAreReal'
    BY <1>1, AnswerReal DEF ReceiptInv, Moves
  <1>5. OneAtATime'
    BY <1>1, MoveOrder DEF ReceiptInv, Going
  <1> QED BY <1>2, <1>3, <1>4, <1>5 DEF ReceiptInv

(* The attempt ends, and a version of its own has been added.               *)
LEMMA EndsWritten ==
    ASSUME ReceiptInv, NEW c \in Attempts, NEW a \in Answers, NEW v \in ReceiptVersions,
           ProcOf[c] \in Runners, Busy(c), Reply(c, a),
           receipt' = Append(receipt, v), Rebase(c),
           UNCHANGED <<heldVersion, result, request, descriptor, ran, overlapped>>,
           deaths' \in Nat, storeFaults' \in Nat,
           v.request = request[c],
           receipt = << >> \/ (phase[c] \in Going /\ v.request = receipt[1].request),
           v.state = "running" \/ phase[c] = "settleWrite",
           v.outcome \in Outcomes =>
               \E d \in ran : request[d] = v.request /\ result[d] = v.outcome,
           a \in Outcomes => c \in ran /\ result[c] = a
    PROVE  ReceiptInv'
  <1>1. WritesReceipt(c, v, "answered") /\ told' = [told EXCEPT ![c] = a] /\ "answered" \in AttemptSteps
    BY DEF Reply, Goes, WritesReceipt, AttemptSteps
  <1>2. told' \in [Attempts -> Answers] /\ ran' \subseteq Attempts
    BY <1>1 DEF ReceiptInv, ReceiptTypeOK
  <1>3. ReceiptTypeOK'
    BY <1>1, <1>2, WriteType DEF ReceiptInv
  <1>4. OneRequest' /\ NoSecondStart' /\ Provenance'
    BY <1>1, WriteInv DEF ReceiptInv
  <1>5. AnswersAreReal'
    BY <1>1, AnswerReal DEF ReceiptInv, WritesReceipt
  <1>6. OneAtATime'
    BY <1>1, WriteOrder DEF ReceiptInv
  <1> QED BY <1>3, <1>4, <1>5, <1>6 DEF ReceiptInv

(* A version is added and the attempt starts to execute.                    *)
LEMMA StartsWritten ==
    ASSUME ReceiptInv, NEW c \in Attempts, NEW v \in ReceiptVersions, ProcOf[c] \in Runners,
           phase[c] \in {"open", "reopenWrite"}, StartExecution(c),
           receipt' = Append(receipt, v), Rebase(c),
           UNCHANGED <<heldVersion, result, request, descriptor, overlapped, mishaps>>,
           v.request = request[c],
           \/ receipt = << >>
           \/ phase[c] \in Going /\ v.request = receipt[1].request /\ descriptor.replaySafe,
           v.state = "running",
           v.outcome \in Outcomes =>
               \E d \in ran : request[d] = v.request /\ result[d] = v.outcome
    PROVE  ReceiptInv'
  <1>1. /\ WritesReceipt(c, v, "executing") /\ told' = told /\ ran' = ran \union {c}
        /\ "executing" \in AttemptSteps /\ Busy(c) /\ result[c] = "none"
    BY DEF StartExecution, Goes, WritesReceipt, AttemptSteps, Busy, ReceiptInv, Provenance
  <1>2. told' \in [Attempts -> Answers] /\ ran' \subseteq Attempts
        /\ deaths' \in Nat /\ storeFaults' \in Nat
    BY <1>1 DEF ReceiptInv, ReceiptTypeOK, mishaps
  <1>3. ReceiptTypeOK'
    BY <1>1, <1>2, WriteType DEF ReceiptInv
  <1>4. OneRequest' /\ NoSecondStart' /\ Provenance'
    BY <1>1, WriteInv DEF ReceiptInv
  <1>5. AnswersAreReal'
    BY <1>1 DEF ReceiptInv, AnswersAreReal, WritesReceipt
  <1>6. OneAtATime'
    BY <1>1, WriteOrder DEF ReceiptInv
  <1> QED BY <1>3, <1>4, <1>5, <1>6 DEF ReceiptInv

LEMMA OpenStep ==
    ASSUME ReceiptAssumption, ReceiptInv, NEW c \in Attempts, Open(c) \/ OpenFails(c)
    PROVE  ReceiptInv'
  <1>1. /\ ProcOf[c] \in Runners /\ phase[c] = "open" /\ Busy(c)
        /\ FirstVersion(c) \in ReceiptVersions
        /\ "storeUnavailable" \in Answers \ Outcomes
    BY DEF ReceiptAssumption, Open, OpenFails, Busy, FirstVersion, ReceiptVersions, Outcomes,
           Answers, ReceiptInv, ReceiptTypeOK
  <1>2. /\ FirstVersion(c).request = request[c] /\ FirstVersion(c).state = "running"
        /\ FirstVersion(c).outcome \notin Outcomes
    BY DEF FirstVersion, Outcomes
  <1>3. CASE Open(c)
    BY <1>1, <1>2, <1>3, StartsWritten DEF Open, Absent
  <1>4. CASE OpenFails(c)
    <2>1. CASE receipt' = receipt /\ Rebase(c) /\ UNCHANGED mishaps
      <3>1. deaths' \in Nat /\ storeFaults' \in Nat
        BY <2>1 DEF mishaps, ReceiptInv, ReceiptTypeOK
      <3> QED BY <1>1, <1>4, <2>1, <3>1, LostFacts, EndsUnwritten DEF OpenFails
    <2>2. CASE Absent /\ StoreFails(c, FirstVersion(c))
      <3>1. \/ receipt' = receipt /\ floor' \in [Runners -> Nat]
               /\ \A p \in Runners : floor'[p] <= Len(receipt)
            \/ receipt' = Append(receipt, FirstVersion(c)) /\ Rebase(c)
        BY <1>1, <2>2, FailureFacts
      <3>2. deaths' \in Nat /\ storeFaults' \in Nat
        BY <1>1, <2>2, FailureFacts
      <3>3. CASE receipt' = receipt /\ floor' \in [Runners -> Nat]
                 /\ \A p \in Runners : floor'[p] <= Len(receipt)
        BY <1>1, <1>4, <3>2, <3>3, EndsUnwritten DEF OpenFails
      <3>4. CASE receipt' = Append(receipt, FirstVersion(c)) /\ Rebase(c)
        BY <1>1, <1>2, <1>4, <2>2, <3>2, <3>4, EndsWritten DEF OpenFails, Absent
      <3> QED BY <3>1, <3>3, <3>4
    <2> QED BY <1>4, <2>1, <2>2 DEF OpenFails
  <1> QED BY <1>3, <1>4

LEMMA ReopenStep ==
    ASSUME ReceiptAssumption, ReceiptInv, NEW c \in Attempts, Reopen(c) \/ ReopenFails(c)
    PROVE  ReceiptInv'
  <1>1. /\ ProcOf[c] \in Runners /\ phase[c] = "reopenWrite" /\ Busy(c) /\ phase[c] \in Going
        /\ receipt # << >> /\ request[c] = receipt[1].request /\ descriptor.replaySafe
        /\ "storeUnavailable" \in Answers \ Outcomes
    BY DEF ReceiptAssumption, Reopen, ReopenFails, Busy, Going, Outcomes, Answers, ReceiptInv,
           OneRequest, NoSecondStart
  <1>2. /\ LatestVersion \in ReceiptVersions /\ LatestVersion = receipt[Len(receipt)]
        /\ Len(receipt) \in 1 .. Len(receipt) /\ LatestVersion.request = request[c]
    BY <1>1, LatestFacts DEF ReceiptInv, OneRequest, LatestVersion
  <1>3. /\ Reopened \in ReceiptVersions /\ Reopened.request = request[c]
        /\ Reopened.state = "running" /\ Reopened.outcome = LatestVersion.outcome
    BY <1>2 DEF Reopened, ReceiptVersions
  <1>4. Reopened.outcome \in Outcomes =>
            \E d \in ran : request[d] = Reopened.request /\ result[d] = Reopened.outcome
    BY <1>2, <1>3 DEF ReceiptInv, Provenance
  <1>5. CASE Reopen(c)
    BY <1>1, <1>3, <1>4, <1>5, StartsWritten DEF Reopen
  <1>6. CASE ReopenFails(c)
    <2>1. CASE receipt' = receipt /\ Rebase(c) /\ UNCHANGED mishaps
      <3>1. deaths' \in Nat /\ storeFaults' \in Nat
        BY <2>1 DEF mishaps, ReceiptInv, ReceiptTypeOK
      <3> QED BY <1>1, <1>6, <2>1, <3>1, LostFacts, EndsUnwritten DEF ReopenFails
    <2>2. CASE StoreFails(c, Reopened)
      <3>1. \/ receipt' = receipt /\ floor' \in [Runners -> Nat]
               /\ \A p \in Runners : floor'[p] <= Len(receipt)
            \/ receipt' = Append(receipt, Reopened) /\ Rebase(c)
        BY <1>1, <1>3, <2>2, FailureFacts
      <3>2. deaths' \in Nat /\ storeFaults' \in Nat
        BY <1>1, <1>3, <2>2, FailureFacts
      <3>3. CASE receipt' = receipt /\ floor' \in [Runners -> Nat]
                 /\ \A p \in Runners : floor'[p] <= Len(receipt)
        BY <1>1, <1>6, <3>2, <3>3, EndsUnwritten DEF ReopenFails
      <3>4. CASE receipt' = Append(receipt, Reopened) /\ Rebase(c)
        BY <1>1, <1>3, <1>4, <1>6, <3>2, <3>4, EndsWritten DEF ReopenFails
      <3> QED BY <3>1, <3>3, <3>4
    <2> QED BY <1>6, <2>1, <2>2 DEF ReopenFails
  <1> QED BY <1>5, <1>6

LEMMA SettleStep ==
    ASSUME ReceiptAssumption, ReceiptInv, NEW c \in Attempts, Settle(c)
    PROVE  ReceiptInv'
  <1>1. /\ ProcOf[c] \in Runners /\ phase[c] = "settleWrite" /\ Busy(c) /\ phase[c] \in Going
        /\ receipt # << >> /\ request[c] = receipt[1].request /\ c \in ran
        /\ result[c] \in Outcomes /\ result[c] \in Answers
    BY DEF ReceiptAssumption, Settle, Busy, Going, Executing, Answers, ReceiptInv, OneRequest,
           Provenance
  <1>2. /\ LatestVersion \in ReceiptVersions /\ LatestVersion.request = request[c]
    BY <1>1, LatestFacts DEF ReceiptInv, OneRequest, LatestVersion
  <1>3. /\ SettledVersion(c) \in ReceiptVersions /\ SettledVersion(c).request = request[c]
        /\ SettledVersion(c).outcome = result[c]
    BY <1>1, <1>2 DEF SettledVersion, StateAfter, ReceiptVersions
  <1>4. CASE receipt' = receipt /\ Rebase(c) /\ UNCHANGED mishaps
    <2>1. deaths' \in Nat /\ storeFaults' \in Nat
      BY <1>4 DEF mishaps, ReceiptInv, ReceiptTypeOK
    <2> QED BY <1>1, <1>4, <2>1, LostFacts, EndsUnwritten DEF Settle
  <1>5. CASE receipt' = Append(receipt, SettledVersion(c)) /\ Rebase(c)
             /\ deaths' \in Nat /\ storeFaults' \in Nat
    BY <1>1, <1>3, <1>5, EndsWritten DEF Settle
  <1>6. CASE StoreFails(c, SettledVersion(c))
    <2>1. \/ receipt' = receipt /\ floor' \in [Runners -> Nat]
             /\ \A p \in Runners : floor'[p] <= Len(receipt)
          \/ receipt' = Append(receipt, SettledVersion(c)) /\ Rebase(c)
      BY <1>1, <1>3, <1>6, FailureFacts
    <2>2. deaths' \in Nat /\ storeFaults' \in Nat
      BY <1>1, <1>3, <1>6, FailureFacts
    <2>3. CASE receipt' = receipt /\ floor' \in [Runners -> Nat]
               /\ \A p \in Runners : floor'[p] <= Len(receipt)
      BY <1>1, <2>2, <2>3, EndsUnwritten DEF Settle
    <2> QED BY <1>5, <2>1, <2>2, <2>3
  <1>7. UNCHANGED mishaps => deaths' \in Nat /\ storeFaults' \in Nat
    BY DEF mishaps, ReceiptInv, ReceiptTypeOK
  <1> QED BY <1>4, <1>5, <1>6, <1>7 DEF Settle

-----------------------------------------------------------------------------
LEMMA ReceiptStep ==
    ASSUME ReceiptAssumption, ReceiptInv, [ReceiptNext]_receiptVars
    PROVE  ReceiptInv'
  <1>1. CASE \E c \in Attempts : FindNone(c)
    BY <1>1, ReadStep DEF ReceiptInv, ReceiptTypeOK
  <1>2. CASE \E c \in Attempts : \E v \in 1 .. Len(receipt) : Read(c, v)
    BY <1>2, ReadStep, ResumeStep DEF Read
  <1>3. CASE \E c \in Attempts : \E v \in 1 .. Len(receipt) : Reread(c, v)
    BY <1>3, RereadStep
  <1>4. CASE \E c \in Attempts : Open(c) \/ OpenFails(c) \/ Reopen(c) \/ ReopenFails(c)
    BY <1>4, OpenStep, ReopenStep
  <1>5. CASE \E c \in Attempts : (\E r \in Outcomes : Execute(c, r)) \/ Throw(c) \/ Settle(c)
    BY <1>5, ExecuteStep, ThrowStep, SettleStep
  <1>6. CASE \E p \in Runners : RunnerDies(p)
    BY <1>6, RunnerDiesStep
  <1>7. CASE UNCHANGED receiptVars
    BY <1>7 DEF receiptVars, ReceiptInv, ReceiptTypeOK, OneRequest, NoSecondStart, Provenance,
                AnswersAreReal,
                OneAtATime, Orderly, Busy, LatestVersion, IsSettled, SettledIsFinal
  <1> QED BY <1>1, <1>2, <1>3, <1>4, <1>5, <1>6, <1>7 DEF ReceiptNext

(* The inductive invariant: one request per receipt, provenance of every    *)
(* stored outcome, and one attempt at a time in an orderly history.         *)
THEOREM ReceiptInvariant == ASSUME ReceiptAssumption PROVE ReceiptSpec => []ReceiptInv
  <1>1. ReceiptInit => ReceiptInv BY InitReceiptInv
  <1>2. ReceiptInv /\ [ReceiptNext]_receiptVars => ReceiptInv' BY ReceiptStep
  <1> QED BY <1>1, <1>2, PTL DEF ReceiptSpec

(* Receipts, answers and attempts stay well formed, for any number of them. *)
THEOREM ReceiptTypeCorrect == ASSUME ReceiptAssumption PROVE ReceiptSpec => []ReceiptTypeOK
  <1>1. ReceiptInv => ReceiptTypeOK BY DEF ReceiptInv
  <1> QED BY <1>1, ReceiptInvariant, PTL

(* "A retry cannot silently become a different command" (receipts.ts:3), and *)
(* a command that is not replay safe starts at most once, whatever crashes,  *)
(* store failures, overlaps and stale reads do (receipts.ts:213-217).        *)
THEOREM OneCommand == ASSUME ReceiptAssumption PROVE ReceiptSpec => []KeyIsOneCommand
  <1>1. ReceiptInv => OneRequestRuns
    BY DEF ReceiptInv, OneRequest, OneRequestRuns, ReceiptTypeOK
  <1>2. ReceiptInv => AtMostOnce
    BY DEF ReceiptInv, NoSecondStart, AtMostOnce
  <1>3. ReceiptInv => KeyIsOneCommand BY <1>1, <1>2 DEF KeyIsOneCommand
  <1> QED BY <1>3, ReceiptInvariant, PTL

(* Callers are told results that executions returned (receipts.ts:279-290). *)
THEOREM RealAnswers == ASSUME ReceiptAssumption PROVE ReceiptSpec => []AnswersAreReal
  <1>1. ReceiptInv => AnswersAreReal BY DEF ReceiptInv
  <1> QED BY <1>1, ReceiptInvariant, PTL

(* A settled receipt keeps its outcome unless replay-safe attempts overlap  *)
(* or act on a stale read (receipts.ts:194-197, 249-269).                   *)
THEOREM SettledStays == ASSUME ReceiptAssumption PROVE ReceiptSpec => []SettledIsFinalUnlessRaced
  <1>1. ReceiptInv => SettledIsFinalUnlessRaced
    BY DEF ReceiptInv, OneAtATime, Orderly, SettledIsFinalUnlessRaced
  <1> QED BY <1>1, ReceiptInvariant, PTL

=============================================================================
