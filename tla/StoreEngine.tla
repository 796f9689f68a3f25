----------------------------- MODULE StoreEngine -----------------------------
(***************************************************************************)
(* Foundation's store engine: createObject and updateObject of             *)
(* src/packages/foundation/contract/api.ts over appendMutation,            *)
(* completeTrace and boot of core/store-engine/engine.ts.                  *)
(*                                                                         *)
(* Every mutation is two appends inside one hold of the mutation lock: the *)
(* object line to its store file, then the trace line to traces.jsonl.     *)
(* Readers take no lock.  They re-stat a file at most every 50 ms, so a    *)
(* reader may see an older prefix of each file.  A write can fail or be    *)
(* cut short (a full disk, a killed process) and leave a line without its  *)
(* newline; only boot() removes such a torn tail, and until then the next  *)
(* append lands on it and both become one unreadable line.                 *)
(*                                                                         *)
(* One store file stands for all object kinds.  The lock is the exclusion  *)
(* that MutationLock establishes: a dead holder's lock is free.  Left out: *)
(* the legacy root, schema upgrades, payload bytes, paging, and tears in   *)
(* the quarantine file.                                                    *)
(***************************************************************************)
EXTENDS Integers, Sequences, FiniteSets

CONSTANTS
    Procs,        \* processes, each with one engine (composeEngine caches it)
    Clients,      \* calls in flight
    EngineOf,     \* the process a client calls in
    Ops,          \* operations, named by clientOpId: a retry repeats the name
    MayRun,       \* the operations a client runs and retries
    Ids,          \* object ids
    ActionOf,     \* "create" or "update"
    TargetOf,     \* the object an operation is about
    LockTimesOut, \* a waiter may give up on the lock (LockBusy)
    WritesFail,   \* an append may fail in a process that lives on (disk full)
    MaxCrashes,   \* bound: process deaths
    MaxFaults,    \* bound: failed appends that were survived
    None

ASSUME StoreAssumption ==
    /\ EngineOf \in [Clients -> Procs]
    /\ MayRun \in [Clients -> SUBSET Ops]
    /\ ActionOf \in [Ops -> {"create", "update"}]
    /\ TargetOf \in [Ops -> Ids]
    /\ LockTimesOut \in BOOLEAN /\ WritesFail \in BOOLEAN
    /\ MaxCrashes \in Nat /\ MaxFaults \in Nat
    /\ None \notin Clients \union Procs \union Ops \union Ids
    /\ Clients \intersect Procs = {}

VARIABLES
    file,     \* the object store and the trace journal: lines and torn tail
    tombs,    \* ids with an open tombstone
    lock,     \* the client, or booting process, inside the mutation lock
    eng,      \* the boot stage of each process's engine
    memo,     \* how much of each file an engine's memoised stat shows it
    pc,       \* where each client is
    op,       \* the operation it runs
    base,     \* the version its update was merged onto
    expected, \* the expectedVersion each update carries, 0 before its first run
    acked,    \* history: operations some caller was told succeeded, trace included
    lost,     \* history: <<file, operation>> of lines that landed on a torn tail
    refused,  \* history: operations told CasConflict about their own line
    landed,   \* history: operations with a line that landed although its append
              \* failed in a process that lives on
    misled,   \* history: of these, the ones retried where that line was not shown
    crashes, faults

disk == <<file, tombs>>
call == <<pc, op, base, expected>>
doubt == <<landed, misled>>
history == <<acked, lost, refused, landed, misled>>
budget == <<crashes, faults>>
vars == <<file, tombs, lock, eng, memo, pc, op, base, expected,
          acked, lost, refused, landed, misled, crashes, faults>>

Files == {"objs", "traces"}
NoMemo == -1
(* Boot stages: not booted, lock was busy, the steps of reconcileLocked,    *)
(* and ready.                                                               *)
Stages == {"up", "busy", "noteObjsCut", "cutTraces", "noteTracesCut", "tombs", "booted"}

-----------------------------------------------------------------------------
(* What a reader can see.                                                   *)

Objs == file["objs"].lines
Traces == file["traces"].lines

ViewLen(e, f) == IF memo[e][f] = NoMemo THEN Len(file[f].lines) ELSE memo[e][f]
View(e, f) == {file[f].lines[i] : i \in 1 .. ViewLen(e, f)}
Lines(f) == {file[f].lines[i] : i \in 1 .. Len(file[f].lines)}

(* readLatestEffective: the last line of an id wins.  Lines of one id carry *)
(* ascending versions, so that is the highest one; 0 stands for absent.     *)
Latest(lines, id) ==
    LET versions == {l.ver : l \in {m \in lines : m.id = id}}
    IN  IF versions = {} THEN 0 ELSE CHOOSE v \in versions : \A w \in versions : w <= v

(* Mutant: a completion writes an action of its own, outside the schema.    *)
TraceOf_unknownAction(o, action) == [action |-> "complete", op |-> o, id |-> TargetOf[o]]

TraceOf(o, action) == [action |-> action, op |-> o, id |-> TargetOf[o]]
TruncateTrace == [action |-> "truncate", op |-> None, id |-> None]

HasTrace(traces, o) == \E t \in traces : t.op = o
HasLine(lines, o) == \E l \in lines : l.op = o

(* Mutant: the dedup looks at object lines only.                            *)
PriorTrace_ignored(e, o) == FALSE

(* findPriorOp: the operation has a trace, or else an object line.          *)
PriorTrace(e, o) == HasTrace(View(e, "traces"), o)
PriorLine(e, o) == HasLine(View(e, "objs"), o)

(* What the file has of an operation, the engine's stat leaves out.         *)
Hides(e, o) == \E f \in Files : HasLine(Lines(f), o) /\ ~HasLine(View(e, f), o)

-----------------------------------------------------------------------------
(* appendLineFsync: on a torn tail the bytes join the torn line, and no     *)
(* reader can parse the result.                                             *)
WholeAppend(f, line) ==
    /\ file' = [file EXCEPT ![f].lines = IF file[f].torn THEN @ ELSE Append(@, line),
                            ![f].torn = FALSE]
    /\ lost' = IF file[f].torn THEN lost \union {<<f, line.op>>} ELSE lost

(* appendLineFsync that throws, or whose process dies in it: nothing, a     *)
(* part of the line, or all of it may have reached the file.                *)
BrokenAppend(f, line) ==
    \/ file' = file /\ lost' = lost
    \/ file' = [file EXCEPT ![f].torn = TRUE] /\ lost' = lost
    \/ WholeAppend(f, line)

(* Every append that succeeds and every acquisition but boot's drops the    *)
(* engine's memoised stats.                                                 *)
Bust(e) == memo' = [memo EXCEPT ![e] = [f \in Files |-> NoMemo]]

(* An append that fails does not: what the read before it inside the lock   *)
(* has memoised, the length without the new line, stays.                    *)
KeepsOld(e, f) ==
    memo' = [memo EXCEPT ![e] = [g \in Files |-> IF g = f THEN Len(file[f].lines) ELSE NoMemo]]

(* Critical sections are synchronous: no other call of the process moves.   *)
CanRun(e) ==
    /\ eng[e] = "booted"
    /\ \A c \in Clients : EngineOf[c] = e => pc[c] # "appended"

Goto(c, label) == pc' = [pc EXCEPT ![c] = label]
Answer(c) == pc' = [pc EXCEPT ![c] = "idle"] /\ UNCHANGED <<op, base, expected>>

Init ==
    /\ file = [f \in Files |-> [lines |-> << >>, torn |-> FALSE]]
    /\ tombs = {}
    /\ lock = None
    /\ eng = [e \in Procs |-> "up"]
    /\ memo = [e \in Procs |-> [f \in Files |-> NoMemo]]
    /\ pc = [c \in Clients |-> "idle"]
    /\ op = [c \in Clients |-> None]
    /\ base = [c \in Clients |-> 0]
    /\ expected = [o \in Ops |-> 0]
    /\ acked = {} /\ lost = {} /\ refused = {} /\ landed = {} /\ misled = {}
    /\ crashes = 0 /\ faults = 0

-----------------------------------------------------------------------------
(* createObject up to its first await.  A prior trace whose object is not   *)
(* visible falls through to the quarantine gate and a fresh append.         *)
StartCreate(c, o) ==
    LET e == EngineOf[c]
        objs == View(e, "objs")
        id == TargetOf[o]
        traced == PriorTrace(e, o)
        visible == Latest(objs, id) > 0
    IN
    /\ ActionOf[o] = "create"
    /\ \/ /\ traced /\ visible
          /\ acked' = acked \union {o}
          /\ UNCHANGED call
       \/ /\ ~traced /\ PriorLine(e, o)
          /\ Goto(c, "wantComplete")
          /\ op' = [op EXCEPT ![c] = o]
          /\ UNCHANGED <<acked, base, expected>>
       \/ /\ ~(traced /\ visible) /\ (traced \/ ~PriorLine(e, o))
          /\ id \notin tombs
          /\ Goto(c, "wantAppend")
          /\ op' = [op EXCEPT ![c] = o]
          /\ UNCHANGED <<acked, base, expected>>

(* updateObject up to its first await.  The patch is merged onto what this  *)
(* lock-free read shows; the caller's expectedVersion comes from any read   *)
(* it made before, of this engine or another, and a retry repeats it.       *)
StartUpdate(c, o) ==
    LET e == EngineOf[c]
        objs == View(e, "objs")
        id == TargetOf[o]
        current == Latest(objs, id)
        traced == PriorTrace(e, o)
    IN
    /\ ActionOf[o] = "update"
    /\ current > 0 /\ id \notin tombs
    /\ \/ /\ traced
          /\ acked' = acked \union {o}
          /\ UNCHANGED call
       \/ /\ ~traced /\ PriorLine(e, o)
          /\ Goto(c, "wantComplete")
          /\ op' = [op EXCEPT ![c] = o]
          /\ UNCHANGED <<acked, base, expected>>
       \/ /\ ~traced /\ ~PriorLine(e, o)
          /\ \E reader \in Procs :
              LET seen == Latest(View(reader, "objs"), id) IN
              /\ CanRun(reader) /\ seen > 0
              /\ expected' = [expected EXCEPT ![o] = IF @ = 0 THEN seen ELSE @]
          /\ base' = [base EXCEPT ![c] = current]
          /\ Goto(c, "wantAppend")
          /\ op' = [op EXCEPT ![c] = o]
          /\ UNCHANGED acked

Start(c, o) ==
    /\ pc[c] = "idle" /\ o \in MayRun[c]
    /\ CanRun(EngineOf[c])
    /\ StartCreate(c, o) \/ StartUpdate(c, o)
    /\ misled' = IF o \in landed /\ Hides(EngineOf[c], o) THEN misled \union {o} ELSE misled
    /\ UNCHANGED <<disk, lock, eng, memo, lost, refused, landed, budget>>

(* Mutant: mustBeAbsent is only checked before the lock is taken.           *)
CasHolds_createUnchecked(o) ==
    ActionOf[o] = "create" \/ Latest(Lines("objs"), TargetOf[o]) = expected[o]

(* The compare-and-set of appendMutation, on a fresh read inside the lock.  *)
CasHolds(o) ==
    LET actual == Latest(Lines("objs"), TargetOf[o])
    IN  IF ActionOf[o] = "create" THEN actual = 0 ELSE actual = expected[o]

NewLine(c) ==
    [op |-> op[c], id |-> TargetOf[op[c]],
     ver |-> IF ActionOf[op[c]] = "create"
               THEN 1 ELSE Latest(Lines("objs"), TargetOf[op[c]]) + 1,
     base |-> base[c]]

GetLock(c, label) == pc[c] = label /\ lock = None /\ CanRun(EngineOf[c])

Conflict(c) ==
    /\ GetLock(c, "wantAppend")
    /\ ~CasHolds(op[c])
    /\ refused' = IF HasLine(Lines("objs"), op[c]) THEN refused \union {op[c]} ELSE refused
    /\ Bust(EngineOf[c])
    /\ Answer(c)
    /\ UNCHANGED <<disk, lock, eng, acked, lost, doubt, budget>>

(* Object append and fsync; the trace follows inside the same hold.         *)
AppendObject(c) ==
    /\ GetLock(c, "wantAppend")
    /\ CasHolds(op[c])
    /\ WholeAppend("objs", NewLine(c))
    /\ lock' = c
    /\ Bust(EngineOf[c])
    /\ Goto(c, "appended")
    /\ UNCHANGED <<tombs, eng, op, base, expected, acked, refused, doubt, budget>>

AppendTrace(c) ==
    /\ pc[c] = "appended"
    /\ WholeAppend("traces", TraceOf(op[c], ActionOf[op[c]]))
    /\ acked' = acked \union {op[c]}
    /\ lock' = None
    /\ Bust(EngineOf[c])
    /\ Answer(c)
    /\ UNCHANGED <<tombs, eng, refused, doubt, budget>>

(* Mutant: the retry answers without writing the missing trace.             *)
CompleteTrace_noAppend(c) ==
    /\ GetLock(c, "wantComplete")
    /\ acked' = acked \union {op[c]}
    /\ Bust(EngineOf[c])
    /\ Answer(c)
    /\ UNCHANGED <<disk, lock, eng, lost, refused, doubt, budget>>

(* completeTrace: appends without looking whether the trace is there by     *)
(* now.  findPriorOp reports every trace-less line as a create.             *)
CompleteTrace(c) ==
    /\ GetLock(c, "wantComplete")
    /\ WholeAppend("traces", TraceOf(op[c], "create"))
    /\ acked' = acked \union {op[c]}
    /\ Bust(EngineOf[c])
    /\ Answer(c)
    /\ UNCHANGED <<tombs, lock, eng, refused, doubt, budget>>

(* The bounded wait is over: typed LockBusy.  A caller of completeTrace     *)
(* ignores the error and hands out the object, flagged `incomplete`.        *)
LockBusy(c) ==
    /\ LockTimesOut
    /\ pc[c] \in {"wantAppend", "wantComplete"}
    /\ lock # None
    /\ CanRun(EngineOf[c])
    /\ Answer(c)
    /\ UNCHANGED <<disk, lock, eng, memo, history, budget>>
-----------------------------------------------------------------------------
(* Things going wrong.                                                      *)

(* The process dies; its calls are gone and its lock is for the taking.     *)
(* What starts next is a new process with an engine that has not booted.    *)
Die(e) ==
    /\ crashes < MaxCrashes
    /\ crashes' = crashes + 1
    /\ eng' = [eng EXCEPT ![e] = "up"]
    /\ Bust(e)
    /\ lock' = IF lock = e \/ (lock \in Clients /\ EngineOf[lock] = e) THEN None ELSE lock
    /\ pc' = [c \in Clients |-> IF EngineOf[c] = e THEN "idle" ELSE pc[c]]
    /\ UNCHANGED <<op, base, expected, faults>>

Crash(e) ==
    /\ eng[e] # "up"
    /\ Die(e)
    /\ UNCHANGED <<disk, history>>

Survives == WritesFail /\ faults < MaxFaults /\ faults' = faults + 1 /\ crashes' = crashes

(* ObjectWriteFailed, TraceWriteFailed, or the raw throw of completeTrace:  *)
(* the lock is released and the caller may retry, at once.  Or the process  *)
(* dies inside the append.                                                  *)
FailsOrDies(c, f) ==
    \/ /\ Survives
       /\ lock' = None
       /\ KeepsOld(EngineOf[c], f)
       /\ landed' = IF file'[f].lines = file[f].lines THEN landed ELSE landed \union {op[c]}
       /\ Answer(c)
       /\ eng' = eng
    \/ Die(EngineOf[c]) /\ landed' = landed

FailObject(c) ==
    /\ GetLock(c, "wantAppend") /\ CasHolds(op[c])
    /\ BrokenAppend("objs", NewLine(c))
    /\ FailsOrDies(c, "objs")
    /\ UNCHANGED <<tombs, acked, refused, misled>>

FailTrace(c) ==
    /\ pc[c] = "appended"
    /\ BrokenAppend("traces", TraceOf(op[c], ActionOf[op[c]]))
    /\ FailsOrDies(c, "traces")
    /\ UNCHANGED <<tombs, acked, refused, misled>>

FailComplete(c) ==
    /\ GetLock(c, "wantComplete")
    /\ BrokenAppend("traces", TraceOf(op[c], "create"))
    /\ FailsOrDies(c, "traces")
    /\ UNCHANGED <<tombs, acked, refused, misled>>

-----------------------------------------------------------------------------
(* boot: one synchronous hold of the lock.                                  *)

Stage(e, s) == eng' = [eng EXCEPT ![e] = s]

(* The lock stayed busy: LockBusy is recorded, the next call tries again,   *)
(* and getObject reads the store all the same.                              *)
BootBusy(e) ==
    /\ LockTimesOut
    /\ eng[e] = "up" /\ lock # None
    /\ Stage(e, "busy")
    /\ UNCHANGED <<disk, lock, memo, call, history, budget>>

(* Mutant: the cut starts one newline too early and takes a whole line too. *)
Cut_oneTooMany(e, f, note, next) ==
    /\ file' = [file EXCEPT ![f] =
                  [lines |-> IF file[f].torn /\ file[f].lines # << >>
                               THEN SubSeq(@.lines, 1, Len(@.lines) - 1) ELSE @.lines,
                   torn |-> FALSE]]
    /\ Stage(e, IF file[f].torn THEN note ELSE next)
    /\ UNCHANGED <<tombs, memo, call, acked, lost, refused, doubt, budget>>

Cut(e, f, note, next) ==
    /\ file' = [file EXCEPT ![f].torn = FALSE]
    /\ Stage(e, IF file[f].torn THEN note ELSE next)
    /\ UNCHANGED <<tombs, memo, call, acked, lost, refused, doubt, budget>>

(* truncateTornLine on every store file first, on the trace journal last.   *)
CutObjs(e) ==
    /\ eng[e] \in {"up", "busy"} /\ lock = None
    /\ lock' = e
    /\ Cut(e, "objs", "noteObjsCut", "cutTraces")

CutTraces(e) ==
    /\ eng[e] = "cutTraces"
    /\ lock' = lock
    /\ Cut(e, "traces", "noteTracesCut", "tombs")

(* Each truncation is followed by its trace.                                *)
NoteCut(e) ==
    /\ eng[e] \in {"noteObjsCut", "noteTracesCut"}
    /\ WholeAppend("traces", TruncateTrace)
    /\ Bust(e)
    /\ Stage(e, IF eng[e] = "noteObjsCut" THEN "cutTraces" ELSE "tombs")
    /\ UNCHANGED <<tombs, lock, call, acked, refused, doubt, budget>>

(* A truncate trace that cannot be written throws out of boot, whose        *)
(* `booted` flag is already set: the next call finds the engine booted.     *)
FailNote(e) ==
    /\ eng[e] \in {"noteObjsCut", "noteTracesCut"}
    /\ BrokenAppend("traces", TruncateTrace)
    /\ \/ /\ Survives /\ lock' = None /\ Stage(e, "booted") /\ UNCHANGED call
          /\ memo' = [memo EXCEPT ![e]["traces"] = ViewLen(e, "traces")]
       \/ Die(e)
    /\ UNCHANGED <<tombs, acked, refused, doubt>>

(* Mutant: objects that lack a trace are quarantined as well.               *)
Tombstone_traceless(e) ==
    /\ eng[e] = "tombs"
    /\ tombs' = tombs \union
         {l.id : l \in {m \in View(e, "objs") : ~HasTrace(View(e, "traces"), m.op)}}
    /\ IF tombs' = tombs THEN memo' = memo ELSE Bust(e)
    /\ lock' = None
    /\ Stage(e, "booted")
    /\ UNCHANGED <<file, call, history, budget>>

(* Traces whose target has no readable object get a tombstone.  These reads *)
(* go through the memoised stats: boot takes the lock without dropping them.*)
Tombstone(e) ==
    /\ eng[e] = "tombs"
    /\ tombs' = tombs \union
         ({t.id : t \in {u \in View(e, "traces") : u.op # None}}
            \ {l.id : l \in View(e, "objs")})
    /\ IF tombs' = tombs THEN memo' = memo ELSE Bust(e)
    /\ lock' = None
    /\ Stage(e, "booted")
    /\ UNCHANGED <<file, call, history, budget>>

-----------------------------------------------------------------------------
(* Any lock-free query stats a file and is shown that stat for 50 ms more.  *)
Glance(e, f) ==
    /\ eng[e] = "busy" \/ CanRun(e)
    /\ memo[e][f] = NoMemo
    /\ memo' = [memo EXCEPT ![e][f] = Len(file[f].lines)]
    /\ UNCHANGED <<disk, lock, eng, call, history, budget>>

Expire(e, f) ==
    /\ memo[e][f] # NoMemo
    /\ memo' = [memo EXCEPT ![e][f] = NoMemo]
    /\ UNCHANGED <<disk, lock, eng, call, history, budget>>

Boot(e) == CutObjs(e) \/ CutTraces(e) \/ NoteCut(e) \/ Tombstone(e)
Commit(c) == Conflict(c) \/ AppendObject(c) \/ AppendTrace(c) \/ CompleteTrace(c)

Next ==
    \/ \E c \in Clients :
        \/ \E o \in Ops : Start(c, o)
        \/ Commit(c) \/ LockBusy(c)
        \/ FailObject(c) \/ FailTrace(c) \/ FailComplete(c)
    \/ \E e \in Procs :
        \/ Boot(e) \/ BootBusy(e) \/ FailNote(e) \/ Crash(e)
        \/ \E f \in Files : Glance(e, f) \/ Expire(e, f)

Spec == Init /\ [][Next]_vars

(* A call that is waiting runs, an engine that is used boots, a memo ages,  *)
(* and a caller that was told to retry does.                                *)
FairSpec ==
    /\ Spec
    /\ \A c \in Clients : WF_vars(Commit(c)) /\ \A o \in Ops : WF_vars(Start(c, o))
    /\ \A e \in Procs : WF_vars(Boot(e)) /\ \A f \in Files : WF_vars(Expire(e, f))

-----------------------------------------------------------------------------
TypeOK ==
    /\ DOMAIN file = Files
    /\ \A f \in Files : file[f].torn \in BOOLEAN
    /\ Lines("objs") \subseteq [op : Ops, id : Ids, ver : Nat, base : Nat]
    /\ Lines("traces") \subseteq
         [action : {"create", "update", "truncate"}, op : Ops \union {None},
          id : Ids \union {None}]
    /\ tombs \subseteq Ids
    /\ lock \in Clients \union Procs \union {None}
    /\ eng \in [Procs -> Stages]
    /\ \A e \in Procs, f \in Files : memo[e][f] \in NoMemo .. Len(file[f].lines)
    /\ pc \in [Clients -> {"idle", "wantAppend", "wantComplete", "appended"}]
    /\ op \in [Clients -> Ops \union {None}]
    /\ base \in [Clients -> Nat] /\ expected \in [Ops -> Nat]
    /\ acked \subseteq Ops /\ refused \subseteq Ops
    /\ misled \subseteq landed /\ landed \subseteq Ops
    /\ lost \subseteq Files \X (Ops \union {None})

(* The store implements the log its callers are promised: the readable      *)
(* object lines, without the field that only records what was merged.       *)
Log == INSTANCE ObjectLog WITH
    log <- [i \in 1 .. Len(Objs) |->
              [op |-> Objs[i].op, id |-> Objs[i].id, ver |-> Objs[i].ver]]

ImplementsObjectLog == Log!Spec

AckedIsComplete ==
    \A o \in acked :
        /\ HasLine(Lines("objs"), o) \/ <<"objs", o>> \in lost
        /\ HasTrace(Lines("traces"), o) \/ <<"traces", o>> \in lost

TraceHasObject ==
    \A t \in Lines("traces") :
        t.op # None => HasLine(Lines("objs"), t.op) \/ <<"objs", t.op>> \in lost

(* What a caller was told is done has its object line and its trace, and    *)
(* keeps them through every crash; and a trace is evidence of a mutation    *)
(* that happened: object first.  The exception is a line that landed on a   *)
(* torn tail.                                                               *)
MutationsAreWhole == AckedIsComplete /\ TraceHasObject

(* Boot's claim for a store that one process writes: whatever a killed      *)
(* process left behind is cut off before anything is appended to it.        *)
NothingLandsOnATear == lost = {}

(* Boot never quarantines an object that can be read, as long as it gets    *)
(* the lock at its first attempt; an object without a trace stays readable. *)
OnlyOrphansQuarantined == \A l \in Lines("objs") : l.id \notin tombs

(* Boot repairs what a killed process left and harms nothing else.          *)
BootIsHarmless == NothingLandsOnATear /\ OnlyOrphansQuarantined

(* An object whose trace is missing gets it, as long as its caller retries  *)
(* and the store is not out of luck for good.                               *)
RetryReconciles ==
    \A o \in Ops :
        HasLine(Lines("objs"), o) ~> HasTrace(Lines("traces"), o)

(* A retry is answered with the outcome of its operation, never with a      *)
(* conflict against the line it wrote itself.                               *)
NoConflictWithItself == refused \subseteq misled

(* An operation leaves one trace, unless its object line was lost and had   *)
(* to be written again.                                                     *)
TraceOneToOne ==
    \A i, j \in 1 .. Len(Traces) :
        (i # j /\ Traces[i].op = Traces[j].op /\ Traces[i].op # None)
            => <<"objs", Traces[i].op>> \in lost \/ Traces[i].op \in misled

(* Attempts of one operation, made one after the other (overlapping ones    *)
(* are not covered: the dedup of api.ts runs before the lock), are told of  *)
(* one outcome and leave one trace.  The exception is a retry within the    *)
(* 50 ms in which its engine still goes by the stat it took before an       *)
(* append that failed and landed.                                           *)
RetriesAreIdempotentUnlessMisled == NoConflictWithItself /\ TraceOneToOne
=============================================================================
