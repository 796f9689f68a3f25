---------------------------- MODULE ArtifactStore ----------------------------
(***************************************************************************)
(* One artifact of src/packages/artifacts/core: putArtifact calls under one *)
(* clientOpId, so of one artifact id, (artifacts.ts, byte-storage.ts) and   *)
(* orphan sweeps (orphan-sweep.ts), in several processes, under the         *)
(* artifact's publication lock (publication-lock.ts).  The lock is a        *)
(* directory with an owner file, the bytes are a file that is written under *)
(* a temporary name and renamed, the record is an object of the store.      *)
(*                                                                         *)
(* A call awaits every file-system operation, so each is a step of its own. *)
(*                                                                         *)
(* Abstracted: a token is the call that drew it and a directory is known by *)
(* the call that made it; the two reads that decide on an old directory     *)
(* (owner, then stat) are one, since whoever writes the owner in between    *)
(* changes the mtime; a removal is one step, unless its process dies in it; *)
(* createObject is its dedup and its commit (StoreEngine has the rest), and *)
(* a pid is not given to a second process.                                 *)
(***************************************************************************)
EXTENDS Integers, FiniteSets

CONSTANTS
    Procs,      \* processes that share one root: a server, command lines
    Puts,       \* calls of putArtifact, all under one clientOpId
    Sweeps,     \* calls of sweepOrphans
    ProcOf,     \* the process of each call
    Inputs,     \* what a put is asked to publish: bytes and metadata
    BytesOf,    \* the bytes of each input
    None,
    MaxCrashes, \* bound: processes that die
    MaxFaults   \* bound: file-system and store operations that fail

Calls == Puts \cup Sweeps
Final == "final"                  \* the name of the published bytes
Names == Puts \cup {Final}        \* a temporary file is named by its put
BytesSet == {BytesOf[i] : i \in Inputs}

ASSUME ArtifactStoreAssumption ==
    /\ Puts \cap Sweeps = {} /\ Final \notin Puts
    /\ None \notin Calls \cup Inputs \cup BytesSet \cup Names \cup {"ok", "failed"}
    /\ ProcOf \in [Calls -> Procs]
    /\ MaxCrashes \in Nat /\ MaxFaults \in Nat

Acquiring == {"enter", "mkdir", "own", "undo", "look", "confirm", "stat", "confirmAge",
              "rm", "wait"}
Releasing == {"relRead", "relRm"}
Publishing == {"inspect", "replay", "write", "rename", "append", "commit"}
Sweeping == {"recheck", "trace", "unlink"}
Outside == {"idle", "done"} \cup Acquiring
PutSteps == Outside \cup Publishing \cup Releasing
SweepSteps == Outside \cup Sweeping \cup Releasing \cup {"scan", "scanTemps", "next"}

VARIABLES
    alive,      \* which processes run
    root,       \* is there a .publication-locks directory
    dir,        \* the artifact's lock directory: the call that made it
    owner,      \* whose token its owner.json has
    aged,       \* the directory was last touched over 30 s ago, without an owner
    temps,      \* temporary files
    final,      \* the published bytes
    record,     \* the artifact's record in the store: the input it was made from
    blind,      \* processes whose memoised stat of the store predates the record
    traced,     \* names with an artifact.orphan.sweep trace
    pc,
    input,      \* what each put was given
    judged,     \* the owner or directory a call takes for abandoned
    todo, target,   \* the orphans a sweep has yet to visit, and the one it visits
    result,     \* what a call answers: "ok", "failed"; None while it does not know
    unlinked,   \* history: names that a sweep deleted
    raced,      \* history: two takeovers overlapped, or a live acquisition took 30 s
    misread,    \* history: under the lease, a stale stat hid the record
    faults

lock == <<root, dir, owner, aged>>
bytes == <<temps, final>>
store == <<record, blind, traced>>
rest == <<input, judged, todo, target>>
work == <<rest, result>>
history == <<unlinked, raced, misread>>
vars == <<alive, lock, bytes, store, pc, work, history, faults>>

Init ==
    /\ alive = [p \in Procs |-> TRUE]
    /\ root = FALSE /\ dir = None /\ owner = None /\ aged = FALSE
    /\ temps = {} /\ final = None
    /\ record = None /\ blind = {} /\ traced = {}
    /\ pc = [c \in Calls |-> "idle"]
    /\ input = [c \in Puts |-> None] /\ judged = [c \in Calls |-> None]
    /\ result = [c \in Calls |-> None]
    /\ todo = [s \in Sweeps |-> {}] /\ target = [s \in Sweeps |-> None]
    /\ unlinked = {} /\ raced = FALSE /\ misread = FALSE
    /\ faults = 0

At(c, label) == pc[c] = label
Go(c, label) == pc' = [pc EXCEPT ![c] = label]
Answer(c, r) == result' = [result EXCEPT ![c] = r]
Judge(c, j) == judged' = [judged EXCEPT ![c] = j]

(* The record, as the process of c sees it outside the store's lock.        *)
View(c) == IF ProcOf[c] \in blind THEN None ELSE record
-----------------------------------------------------------------------------
(* acquireArtifactPublication.                                              *)

Refused(c) == Go(c, "done") /\ Answer(c, "failed")

(* Mutant: a sweep that is let in goes on as a put.                         *)
Admitted_asPut(c) == Go(c, "inspect")

Admitted(c) == Go(c, IF c \in Puts THEN "inspect" ELSE "recheck")

Enter(c) ==
    /\ At(c, "enter")
    /\ root' = TRUE
    /\ Go(c, "mkdir")
    /\ UNCHANGED <<alive, dir, owner, aged, bytes, store, work, history, faults>>

MakeDir(c) ==
    /\ At(c, "mkdir")
    /\ \/ ~root /\ Go(c, "enter") /\ UNCHANGED lock
       \/ root /\ dir # None /\ Go(c, "look") /\ UNCHANGED lock
       \/ root /\ dir = None /\ dir' = c /\ aged' = FALSE /\ Go(c, "own")
          /\ UNCHANGED <<root, owner>>
    /\ UNCHANGED <<alive, bytes, store, work, history, faults>>

(* owner.json is written exclusively, into whatever has the name by now.    *)
Own(c) ==
    /\ At(c, "own")
    /\ \/ dir # None /\ owner = None /\ owner' = c /\ aged' = FALSE /\ Admitted(c)
       \/ (dir = None \/ owner # None) /\ Go(c, "undo") /\ UNCHANGED <<owner, aged>>
    /\ UNCHANGED <<alive, root, dir, bytes, store, work, history, faults>>

RemoveDir == dir' = None /\ owner' = None /\ aged' = FALSE

Undo(c) ==
    /\ At(c, "undo")
    /\ RemoveDir
    /\ Refused(c)
    /\ UNCHANGED <<alive, root, bytes, store, rest, history, faults>>

(* reclaimAbandonedPublication: an owner that lives is waited for, the lock *)
(* of a dead one is removed after a second look, a directory nobody signed  *)
(* once it has been so for 30 s.                                            *)
Look(c) ==
    /\ At(c, "look")
    /\ \/ owner = None /\ Go(c, "stat") /\ UNCHANGED judged
       \/ owner # None /\ alive[ProcOf[owner]] /\ Go(c, "wait") /\ UNCHANGED judged
       \/ owner # None /\ ~alive[ProcOf[owner]] /\ Go(c, "confirm") /\ Judge(c, owner)
    /\ UNCHANGED <<alive, lock, bytes, store, input, todo, target, result, history, faults>>

Break(c) ==
    /\ Go(c, "rm")
    /\ raced' = (raced \/ \E d \in Calls \ {c} : At(d, "rm"))

(* Mutant: the owner is not read a second time.                             *)
Confirm_once(c) ==
    /\ At(c, "confirm")
    /\ Break(c)
    /\ UNCHANGED <<alive, lock, bytes, store, work, unlinked, misread, faults>>

Confirm(c) ==
    /\ At(c, "confirm")
    /\ \/ owner = judged[c] /\ Break(c)
       \/ owner # judged[c] /\ Go(c, "wait") /\ UNCHANGED raced
    /\ UNCHANGED <<alive, lock, bytes, store, work, unlinked, misread, faults>>

Stat(c) ==
    /\ At(c, "stat")
    /\ \/ dir = None /\ Go(c, "mkdir") /\ UNCHANGED judged
       \/ dir # None /\ ~aged /\ Go(c, "wait") /\ UNCHANGED judged
       \/ aged /\ Go(c, "confirmAge") /\ Judge(c, dir)
    /\ UNCHANGED <<alive, lock, bytes, store, input, todo, target, result, history, faults>>

ConfirmAge(c) ==
    /\ At(c, "confirmAge")
    /\ \/ dir = None /\ Go(c, "mkdir") /\ UNCHANGED raced
       \/ aged /\ dir = judged[c] /\ Break(c)
       \/ dir # None /\ ~(aged /\ dir = judged[c]) /\ Go(c, "wait") /\ UNCHANGED raced
    /\ UNCHANGED <<alive, lock, bytes, store, work, unlinked, misread, faults>>

(* The directory is removed by its name.                                    *)
TakeOver(c) ==
    /\ At(c, "rm")
    /\ RemoveDir
    /\ Go(c, "mkdir")
    /\ UNCHANGED <<alive, root, bytes, store, work, history, faults>>

Wait(c) ==
    /\ At(c, "wait")
    /\ \/ Go(c, "mkdir") /\ UNCHANGED result
       \/ Refused(c)       \* ArtifactPublicationBusy
    /\ UNCHANGED <<alive, lock, bytes, store, rest, history, faults>>
-----------------------------------------------------------------------------
(* releaseArtifactPublication.                                              *)

Leave(c, r) == Go(c, "relRead") /\ Answer(c, r)

(* After a release a sweep turns to its next orphan, unless it failed.      *)
Released(c, r) ==
    /\ Answer(c, r)
    /\ Go(c, IF c \in Puts \/ r = "failed" THEN "done" ELSE "next")

ReleaseRead(c) ==
    /\ At(c, "relRead")
    /\ \/ owner = c /\ Go(c, "relRm") /\ UNCHANGED result
       \/ owner = None /\ Released(c, result[c])
       \/ owner \notin {c, None} /\ Released(c, "failed")
    /\ UNCHANGED <<alive, lock, bytes, store, rest, history, faults>>

(* Other artifacts may keep the directory of locks from being empty.        *)
ReleaseRemove(c) ==
    /\ At(c, "relRm")
    /\ RemoveDir
    /\ root' \in BOOLEAN
    /\ Released(c, result[c])
    /\ UNCHANGED <<alive, bytes, store, rest, history, faults>>
-----------------------------------------------------------------------------
(* putArtifact.                                                             *)

StartPut(c) ==
    /\ At(c, "idle") /\ alive[ProcOf[c]]
    /\ \E i \in Inputs : input' = [input EXCEPT ![c] = i]
    /\ Go(c, "enter")
    /\ UNCHANGED <<alive, lock, bytes, store, judged, todo, target, result, history, faults>>

Inspect(c) ==
    /\ At(c, "inspect")
    /\ Go(c, IF final = None THEN "write" ELSE "replay")
    /\ UNCHANGED <<alive, lock, bytes, store, work, history, faults>>

(* differingInputFields; without a record only the bytes are compared.      *)
Differs(c, seen) ==
    \/ final # BytesOf[input[c]]
    \/ seen # None /\ seen # input[c]

(* The bytes are there already: an earlier attempt, or another input.       *)
Replay(c) ==
    /\ At(c, "replay")
    /\ LET seen == View(c) IN
       /\ misread' = (misread \/ seen # record)
       /\ \/ final = None /\ Leave(c, "failed")
          \/ final # None /\ Differs(c, seen) /\ Leave(c, "failed")
          \/ final # None /\ ~Differs(c, seen) /\ Go(c, "append") /\ UNCHANGED result
    /\ UNCHANGED <<alive, lock, bytes, store, rest, unlinked, raced, faults>>

WriteTemp(c) ==
    /\ At(c, "write")
    /\ temps' = temps \cup {c}
    /\ Go(c, "rename")
    /\ UNCHANGED <<alive, lock, final, store, work, history, faults>>

RenameTemp(c) ==
    /\ At(c, "rename")
    /\ \/ /\ c \in temps
          /\ temps' = temps \ {c} /\ final' = BytesOf[input[c]]
          /\ Go(c, "append") /\ UNCHANGED result
       \/ c \notin temps /\ Leave(c, "failed") /\ UNCHANGED bytes
    /\ UNCHANGED <<alive, lock, store, rest, history, faults>>

(* createObject first looks for an earlier outcome of the clientOpId, and   *)
(* answers with that, whatever this call was given.                         *)
Append(c) ==
    /\ At(c, "append")
    /\ LET seen == View(c) IN
       /\ misread' = (misread \/ seen # record)
       /\ \/ seen # None /\ Leave(c, "ok")
          \/ seen = None /\ Go(c, "commit") /\ UNCHANGED result
    /\ UNCHANGED <<alive, lock, bytes, store, rest, unlinked, raced, faults>>

(* Whoever looked at the store file in the last 50 ms does not see this.    *)
Record(c) ==
    /\ record' = input[c]
    /\ blind' \in SUBSET (Procs \ {ProcOf[c]})

Commit(c) ==
    /\ At(c, "commit")
    /\ \/ record = None /\ Record(c) /\ Leave(c, "ok")
       \/ /\ record # None                             \* CasConflict
          /\ blind' = blind \ {ProcOf[c]} /\ UNCHANGED record
          /\ Leave(c, "failed")
    /\ UNCHANGED <<alive, lock, bytes, traced, rest, history, faults>>
-----------------------------------------------------------------------------
(* sweepOrphans.                                                            *)

List(s) ==
    /\ At(s, "idle") /\ alive[ProcOf[s]]
    /\ Go(s, IF View(s) = None THEN "scan" ELSE "scanTemps")
    /\ UNCHANGED <<alive, lock, bytes, store, work, history, faults>>

Scan(s) ==
    /\ pc[s] \in {"scan", "scanTemps"}
    /\ todo' = [todo EXCEPT ![s] =
                  temps \cup IF At(s, "scan") /\ final # None THEN {Final} ELSE {}]
    /\ Go(s, "next")
    /\ UNCHANGED <<alive, lock, bytes, store, input, judged, target, result, history, faults>>

(* In the order of their names: the temporary ones start with a dot.        *)
Visit(s) ==
    /\ At(s, "next")
    /\ \/ /\ todo[s] = {}
          /\ Go(s, "done") /\ Answer(s, "ok")
          /\ UNCHANGED <<todo, target>>
       \/ \E name \in todo[s] :
          /\ name = Final => todo[s] = {Final}
          /\ todo' = [todo EXCEPT ![s] = @ \ {name}]
          /\ target' = [target EXCEPT ![s] = name]
          /\ Go(s, "enter") /\ UNCHANGED result
    /\ UNCHANGED <<alive, lock, bytes, store, input, judged, history, faults>>

(* Mutant: what the listing said is not checked again under the lease.      *)
Recheck_notAgain(s) ==
    /\ At(s, "recheck")
    /\ Go(s, "trace")
    /\ UNCHANGED <<alive, lock, bytes, store, work, history, faults>>

(* sweepOrphan under the lease: is the artifact recorded by now?            *)
Recheck(s) ==
    /\ At(s, "recheck")
    /\ LET seen == View(s) IN
       IF target[s] = Final
         THEN /\ misread' = (misread \/ seen # record)
              /\ \/ seen # None /\ Leave(s, "ok")
                 \/ seen = None /\ Go(s, "trace") /\ UNCHANGED result
         ELSE Go(s, "trace") /\ UNCHANGED <<misread, result>>
    /\ UNCHANGED <<alive, lock, bytes, store, rest, unlinked, raced, faults>>

OnDisk == temps \cup IF final = None THEN {} ELSE {Final}

(* The trace is appended under the store's lock, and only once per name.    *)
Trace(s) ==
    /\ At(s, "trace")
    /\ \/ /\ target[s] \in OnDisk
          /\ traced' = traced \cup {target[s]}
          /\ blind' = blind \ {ProcOf[s]}
          /\ Go(s, "unlink") /\ UNCHANGED result
       \/ target[s] \notin OnDisk /\ Leave(s, "ok") /\ UNCHANGED <<traced, blind>>
    /\ UNCHANGED <<alive, lock, bytes, record, rest, history, faults>>

Unlink(s) ==
    /\ At(s, "unlink")
    /\ unlinked' = unlinked \cup ({target[s]} \cap OnDisk)
    /\ temps' = temps \ {target[s]}
    /\ final' = IF target[s] = Final THEN None ELSE final
    /\ Leave(s, "ok")
    /\ UNCHANGED <<alive, lock, store, rest, raced, misread, faults>>
-----------------------------------------------------------------------------
(* Things going wrong, and time.                                            *)

(* An operation fails.  A failed write may leave its temporary file behind, *)
(* a failed commit its record, a failed acquisition or release the lock.    *)
Fail(c) ==
    /\ faults < MaxFaults /\ faults' = faults + 1
    /\ \/ /\ pc[c] \in {"enter", "mkdir", "stat", "confirmAge", "rm"} \cup Releasing \cup {"scan"}
          /\ Refused(c) /\ UNCHANGED <<temps, record, blind>>
       \/ At(c, "own") /\ Go(c, "undo") /\ UNCHANGED <<temps, record, blind, result>>
       \/ /\ pc[c] \in {"replay", "write", "rename", "append", "commit", "recheck", "trace", "unlink"}
          /\ Leave(c, "failed")
          /\ temps' \in {temps, IF At(c, "write") THEN temps \cup {c} ELSE temps}
          /\ \/ UNCHANGED <<record, blind>>
             \/ At(c, "commit") /\ record = None /\ Record(c)
    /\ UNCHANGED <<alive, lock, final, traced, rest, history>>

(* A process that dies while it removes a lock may leave the directory.     *)
Crash(p) ==
    /\ alive[p] /\ Cardinality({q \in Procs : ~alive[q]}) < MaxCrashes
    /\ alive' = [alive EXCEPT ![p] = FALSE]
    /\ LET calls == {c \in Calls : ProcOf[c] = p} IN
       /\ pc' = [c \in Calls |-> IF c \in calls THEN "done" ELSE pc[c]]
       /\ result' = [c \in Calls |->
                       IF c \in calls /\ pc[c] # "done" THEN "failed" ELSE result[c]]
       /\ \/ UNCHANGED <<owner, aged>>
          \/ /\ \E c \in calls : pc[c] \in {"rm", "undo", "relRm"}
             /\ owner' = None /\ aged' = FALSE
    /\ UNCHANGED <<root, dir, bytes, store, rest, history, faults>>

(* 30 s pass over a directory without an owner.                             *)
Age ==
    /\ dir # None /\ owner = None /\ ~aged
    /\ aged' = TRUE
    /\ raced' = (raced \/ alive[ProcOf[dir]])
    /\ UNCHANGED <<alive, root, dir, owner, bytes, store, pc, work, unlinked, misread, faults>>

(* 50 ms pass, or the process takes the store's lock for something else.    *)
SeeAgain(p) ==
    /\ p \in blind
    /\ blind' = blind \ {p}
    /\ UNCHANGED <<alive, lock, bytes, record, traced, pc, work, history, faults>>

Acquire(c) ==
    \/ Enter(c) \/ MakeDir(c) \/ Own(c) \/ Undo(c) \/ Look(c) \/ Confirm(c)
    \/ Stat(c) \/ ConfirmAge(c) \/ TakeOver(c) \/ Wait(c)

Release(c) == ReleaseRead(c) \/ ReleaseRemove(c)

Put(c) ==
    \/ StartPut(c) \/ Inspect(c) \/ Replay(c) \/ WriteTemp(c) \/ RenameTemp(c)
    \/ Append(c) \/ Commit(c)

Sweep(s) == List(s) \/ Scan(s) \/ Visit(s) \/ Recheck(s) \/ Trace(s) \/ Unlink(s)

Next ==
    \/ \E c \in Calls : Acquire(c) \/ Release(c) \/ Fail(c)
    \/ \E c \in Puts : Put(c)
    \/ \E s \in Sweeps : Sweep(s)
    \/ \E p \in Procs : Crash(p) \/ SeeAgain(p)
    \/ Age

Spec == Init /\ [][Next]_vars
-----------------------------------------------------------------------------
TypeOK ==
    /\ alive \in [Procs -> BOOLEAN] /\ blind \subseteq Procs
    /\ root \in BOOLEAN /\ aged \in BOOLEAN
    /\ dir \in Calls \cup {None} /\ owner \in Calls \cup {None}
    /\ temps \subseteq Puts /\ final \in BytesSet \cup {None}
    /\ record \in Inputs \cup {None} /\ traced \subseteq Names
    /\ pc \in [Calls -> PutSteps \cup SweepSteps]
    /\ \A c \in Puts : pc[c] \in PutSteps
    /\ \A s \in Sweeps : pc[s] \in SweepSteps
    /\ input \in [Puts -> Inputs \cup {None}] /\ judged \in [Calls -> Calls \cup {None}]
    /\ todo \in [Sweeps -> SUBSET Names] /\ target \in [Sweeps -> Names \cup {None}]
    /\ result \in [Calls -> {"ok", "failed", None}]
    /\ unlinked \subseteq Names /\ raced \in BOOLEAN /\ misread \in BOOLEAN
    /\ faults \in 0 .. MaxFaults

Holds(c) == pc[c] \in Publishing \cup Sweeping \cup Releasing

(* One call at a time works on an artifact, its token is in the lock, and   *)
(* no sweep takes the temporary file of a put at work; unless two takeovers *)
(* overlapped, each removing the lock by its name, or a live process spent  *)
(* 30 s between making the directory and signing it.                        *)
PublicationIsExclusiveUnlessRaced ==
    ~raced =>
      /\ \A c \in Calls : Holds(c) => owner = c
      /\ \A c \in Puts : At(c, "rename") => c \in temps

(* A recorded artifact has its bytes, a put that was answered ok is the one *)
(* on record, and what a sweep deleted has been traced; unless takeovers    *)
(* overlapped, or a call that held the lease was shown a store without the  *)
(* record by the stat memo of its process, which no lease refreshes.        *)
RecordedBytesStayUnlessMisread ==
    ~raced /\ ~misread =>
      /\ record # None => final = BytesOf[record]
      /\ \A c \in Puts : At(c, "done") /\ result[c] = "ok" => record = input[c]
      /\ unlinked \subseteq traced
=============================================================================
