---------------------------- MODULE MutationLock ----------------------------
(***************************************************************************)
(* The store's mutation lock, `<root>/lock`: a directory that exists while *)
(* somebody holds it, with a file owner.json inside naming the holder.     *)
(* Code: src/packages/foundation/core/store-engine/lock.ts, and the two    *)
(* places that take it, boot() (synchronous) and withLock() (asynchronous) *)
(* of engine.ts.                                                           *)
(*                                                                         *)
(* A CALL is one acquisition, with the random token acquireLock mints for  *)
(* it.  Every file-system call is a step of its own; calls of different    *)
(* processes interleave between any two of them.  One process runs one     *)
(* JavaScript thread, so a call of the same process only moves while every *)
(* other one is parked in a timer or at an await.                          *)
(*                                                                         *)
(* Left out: the value of the pid (a reused pid would merely look alive)   *)
(* and the bytes of owner.json (an empty or half-written file reads as no  *)
(* file: readLockOwner returns null for both).                             *)
(***************************************************************************)
EXTENDS Naturals, FiniteSets

CONSTANTS
    Processes,      \* process incarnations: a restarted program is a new one
    Calls,      \* acquisitions; a call is its own token
    PidOf,      \* the process each call runs in
    SyncCalls,  \* calls of acquireLock (boot); the others use acquireLockAsync
    MayCrash,   \* the processes that may be killed
    MaxPolls,   \* bound: polls before the deadline is certainly over
    NoOwner        \* no owner.json, or an unreadable one

ASSUME LockAssumption ==
    /\ PidOf \in [Calls -> Processes]
    /\ SyncCalls \subseteq Calls
    /\ MayCrash \subseteq Processes
    /\ MaxPolls \in Nat
    /\ NoOwner \notin Calls

VARIABLES
    dir,    \* the lock directory exists
    owner,  \* the token in its owner.json
    alive,  \* the processes that are running
    at,     \* where each call is
    polls,  \* how often each call has slept
    raced   \* history: two live calls were breaking a dead lock at once

lockVars == <<dir, owner, alive, at, polls, raced>>

Waiting  == {"sleep", "retry"}
Breaking == {"unlink", "rmdir"}
Holding  == {"held", "body"}
Leaving  == {"relUnlink", "relRmdir"}
Settled  == {"released", "timedOut", "threw"}
PCs == {"idle", "own", "look"} \union Waiting \union Breaking
         \union Holding \union Leaving \union Settled

Live(c) == PidOf[c] \in alive

(* Where a call lets its process do something else: before it starts, after *)
(* it is over, in the timer queue, and at the await that hands the lock to  *)
(* withLock.  The synchronous variant sleeps in Atomics.wait and has no     *)
(* await, so it blocks its process from beginning to end.                   *)
Parked(c) ==
    at[c] \in {"idle"} \union Settled
                \union (IF c \in SyncCalls THEN {} ELSE {"sleep", "held"})

CanStep(c) ==
    /\ Live(c)
    /\ \A d \in Calls \ {c} : PidOf[d] = PidOf[c] => Parked(d)

MoveTo(c, label) == at' = [at EXCEPT ![c] = label]

-----------------------------------------------------------------------------
LockInit ==
    /\ dir = FALSE
    /\ owner = NoOwner
    /\ alive = Processes
    /\ at = [c \in Calls |-> "idle"]
    /\ polls = [c \in Calls |-> 0]
    /\ raced = FALSE

(* mkdirSync: atomic; EEXIST sends the call to readLockOwner.               *)
Mkdir(c) ==
    /\ dir' = TRUE
    /\ MoveTo(c, IF dir THEN "look" ELSE "own")
    /\ UNCHANGED <<owner, alive, polls, raced>>

Begin(c) == at[c] = "idle" /\ CanStep(c) /\ Mkdir(c)
Retry(c) == at[c] \in Waiting /\ CanStep(c) /\ Mkdir(c)

(* writeFileSync(owner.json).  If the directory vanished in between this    *)
(* fails with ENOENT, which is not EEXIST and is rethrown.                  *)
WriteOwner(c) ==
    /\ at[c] = "own" /\ CanStep(c)
    /\ IF dir THEN owner' = c /\ MoveTo(c, "held")
              ELSE owner' = owner /\ MoveTo(c, "threw")
    /\ UNCHANGED <<dir, alive, polls, raced>>

(* readLockOwner and isPidAlive: only a readable owner that is provably     *)
(* gone makes the lock breakable.                                           *)
(* Mutant: a null owner, mid-acquisition, is taken for a dead one.          *)
OwnerIsDead_nullIsDead == owner # NoOwner => PidOf[owner] \notin alive

OwnerIsDead == owner # NoOwner /\ PidOf[owner] \notin alive

FindDead(c) ==
    /\ at[c] = "look" /\ CanStep(c)
    /\ OwnerIsDead
    /\ MoveTo(c, "unlink")
    /\ raced' = (raced \/ \E d \in Calls \ {c} : Live(d) /\ at[d] \in Breaking)
    /\ UNCHANGED <<dir, owner, alive, polls>>

(* Mutant: the loop sleeps without ever comparing the clock.                *)
FindBusy_noDeadline(c) ==
    /\ at[c] = "look" /\ CanStep(c)
    /\ ~OwnerIsDead
    /\ MoveTo(c, "sleep")
    /\ UNCHANGED <<dir, owner, alive, polls, raced>>

(* Mutant: the loop polls on after its last poll.                           *)
FindBusy_pollsOn(c) ==
    /\ at[c] = "look" /\ CanStep(c)
    /\ ~OwnerIsDead
    /\ polls' = [polls EXCEPT ![c] = @ + 1]
    /\ MoveTo(c, "sleep")
    /\ UNCHANGED <<dir, owner, alive, raced>>

(* 'busy' before the deadline: sleep and poll again.                        *)
FindBusy(c) ==
    /\ at[c] = "look" /\ CanStep(c)
    /\ ~OwnerIsDead
    /\ polls[c] < MaxPolls
    /\ polls' = [polls EXCEPT ![c] = @ + 1]
    /\ MoveTo(c, "sleep")
    /\ UNCHANGED <<dir, owner, alive, raced>>

(* 'busy' at or after the deadline: LockTimeout.  How long a poll really    *)
(* takes is not known, so the deadline may be over at any of them.          *)
TimeOut(c) ==
    /\ at[c] = "look" /\ CanStep(c)
    /\ ~OwnerIsDead
    /\ MoveTo(c, "timedOut")
    /\ UNCHANGED <<dir, owner, alive, polls, raced>>

(* rmSync(recursive, force) is two file-system calls: it unlinks what is in *)
(* the directory, then removes the directory.  A vanished entry is ignored  *)
(* (force); a directory that was filled again in between is not (ENOTEMPTY).*)
Unlink(c, next) ==
    /\ owner' = NoOwner
    /\ MoveTo(c, next)
    /\ UNCHANGED <<dir, alive, polls, raced>>

Rmdir(c, next) ==
    /\ IF dir /\ owner # NoOwner
         THEN dir' = dir /\ MoveTo(c, "threw")
         ELSE dir' = FALSE /\ MoveTo(c, next)
    /\ UNCHANGED <<owner, alive, polls, raced>>

(* The takeover; afterwards tryAcquire answers 'retry', which loops without *)
(* sleeping and without looking at the deadline.                            *)
BreakUnlink(c) == at[c] = "unlink" /\ CanStep(c) /\ Unlink(c, "rmdir")
BreakRmdir(c)  == at[c] = "rmdir" /\ CanStep(c) /\ Rmdir(c, "retry")

(* withLock resumes after its await and runs its body.                      *)
Enter(c) ==
    /\ at[c] = "held" /\ CanStep(c)
    /\ MoveTo(c, "body")
    /\ UNCHANGED <<dir, owner, alive, polls, raced>>

(* releaseLock: a token that is no longer the recorded one leaves the lock  *)
(* alone.                                                                   *)
ReleaseRead(c) ==
    /\ at[c] = "body" /\ CanStep(c)
    /\ MoveTo(c, IF owner = c THEN "relUnlink" ELSE "released")
    /\ UNCHANGED <<dir, owner, alive, polls, raced>>

ReleaseUnlink(c) == at[c] = "relUnlink" /\ CanStep(c) /\ Unlink(c, "relRmdir")
ReleaseRmdir(c)  == at[c] = "relRmdir" /\ CanStep(c) /\ Rmdir(c, "released")

(* A process is killed wherever it is; what it left on disk stays.          *)
Kill(p) ==
    /\ p \in MayCrash \intersect alive
    /\ alive' = alive \ {p}
    /\ UNCHANGED <<dir, owner, at, polls, raced>>

(* Nothing left to do: every call is over or died with its process.         *)
Finished ==
    /\ \A c \in Calls : Live(c) => at[c] \in Settled
    /\ UNCHANGED lockVars

LockStep(c) ==
    \/ Retry(c) \/ WriteOwner(c)
    \/ FindDead(c) \/ FindBusy(c) \/ TimeOut(c)
    \/ BreakUnlink(c) \/ BreakRmdir(c)
    \/ Enter(c) \/ ReleaseRead(c) \/ ReleaseUnlink(c) \/ ReleaseRmdir(c)

LockNext ==
    \/ \E c \in Calls : Begin(c) \/ LockStep(c)
    \/ \E p \in Processes : Kill(p)
    \/ Finished

LockSpec == LockInit /\ [][LockNext]_lockVars

(* A running process keeps running its timers and its thread.  Nobody has   *)
(* to call acquireLock, and nobody has to crash.                            *)
FairLockSpec == LockSpec /\ \A c \in Calls : WF_lockVars(LockStep(c))

-----------------------------------------------------------------------------
LockTypeOK ==
    /\ dir \in BOOLEAN
    /\ owner \in Calls \union {NoOwner}
    /\ alive \subseteq Processes
    /\ at \in [Calls -> PCs]
    /\ polls \in [Calls -> 0 .. MaxPolls]
    /\ raced \in BOOLEAN

Holders == {c \in Calls : Live(c) /\ at[c] \in Holding}

(* At most one running call has been told it holds the lock.                *)
MutualExclusion == \A c, d \in Holders : c = d

(* ... and this survives every crash, at every instant, as long as no two   *)
(* survivors were removing a dead holder's lock at the same time.  It needs *)
(* all of: mkdir as the only way in, null owners read as alive, pid         *)
(* liveness, and a release that only removes its own lock.                  *)
ExclusionUnlessRaced == raced \/ MutualExclusion

(* acquireLock answers a lock or LockTimeout, and releaseLock returns: no   *)
(* call meets the raw ENOENT/ENOTEMPTY of a lock removed under its feet,    *)
(* with the same exception.                                                 *)
NoForeignError == raced \/ \A c \in Calls : at[c] # "threw"

(* "Never infinite block": a call that started is answered, one way or the  *)
(* other, unless its process is killed.                                     *)
EveryCallSettles ==
    \A c \in Calls :
        at[c] # "idle" ~> (at[c] \in Settled \/ ~Live(c))
=============================================================================
