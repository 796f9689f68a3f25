----------------------------- MODULE RuntimeHost -----------------------------
(***************************************************************************)
(* The runtime host of src/packages/agent-runtime: the OS single-instance  *)
(* lease (adapters/file-lease.ts), the durable epochs (core/epochs.ts) and *)
(* the ensure, stop and shutdown of core/compose.ts that hold them         *)
(* together.                                                               *)
(*                                                                         *)
(* Every file-system call and every store operation is a step of its own.  *)
(* Within one process an ensure and a stop or shutdown may be under way at *)
(* the same time; concurrent ensures share one attempt.  A process may die *)
(* anywhere, and its pid may be given to a later one.                      *)
(*                                                                         *)
(* Abstracted: the order of startedAt is the order of creation; store      *)
(* reads are fresh (the 50 ms stat memo is in StoreEngine); all            *)
(* capabilities recover as one; the census, live sessions and their        *)
(* stopping; a lock file that cannot be parsed; the two calls of a release *)
(* (read, unlink) are one.  An epoch record has version 1 exactly while it *)
(* is active, so a compare-and-set on that version tests its state.        *)
(***************************************************************************)
EXTENDS Integers, Sequences, FiniteSets

CONSTANTS
    Hosts,      \* processes that run a runtime host, each booted at most once
    PidOf,      \* their process ids; a later process may reuse one
    MaxEpochs,  \* bound: epochs ever created
    MaxFaults,  \* bound: store operations and recoveries that fail
    MaxStops,   \* bound: stops and shutdowns that are requested
    None

ASSUME HostAssumption ==
    /\ \A h \in Hosts : PidOf[h] # None
    /\ MaxEpochs \in Nat /\ MaxFaults \in Nat /\ MaxStops \in Nat

VARIABLES
    started, alive, \* hosts that have booted, hosts that are running
    lock,           \* the pid that runtime/runtime.lock names
    holding,        \* the lease's memory of having claimed it
    epochs,         \* the epoch records, oldest first
    owned,          \* the epoch a host believes to be its own, 0 for none
    ensure,         \* the step of the ensure that is under way
    seen,           \* the epoch it has found or minted, not yet adopted
    todo,           \* epochs its advance has yet to supersede
    stop, stopping, \* the step of a stop or shutdown; the epoch it settles
    recovered,      \* history: <<host, epoch>>, recovery ran to its end
    ensured,        \* history: <<host, epoch>>, a caller was told it is owned
    mishaps,        \* history: what went wrong so far
    stops, faults

lease == <<lock, holding>>
attempt == <<ensure, seen, todo>>
stopper == <<stop, stopping>>
told == <<recovered, ensured>>
vars == <<started, alive, lock, holding, epochs, owned, ensure, seen, todo, stop, stopping,
          recovered, ensured, mishaps, stops, faults>>

Pids == {PidOf[h] : h \in Hosts}
EnsureSteps == {"idle", "unlink", "claim", "observe", "lookup", "list", "supersede",
                "create", "adopt", "own", "recover"}
Mishaps == {"unlinked", "crossed", "stopped", "halfway"}
StopSteps == {"idle", "settle", "release", "shutSettle", "shutRelease"}

ActiveEpochs == {e \in 1 .. Len(epochs) : epochs[e].state = "active"}

(* EpochStore.active: the newest one wins, 0 for none.                      *)
Active ==
    IF ActiveEpochs = {} THEN 0
    ELSE CHOOSE e \in ActiveEpochs : \A f \in ActiveEpochs : f <= e

PidAlive(pid) == \E h \in alive : PidOf[h] = pid
Mine(h) == lock = PidOf[h]

(* fence.assertActive: what lets a host mutate.                             *)
HeldByThisProcess(h) == holding[h] /\ Mine(h)
Fenced(h) == h \in alive /\ HeldByThisProcess(h) /\ owned[h] # 0

Init ==
    /\ started = {} /\ alive = {}
    /\ lock = None
    /\ holding = [h \in Hosts |-> FALSE]
    /\ epochs = << >>
    /\ owned = [h \in Hosts |-> 0]
    /\ ensure = [h \in Hosts |-> "idle"]
    /\ seen = [h \in Hosts |-> 0]
    /\ todo = [h \in Hosts |-> {}]
    /\ stop = [h \in Hosts |-> "idle"]
    /\ stopping = [h \in Hosts |-> 0]
    /\ recovered = {} /\ ensured = {} /\ mishaps = {}
    /\ stops = 0 /\ faults = 0

-----------------------------------------------------------------------------
(* Processes.                                                               *)

Boot(h) ==
    /\ h \notin started /\ ~PidAlive(PidOf[h])
    /\ started' = started \union {h} /\ alive' = alive \union {h}
    /\ UNCHANGED <<lease, epochs, owned, attempt, stopper, told, mishaps, stops, faults>>

At(h, step) == h \in alive /\ ensure[h] = step
Goto(h, step) == ensure' = [ensure EXCEPT ![h] = step]
Holds(h, b) == holding' = [holding EXCEPT ![h] = b]
Sees(h, e) == seen' = [seen EXCEPT ![h] = e]
Owns(h, e) == owned' = [owned EXCEPT ![h] = e]
Done(h) == Goto(h, "idle") /\ Sees(h, 0) /\ todo' = [todo EXCEPT ![h] = {}]
StopGoto(h, step) == stop' = [stop EXCEPT ![h] = step]
Stopped(h) == StopGoto(h, "idle") /\ stopping' = [stopping EXCEPT ![h] = 0]
Suffers(condition, mishap) ==
    mishaps' = IF condition THEN mishaps \union {mishap} ELSE mishaps

(* The process and all its memory are gone; the lock and the store remain.  *)
Crash(h) ==
    /\ h \in alive
    /\ alive' = alive \ {h}
    /\ Holds(h, FALSE) /\ Owns(h, 0) /\ Done(h) /\ Stopped(h)
    /\ UNCHANGED <<started, lock, epochs, told, mishaps, stops, faults>>

(* What an ensure never changes.                                            *)
SameWorld == UNCHANGED <<started, alive, stopper, stops>>

-----------------------------------------------------------------------------
(* InstanceLease.acquire.                                                   *)

(* Mutant: a dead holder keeps its lock.                                    *)
HolderIsGone_never(h) == FALSE

HolderIsGone(h) == lock # None /\ ~Mine(h) /\ ~PidAlive(lock)

Ensure(h) ==
    /\ At(h, "idle")
    /\ \/ Mine(h) /\ Holds(h, TRUE) /\ Goto(h, "lookup")
       \/ lock = None /\ Goto(h, "claim") /\ UNCHANGED holding
       \/ HolderIsGone(h) /\ Goto(h, "unlink") /\ UNCHANGED holding
       \/ lock # None /\ ~Mine(h) /\ ~HolderIsGone(h) /\ Holds(h, FALSE) /\ Goto(h, "observe")
    /\ SameWorld
    /\ UNCHANGED <<lock, epochs, owned, seen, todo, told, mishaps, faults>>

(* The debris is removed by name: it may be another host's lock by now.     *)
Unlink(h) ==
    /\ At(h, "unlink")
    /\ Suffers(lock # None /\ PidAlive(lock), "unlinked")
    /\ lock' = None
    /\ Goto(h, "claim")
    /\ SameWorld
    /\ UNCHANGED <<holding, epochs, owned, seen, todo, told, faults>>

NameIsFree == lock = None

Claim(h) ==
    /\ At(h, "claim")
    /\ IF NameIsFree
         THEN lock' = PidOf[h] /\ Holds(h, TRUE) /\ Goto(h, "lookup")
         ELSE lock' = lock /\ Holds(h, FALSE) /\ Goto(h, "observe")
    /\ SameWorld
    /\ UNCHANGED <<epochs, owned, seen, todo, told, mishaps, faults>>

-----------------------------------------------------------------------------
(* takeOverOrObserve, once the lease has answered.                          *)

Observe(h) ==
    /\ At(h, "observe")
    /\ IF Active = 0 THEN owned' = owned ELSE Owns(h, 0)
    /\ Done(h)
    /\ SameWorld
    /\ UNCHANGED <<lease, epochs, told, mishaps, faults>>

IsOurs(h, e) == e # 0 /\ epochs[e].pid = PidOf[h]

Lookup(h) ==
    /\ At(h, "lookup")
    /\ IF IsOurs(h, Active)
         THEN Sees(h, Active) /\ Goto(h, "adopt")
         ELSE seen' = seen /\ Goto(h, "list")
    /\ SameWorld
    /\ UNCHANGED <<lease, epochs, owned, todo, told, mishaps, faults>>

(* Already ours: "ensure is idempotent and does NOT re-run recovery".       *)
Adopt(h) ==
    /\ At(h, "adopt")
    /\ Owns(h, seen[h])
    /\ ensured' = ensured \union {<<h, seen[h]>>}
    /\ Suffers(stop[h] # "idle", "crossed")
    /\ Done(h)
    /\ SameWorld
    /\ UNCHANGED <<lease, epochs, recovered, faults>>

(* EpochStore.advance: read every epoch, supersede the active ones, create. *)
List(h) ==
    /\ At(h, "list")
    /\ todo' = [todo EXCEPT ![h] = ActiveEpochs]
    /\ Goto(h, "supersede")
    /\ SameWorld
    /\ UNCHANGED <<lease, epochs, owned, seen, told, mishaps, faults>>

(* Mutant: an epoch is settled without comparing its version.               *)
CasHolds_blind(e) == TRUE

CasHolds(e) == epochs[e].state = "active"

(* Mutant: settling an epoch removes its record.                            *)
SettledAs_removed(e, state) == SubSeq(epochs, 1, e - 1)

SettledAs(e, state) == [epochs EXCEPT ![e].state = state]

Oldest(s) == CHOOSE e \in s : \A f \in s : e <= f

(* A losing compare-and-set ends the ensure with its error.                 *)
Supersede(h) ==
    /\ At(h, "supersede") /\ todo[h] # {}
    /\ LET e == Oldest(todo[h]) IN
       IF CasHolds(e)
         THEN /\ epochs' = SettledAs(e, "stale")
              /\ todo' = [todo EXCEPT ![h] = @ \ {e}]
              /\ UNCHANGED <<ensure, seen>>
         ELSE Done(h) /\ epochs' = epochs
    /\ SameWorld
    /\ UNCHANGED <<lease, owned, told, mishaps, faults>>

NewEpoch(h) == Append(epochs, [pid |-> PidOf[h], state |-> "active"])

(* Mutant: the new epoch is created before the old ones are superseded.     *)
Create_first(h) ==
    /\ At(h, "supersede")
    /\ Len(epochs) < MaxEpochs
    /\ epochs' = NewEpoch(h)
    /\ Sees(h, Len(epochs'))
    /\ Goto(h, "own")
    /\ SameWorld
    /\ UNCHANGED <<lease, owned, todo, told, mishaps, faults>>

Create(h) ==
    /\ At(h, "supersede") /\ todo[h] = {}
    /\ Len(epochs) < MaxEpochs
    /\ epochs' = NewEpoch(h)
    /\ Sees(h, Len(epochs'))
    /\ Goto(h, "own")
    /\ SameWorld
    /\ UNCHANGED <<lease, owned, todo, told, mishaps, faults>>

Own(h) ==
    /\ At(h, "own")
    /\ Owns(h, seen[h])
    /\ Suffers(stop[h] # "idle", "crossed")
    /\ Goto(h, "recover")
    /\ SameWorld
    /\ UNCHANGED <<lease, epochs, seen, todo, told, faults>>

(* Mutant: the host answers before recovery has run.                        *)
Recover_later(h) ==
    /\ At(h, "recover")
    /\ ensured' = ensured \union {<<h, seen[h]>>}
    /\ Done(h)
    /\ SameWorld
    /\ UNCHANGED <<lease, epochs, owned, recovered, mishaps, faults>>

(* recoverInto the epoch that advance has returned, whatever became of it.  *)
Recover(h) ==
    /\ At(h, "recover")
    /\ recovered' = recovered \union {<<h, seen[h]>>}
    /\ ensured' = ensured \union {<<h, seen[h]>>}
    /\ Done(h)
    /\ SameWorld
    /\ UNCHANGED <<lease, epochs, owned, mishaps, faults>>

(* A store operation or a recovery fails and the ensure ends with its       *)
(* error; a write may have reached the store all the same.                  *)
EnsureFails(h) ==
    /\ h \in alive /\ ensure[h] \in {"observe", "lookup", "list", "supersede", "recover"}
    /\ faults < MaxFaults /\ faults' = faults + 1
    /\ \/ epochs' = epochs /\ Suffers(ensure[h] = "recover", "halfway")
       \/ /\ ensure[h] = "supersede" /\ todo[h] # {} /\ CasHolds(Oldest(todo[h]))
          /\ epochs' = SettledAs(Oldest(todo[h]), "stale") /\ mishaps' = mishaps
       \/ /\ ensure[h] = "supersede" /\ todo[h] = {} /\ Len(epochs) < MaxEpochs
          /\ epochs' = NewEpoch(h) /\ Suffers(TRUE, "halfway")
    /\ Done(h)
    /\ SameWorld
    /\ UNCHANGED <<lease, owned, told>>

-----------------------------------------------------------------------------
(* requestRuntimeStop and shutdown.                                         *)

BeginStop(h) ==
    /\ h \in alive /\ stop[h] = "idle"
    /\ stops < MaxStops /\ stops' = stops + 1
    /\ stopping' = [stopping EXCEPT ![h] = owned[h]]

RequestStop(h) ==
    /\ BeginStop(h) /\ Fenced(h)
    /\ StopGoto(h, "settle")
    /\ UNCHANGED <<started, alive, lease, epochs, owned, attempt, told, mishaps, faults>>

Shutdown(h) ==
    /\ BeginStop(h)
    /\ StopGoto(h, IF owned[h] = 0 THEN "shutRelease" ELSE "shutSettle")
    /\ Owns(h, 0)
    /\ UNCHANGED <<started, alive, lease, epochs, attempt, told, mishaps, faults>>

(* A stop that loses the compare-and-set fails and changes nothing; a       *)
(* shutdown goes on regardless.                                             *)
SettleStopped(h) ==
    /\ h \in alive /\ stop[h] \in {"settle", "shutSettle"}
    /\ LET e == stopping[h] IN
       /\ epochs' = IF CasHolds(e) THEN SettledAs(e, "stopped") ELSE epochs
       /\ \/ stop[h] = "shutSettle" /\ StopGoto(h, "shutRelease") /\ stopping' = stopping
          \/ stop[h] = "settle" /\ CasHolds(e) /\ StopGoto(h, "release") /\ stopping' = stopping
          \/ stop[h] = "settle" /\ ~CasHolds(e) /\ Stopped(h)
    /\ UNCHANGED <<started, alive, lease, owned, attempt, told, mishaps, stops, faults>>

SettleFails(h) ==
    /\ h \in alive /\ stop[h] \in {"settle", "shutSettle"}
    /\ faults < MaxFaults /\ faults' = faults + 1
    /\ \/ epochs' = epochs /\ mishaps' = mishaps
       \/ /\ CasHolds(stopping[h]) /\ epochs' = SettledAs(stopping[h], "stopped")
          /\ Suffers(stop[h] = "settle", "stopped")
    /\ IF stop[h] = "settle" THEN Stopped(h) ELSE StopGoto(h, "shutRelease") /\ stopping' = stopping
    /\ UNCHANGED <<started, alive, lease, owned, attempt, told, stops>>

MayUnlink(h) == holding[h] /\ Mine(h)

(* release, after a stop has also forgotten the epoch.                      *)
Release(h) ==
    /\ h \in alive /\ stop[h] \in {"release", "shutRelease"}
    /\ IF stop[h] = "release" THEN Owns(h, 0) ELSE owned' = owned
    /\ lock' = IF MayUnlink(h) THEN None ELSE lock
    /\ Suffers(MayUnlink(h) /\ ensure[h] # "idle", "crossed")
    /\ Holds(h, FALSE)
    /\ Stopped(h)
    /\ UNCHANGED <<started, alive, epochs, attempt, told, stops, faults>>

-----------------------------------------------------------------------------
(* An ensure that has begun.                                                *)
EnsureGoesOn(h) ==
    \/ Unlink(h) \/ Claim(h) \/ Observe(h) \/ Lookup(h) \/ Adopt(h)
    \/ List(h) \/ Supersede(h) \/ Create(h) \/ Own(h) \/ Recover(h)

EnsureStep(h) == Ensure(h) \/ EnsureGoesOn(h)

StopStep(h) == SettleStopped(h) \/ Release(h)

Next == \E h \in Hosts :
    \/ Boot(h) \/ Crash(h)
    \/ EnsureStep(h) \/ EnsureFails(h)
    \/ RequestStop(h) \/ Shutdown(h) \/ StopStep(h) \/ SettleFails(h)

Spec == Init /\ [][Next]_vars

(* What has begun goes on.  Nothing makes a host ask for its runtime: serve  *)
(* does so once, and after that only a caller of b3.runtime.ensure.         *)
FairSpec == Spec /\ \A h \in Hosts :
    WF_vars(EnsureGoesOn(h)) /\ WF_vars(StopStep(h))

-----------------------------------------------------------------------------
TypeOK ==
    /\ alive \subseteq started /\ started \subseteq Hosts
    /\ lock \in Pids \union {None}
    /\ holding \in [Hosts -> BOOLEAN]
    /\ epochs \in Seq([pid : Pids, state : {"active", "stale", "stopped"}])
    /\ owned \in [Hosts -> 0 .. Len(epochs)]
    /\ ensure \in [Hosts -> EnsureSteps]
    /\ seen \in [Hosts -> 0 .. Len(epochs)]
    /\ todo \in [Hosts -> SUBSET (1 .. Len(epochs))]
    /\ stop \in [Hosts -> StopSteps]
    /\ stopping \in [Hosts -> 0 .. Len(epochs)]
    /\ recovered \subseteq Hosts \X (1 .. Len(epochs))
    /\ ensured \subseteq Hosts \X (1 .. Len(epochs))
    /\ mishaps \subseteq Mishaps
    /\ stops \in Nat /\ faults \in Nat

(* "Two hosts racing on the same store cannot both end up believing they    *)
(* are current".  At most one epoch is active, as long as no host has       *)
(* removed a living host's lock as debris and none gave up its lease while  *)
(* its own ensure was under way.                                            *)
OneActiveEpoch == \A e, f \in ActiveEpochs : e = f

OneActiveEpochUnlessRaced == OneActiveEpoch \/ mishaps \intersect {"unlinked", "crossed"} # {}

(* A host whose fence is open, and that is not being stopped, mutates under *)
(* the epoch that is active in the store; besides the two races, a stop     *)
(* that failed although its write landed leaves the fence open.             *)
FenceIsCurrent ==
    \A h \in Hosts : Fenced(h) /\ stop[h] = "idle" => owned[h] \in ActiveEpochs

FenceIsCurrentUnlessRaced ==
    FenceIsCurrent \/ mishaps \intersect {"unlinked", "crossed", "stopped"} # {}

(* One runtime at a time, in the store and in the processes.                *)
OneHostRulesUnlessRaced == OneActiveEpochUnlessRaced /\ FenceIsCurrentUnlessRaced

(* "Reconcile honestly after a restart": a caller that is told this process *)
(* owns the runtime can rely on recovery having run, in this process, into  *)
(* the epoch it was told of.  It holds for processes whose pid was never    *)
(* used before, as long as no ensure failed between the new epoch and the   *)
(* end of recovery: after that the next ensure answers "already ours".      *)
EnsuredIsRecoveredUnlessHalfway ==
    \/ "halfway" \in mishaps
    \/ \A p \in ensured : p \in recovered
                       \/ \E h \in started \ {p[1]} : PidOf[h] = PidOf[p[1]]

(* An epoch that was superseded or stopped stays what it became.            *)
SettledOnce ==
    [][\A e \in 1 .. Len(epochs) :
          epochs[e].state # "active" => epochs'[e] = epochs[e]]_vars

(* Its callers' part: a host that is running and idle is asked once more.   *)
EveryHostIsAskedAgain == \A h \in Hosts : WF_vars(Ensure(h))

(* As long as some host keeps running and callers go on asking, the machine *)
(* has a runtime again and again: a crash, a failed advance or a stop never *)
(* leaves a lease that no ensure can take over, or an ensure that cannot    *)
(* give its owner an epoch.  Without those callers it is not promised: a    *)
(* host that observes does not notice that the holder has died.             *)
ServedIfAsked ==
    EveryHostIsAskedAgain =>
        \A h \in Hosts : <>[](h \in alive) => []<>(\E g \in Hosts : Fenced(g))
=============================================================================
