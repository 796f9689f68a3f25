-------------------------- MODULE RuntimeHostProofs --------------------------
(* The runtime host for any number of processes, epochs, stops and faults:  *)
(* one active epoch, a fence that is current and a recovery that has run,   *)
(* except after the mishaps that the specification records.                 *)
EXTENDS RuntimeHost, TLAPS, WellFoundedInduction

(* The steps of an ensure whose host has the lease.                         *)
Locked == {"lookup", "list", "supersede", "adopt", "own", "recover"}

(* A stop or shutdown knows the epoch it settles, and an ensure the epoch   *)
(* of this pid that it adopts or recovers into.                             *)
StopNamed ==
    \A h \in Hosts : stop[h] \in {"settle", "shutSettle"} => stopping[h] # 0

Sighted ==
    \A h \in Hosts : ensure[h] \in {"adopt", "own", "recover"} => IsOurs(h, seen[h])

TInv == TypeOK /\ StopNamed /\ Sighted

(* Pids of running processes are distinct.                                  *)
PidsAreDistinct == \A g, h \in alive : PidOf[g] = PidOf[h] => g = h

(* An ensure that advances the epoch holds the lease all the while, and has *)
(* every active epoch on its list.                                          *)
LeaseWhileAdvancing ==
    \A h \in Hosts : ensure[h] \in Locked => h \in alive /\ Mine(h) /\ holding[h]

AllListed == \A h \in Hosts : ensure[h] = "supersede" => ActiveEpochs \subseteq todo[h]

Exclusive == OneActiveEpoch /\ LeaseWhileAdvancing /\ AllListed

(* An epoch that is owned or being stopped belongs to the lease holder ...  *)
OwnerHasLease ==
    \A h \in Hosts :
       /\ owned[h] # 0 => h \in alive /\ Mine(h) /\ IsOurs(h, owned[h])
       /\ stopping[h] # 0 => h \in alive /\ Mine(h) /\ IsOurs(h, stopping[h])

(* ... is active until a stop has settled it, as is the one about to be     *)
(* adopted, and is never superseded by its own owner.                       *)
OwnedIsActive ==
    \A h \in Hosts :
       /\ owned[h] # 0 => owned[h] \in ActiveEpochs \/ stop[h] = "release"
       /\ stop[h] = "settle" => stopping[h] \in ActiveEpochs
       /\ stop[h] \in {"shutSettle", "shutRelease"} => owned[h] = 0
       /\ ensure[h] \in {"adopt", "own"} =>
             seen[h] \in ActiveEpochs \/ stop[h] \in {"release", "shutRelease"}
       /\ ensure[h] \in {"list", "supersede", "own"} =>
             (owned[h] = 0 \/ stop[h] = "release") /\ stop[h] # "settle"

Current == OwnerHasLease /\ OwnedIsActive

Raced == mishaps \cap {"unlinked", "crossed"} # {}
Lost == mishaps \cap {"unlinked", "crossed", "stopped"} # {}

IInv == /\ TInv /\ PidsAreDistinct
        /\ Raced \/ Exclusive
        /\ Lost \/ Current

(* Every epoch is one of a process that has run.  Without a twin of the same *)
(* pid that process is this one, and recovery into the epoch has run, is     *)
(* about to, or has failed.                                                  *)
HasTwin(h) == \E g \in started \ {h} : PidOf[g] = PidOf[h]

Minted ==
    \A h \in alive : \A e \in 1 .. Len(epochs) :
       epochs[e].pid = PidOf[h] =>
          \/ HasTwin(h)
          \/ <<h, e>> \in recovered
          \/ ensure[h] \in {"own", "recover"} /\ seen[h] = e

Attributed == \A e \in 1 .. Len(epochs) : \E g \in started : PidOf[g] = epochs[e].pid

RInv == Attributed /\ ("halfway" \in mishaps \/ (Minted /\ EnsuredIsRecoveredUnlessHalfway))

EpochRecord == [pid : Pids, state : {"active", "stale", "stopped"}]

-----------------------------------------------------------------------------
(* Numbers: a bounded set that is not empty has a least and a greatest.     *)

LEMMA MinExists ==
    ASSUME NEW S \in SUBSET Nat, S # {}
    PROVE  \E x \in S : \A y \in S : x <= y
<1>. DEFINE R == {ss \in Nat \X Nat : ss[1] < ss[2]}
<1>1. IsWellFoundedOn(R, Nat)
  BY NatLessThanWellFounded DEF OpToRel
<1>2. PICK x \in S : \A y \in S : ~ (<<y, x>> \in R)
  <2>. HIDE DEF R
  <2>. QED  BY <1>1, WFMin
<1>3. ASSUME NEW y \in S PROVE x <= y
  <2>1. ~ (<<y, x>> \in {ss \in Nat \X Nat : ss[1] < ss[2]})
    BY <1>2
  <2>2. ~ (y < x)
    BY <2>1
  <2>. QED  BY <2>2
<1>. QED  BY <1>3

LEMMA MaxExists ==
    ASSUME NEW n \in Nat, NEW S \in SUBSET (1 .. n), S # {}
    PROVE  \E x \in S : \A y \in S : y <= x
<1>. DEFINE T == {n - e : e \in S}
<1>1. T \in SUBSET Nat
  <2>1. \A e \in S : n - e \in Nat
    OBVIOUS
  <2>. QED  BY <2>1
<1>2. T # {}
  OBVIOUS
<1>3. PICK x \in T : \A y \in T : x <= y
  <2>. HIDE DEF T
  <2>. QED  BY <1>1, <1>2, MinExists
<1>4. PICK e \in S : x = n - e
  OBVIOUS
<1>5. ASSUME NEW y \in S PROVE y <= e
  <2>1. n - e <= n - y
    BY <1>3, <1>4
  <2>. QED  BY <2>1
<1>. QED  BY <1>5

(* The newest active epoch, when there is one, is one of them.              *)
LEMMA ActiveIsActive ==
    ASSUME epochs \in Seq(EpochRecord)
    PROVE  /\ Active \in 0 .. Len(epochs)
           /\ Active # 0 => Active \in ActiveEpochs
           /\ Active = 0 <=> ActiveEpochs = {}
<1>1. Len(epochs) \in Nat
  OBVIOUS
<1>2. ActiveEpochs \in SUBSET (1 .. Len(epochs))
  BY DEF ActiveEpochs
<1>3. CASE ActiveEpochs = {}
  BY <1>1, <1>3 DEF Active
<1>4. CASE ActiveEpochs # {}
  <2>1. \E e \in ActiveEpochs : \A f \in ActiveEpochs : f <= e
    BY <1>1, <1>2, <1>4, MaxExists
  <2>2. Active \in ActiveEpochs
    BY <2>1, <1>4 DEF Active
  <2>. QED  BY <1>1, <1>2, <1>4, <2>2
<1>. QED  BY <1>3, <1>4

(* The epoch that is superseded next is on the list.                        *)
LEMMA OldestIsListed ==
    ASSUME TypeOK, NEW h \in Hosts, todo[h] # {}
    PROVE  Oldest(todo[h]) \in todo[h] /\ Oldest(todo[h]) \in 1 .. Len(epochs)
<1>1. todo[h] \in SUBSET (1 .. Len(epochs))
  BY DEF TypeOK
<1>2. todo[h] \in SUBSET Nat
  BY <1>1
<1>3. \E e \in todo[h] : \A f \in todo[h] : e <= f
  BY <1>2, MinExists
<1>4. Oldest(todo[h]) \in todo[h]
  BY <1>3 DEF Oldest
<1>. QED  BY <1>1, <1>4

-----------------------------------------------------------------------------
(* The epoch records: settling one and minting one.                         *)

LEMMA Settling ==
    ASSUME epochs \in Seq(EpochRecord), NEW e \in 1 .. Len(epochs),
           NEW s \in {"stale", "stopped"}
    PROVE  /\ SettledAs(e, s) \in Seq(EpochRecord)
           /\ Len(SettledAs(e, s)) = Len(epochs)
           /\ \A f \in 1 .. Len(epochs) :
                 /\ SettledAs(e, s)[f].pid = epochs[f].pid
                 /\ f # e => SettledAs(e, s)[f] = epochs[f]
           /\ SettledAs(e, s)[e].state = s
<1>1. \A f \in 1 .. Len(epochs) : epochs[f] \in EpochRecord
  OBVIOUS
<1>2. [epochs[e] EXCEPT !.state = s] \in EpochRecord
  BY <1>1 DEF EpochRecord
<1>3. SettledAs(e, s) = [epochs EXCEPT ![e] = [epochs[e] EXCEPT !.state = s]]
  BY DEF SettledAs
<1>4. SettledAs(e, s) \in Seq(EpochRecord) /\ Len(SettledAs(e, s)) = Len(epochs)
  BY <1>2, <1>3
<1>5. \A f \in 1 .. Len(epochs) :
        SettledAs(e, s)[f] = IF f = e THEN [epochs[e] EXCEPT !.state = s] ELSE epochs[f]
  BY <1>3
<1>6. [epochs[e] EXCEPT !.state = s].pid = epochs[e].pid
      /\ [epochs[e] EXCEPT !.state = s].state = s
  BY <1>1 DEF EpochRecord
<1>. QED  BY <1>4, <1>5, <1>6

LEMMA Minting ==
    ASSUME epochs \in Seq(EpochRecord), NEW h \in Hosts
    PROVE  /\ NewEpoch(h) \in Seq(EpochRecord)
           /\ Len(NewEpoch(h)) = Len(epochs) + 1
           /\ \A f \in 1 .. Len(epochs) : NewEpoch(h)[f] = epochs[f]
           /\ NewEpoch(h)[Len(epochs) + 1] = [pid |-> PidOf[h], state |-> "active"]
<1>1. [pid |-> PidOf[h], state |-> "active"] \in EpochRecord
  BY DEF EpochRecord, Pids
<1>. QED  BY <1>1 DEF NewEpoch

-----------------------------------------------------------------------------
(* What an ensure finds and what a step does to the epochs.                 *)

EpochsMove ==
    /\ epochs' \in Seq(EpochRecord) /\ Len(epochs) <= Len(epochs')
    /\ \A e \in 1 .. Len(epochs) :
          /\ epochs'[e].pid = epochs[e].pid
          /\ epochs[e].state # "active" => epochs'[e] = epochs[e]

LEMMA SettleMoves ==
    ASSUME epochs \in Seq(EpochRecord), NEW e \in 1 .. Len(epochs), CasHolds(e),
           NEW s \in {"stale", "stopped"}, epochs' = SettledAs(e, s)
    PROVE  EpochsMove /\ Len(epochs') = Len(epochs)
<1>1. /\ epochs' \in Seq(EpochRecord) /\ Len(epochs') = Len(epochs)
      /\ \A f \in 1 .. Len(epochs) :
            epochs'[f].pid = epochs[f].pid /\ (f # e => epochs'[f] = epochs[f])
  BY Settling
<1>2. epochs[e].state = "active"
  BY DEF CasHolds
<1>. QED  BY <1>1, <1>2 DEF EpochsMove

LEMMA MintMoves ==
    ASSUME epochs \in Seq(EpochRecord), NEW h \in Hosts, epochs' = NewEpoch(h)
    PROVE  EpochsMove /\ Len(epochs') = Len(epochs) + 1
<1>1. /\ epochs' \in Seq(EpochRecord) /\ Len(epochs') = Len(epochs) + 1
      /\ \A f \in 1 .. Len(epochs) : epochs'[f] = epochs[f]
  BY Minting
<1>2. Len(epochs) \in Nat
  OBVIOUS
<1>. QED  BY <1>1, <1>2 DEF EpochsMove

LEMMA StandStill ==
    ASSUME epochs \in Seq(EpochRecord), UNCHANGED epochs
    PROVE  EpochsMove /\ Len(epochs') = Len(epochs)
  BY DEF EpochsMove

(* Whatever happens, records are only appended or settled once.             *)
LEMMA EpochsOnlyMove ==
    ASSUME TInv, [Next]_vars
    PROVE  EpochsMove
<1>. USE DEF TInv, TypeOK
<1>1. epochs \in Seq(EpochRecord) /\ Len(epochs) \in Nat
  BY DEF EpochRecord
<1>2. ASSUME NEW h \in Hosts, Supersede(h) PROVE EpochsMove
  <2>1. Oldest(todo[h]) \in 1 .. Len(epochs)
    BY <1>2, OldestIsListed DEF Supersede
  <2>. QED  BY <1>1, <1>2, <2>1, SettleMoves, StandStill DEF Supersede
<1>3. ASSUME NEW h \in Hosts, Create(h) PROVE EpochsMove
  BY <1>1, <1>3, MintMoves DEF Create
<1>4. ASSUME NEW h \in Hosts, EnsureFails(h) PROVE EpochsMove
  <2>1. todo[h] # {} => Oldest(todo[h]) \in 1 .. Len(epochs)
    BY OldestIsListed
  <2>. QED  BY <1>1, <1>4, <2>1, SettleMoves, MintMoves, StandStill DEF EnsureFails
<1>5. ASSUME NEW h \in Hosts, SettleStopped(h) \/ SettleFails(h) PROVE EpochsMove
  <2>1. stopping[h] \in 1 .. Len(epochs)
    BY <1>1, <1>5 DEF SettleStopped, SettleFails, StopNamed
  <2>. QED  BY <1>1, <1>5, <2>1, SettleMoves, StandStill DEF SettleStopped, SettleFails
<1>6. ASSUME UNCHANGED epochs PROVE EpochsMove
  BY <1>1, <1>6, StandStill
<1>. QED
  BY <1>2, <1>3, <1>4, <1>5, <1>6
  DEF Next, vars, EnsureStep, EnsureGoesOn, StopStep, Boot, Crash, RequestStop, Shutdown, BeginStop, Ensure,
      Unlink, Claim, Observe, Lookup, Adopt, List, Own, Recover, Release, lease

-----------------------------------------------------------------------------
(* Type correctness.                                                        *)

LEMMA TypeInit == Init => TInv
<1>. SUFFICES ASSUME Init PROVE TInv
  OBVIOUS
<1>. USE DEF Init
<1>1. epochs \in Seq([pid : Pids, state : {"active", "stale", "stopped"}]) /\ Len(epochs) = 0
  OBVIOUS
<1>2. holding \in [Hosts -> BOOLEAN]
  OBVIOUS
<1>3. /\ ensure \in [Hosts -> EnsureSteps] /\ stop \in [Hosts -> StopSteps]
      /\ owned \in [Hosts -> 0 .. 0] /\ seen \in [Hosts -> 0 .. 0]
      /\ stopping \in [Hosts -> 0 .. 0] /\ todo \in [Hosts -> SUBSET (1 .. 0)]
  BY DEF EnsureSteps, StopSteps
<1>4. StopNamed /\ Sighted
  BY DEF StopNamed, Sighted
<1>5. TypeOK
  BY <1>1, <1>2, <1>3 DEF TypeOK, Mishaps
<1>. QED  BY <1>4, <1>5 DEF TInv

(* The steps that leave the epochs alone.                                   *)
LEMMA TypeOfLeaseSteps ==
    ASSUME TInv, NEW h \in Hosts,
           Boot(h) \/ Crash(h) \/ Ensure(h) \/ Unlink(h) \/ Claim(h) \/ Observe(h)
    PROVE  TInv'
<1>. USE DEF TInv, TypeOK, StopNamed, Sighted, IsOurs, EnsureSteps, StopSteps, Mishaps, Pids, At,
             Goto, Holds, Sees, Owns, Done, StopGoto, Stopped, Suffers, SameWorld, lease, told,
             attempt, stopper
<1>. Len(epochs) \in Nat
  OBVIOUS
<1>1. CASE Boot(h)
  BY <1>1 DEF Boot
<1>2. CASE Crash(h)
  <2>1. TypeOK'
    <3>1. alive' \subseteq started' /\ started' \subseteq Hosts /\ holding' \in [Hosts -> BOOLEAN]
      BY <1>2 DEF Crash
    <3>2. owned' \in [Hosts -> 0 .. Len(epochs')] /\ seen' \in [Hosts -> 0 .. Len(epochs')]
      BY <1>2 DEF Crash
    <3>3. stopping' \in [Hosts -> 0 .. Len(epochs')] /\ stop' \in [Hosts -> StopSteps]
      BY <1>2 DEF Crash
    <3>4. ensure' \in [Hosts -> EnsureSteps]
      BY <1>2 DEF Crash
    <3>5. todo' \in [Hosts -> SUBSET (1 .. Len(epochs'))]
      BY <1>2 DEF Crash
    <3>. HIDE DEF EnsureSteps, StopSteps
    <3>. QED  BY <1>2, <3>1, <3>2, <3>3, <3>4, <3>5 DEF Crash
  <2>2. StopNamed'
    BY <1>2 DEF Crash
  <2>3. Sighted'
    BY <1>2 DEF Crash
  <2>. QED  BY <2>1, <2>2, <2>3
<1>3. CASE Ensure(h)
  BY <1>3 DEF Ensure
<1>4. CASE Unlink(h)
  BY <1>4 DEF Unlink
<1>5. CASE Claim(h)
  <2>1. /\ lock' = lock \/ lock' = PidOf[h]
        /\ \E b \in BOOLEAN, step \in {"lookup", "observe"} :
              /\ holding' = [holding EXCEPT ![h] = b]
              /\ ensure' = [ensure EXCEPT ![h] = step]
    BY <1>5, Zenon DEF Claim
  <2>2. /\ UNCHANGED <<epochs, owned, seen, todo, mishaps, faults, recovered, ensured>>
        /\ UNCHANGED <<started, alive, stop, stopping, stops>>
    BY <1>5, Zenon DEF Claim
  <2>3. holding' \in [Hosts -> BOOLEAN]
    BY <2>1, Zenon
  <2>4. ensure' \in [Hosts -> EnsureSteps]
    BY <2>1
  <2>5. lock' \in Pids \union {None}
    BY <2>1
  <2>6. StopNamed' /\ Sighted'
    BY <2>1, <2>2
  <2>. HIDE DEF EnsureSteps, StopSteps, Mishaps, Pids
  <2>7. TypeOK'
    BY <2>2, <2>3, <2>4, <2>5
  <2>. QED  BY <2>6, <2>7
<1>6. CASE Observe(h)
  <2>1. /\ owned' = owned \/ owned' = [owned EXCEPT ![h] = 0]
        /\ ensure' = [ensure EXCEPT ![h] = "idle"]
        /\ seen' = [seen EXCEPT ![h] = 0] /\ todo' = [todo EXCEPT ![h] = {}]
    BY <1>6, Zenon DEF Observe
  <2>2. /\ UNCHANGED <<epochs, mishaps, faults, lock, holding, recovered, ensured>>
        /\ UNCHANGED <<started, alive, stop, stopping, stops>>
    BY <1>6, Zenon DEF Observe
  <2>. HIDE DEF EnsureSteps, StopSteps, Mishaps, Pids
  <2>3. owned' \in [Hosts -> 0 .. Len(epochs')]
    <3>1. owned \in [Hosts -> 0 .. Len(epochs)] /\ 0 \in 0 .. Len(epochs)
      OBVIOUS
    <3>. HIDE DEF TInv, TypeOK, StopNamed, Sighted, IsOurs
    <3>. QED  BY <2>1, <2>2, <3>1
  <2>4. ensure' \in [Hosts -> EnsureSteps]
    BY <2>1 DEF EnsureSteps
  <2>5. seen' \in [Hosts -> 0 .. Len(epochs')] /\ todo' \in [Hosts -> SUBSET (1 .. Len(epochs'))]
    BY <2>1, <2>2
  <2>6. StopNamed' /\ Sighted'
    BY <2>1, <2>2
  <2>7. TypeOK'
    BY <2>2, <2>3, <2>4, <2>5
  <2>. QED  BY <2>6, <2>7
<1>. QED  BY <1>1, <1>2, <1>3, <1>4, <1>5, <1>6

LEMMA TypeOfEpochReads ==
    ASSUME TInv, NEW h \in Hosts, Lookup(h) \/ Adopt(h) \/ List(h) \/ Own(h) \/ Recover(h)
    PROVE  TInv'
<1>. USE DEF TInv, TypeOK, StopNamed, Sighted, IsOurs, EnsureSteps, StopSteps, Mishaps, Pids, At,
             Goto, Holds, Sees, Owns, Done, StopGoto, Stopped, Suffers, SameWorld, lease, told,
             attempt, stopper
<1>. Len(epochs) \in Nat
  OBVIOUS
<1>1. CASE Lookup(h)
  <2>1. Active \in 0 .. Len(epochs)
    BY ActiveIsActive DEF EpochRecord
  <2>2. /\ UNCHANGED <<epochs, faults, mishaps, lock, holding, owned, todo, recovered, ensured>>
        /\ UNCHANGED <<started, alive, stop, stopping, stops>>
    BY <1>1, Zenon DEF Lookup
  <2>3. \/ /\ IsOurs(h, Active)
           /\ seen' = [seen EXCEPT ![h] = Active]
           /\ ensure' = [ensure EXCEPT ![h] = "adopt"]
        \/ seen' = seen /\ ensure' = [ensure EXCEPT ![h] = "list"]
    BY <1>1 DEF Lookup
  <2>4. seen' \in [Hosts -> 0 .. Len(epochs')]
    BY <2>1, <2>2, <2>3
  <2>5. ensure' \in [Hosts -> EnsureSteps]
    BY <2>3
  <2>6. Sighted' /\ StopNamed'
    BY <2>1, <2>2, <2>3
  <2>. HIDE DEF EnsureSteps, StopSteps, Mishaps, Pids
  <2>7. TypeOK'
    BY <2>2, <2>4, <2>5
  <2>. QED  BY <2>6, <2>7
<1>2. CASE Adopt(h)
  <2>1. /\ owned' = [owned EXCEPT ![h] = seen[h]]
        /\ ensured' = ensured \union {<<h, seen[h]>>}
        /\ ensure' = [ensure EXCEPT ![h] = "idle"]
        /\ seen' = [seen EXCEPT ![h] = 0] /\ todo' = [todo EXCEPT ![h] = {}]
    BY <1>2, Zenon DEF Adopt
  <2>2. /\ UNCHANGED <<epochs, faults, lock, holding, recovered>>
        /\ UNCHANGED <<started, alive, stop, stopping, stops>>
    BY <1>2, Zenon DEF Adopt
  <2>3. mishaps' \subseteq Mishaps
    BY <1>2 DEF Adopt
  <2>4. ensured' \subseteq Hosts \X (1 .. Len(epochs'))
    <3>1. seen[h] \in 1 .. Len(epochs)
      BY <1>2 DEF Adopt
    <3>. QED  BY <2>1, <2>2, <3>1
  <2>5. owned' \in [Hosts -> 0 .. Len(epochs')] /\ seen' \in [Hosts -> 0 .. Len(epochs')]
    BY <2>1, <2>2
  <2>6. ensure' \in [Hosts -> EnsureSteps] /\ todo' \in [Hosts -> SUBSET (1 .. Len(epochs'))]
    BY <2>1, <2>2
  <2>7. StopNamed' /\ Sighted'
    BY <2>1, <2>2
  <2>. HIDE DEF EnsureSteps, StopSteps, Mishaps, Pids
  <2>8. TypeOK'
    BY <2>2, <2>3, <2>4, <2>5, <2>6
  <2>. QED  BY <2>7, <2>8
<1>3. CASE List(h)
  BY <1>3 DEF List, ActiveEpochs
<1>4. CASE Own(h)
  <2>1. TypeOK'
    BY <1>4 DEF Own
  <2>2. StopNamed'
    BY <1>4 DEF Own
  <2>3. Sighted'
    BY <1>4 DEF Own
  <2>. QED  BY <2>1, <2>2, <2>3
<1>5. CASE Recover(h)
  <2>1. TypeOK'
    BY <1>5 DEF Recover
  <2>2. StopNamed'
    BY <1>5 DEF Recover
  <2>3. Sighted'
    BY <1>5 DEF Recover
  <2>. QED  BY <2>1, <2>2, <2>3
<1>. QED  BY <1>1, <1>2, <1>3, <1>4, <1>5

LEMMA TypeOfStops ==
    ASSUME TInv, NEW h \in Hosts, RequestStop(h) \/ Shutdown(h) \/ Release(h)
    PROVE  TInv'
<1>. USE DEF TInv, TypeOK, StopNamed, Sighted, IsOurs, EnsureSteps, StopSteps, Mishaps, Pids, At,
             Goto, Holds, Sees, Owns, Done, StopGoto, Stopped, Suffers, SameWorld, lease, told,
             attempt, stopper
<1>. Len(epochs) \in Nat
  OBVIOUS
<1>1. CASE RequestStop(h)
  BY <1>1, SMTT(40) DEF RequestStop, BeginStop, Fenced
<1>2. CASE Shutdown(h)
  BY <1>2, SMTT(40) DEF Shutdown, BeginStop
<1>3. CASE Release(h)
  <2>1. TypeOK'
    BY <1>3 DEF Release
  <2>2. StopNamed'
    BY <1>3 DEF Release
  <2>3. Sighted'
    BY <1>3 DEF Release
  <2>. QED  BY <2>1, <2>2, <2>3
<1>. QED  BY <1>1, <1>2, <1>3

(* What referred to an epoch still does when the epochs have moved on.      *)
LEMMA Widening ==
    ASSUME TInv, EpochsMove
    PROVE  /\ epochs' \in Seq([pid : Pids, state : {"active", "stale", "stopped"}])
           /\ owned \in [Hosts -> 0 .. Len(epochs')] /\ seen \in [Hosts -> 0 .. Len(epochs')]
           /\ stopping \in [Hosts -> 0 .. Len(epochs')]
           /\ todo \in [Hosts -> SUBSET (1 .. Len(epochs'))]
           /\ recovered \subseteq Hosts \X (1 .. Len(epochs'))
           /\ ensured \subseteq Hosts \X (1 .. Len(epochs'))
           /\ \A h \in Hosts, e \in 0 .. Len(epochs) : IsOurs(h, e) => IsOurs(h, e)'
<1>. USE DEF TInv, TypeOK, EpochsMove
<1>1. Len(epochs) \in Nat /\ Len(epochs') \in Nat /\ Len(epochs) <= Len(epochs')
  OBVIOUS
<1>2. epochs' \in Seq([pid : Pids, state : {"active", "stale", "stopped"}])
  BY DEF EpochRecord
<1>3. 0 .. Len(epochs) \subseteq 0 .. Len(epochs') /\ 1 .. Len(epochs) \subseteq 1 .. Len(epochs')
  BY <1>1
<1>4. owned \in [Hosts -> 0 .. Len(epochs')] /\ seen \in [Hosts -> 0 .. Len(epochs')]
  BY <1>3
<1>5. stopping \in [Hosts -> 0 .. Len(epochs')] /\ todo \in [Hosts -> SUBSET (1 .. Len(epochs'))]
  BY <1>3
<1>6. /\ recovered \subseteq Hosts \X (1 .. Len(epochs'))
      /\ ensured \subseteq Hosts \X (1 .. Len(epochs'))
  BY <1>3
<1>7. ASSUME NEW h \in Hosts, NEW e \in 0 .. Len(epochs), IsOurs(h, e) PROVE IsOurs(h, e)'
  BY <1>1, <1>7 DEF IsOurs
<1>. QED  BY <1>2, <1>4, <1>5, <1>6, <1>7

(* The steps that write epochs: what they leave alone, and what becomes of  *)
(* the rest.                                                                *)
WritesOf(h) ==
    /\ UNCHANGED <<started, alive, lease, owned, told, stops>>
    /\ faults' \in {faults, faults + 1} /\ mishaps' \subseteq mishaps \union {"halfway", "stopped"}
    /\ \E s \in {ensure[h], "idle", "own"} : ensure' = [ensure EXCEPT ![h] = s]
    /\ \E n \in {seen[h], 0, Len(epochs')} : seen' = [seen EXCEPT ![h] = n]
    /\ \E es \in SUBSET todo[h] : todo' = [todo EXCEPT ![h] = es]
    /\ \E s \in {stop[h], "idle", "release", "shutRelease"} : stop' = [stop EXCEPT ![h] = s]
    /\ \E n \in {stopping[h], 0} : stopping' = [stopping EXCEPT ![h] = n]

LEMMA EnsureWrites ==
    ASSUME TInv, NEW h \in Hosts, Supersede(h) \/ Create(h) \/ EnsureFails(h)
    PROVE  WritesOf(h)
<1>. USE DEF At, Goto, Holds, Sees, Owns, Done, StopGoto, Stopped, Suffers, SameWorld, lease, told,
             attempt, stopper, Supersede, Create, EnsureFails
<1>1. UNCHANGED <<started, alive, lease, owned, told, stops, stop, stopping>>
  OBVIOUS
<1>2. faults' \in {faults, faults + 1} /\ mishaps' \subseteq mishaps \union {"halfway", "stopped"}
  OBVIOUS
<1>3. \E s \in {ensure[h], "idle", "own"} : ensure' = [ensure EXCEPT ![h] = s]
  BY DEF TInv, TypeOK
<1>4. \E n \in {seen[h], 0, Len(epochs')} : seen' = [seen EXCEPT ![h] = n]
  BY DEF TInv, TypeOK
<1>5. \E es \in SUBSET todo[h] : todo' = [todo EXCEPT ![h] = es]
  BY DEF TInv, TypeOK
<1>6. stop' = [stop EXCEPT ![h] = stop[h]] /\ stopping' = [stopping EXCEPT ![h] = stopping[h]]
  BY <1>1 DEF TInv, TypeOK
<1>. QED  BY <1>1, <1>2, <1>3, <1>4, <1>5, <1>6 DEF WritesOf

LEMMA StopWrites ==
    ASSUME TInv, NEW h \in Hosts, SettleStopped(h) \/ SettleFails(h)
    PROVE  WritesOf(h)
<1>. USE DEF Holds, Sees, Owns, StopGoto, Stopped, Suffers, lease, told,
             attempt, stopper, SettleStopped, SettleFails
<1>1. UNCHANGED <<started, alive, lease, owned, told, stops, ensure, seen, todo>>
  OBVIOUS
<1>2. faults' \in {faults, faults + 1} /\ mishaps' \subseteq mishaps \union {"halfway", "stopped"}
  OBVIOUS
<1>3. ensure' = [ensure EXCEPT ![h] = ensure[h]] /\ seen' = [seen EXCEPT ![h] = seen[h]]
  BY <1>1 DEF TInv, TypeOK
<1>4. todo' = [todo EXCEPT ![h] = todo[h]]
  BY <1>1 DEF TInv, TypeOK
<1>5. \E s \in {stop[h], "idle", "release", "shutRelease"} : stop' = [stop EXCEPT ![h] = s]
  BY DEF TInv, TypeOK
<1>6. \E n \in {stopping[h], 0} : stopping' = [stopping EXCEPT ![h] = n]
  BY DEF TInv, TypeOK
<1>. QED  BY <1>1, <1>2, <1>3, <1>4, <1>5, <1>6 DEF WritesOf

LEMMA TypeOfWrites ==
    ASSUME TInv, NEW h \in Hosts, EpochsMove, WritesOf(h)
    PROVE  TypeOK'
<1>. DEFINE N == Len(epochs')
<1>1. /\ epochs' \in Seq([pid : Pids, state : {"active", "stale", "stopped"}])
      /\ owned \in [Hosts -> 0 .. N] /\ seen \in [Hosts -> 0 .. N]
      /\ stopping \in [Hosts -> 0 .. N] /\ todo \in [Hosts -> SUBSET (1 .. N)]
      /\ recovered \subseteq Hosts \X (1 .. N) /\ ensured \subseteq Hosts \X (1 .. N)
      /\ N \in Nat
  BY Widening
<1>. HIDE DEF N
<1>. N = Len(epochs')
  BY DEF N
<1>2. /\ alive' \subseteq started' /\ started' \subseteq Hosts
      /\ lock' \in Pids \union {None} /\ holding' \in [Hosts -> BOOLEAN]
  BY DEF WritesOf, TInv, TypeOK, lease
<1>3. stops' \in Nat /\ faults' \in Nat /\ mishaps' \subseteq Mishaps
  BY DEF WritesOf, TInv, TypeOK, Mishaps
<1>4. ensure' \in [Hosts -> EnsureSteps]
  <2>1. ensure \in [Hosts -> EnsureSteps]
    BY DEF TInv, TypeOK
  <2>2. \A s \in {ensure[h], "idle", "own"} : s \in EnsureSteps
    BY <2>1 DEF EnsureSteps
  <2>. QED  BY <2>1, <2>2 DEF WritesOf
<1>5. stop' \in [Hosts -> StopSteps]
  <2>1. stop \in [Hosts -> StopSteps]
    BY DEF TInv, TypeOK
  <2>2. \A s \in {stop[h], "idle", "release", "shutRelease"} : s \in StopSteps
    BY <2>1 DEF StopSteps
  <2>. QED  BY <2>1, <2>2 DEF WritesOf
<1>6. owned' \in [Hosts -> 0 .. N] /\ seen' \in [Hosts -> 0 .. N]
  <2>1. \A n \in {seen[h], 0, Len(epochs')} : n \in 0 .. N
    BY <1>1
  <2>. QED  BY <1>1, <2>1 DEF WritesOf
<1>7. stopping' \in [Hosts -> 0 .. N]
  <2>1. \A n \in {stopping[h], 0} : n \in 0 .. N
    BY <1>1
  <2>. QED  BY <1>1, <2>1 DEF WritesOf
<1>8. todo' \in [Hosts -> SUBSET (1 .. N)]
  <2>1. \A es \in SUBSET todo[h] : es \in SUBSET (1 .. N)
    BY <1>1
  <2>. QED  BY <1>1, <2>1 DEF WritesOf
<1>9. recovered' \subseteq Hosts \X (1 .. N) /\ ensured' \subseteq Hosts \X (1 .. N)
  BY <1>1 DEF WritesOf, told
<1>. QED  BY <1>1, <1>2, <1>3, <1>4, <1>5, <1>6, <1>7, <1>8, <1>9 DEF TypeOK

LEMMA NamesOfWrites ==
    ASSUME TInv, NEW h \in Hosts, EpochsMove,
           Supersede(h) \/ Create(h) \/ EnsureFails(h) \/ SettleStopped(h) \/ SettleFails(h)
    PROVE  StopNamed' /\ Sighted'
<1>. USE DEF At, Goto, Holds, Sees, Owns, Done, StopGoto, Stopped, Suffers, SameWorld, lease, told,
             attempt, stopper, TInv
<1>1. /\ ensure \in [Hosts -> EnsureSteps] /\ seen \in [Hosts -> 0 .. Len(epochs)]
      /\ stop \in [Hosts -> StopSteps] /\ stopping \in [Hosts -> 0 .. Len(epochs)]
      /\ epochs \in Seq(EpochRecord) /\ Len(epochs) \in Nat
  BY DEF TypeOK, EpochRecord
<1>2. StopNamed'
  BY <1>1 DEF StopNamed, Supersede, Create, EnsureFails, SettleStopped, SettleFails
<1>3. \A g \in Hosts, e \in 1 .. Len(epochs) :
        epochs[e].pid = PidOf[g] => epochs'[e].pid = PidOf[g]
  BY DEF EpochsMove
<1>4. ASSUME NEW g \in Hosts, ensure'[g] \in {"adopt", "own", "recover"}
      PROVE  seen'[g] # 0 /\ epochs'[seen'[g]].pid = PidOf[g]
  <2>1. CASE Create(h) /\ g = h
    <3>1. epochs' = NewEpoch(h) /\ seen'[g] = Len(epochs')
      BY <1>1, <2>1 DEF Create
    <3>2. /\ Len(NewEpoch(h)) = Len(epochs) + 1
          /\ NewEpoch(h)[Len(epochs) + 1] = [pid |-> PidOf[h], state |-> "active"]
      BY <1>1, Minting
    <3>. QED  BY <1>1, <2>1, <3>1, <3>2
  <2>2. CASE ~(Create(h) /\ g = h)
    <3>1. ensure'[g] = ensure[g] /\ seen'[g] = seen[g]
      BY <1>1, <1>4, <2>2 DEF Supersede, Create, EnsureFails, SettleStopped, SettleFails
    <3>2. seen[g] \in 1 .. Len(epochs) /\ epochs[seen[g]].pid = PidOf[g]
      BY <1>1, <1>4, <3>1 DEF Sighted, IsOurs
    <3>. QED  BY <1>1, <1>3, <3>1, <3>2
  <2>. QED  BY <2>1, <2>2
<1>. QED  BY <1>2, <1>4 DEF Sighted, IsOurs

LEMMA TypeStep ==
    ASSUME TInv, [Next]_vars
    PROVE  TInv' /\ EpochsMove
<1>1. EpochsMove
  BY EpochsOnlyMove
<1>2. CASE UNCHANGED vars
  BY <1>1, <1>2 DEF vars, TInv, TypeOK, StopNamed, Sighted, IsOurs
<1>3. ASSUME NEW h \in Hosts,
             Supersede(h) \/ Create(h) \/ EnsureFails(h) \/ SettleStopped(h) \/ SettleFails(h)
      PROVE  TInv'
  <2>1. WritesOf(h)
    BY <1>3, EnsureWrites, StopWrites
  <2>. QED  BY <1>1, <1>3, <2>1, TypeOfWrites, NamesOfWrites DEF TInv
<1>4. CASE Next
  <2>. PICK h \in Hosts :
         \/ Boot(h) \/ Crash(h) \/ EnsureStep(h) \/ EnsureFails(h)
         \/ RequestStop(h) \/ Shutdown(h) \/ StopStep(h) \/ SettleFails(h)
    BY <1>4 DEF Next
  <2>. QED  BY <1>1, <1>3, TypeOfLeaseSteps, TypeOfEpochReads, TypeOfStops DEF EnsureStep, EnsureGoesOn, StopStep
<1>. QED  BY <1>1, <1>2, <1>4

-----------------------------------------------------------------------------
(* What the inductive steps share.                                          *)

LEMMA PidsStep ==
    ASSUME TInv, PidsAreDistinct, [Next]_vars
    PROVE  PidsAreDistinct'
<1>1. ASSUME NEW h \in Hosts, Boot(h) PROVE PidsAreDistinct'
  BY <1>1 DEF Boot, PidAlive, PidsAreDistinct
<1>2. ASSUME alive' \subseteq alive PROVE PidsAreDistinct'
  BY <1>2 DEF PidsAreDistinct
<1>. QED
  BY <1>1, <1>2
  DEF Next, vars, EnsureStep, EnsureGoesOn, StopStep, Crash, RequestStop, Shutdown, BeginStop, Ensure, Unlink,
      Claim, Observe, Lookup, Adopt, List, Supersede, Create, Own, Recover, EnsureFails,
      SettleStopped, SettleFails, Release, SameWorld

LEMMA MishapsStay ==
    ASSUME [Next]_vars
    PROVE  mishaps \subseteq mishaps'
  BY DEF Next, vars, EnsureStep, EnsureGoesOn, StopStep, Boot, Crash, RequestStop, Shutdown, BeginStop, Ensure,
         Unlink, Claim, Observe, Lookup, Adopt, List, Supersede, Create, Own, Recover, EnsureFails,
         SettleStopped, SettleFails, Release, SameWorld, Suffers

(* The lease names one running process.                                     *)
LEMMA SoleHolder ==
    ASSUME PidsAreDistinct, NEW g \in alive, NEW h \in alive, Mine(g), Mine(h)
    PROVE  g = h
  BY DEF PidsAreDistinct, Mine

(* Only minting makes an epoch active, and it makes one.                    *)
Mints(h) == ensure[h] = "supersede" /\ todo[h] = {} /\ h \in alive /\ epochs' = NewEpoch(h)

LEMMA ActiveShrinks ==
    ASSUME epochs \in Seq(EpochRecord), EpochsMove, Len(epochs') = Len(epochs)
    PROVE  ActiveEpochs' \subseteq ActiveEpochs
  BY DEF EpochsMove, ActiveEpochs

LEMMA ActiveGrows ==
    ASSUME epochs \in Seq(EpochRecord), NEW h \in Hosts, epochs' = NewEpoch(h)
    PROVE  ActiveEpochs' = ActiveEpochs \union {Len(epochs')}
<1>1. /\ Len(epochs) \in Nat /\ Len(epochs') = Len(epochs) + 1
      /\ \A f \in 1 .. Len(epochs) : epochs'[f] = epochs[f]
      /\ epochs'[Len(epochs')] = [pid |-> PidOf[h], state |-> "active"]
  BY Minting
<1>. QED  BY <1>1 DEF ActiveEpochs

LEMMA SettledIsGone ==
    ASSUME epochs \in Seq(EpochRecord), NEW e \in 1 .. Len(epochs), NEW s \in {"stale", "stopped"},
           epochs' = SettledAs(e, s)
    PROVE  ActiveEpochs' = ActiveEpochs \ {e}
<1>1. /\ Len(epochs') = Len(epochs)
      /\ \A f \in 1 .. Len(epochs) : f # e => epochs'[f] = epochs[f]
      /\ epochs'[e].state = s
  BY Settling
<1>. QED  BY <1>1 DEF ActiveEpochs

(* The functions of the state, without the numbers.                         *)
Shape ==
    /\ alive \subseteq Hosts
    /\ DOMAIN holding = Hosts /\ DOMAIN owned = Hosts /\ DOMAIN ensure = Hosts
    /\ DOMAIN seen = Hosts /\ DOMAIN todo = Hosts /\ DOMAIN stop = Hosts
    /\ DOMAIN stopping = Hosts

LEMMA Shaped ==
    ASSUME TInv
    PROVE  Shape /\ epochs \in Seq(EpochRecord) /\ Len(epochs) \in Nat
  BY DEF TInv, TypeOK, Shape, EpochRecord

(* What a step does to the active epochs.                                   *)
LEMMA ActiveStep ==
    ASSUME TInv, NEW h \in Hosts
    PROVE  /\ UNCHANGED epochs => ActiveEpochs' = ActiveEpochs
           /\ Supersede(h) /\ epochs' # epochs =>
                 /\ todo'[h] = todo[h] \ {Oldest(todo[h])}
                 /\ ActiveEpochs' = ActiveEpochs \ {Oldest(todo[h])}
           /\ Create(h) => Mints(h) /\ ActiveEpochs' = ActiveEpochs \union {Len(epochs')}
           /\ EnsureFails(h) =>
                 \/ UNCHANGED epochs
                 \/ /\ ensure[h] = "supersede" /\ todo[h] # {}
                    /\ ActiveEpochs' = ActiveEpochs \ {Oldest(todo[h])}
                 \/ Mints(h) /\ ActiveEpochs' = ActiveEpochs \union {Len(epochs')}
           /\ SettleStopped(h) \/ SettleFails(h) =>
                 \/ UNCHANGED epochs
                 \/ CasHolds(stopping[h]) /\ ActiveEpochs' = ActiveEpochs \ {stopping[h]}
<1>1. Shape /\ epochs \in Seq(EpochRecord) /\ Len(epochs) \in Nat
  BY Shaped
<1>2. ASSUME UNCHANGED epochs PROVE ActiveEpochs' = ActiveEpochs
  BY <1>2 DEF ActiveEpochs
<1>3. ASSUME todo[h] # {} PROVE Oldest(todo[h]) \in 1 .. Len(epochs)
  BY <1>3, OldestIsListed DEF TInv
<1>4. ASSUME Supersede(h), epochs' # epochs
      PROVE  /\ todo'[h] = todo[h] \ {Oldest(todo[h])}
             /\ ActiveEpochs' = ActiveEpochs \ {Oldest(todo[h])}
  <2>1. epochs' = SettledAs(Oldest(todo[h]), "stale") /\ todo[h] # {}
    BY <1>4 DEF Supersede
  <2>2. todo'[h] = todo[h] \ {Oldest(todo[h])}
    BY <1>1, <1>4 DEF Supersede, Shape
  <2>. QED  BY <1>1, <1>3, <2>1, <2>2, SettledIsGone
<1>5. ASSUME Create(h) PROVE Mints(h) /\ ActiveEpochs' = ActiveEpochs \union {Len(epochs')}
  <2>1. Mints(h)
    BY <1>5 DEF Create, Mints, At
  <2>. QED  BY <1>1, <2>1, ActiveGrows DEF Mints
<1>6. ASSUME EnsureFails(h)
      PROVE  \/ UNCHANGED epochs
             \/ /\ ensure[h] = "supersede" /\ todo[h] # {}
                /\ ActiveEpochs' = ActiveEpochs \ {Oldest(todo[h])}
             \/ Mints(h) /\ ActiveEpochs' = ActiveEpochs \union {Len(epochs')}
  <2>1. \/ UNCHANGED epochs
        \/ /\ ensure[h] = "supersede" /\ todo[h] # {}
           /\ epochs' = SettledAs(Oldest(todo[h]), "stale")
        \/ Mints(h)
    BY <1>6 DEF EnsureFails, Mints
  <2>. QED  BY <1>1, <1>3, <2>1, SettledIsGone, ActiveGrows DEF Mints
<1>7. ASSUME SettleStopped(h) \/ SettleFails(h)
      PROVE  \/ UNCHANGED epochs
             \/ CasHolds(stopping[h]) /\ ActiveEpochs' = ActiveEpochs \ {stopping[h]}
  <2>1. stopping[h] \in 1 .. Len(epochs)
    BY <1>7 DEF SettleStopped, SettleFails, StopNamed, TInv, TypeOK
  <2>2. UNCHANGED epochs \/ (CasHolds(stopping[h]) /\ epochs' = SettledAs(stopping[h], "stopped"))
    BY <1>7 DEF SettleStopped, SettleFails
  <2>. QED  BY <1>1, <2>1, <2>2, SettledIsGone
<1>. QED  BY <1>2, <1>4, <1>5, <1>6, <1>7

-----------------------------------------------------------------------------
(* One active epoch.                                                        *)

(* The lease of an ensure that advances the epoch is not lost.              *)
LEMMA LeaseStep ==
    ASSUME TInv, PidsAreDistinct, LeaseWhileAdvancing, [Next]_vars, ~Raced'
    PROVE  LeaseWhileAdvancing'
<1>1. Shape
  BY Shaped
<1>2. mishaps' \cap {"unlinked", "crossed"} = {}
  BY DEF Raced
<1>3. ASSUME UNCHANGED <<lock, holding>>, alive \subseteq alive',
             \A g \in Hosts : ensure'[g] \in Locked => ensure[g] \in Locked
      PROVE  LeaseWhileAdvancing'
  BY <1>3 DEF LeaseWhileAdvancing, Mine
<1>4. ASSUME NEW h \in Hosts,
             \/ Boot(h) \/ Observe(h) \/ Lookup(h) \/ Adopt(h) \/ List(h)
             \/ Supersede(h) \/ Create(h) \/ Own(h) \/ Recover(h) \/ EnsureFails(h)
             \/ RequestStop(h) \/ Shutdown(h) \/ SettleStopped(h) \/ SettleFails(h)
      PROVE  LeaseWhileAdvancing'
  <2>1. UNCHANGED <<lock, holding>> /\ alive \subseteq alive'
    BY <1>4
    DEF Boot, Observe, Lookup, Adopt, List, Supersede, Create, Own, Recover, EnsureFails,
        RequestStop, Shutdown, BeginStop, SettleStopped, SettleFails, SameWorld, lease
  <2>2. ASSUME NEW g \in Hosts, ensure'[g] \in Locked PROVE ensure[g] \in Locked
    BY <1>1, <1>4, <2>2
    DEF Boot, Observe, Lookup, Adopt, List, Supersede, Create, Own, Recover, EnsureFails,
        RequestStop, Shutdown, BeginStop, SettleStopped, SettleFails, At, Goto, Done, attempt,
        Shape, Locked
  <2>. QED  BY <1>3, <2>1, <2>2
<1>5. ASSUME NEW h \in Hosts, Crash(h) PROVE LeaseWhileAdvancing'
  BY <1>1, <1>5 DEF Crash, Holds, Done, Goto, LeaseWhileAdvancing, Mine, Locked, Shape
<1>6. ASSUME NEW h \in Hosts, Ensure(h) PROVE LeaseWhileAdvancing'
  BY <1>1, <1>6 DEF Ensure, At, Holds, Goto, SameWorld, LeaseWhileAdvancing, Mine, Locked, Shape
<1>7. ASSUME NEW h \in Hosts, Unlink(h) PROVE LeaseWhileAdvancing'
  <2>1. ~(lock # None /\ PidAlive(lock))
    BY <1>2, <1>7 DEF Unlink, Suffers
  <2>2. \A g \in Hosts : ensure[g] \notin Locked
    BY <2>1, HostAssumption DEF LeaseWhileAdvancing, Mine, PidAlive
  <2>. QED  BY <1>1, <1>7, <2>2 DEF Unlink, Goto, LeaseWhileAdvancing, Locked, Shape
<1>8. ASSUME NEW h \in Hosts, Claim(h) PROVE LeaseWhileAdvancing'
  <2>1. CASE lock = None
    <3>1. \A g \in Hosts : ensure[g] \notin Locked
      BY <2>1, HostAssumption DEF LeaseWhileAdvancing, Mine
    <3>. QED
      BY <1>1, <1>8, <2>1, <3>1
      DEF Claim, NameIsFree, At, Holds, Goto, SameWorld, LeaseWhileAdvancing, Mine, Locked, Shape
  <2>2. CASE lock # None
    BY <1>1, <1>8, <2>2
    DEF Claim, NameIsFree, At, Holds, Goto, SameWorld, LeaseWhileAdvancing, Mine, Locked, Shape
  <2>. QED  BY <2>1, <2>2
<1>9. ASSUME NEW h \in Hosts, Release(h) PROVE LeaseWhileAdvancing'
  <2>1. ASSUME NEW g \in Hosts, ensure'[g] \in Locked PROVE g \in alive' /\ Mine(g)' /\ holding'[g]
    <3>1. ensure[g] \in Locked
      BY <1>9, <2>1 DEF Release, attempt
    <3>2. g \in alive /\ Mine(g) /\ holding[g]
      BY <3>1 DEF LeaseWhileAdvancing
    <3>3. ~MayUnlink(h)
      <4>1. SUFFICES ASSUME MayUnlink(h) PROVE FALSE
        OBVIOUS
      <4>2. g = h
        BY <1>9, <3>2, <4>1, SoleHolder DEF MayUnlink, Release
      <4>. QED  BY <1>2, <1>9, <3>1, <4>1, <4>2 DEF Release, Suffers, Locked
    <3>4. g # h
      BY <3>2, <3>3 DEF MayUnlink
    <3>. QED  BY <1>1, <1>9, <3>2, <3>3, <3>4 DEF Release, Holds, Mine, Shape
  <2>. QED  BY <2>1 DEF LeaseWhileAdvancing
<1>10. CASE UNCHANGED vars
  BY <1>3, <1>10 DEF vars
<1>. QED  BY <1>4, <1>5, <1>6, <1>7, <1>8, <1>9, <1>10 DEF Next, EnsureStep, EnsureGoesOn, StopStep

(* No other host is advancing the epoch while this one does.                *)
LEMMA SoleAdvance ==
    ASSUME PidsAreDistinct, LeaseWhileAdvancing, NEW g \in Hosts, NEW h \in Hosts,
           ensure[g] \in Locked, ensure[h] \in Locked
    PROVE  g = h
  BY SoleHolder DEF LeaseWhileAdvancing

(* Its list stays complete.                                                 *)
LEMMA ListStep ==
    ASSUME TInv, PidsAreDistinct, Exclusive, [Next]_vars
    PROVE  AllListed'
<1>1. Shape
  BY Shaped
<1>2. ASSUME NEW h \in Hosts, ActiveEpochs' \subseteq ActiveEpochs,
             \A g \in Hosts : ensure'[g] = "supersede" => ensure[g] = "supersede" /\ todo'[g] = todo[g]
      PROVE  AllListed'
  BY <1>2 DEF Exclusive, AllListed
<1>3. ASSUME NEW h \in Hosts,
             \/ Boot(h) \/ Crash(h) \/ Ensure(h) \/ Unlink(h) \/ Claim(h) \/ Observe(h)
             \/ Lookup(h) \/ Adopt(h) \/ Own(h) \/ Recover(h)
             \/ RequestStop(h) \/ Shutdown(h) \/ SettleStopped(h) \/ SettleFails(h) \/ Release(h)
      PROVE  AllListed'
  <2>1. ActiveEpochs' \subseteq ActiveEpochs
    BY <1>3, ActiveStep
    DEF Boot, Crash, Ensure, Unlink, Claim, Observe, Lookup, Adopt, Own, Recover, RequestStop,
        Shutdown, BeginStop, Release
  <2>2. ASSUME NEW g \in Hosts, ensure'[g] = "supersede"
        PROVE  ensure[g] = "supersede" /\ todo'[g] = todo[g]
    BY <1>1, <1>3, <2>2
    DEF Boot, Crash, Ensure, Unlink, Claim, Observe, Lookup, Adopt, Own, Recover, RequestStop,
        Shutdown, BeginStop, SettleStopped, SettleFails, Release, At, Goto, Done, attempt, Shape
  <2>. QED  BY <1>2, <2>1, <2>2
<1>4. ASSUME NEW h \in Hosts, List(h) PROVE AllListed'
  <2>1. ActiveEpochs' = ActiveEpochs
    BY <1>4, ActiveStep DEF List
  <2>2. todo' = [todo EXCEPT ![h] = ActiveEpochs] /\ ensure' = [ensure EXCEPT ![h] = "supersede"]
    BY <1>4 DEF List, Goto
  <2>. QED  BY <1>1, <2>1, <2>2 DEF Exclusive, AllListed, Shape
<1>5. ASSUME NEW h \in Hosts, Supersede(h) PROVE AllListed'
  <2>1. CASE UNCHANGED epochs
    <3>1. ActiveEpochs' = ActiveEpochs
      BY <2>1, ActiveStep
    <3>2. todo[h] # {} => Oldest(todo[h]) \in 1 .. Len(epochs)
      BY OldestIsListed DEF TInv
    <3>3. ~CasHolds(Oldest(todo[h]))
      <4>1. SUFFICES ASSUME CasHolds(Oldest(todo[h])) PROVE FALSE
        OBVIOUS
      <4>2. epochs' = SettledAs(Oldest(todo[h]), "stale") /\ todo[h] # {}
        BY <1>5, <4>1 DEF Supersede
      <4>3. SettledAs(Oldest(todo[h]), "stale")[Oldest(todo[h])].state = "stale"
        BY <3>2, <4>2, Settling, Shaped
      <4>. QED  BY <2>1, <4>1, <4>2, <4>3 DEF CasHolds
    <3>. QED
      BY <1>1, <1>5, <3>1, <3>3 DEF Supersede, Done, Goto, Exclusive, AllListed, Shape
  <2>2. CASE epochs' # epochs
    <3>1. /\ todo'[h] = todo[h] \ {Oldest(todo[h])}
          /\ ActiveEpochs' = ActiveEpochs \ {Oldest(todo[h])}
      BY <1>5, <2>2, ActiveStep
    <3>2. ensure' = ensure /\ \A g \in Hosts \ {h} : todo'[g] = todo[g]
      BY <1>1, <1>5, <2>2 DEF Supersede, Shape
    <3>. QED  BY <3>1, <3>2 DEF Exclusive, AllListed
  <2>. QED  BY <2>1, <2>2
<1>6. ASSUME NEW h \in Hosts, Create(h) \/ EnsureFails(h) PROVE AllListed'
  <2>1. ASSUME NEW g \in Hosts, ensure'[g] = "supersede"
        PROVE  g # h /\ ensure[g] = "supersede" /\ todo'[g] = todo[g]
    BY <1>1, <1>6, <2>1 DEF Create, EnsureFails, At, Goto, Done, Shape
  <2>2. CASE Mints(h)
    <3>1. \A g \in Hosts : ensure'[g] # "supersede"
      BY <2>1, <2>2, SoleAdvance DEF Mints, Exclusive, Locked
    <3>. QED  BY <3>1 DEF AllListed
  <2>3. CASE ActiveEpochs' \subseteq ActiveEpochs
    BY <1>2, <2>1, <2>3
  <2>. QED  BY <1>6, <2>2, <2>3, ActiveStep
<1>7. CASE UNCHANGED vars
  BY <1>7 DEF vars, Exclusive, AllListed, ActiveEpochs
<1>. QED  BY <1>3, <1>4, <1>5, <1>6, <1>7 DEF Next, EnsureStep, EnsureGoesOn, StopStep

LEMMA OneActiveStep ==
    ASSUME TInv, Exclusive, [Next]_vars
    PROVE  OneActiveEpoch'
<1>1. ASSUME ActiveEpochs' \subseteq ActiveEpochs PROVE OneActiveEpoch'
  BY <1>1 DEF Exclusive, OneActiveEpoch
<1>2. ASSUME NEW h \in Hosts, Mints(h), ActiveEpochs' = ActiveEpochs \union {Len(epochs')}
      PROVE  OneActiveEpoch'
  <2>1. ActiveEpochs = {}
    BY <1>2 DEF Mints, Exclusive, AllListed
  <2>. QED  BY <1>2, <2>1 DEF OneActiveEpoch
<1>3. ASSUME NEW h \in Hosts,
             \/ Supersede(h) \/ Create(h) \/ EnsureFails(h) \/ SettleStopped(h) \/ SettleFails(h)
      PROVE  OneActiveEpoch'
  BY <1>1, <1>2, <1>3, ActiveStep
<1>4. CASE UNCHANGED epochs
  BY <1>1, <1>4 DEF ActiveEpochs
<1>. QED
  BY <1>3, <1>4
  DEF Next, vars, EnsureStep, EnsureGoesOn, StopStep, Boot, Crash, RequestStop, Shutdown, BeginStop, Ensure,
      Unlink, Claim, Observe, Lookup, Adopt, List, Own, Recover, Release, lease

LEMMA ExclusiveStep ==
    ASSUME TInv, PidsAreDistinct, Raced \/ Exclusive, [Next]_vars
    PROVE  Raced' \/ Exclusive'
<1>1. CASE Raced
  BY <1>1, MishapsStay DEF Raced
<1>2. CASE Exclusive /\ ~Raced'
  BY <1>2, LeaseStep, ListStep, OneActiveStep DEF Exclusive
<1>. QED  BY <1>1, <1>2

-----------------------------------------------------------------------------
(* The owner is current.                                                    *)

(* A running holder keeps the lease until it crashes or lets go of it.      *)
LEMMA LeaseKept ==
    ASSUME TInv, PidsAreDistinct, [Next]_vars, ~Raced', NEW g \in alive, Mine(g)
    PROVE  (g \in alive' /\ Mine(g)') \/ Crash(g) \/ Release(g)
<1>1. Shape /\ g \in Hosts
  BY Shaped DEF Shape
<1>2. ASSUME lock' = lock, alive \subseteq alive' PROVE g \in alive' /\ Mine(g)'
  BY <1>2 DEF Mine
<1>3. ASSUME NEW h \in Hosts, Crash(h) PROVE Crash(g) \/ (g \in alive' /\ Mine(g)')
  BY <1>3 DEF Crash, Mine
<1>4. ASSUME NEW h \in Hosts, Unlink(h) PROVE FALSE
  <2>1. lock # None /\ PidAlive(lock)
    BY <1>1, HostAssumption DEF Mine, PidAlive
  <2>. QED  BY <1>4, <2>1 DEF Unlink, Suffers, Raced
<1>5. ASSUME NEW h \in Hosts, Claim(h) PROVE lock' = lock /\ alive' = alive
  BY <1>1, <1>5, HostAssumption DEF Claim, NameIsFree, Mine, SameWorld
<1>6. ASSUME NEW h \in Hosts, Release(h) PROVE Release(g) \/ (g \in alive' /\ Mine(g)')
  <2>1. MayUnlink(h) => g = h
    BY <1>6, SoleHolder DEF MayUnlink, Release
  <2>. QED  BY <1>6, <2>1 DEF Release, Mine
<1>7. ASSUME UNCHANGED <<lock, alive>> PROVE g \in alive' /\ Mine(g)'
  BY <1>2, <1>7
<1>. QED
  BY <1>2, <1>3, <1>4, <1>5, <1>6, <1>7
  DEF Next, vars, EnsureStep, EnsureGoesOn, StopStep, Boot, Ensure, Observe, Lookup, Adopt, List, Supersede,
      Create, Own, Recover, EnsureFails, RequestStop, Shutdown, BeginStop, SettleStopped,
      SettleFails, SameWorld, lease

(* Where the epoch that is owned or being stopped comes from.               *)
LEMMA OwnedFrom ==
    ASSUME Shape, [Next]_vars, NEW g \in Hosts
    PROVE  /\ owned'[g] # 0 => owned'[g] = owned[g] \/ Adopt(g) \/ Own(g)
           /\ stopping'[g] # 0 => stopping'[g] \in {stopping[g], owned[g]}
<1>. USE DEF Shape, Owns, Stopped, Sees
<1>1. owned'[g] # 0 => owned'[g] = owned[g] \/ Adopt(g) \/ Own(g)
  <2>1. ASSUME NEW h \in Hosts, Adopt(h) \/ Own(h)
        PROVE  owned'[g] = owned[g] \/ Adopt(g) \/ Own(g)
    BY <2>1 DEF Adopt, Own
  <2>2. ASSUME NEW h \in Hosts, Crash(h) \/ Observe(h) \/ Shutdown(h) \/ Release(h)
        PROVE  owned'[g] \in {0, owned[g]}
    BY <2>2 DEF Crash, Observe, Shutdown, Release
  <2>. QED
    BY <2>1, <2>2
    DEF Next, vars, EnsureStep, EnsureGoesOn, StopStep, Boot, Ensure, Unlink, Claim, Lookup, List, Supersede,
        Create, Recover, EnsureFails, RequestStop, SettleStopped, SettleFails
<1>2. stopping'[g] # 0 => stopping'[g] \in {stopping[g], owned[g]}
  BY DEF Next, vars, EnsureStep, EnsureGoesOn, StopStep, Boot, Crash, Ensure, Unlink, Claim, Observe, Lookup,
         Adopt, List, Supersede, Create, Own, Recover, EnsureFails, RequestStop, Shutdown, BeginStop,
         SettleStopped, SettleFails, Release, SameWorld, stopper
<1>. QED  BY <1>1, <1>2

LEMMA OwnerStep ==
    ASSUME TInv, PidsAreDistinct, Exclusive, Current, [Next]_vars, ~Lost'
    PROVE  OwnerHasLease'
<1>1. Shape /\ epochs \in Seq(EpochRecord) /\ EpochsMove /\ ~Raced'
  BY Shaped, TypeStep DEF Lost, Raced
<1>2. ASSUME NEW g \in Hosts, NEW e \in 0 .. Len(epochs), IsOurs(g, e)
      PROVE  e # 0 /\ epochs'[e].pid = PidOf[g]
  BY <1>1, <1>2 DEF IsOurs, EpochsMove
<1>3. ASSUME NEW g \in Hosts, owned'[g] # 0
      PROVE  g \in alive' /\ Mine(g)' /\ epochs'[owned'[g]].pid = PidOf[g]
  <2>1. owned'[g] = owned[g] \/ Adopt(g) \/ Own(g)
    BY <1>1, <1>3, OwnedFrom
  <2>2. CASE Adopt(g) \/ Own(g)
    <3>1. ensure[g] \in {"adopt", "own"} /\ owned'[g] = seen[g] /\ UNCHANGED <<alive, lock>>
      BY <1>1, <2>2 DEF Adopt, Own, At, Owns, SameWorld, Shape, lease
    <3>2. g \in alive /\ Mine(g)
      BY <3>1 DEF Exclusive, LeaseWhileAdvancing, Locked
    <3>3. IsOurs(g, seen[g]) /\ seen[g] \in 0 .. Len(epochs)
      BY <3>1 DEF TInv, TypeOK, Sighted
    <3>. QED  BY <1>2, <3>1, <3>2, <3>3 DEF Mine
  <2>3. CASE owned'[g] = owned[g]
    <3>1. g \in alive /\ Mine(g) /\ IsOurs(g, owned[g]) /\ owned[g] \in 0 .. Len(epochs)
      BY <1>3, <2>3 DEF Current, OwnerHasLease, TInv, TypeOK
    <3>2. ~Crash(g)
      BY <1>1, <1>3 DEF Crash, Owns, Shape
    <3>3. ~Release(g)
      BY <1>1, <1>3, <2>3 DEF Release, Owns, Shape, Current, OwnedIsActive
    <3>. QED  BY <1>1, <1>2, <2>3, <3>1, <3>2, <3>3, LeaseKept
  <2>. QED  BY <2>1, <2>2, <2>3
<1>4. ASSUME NEW g \in Hosts, stopping'[g] # 0
      PROVE  g \in alive' /\ Mine(g)' /\ epochs'[stopping'[g]].pid = PidOf[g]
  <2>1. stopping'[g] \in {stopping[g], owned[g]}
    BY <1>1, <1>4, OwnedFrom
  <2>2. g \in alive /\ Mine(g) /\ IsOurs(g, stopping'[g]) /\ stopping'[g] \in 0 .. Len(epochs)
    BY <1>4, <2>1 DEF Current, OwnerHasLease, TInv, TypeOK
  <2>3. ~Crash(g) /\ ~Release(g)
    BY <1>1, <1>4 DEF Crash, Release, Stopped, Shape
  <2>. QED  BY <1>1, <1>2, <2>2, <2>3, LeaseKept
<1>. QED  BY <1>3, <1>4 DEF OwnerHasLease, IsOurs

(* An epoch ceases to be active at the hands of the lease holder only: it   *)
(* supersedes the epoch or settles its own.                                 *)
LEMMA ActiveLost ==
    ASSUME TInv, Exclusive, Current, [Next]_vars, NEW e \in ActiveEpochs, e \notin ActiveEpochs'
    PROVE  \E h \in Hosts :
              /\ h \in alive /\ Mine(h)
              /\ \/ ensure[h] = "supersede" /\ (Supersede(h) \/ EnsureFails(h))
                 \/ CasHolds(e) /\ e = stopping[h] /\ SettleStopped(h)
                 \/ epochs' # epochs /\ SettleFails(h)
<1>1. ActiveEpochs' # ActiveEpochs
  OBVIOUS
<1>2. epochs' # epochs
  BY <1>1 DEF ActiveEpochs
<1>3. PICK h \in Hosts :
        \/ Supersede(h) \/ Create(h) \/ EnsureFails(h) \/ SettleStopped(h) \/ SettleFails(h)
  BY <1>2
  DEF Next, vars, EnsureStep, EnsureGoesOn, StopStep, Boot, Crash, RequestStop, Shutdown, BeginStop, Ensure,
      Unlink, Claim, Observe, Lookup, Adopt, List, Own, Recover, Release, lease
<1>4. ~Create(h)
  BY ActiveStep
<1>5. CASE Supersede(h) \/ EnsureFails(h)
  <2>1. ensure[h] = "supersede"
    BY <1>2, <1>5, ActiveStep DEF Supersede, At, Mints
  <2>. QED  BY <1>5, <2>1 DEF Exclusive, LeaseWhileAdvancing, Locked
<1>6. CASE SettleStopped(h) \/ SettleFails(h)
  <2>1. stopping[h] # 0
    BY <1>6 DEF SettleStopped, SettleFails, TInv, StopNamed
  <2>2. h \in alive /\ Mine(h)
    BY <2>1 DEF Current, OwnerHasLease
  <2>3. CasHolds(stopping[h]) /\ e = stopping[h]
    BY <1>2, <1>6, ActiveStep
  <2>. QED  BY <1>2, <1>6, <2>2, <2>3
<1>. QED  BY <1>3, <1>4, <1>5, <1>6

(* It is not the epoch that another host owns, stops or adopts, and its own *)
(* host is past owning it.                                                  *)
LEMMA OwnedKept ==
    ASSUME TInv, PidsAreDistinct, Exclusive, Current, [Next]_vars, ~Lost',
           NEW g \in alive, Mine(g), NEW e \in ActiveEpochs
    PROVE  \/ e \in ActiveEpochs'
           \/ ensure[g] = "supersede"
           \/ SettleStopped(g) /\ CasHolds(stopping[g])
           \/ SettleFails(g) /\ stop[g] = "shutSettle"
<1>1. SUFFICES ASSUME e \notin ActiveEpochs'
               PROVE  \/ ensure[g] = "supersede"
                      \/ SettleStopped(g) /\ CasHolds(stopping[g])
                      \/ SettleFails(g) /\ stop[g] = "shutSettle"
  OBVIOUS
<1>2. PICK h \in Hosts :
        /\ h \in alive /\ Mine(h)
        /\ \/ ensure[h] = "supersede"
           \/ CasHolds(e) /\ e = stopping[h] /\ SettleStopped(h)
           \/ epochs' # epochs /\ SettleFails(h)
  BY <1>1, ActiveLost
<1>3. h = g
  BY <1>2, SoleHolder
<1>4. epochs' # epochs /\ SettleFails(h) => stop[h] = "shutSettle"
  BY DEF SettleFails, Suffers, Lost
<1>. QED  BY <1>2, <1>3, <1>4

(* Which steps touch the stop, and which the ensure.                        *)
LEMMA StopFrame ==
    ASSUME [Next]_vars
    PROVE  \/ UNCHANGED <<stop, stopping>>
           \/ \E h \in Hosts : \/ Crash(h) \/ RequestStop(h) \/ Shutdown(h)
                              \/ SettleStopped(h) \/ SettleFails(h) \/ Release(h)
  BY DEF Next, vars, EnsureStep, EnsureGoesOn, StopStep, Boot, Ensure, Unlink, Claim, Observe, Lookup, Adopt,
         List, Supersede, Create, Own, Recover, EnsureFails, SameWorld, stopper

LEMMA StopMoves ==
    ASSUME Shape, [Next]_vars, NEW g \in Hosts
    PROVE  \/ stop'[g] = stop[g] /\ stopping'[g] = stopping[g]
           \/ Crash(g) \/ RequestStop(g) \/ Shutdown(g)
           \/ SettleStopped(g) \/ SettleFails(g) \/ Release(g)
<1>. USE DEF Shape, StopGoto, Stopped
<1>1. ASSUME NEW h \in Hosts, h # g, Crash(h) \/ RequestStop(h) \/ Shutdown(h) \/ Release(h)
      PROVE  stop'[g] = stop[g] /\ stopping'[g] = stopping[g]
  BY <1>1 DEF Crash, RequestStop, Shutdown, BeginStop, Release
<1>2. ASSUME NEW h \in Hosts, h # g, SettleStopped(h) \/ SettleFails(h)
      PROVE  stop'[g] = stop[g] /\ stopping'[g] = stopping[g]
  BY <1>2 DEF SettleStopped, SettleFails
<1>. QED  BY <1>1, <1>2, StopFrame

LEMMA OwnedActiveStep ==
    ASSUME TInv, PidsAreDistinct, Exclusive, Current, [Next]_vars, ~Lost',
           NEW g \in Hosts, owned'[g] # 0
    PROVE  owned'[g] \in ActiveEpochs' \/ stop'[g] = "release"
<1>1. Shape /\ mishaps' \cap {"unlinked", "crossed", "stopped"} = {}
  BY Shaped DEF Lost
<1>2. CASE Adopt(g) \/ Own(g)
  <2>1. /\ ensure[g] \in {"adopt", "own"} /\ owned'[g] = seen[g]
        /\ UNCHANGED epochs /\ stop[g] = "idle"
    BY <1>1, <1>2 DEF Adopt, Own, At, Owns, Suffers, Shape
  <2>2. seen[g] \in ActiveEpochs
    BY <2>1 DEF Current, OwnedIsActive
  <2>. QED  BY <2>1, <2>2, ActiveStep
<1>3. CASE owned'[g] = owned[g]
  <2>1. g \in alive /\ Mine(g)
    BY <1>3 DEF Current, OwnerHasLease
  <2>2. ~Crash(g) /\ ~(Release(g) /\ stop[g] = "release") /\ ~Shutdown(g)
    BY <1>1 DEF Crash, Release, Shutdown, Owns, Shape
  <2>3. CASE stop[g] = "release"
    <3>1. ~RequestStop(g) /\ ~SettleStopped(g) /\ ~SettleFails(g) /\ ~Release(g)
      BY <2>2, <2>3 DEF RequestStop, BeginStop, SettleStopped, SettleFails
    <3>2. stop'[g] = stop[g]
      BY <1>1, <2>2, <3>1, StopMoves
    <3>. QED  BY <2>3, <3>2
  <2>4. CASE stop[g] # "release"
    <3>1. owned[g] \in ActiveEpochs /\ ensure[g] # "supersede" /\ stop[g] # "shutSettle"
      BY <1>3, <2>4 DEF Current, OwnedIsActive
    <3>2. SettleStopped(g) /\ CasHolds(stopping[g]) => stop'[g] = "release"
      BY <1>1, <3>1 DEF SettleStopped, StopGoto, Shape
    <3>. QED  BY <1>3, <2>1, <3>1, <3>2, OwnedKept
  <2>. QED  BY <2>3, <2>4
<1>4. owned'[g] = owned[g] \/ Adopt(g) \/ Own(g)
  BY <1>1, OwnedFrom
<1>. QED  BY <1>2, <1>3, <1>4

LEMMA StoppingActiveStep ==
    ASSUME TInv, PidsAreDistinct, Exclusive, Current, [Next]_vars, ~Lost',
           NEW g \in Hosts, stop'[g] = "settle"
    PROVE  stopping'[g] \in ActiveEpochs'
<1>1. Shape
  BY Shaped
<1>2. CASE RequestStop(g)
  <2>1. UNCHANGED epochs /\ stopping'[g] = owned[g] /\ owned[g] # 0 /\ stop[g] = "idle"
    BY <1>1, <1>2 DEF RequestStop, BeginStop, Fenced, Shape
  <2>2. owned[g] \in ActiveEpochs
    BY <2>1 DEF Current, OwnedIsActive
  <2>. QED  BY <2>1, <2>2, ActiveStep
<1>3. CASE ~RequestStop(g)
  <2>1. /\ ~Crash(g) /\ ~Shutdown(g) /\ ~SettleStopped(g) /\ ~SettleFails(g) /\ ~Release(g)
    BY <1>1 DEF Crash, Shutdown, SettleStopped, SettleFails, Release, Stopped, StopGoto, Shape
  <2>2. stop[g] = "settle" /\ stopping'[g] = stopping[g]
    BY <1>1, <1>3, <2>1, StopMoves
  <2>3. stopping[g] \in ActiveEpochs /\ ensure[g] # "supersede" /\ stopping[g] # 0
    BY <2>2 DEF Current, OwnedIsActive, TInv, StopNamed
  <2>4. g \in alive /\ Mine(g)
    BY <2>3 DEF Current, OwnerHasLease
  <2>. QED  BY <2>1, <2>2, <2>3, <2>4, OwnedKept
<1>. QED  BY <1>2, <1>3

LEMMA ShutStep ==
    ASSUME TInv, Current, [Next]_vars, ~Lost',
           NEW g \in Hosts, stop'[g] \in {"shutSettle", "shutRelease"}
    PROVE  owned'[g] = 0
<1>1. Shape /\ mishaps' \cap {"unlinked", "crossed", "stopped"} = {}
  BY Shaped DEF Lost
<1>2. SUFFICES ASSUME owned'[g] # 0 PROVE FALSE
  OBVIOUS
<1>3. ~Shutdown(g)
  BY <1>1, <1>2 DEF Shutdown, Owns, Shape
<1>4. stop[g] \in {"shutSettle", "shutRelease"}
  <2>1. ~Crash(g) /\ ~RequestStop(g) /\ ~Release(g)
    BY <1>1 DEF Crash, RequestStop, Release, StopGoto, Stopped, Shape
  <2>2. SettleStopped(g) \/ SettleFails(g) => stop[g] = "shutSettle"
    BY <1>1 DEF SettleStopped, SettleFails, StopGoto, Stopped, Shape
  <2>. QED  BY <1>1, <1>3, <2>1, <2>2, StopMoves
<1>5. owned[g] = 0
  BY <1>4 DEF Current, OwnedIsActive
<1>6. Adopt(g) \/ Own(g)
  BY <1>1, <1>2, <1>5, OwnedFrom
<1>. QED  BY <1>1, <1>4, <1>6 DEF Adopt, Own, Suffers

(* What an ensure knows when it is about to adopt, and when it advances.    *)
LEMMA SeenFrom ==
    ASSUME Shape, [Next]_vars, NEW g \in Hosts
    PROVE  /\ ensure'[g] \in {"adopt", "own"} =>
                 Lookup(g) \/ Create(g) \/ (ensure'[g] = ensure[g] /\ seen'[g] = seen[g])
           /\ ensure'[g] \in {"list", "supersede", "own"} =>
                 Lookup(g) \/ (ensure[g] \in {"list", "supersede"} \/ ensure[g] = ensure'[g])
           /\ stop[g] \in {"release", "shutRelease"} =>
                 stop'[g] = stop[g] \/ Crash(g) \/ Release(g)
<1>1. \/ ensure'[g] = ensure[g] /\ seen'[g] = seen[g]
      \/ ensure'[g] \notin {"list", "supersede", "adopt", "own"}
      \/ Lookup(g) \/ List(g) \/ Create(g)
  <2>. USE DEF Shape, At, Goto, Done, Sees, attempt
  <2>1. ASSUME NEW h \in Hosts, Crash(h) \/ Ensure(h) \/ Unlink(h) \/ Claim(h) \/ Observe(h)
        PROVE  \/ ensure'[g] = ensure[g] /\ seen'[g] = seen[g]
               \/ ensure'[g] \notin {"list", "supersede", "adopt", "own"}
    BY <2>1 DEF Crash, Ensure, Unlink, Claim, Observe
  <2>2. ASSUME NEW h \in Hosts, Adopt(h) \/ Own(h) \/ Recover(h) \/ EnsureFails(h) \/ Supersede(h)
        PROVE  \/ ensure'[g] = ensure[g] /\ seen'[g] = seen[g]
               \/ ensure'[g] \notin {"list", "supersede", "adopt", "own"}
    BY <2>2 DEF Adopt, Own, Recover, EnsureFails, Supersede
  <2>3. ASSUME NEW h \in Hosts, h # g, Lookup(h) \/ List(h) \/ Create(h)
        PROVE  ensure'[g] = ensure[g] /\ seen'[g] = seen[g]
    BY <2>3 DEF Lookup, List, Create
  <2>4. \/ UNCHANGED <<ensure, seen>>
        \/ \E h \in Hosts : \/ Crash(h) \/ Ensure(h) \/ Unlink(h) \/ Claim(h) \/ Observe(h)
                           \/ Adopt(h) \/ Own(h) \/ Recover(h) \/ EnsureFails(h) \/ Supersede(h)
                           \/ Lookup(h) \/ List(h) \/ Create(h)
    BY DEF Next, vars, EnsureStep, EnsureGoesOn, StopStep, Boot, RequestStop, Shutdown, SettleStopped,
           SettleFails, Release
  <2>. QED  BY <2>1, <2>2, <2>3, <2>4
<1>2. ensure'[g] \in {"list", "supersede", "own"} =>
        Lookup(g) \/ (ensure[g] \in {"list", "supersede"} \/ ensure[g] = ensure'[g])
  BY <1>1 DEF List, Create, At
<1>3. List(g) => ensure'[g] = "supersede"
  BY DEF List, Goto, Shape
<1>4. stop[g] \in {"release", "shutRelease"} =>
        stop'[g] = stop[g] \/ Crash(g) \/ Release(g)
  BY StopMoves DEF RequestStop, Shutdown, BeginStop, SettleStopped, SettleFails
<1>. QED  BY <1>1, <1>2, <1>3, <1>4

(* A lease is not given up from under the host's own ensure.                *)
LEMMA NotReleased ==
    ASSUME Exclusive, ~Lost', NEW g \in Hosts, ensure[g] \in Locked
    PROVE  ~Release(g)
<1>1. MayUnlink(g)
  BY DEF Exclusive, LeaseWhileAdvancing, MayUnlink
<1>. QED  BY <1>1 DEF Release, Suffers, Lost, Locked

LEMMA SeenActiveStep ==
    ASSUME TInv, PidsAreDistinct, Exclusive, Current, [Next]_vars, ~Lost',
           NEW g \in Hosts, ensure'[g] \in {"adopt", "own"}
    PROVE  seen'[g] \in ActiveEpochs' \/ stop'[g] \in {"release", "shutRelease"}
<1>1. Shape /\ epochs \in Seq(EpochRecord)
  BY Shaped
<1>2. CASE Lookup(g)
  <2>1. seen'[g] = Active /\ Active # 0 /\ UNCHANGED epochs
    BY <1>1, <1>2 DEF Lookup, Goto, Sees, IsOurs, Shape
  <2>. QED  BY <1>1, <2>1, ActiveIsActive, ActiveStep
<1>3. CASE Create(g)
  BY <1>1, <1>3, ActiveStep DEF Create, Sees, Shape
<1>4. CASE ensure'[g] = ensure[g] /\ seen'[g] = seen[g]
  <2>1. g \in alive /\ Mine(g) /\ ensure[g] # "supersede" /\ ensure[g] \in Locked
    BY <1>4 DEF Exclusive, LeaseWhileAdvancing, Locked
  <2>2. ~Crash(g) /\ ~Release(g)
    BY <1>1, <1>4, <2>1, NotReleased DEF Crash, Done, Goto, Shape
  <2>3. CASE stop[g] \in {"release", "shutRelease"}
    BY <1>1, <2>2, <2>3, SeenFrom
  <2>4. CASE stop[g] \notin {"release", "shutRelease"}
    <3>1. seen[g] \in ActiveEpochs
      BY <1>4, <2>4 DEF Current, OwnedIsActive
    <3>2. SettleStopped(g) /\ CasHolds(stopping[g]) => stop'[g] \in {"release", "shutRelease"}
      BY <1>1 DEF SettleStopped, StopGoto, Shape
    <3>3. SettleFails(g) /\ stop[g] = "shutSettle" => stop'[g] = "shutRelease"
      BY <1>1 DEF SettleFails, StopGoto, Shape
    <3>. QED  BY <1>4, <2>1, <3>1, <3>2, <3>3, OwnedKept
  <2>. QED  BY <2>3, <2>4
<1>. QED  BY <1>1, <1>2, <1>3, <1>4, SeenFrom

LEMMA AdvancingStep ==
    ASSUME TInv, PidsAreDistinct, Exclusive, Current, [Next]_vars, ~Lost',
           NEW g \in Hosts, ensure'[g] \in {"list", "supersede", "own"}
    PROVE  (owned'[g] = 0 \/ stop'[g] = "release") /\ stop'[g] # "settle"
<1>1. Shape /\ epochs \in Seq(EpochRecord)
  BY Shaped
<1>2. CASE Lookup(g)
  <2>1. ~IsOurs(g, Active) /\ UNCHANGED <<owned, stop>>
    BY <1>1, <1>2 DEF Lookup, Goto, SameWorld, stopper, Shape
  <2>2. ASSUME NEW e \in ActiveEpochs, IsOurs(g, e) PROVE FALSE
    <3>1. Active = e
      BY <1>1, ActiveIsActive DEF Exclusive, OneActiveEpoch
    <3>. QED  BY <2>1, <2>2, <3>1
  <2>3. owned[g] = 0 \/ stop[g] = "release"
    BY <2>2 DEF Current, OwnedIsActive, OwnerHasLease
  <2>4. stop[g] # "settle"
    BY <2>2 DEF Current, OwnedIsActive, OwnerHasLease, TInv, StopNamed
  <2>. QED  BY <2>1, <2>3, <2>4
<1>3. CASE ensure[g] \in {"list", "supersede"} \/ ensure[g] = ensure'[g]
  <2>1. /\ ensure[g] \in {"list", "supersede", "own"} /\ ensure[g] \in Locked
        /\ (owned[g] = 0 \/ stop[g] = "release") /\ stop[g] # "settle"
    BY <1>3 DEF Current, OwnedIsActive, Locked
  <2>2. ~Adopt(g) /\ ~Own(g) /\ ~Crash(g)
    BY <1>1 DEF Adopt, Own, Crash, At, Done, Goto, Shape
  <2>3. owned'[g] \in {0, owned[g]}
    BY <1>1, <2>2, OwnedFrom
  <2>4. stop[g] = "release" => stop'[g] = "release"
    BY <1>1, <2>1, <2>2, NotReleased, SeenFrom
  <2>5. ~RequestStop(g)
    BY <2>1 DEF RequestStop, BeginStop, Fenced
  <2>6. stop[g] # "settle"
    BY <2>1
  <2>7. stop'[g] # "settle"
    <3>1. (~Shutdown(g) /\ ~SettleStopped(g) /\ ~SettleFails(g) /\ ~Release(g)) \/ stop'[g] # "settle"
      BY <1>1 DEF Shutdown, SettleStopped, SettleFails, Release, StopGoto, Stopped, Shape
    <3>. QED  BY <1>1, <2>2, <2>5, <2>6, <3>1, StopMoves
  <2>. QED  BY <2>1, <2>3, <2>4, <2>7
<1>. QED  BY <1>1, <1>2, <1>3, SeenFrom

LEMMA CurrentStep ==
    ASSUME TInv, PidsAreDistinct, Raced \/ Exclusive, Lost \/ Current, [Next]_vars
    PROVE  Lost' \/ Current'
<1>1. CASE Lost
  BY <1>1, MishapsStay DEF Lost
<1>2. CASE ~Lost /\ ~Lost'
  <2>1. Exclusive /\ Current
    BY <1>2 DEF Lost, Raced
  <2>2. OwnerHasLease'
    BY <1>2, <2>1, OwnerStep
  <2>3. OwnedIsActive'
    BY <1>2, <2>1, OwnedActiveStep, StoppingActiveStep, ShutStep, SeenActiveStep, AdvancingStep
    DEF OwnedIsActive
  <2>. QED  BY <2>2, <2>3 DEF Current
<1>. QED  BY <1>1, <1>2

-----------------------------------------------------------------------------
(* Recovery has run.                                                        *)

LEMMA MintedPid ==
    ASSUME epochs \in Seq(EpochRecord), NEW h \in Hosts, Mints(h)
    PROVE  Len(epochs') = Len(epochs) + 1 /\ epochs'[Len(epochs')].pid = PidOf[h]
<1>1. epochs' = NewEpoch(h)
  BY DEF Mints
<1>2. /\ Len(NewEpoch(h)) = Len(epochs) + 1
      /\ NewEpoch(h)[Len(epochs) + 1] = [pid |-> PidOf[h], state |-> "active"]
  BY Minting
<1>3. epochs'[Len(epochs')] = [pid |-> PidOf[h], state |-> "active"]
  BY <1>1, <1>2
<1>. QED  BY <1>1, <1>2, <1>3

(* Only minting makes the sequence of epochs longer.                        *)
LEMMA LengthStep ==
    ASSUME TInv, [Next]_vars
    PROVE  \/ Len(epochs') = Len(epochs)
           \/ \E h \in Hosts : Mints(h) /\ (Create(h) \/ EnsureFails(h))
<1>1. Shape /\ epochs \in Seq(EpochRecord) /\ Len(epochs) \in Nat
  BY Shaped
<1>2. ASSUME NEW h \in Hosts, Supersede(h) \/ EnsureFails(h)
      PROVE  Len(epochs') = Len(epochs) \/ (EnsureFails(h) /\ Mints(h))
  <2>1. todo[h] # {} => Oldest(todo[h]) \in 1 .. Len(epochs)
    BY OldestIsListed DEF TInv
  <2>2. \/ UNCHANGED epochs
        \/ todo[h] # {} /\ epochs' = SettledAs(Oldest(todo[h]), "stale")
        \/ EnsureFails(h) /\ Mints(h)
    BY <1>2 DEF Supersede, EnsureFails, Mints
  <2>. QED  BY <1>1, <2>1, <2>2, Settling
<1>3. ASSUME NEW h \in Hosts, SettleStopped(h) \/ SettleFails(h)
      PROVE  Len(epochs') = Len(epochs)
  <2>1. stopping[h] \in 1 .. Len(epochs)
    BY <1>1, <1>3 DEF SettleStopped, SettleFails, TInv, TypeOK, StopNamed
  <2>2. UNCHANGED epochs \/ epochs' = SettledAs(stopping[h], "stopped")
    BY <1>3 DEF SettleStopped, SettleFails
  <2>. QED  BY <1>1, <2>1, <2>2, Settling
<1>4. ASSUME NEW h \in Hosts, Create(h) PROVE Mints(h)
  BY <1>4, ActiveStep
<1>. QED
  BY <1>2, <1>3, <1>4
  DEF Next, vars, EnsureStep, EnsureGoesOn, StopStep, Boot, Crash, RequestStop, Shutdown, BeginStop, Ensure,
      Unlink, Claim, Observe, Lookup, Adopt, List, Own, Recover, Release, lease

LEMMA AttributedStep ==
    ASSUME TInv, Attributed, [Next]_vars
    PROVE  Attributed'
<1>1. Shape /\ epochs \in Seq(EpochRecord) /\ Len(epochs) \in Nat /\ EpochsMove
  BY Shaped, TypeStep
<1>2. started \subseteq started' /\ alive \subseteq started
  BY DEF Next, vars, EnsureStep, EnsureGoesOn, StopStep, Boot, Crash, RequestStop, Shutdown, BeginStop, Ensure,
         Unlink, Claim, Observe, Lookup, Adopt, List, Supersede, Create, Own, Recover, EnsureFails,
         SettleStopped, SettleFails, Release, SameWorld, TInv, TypeOK
<1>3. \A e \in 1 .. Len(epochs) : \E g \in started' : PidOf[g] = epochs'[e].pid
  BY <1>1, <1>2 DEF Attributed, EpochsMove
<1>4. ASSUME NEW h \in Hosts, Mints(h) PROVE Attributed'
  <2>1. Len(epochs') = Len(epochs) + 1 /\ epochs'[Len(epochs')].pid = PidOf[h]
    BY <1>1, <1>4, MintedPid
  <2>. QED  BY <1>1, <1>2, <1>3, <1>4, <2>1 DEF Attributed, Mints
<1>5. CASE Len(epochs') = Len(epochs)
  BY <1>3, <1>5 DEF Attributed
<1>. QED  BY <1>4, <1>5, LengthStep

(* The histories grow, and what an ensure has minted it recovers into.      *)
LEMMA HistoryMoves ==
    ASSUME Shape, [Next]_vars
    PROVE  /\ started \subseteq started' /\ recovered \subseteq recovered'
           /\ \A p \in ensured' : p \in ensured \/ p \in recovered'
                                \/ \E h \in Hosts : Adopt(h) /\ p = <<h, seen[h]>>
<1>1. started \subseteq started'
  BY DEF Next, vars, EnsureStep, EnsureGoesOn, StopStep, Boot, Crash, RequestStop, Shutdown, BeginStop, Ensure,
         Unlink, Claim, Observe, Lookup, Adopt, List, Supersede, Create, Own, Recover, EnsureFails,
         SettleStopped, SettleFails, Release, SameWorld
<1>2. UNCHANGED <<recovered, ensured>> \/ \E h \in Hosts : Adopt(h) \/ Recover(h)
  BY DEF Next, vars, EnsureStep, EnsureGoesOn, StopStep, Boot, Crash, RequestStop, Shutdown, BeginStop, Ensure,
         Unlink, Claim, Observe, Lookup, List, Supersede, Create, Own, EnsureFails,
         SettleStopped, SettleFails, Release, told
<1>3. ASSUME NEW h \in Hosts, Adopt(h)
      PROVE  recovered' = recovered /\ \A p \in ensured' : p \in ensured \/ p = <<h, seen[h]>>
  BY <1>3 DEF Adopt
<1>4. ASSUME NEW h \in Hosts, Recover(h)
      PROVE  recovered \subseteq recovered' /\ \A p \in ensured' : p \in ensured \/ p \in recovered'
  BY <1>4 DEF Recover
<1>. QED  BY <1>1, <1>2, <1>3, <1>4

LEMMA MintedKept ==
    ASSUME TInv, [Next]_vars, "halfway" \notin mishaps',
           NEW h \in alive', ensure[h] \in {"own", "recover"}
    PROVE  \/ ensure'[h] \in {"own", "recover"} /\ seen'[h] = seen[h]
           \/ <<h, seen[h]>> \in recovered'
<1>. USE DEF Shape, At, Goto, Done, Sees, attempt
<1>1. Shape /\ h \in Hosts
  BY Shaped, TypeStep DEF TInv, TypeOK
<1>2. ASSUME NEW g \in Hosts, Crash(g) \/ Ensure(g) \/ Unlink(g) \/ Claim(g) \/ Observe(g)
      PROVE  ensure'[h] = ensure[h] /\ seen'[h] = seen[h]
  BY <1>1, <1>2 DEF Crash, Ensure, Unlink, Claim, Observe
<1>3. ASSUME NEW g \in Hosts, Lookup(g) \/ Adopt(g) \/ List(g) \/ Supersede(g) \/ Create(g)
      PROVE  ensure'[h] = ensure[h] /\ seen'[h] = seen[h]
  BY <1>1, <1>3 DEF Lookup, Adopt, List, Supersede, Create
<1>4. ASSUME NEW g \in Hosts, EnsureFails(g)
      PROVE  ensure'[h] = ensure[h] /\ seen'[h] = seen[h]
  <2>1. g # h
    BY <1>4 DEF EnsureFails, Suffers
  <2>. QED  BY <1>1, <1>4, <2>1 DEF EnsureFails
<1>5. ASSUME NEW g \in Hosts, Own(g) \/ Recover(g)
      PROVE  \/ ensure'[h] \in {"own", "recover"} /\ seen'[h] = seen[h]
             \/ <<h, seen[h]>> \in recovered'
  BY <1>1, <1>5 DEF Own, Recover
<1>6. CASE UNCHANGED <<ensure, seen>>
  BY <1>6
<1>. QED
  BY <1>2, <1>3, <1>4, <1>5, <1>6
  DEF Next, vars, EnsureStep, EnsureGoesOn, StopStep, Boot, RequestStop, Shutdown, SettleStopped, SettleFails,
      Release

LEMMA MintedStep ==
    ASSUME TInv, Attributed, Minted, [Next]_vars, "halfway" \notin mishaps'
    PROVE  Minted'
<1>1. Shape /\ epochs \in Seq(EpochRecord) /\ Len(epochs) \in Nat /\ EpochsMove
  BY Shaped, TypeStep
<1>2. started \subseteq started' /\ recovered \subseteq recovered'
  BY <1>1, HistoryMoves
<1>3. SUFFICES ASSUME NEW h \in alive', NEW e \in 1 .. Len(epochs'), epochs'[e].pid = PidOf[h],
                      ~HasTwin(h)'
               PROVE  \/ <<h, e>> \in recovered'
                      \/ ensure'[h] \in {"own", "recover"} /\ seen'[h] = e
  BY DEF Minted
<1>4. ~HasTwin(h)
  BY <1>2, <1>3 DEF HasTwin
<1>5. CASE e \in 1 .. Len(epochs)
  <2>1. epochs[e].pid = PidOf[h]
    BY <1>1, <1>3, <1>5 DEF EpochsMove
  <2>2. h \in alive
    <3>1. PICK g \in started : PidOf[g] = epochs[e].pid
      BY <1>5 DEF Attributed
    <3>2. g = h
      BY <1>4, <2>1, <3>1 DEF HasTwin
    <3>3. ~Boot(h)
      BY <3>1, <3>2 DEF Boot
    <3>. QED
      BY <1>3, <3>3
      DEF Next, vars, EnsureStep, EnsureGoesOn, StopStep, Boot, Crash, RequestStop, Shutdown, BeginStop, Ensure,
          Unlink, Claim, Observe, Lookup, Adopt, List, Supersede, Create, Own, Recover,
          EnsureFails, SettleStopped, SettleFails, Release, SameWorld
  <2>3. \/ <<h, e>> \in recovered
        \/ ensure[h] \in {"own", "recover"} /\ seen[h] = e
    BY <1>4, <1>5, <2>1, <2>2 DEF Minted
  <2>. QED  BY <1>2, <2>3, MintedKept
<1>6. CASE e \notin 1 .. Len(epochs)
  <2>1. Len(epochs') # Len(epochs)
    BY <1>6
  <2>2. PICK g \in Hosts : Mints(g) /\ (Create(g) \/ EnsureFails(g))
    BY <2>1, LengthStep
  <2>3. Len(epochs') = Len(epochs) + 1 /\ epochs'[Len(epochs')].pid = PidOf[g]
    BY <1>1, <2>2, MintedPid
  <2>4. e = Len(epochs') /\ PidOf[g] = PidOf[h]
    BY <1>1, <1>3, <1>6, <2>3
  <2>5. g = h
    BY <1>2, <1>3, <2>2, <2>4 DEF HasTwin, Mints, TInv, TypeOK
  <2>6. ~EnsureFails(g)
    <3>1. SUFFICES ASSUME EnsureFails(g) PROVE FALSE
      OBVIOUS
    <3>2. ensure[g] = "supersede" /\ todo[g] = {} /\ epochs' # epochs
      BY <1>1, <2>2, <2>3 DEF Mints
    <3>. QED  BY <3>1, <3>2 DEF EnsureFails, Suffers
  <2>7. Create(h)
    BY <2>2, <2>5, <2>6
  <2>. QED  BY <1>1, <2>4, <2>5, <2>7 DEF Create, Goto, Sees, Shape
<1>. QED  BY <1>5, <1>6

LEMMA EnsuredStep ==
    ASSUME TInv, Minted, EnsuredIsRecoveredUnlessHalfway, [Next]_vars, "halfway" \notin mishaps'
    PROVE  EnsuredIsRecoveredUnlessHalfway'
<1>1. Shape
  BY Shaped
<1>2. /\ started \subseteq started' /\ recovered \subseteq recovered' /\ mishaps \subseteq mishaps'
      /\ \A p \in ensured' : p \in ensured \/ p \in recovered'
                           \/ \E h \in Hosts : Adopt(h) /\ p = <<h, seen[h]>>
  BY <1>1, HistoryMoves, MishapsStay
<1>3. ASSUME NEW p \in ensured
      PROVE  p \in recovered' \/ \E h \in started' \ {p[1]} : PidOf[h] = PidOf[p[1]]
  BY <1>2 DEF EnsuredIsRecoveredUnlessHalfway
<1>4. ASSUME NEW h \in Hosts, Adopt(h)
      PROVE  <<h, seen[h]>> \in recovered \/ \E g \in started \ {h} : PidOf[g] = PidOf[h]
  <2>1. h \in alive /\ ensure[h] = "adopt"
    BY <1>4 DEF Adopt, At
  <2>2. seen[h] \in 1 .. Len(epochs) /\ epochs[seen[h]].pid = PidOf[h]
    BY <2>1 DEF TInv, TypeOK, Sighted, IsOurs
  <2>. QED  BY <2>1, <2>2 DEF Minted, HasTwin
<1>5. ASSUME NEW p \in ensured'
      PROVE  p \in recovered' \/ \E h \in started' \ {p[1]} : PidOf[h] = PidOf[p[1]]
  <2>1. CASE p \in ensured
    BY <1>3, <2>1
  <2>2. CASE p \in recovered'
    BY <2>2
  <2>3. ASSUME NEW h \in Hosts, Adopt(h), p = <<h, seen[h]>>
        PROVE  p \in recovered' \/ \E g \in started' \ {p[1]} : PidOf[g] = PidOf[p[1]]
    BY <1>2, <1>4, <2>3
  <2>. QED  BY <1>2, <2>1, <2>2, <2>3
<1>. QED  BY <1>5 DEF EnsuredIsRecoveredUnlessHalfway

LEMMA RecoveredStep ==
    ASSUME TInv, RInv, [Next]_vars
    PROVE  RInv'
  BY AttributedStep, MintedStep, EnsuredStep, MishapsStay DEF RInv

-----------------------------------------------------------------------------
(* The theorems.                                                            *)

LEMMA InvariantInit ==
    ASSUME Init
    PROVE  IInv /\ RInv
<1>1. TInv
  BY TypeInit
<1>2. ActiveEpochs = {}
  BY DEF Init, ActiveEpochs
<1>3. PidsAreDistinct
  BY DEF Init, PidsAreDistinct
<1>4. Exclusive
  BY <1>2 DEF Init, Exclusive, OneActiveEpoch, LeaseWhileAdvancing, AllListed, Locked
<1>5. Current
  BY DEF Init, Current, OwnerHasLease, OwnedIsActive
<1>6. RInv
  BY DEF Init, RInv, Attributed, Minted, EnsuredIsRecoveredUnlessHalfway
<1>. QED  BY <1>1, <1>3, <1>4, <1>5, <1>6 DEF IInv

LEMMA InvariantStep ==
    ASSUME IInv, RInv, [Next]_vars
    PROVE  IInv' /\ RInv'
<1>. USE DEF IInv
<1>1. TInv'
  BY TypeStep
<1>2. PidsAreDistinct'
  BY PidsStep
<1>3. (Raced \/ Exclusive)'
  BY ExclusiveStep
<1>4. (Lost \/ Current)'
  BY CurrentStep
<1>5. RInv'
  BY RecoveredStep
<1>. QED  BY <1>1, <1>2, <1>3, <1>4, <1>5

LEMMA Invariant == Spec => [](IInv /\ RInv)
<1>1. Init => IInv /\ RInv
  BY InvariantInit
<1>2. IInv /\ RInv /\ [Next]_vars => (IInv /\ RInv)'
  BY InvariantStep
<1>. QED  BY <1>1, <1>2, PTL DEF Spec

(* Every variable keeps its type, for any number of hosts and epochs.       *)
THEOREM TypeCorrect == Spec => []TypeOK
<1>1. IInv => TypeOK
  BY DEF IInv, TInv
<1>. QED  BY <1>1, Invariant, PTL

(* Two hosts that race on one store never leave two active epochs, unless a *)
(* living host's lock was removed as debris (file-lease.ts) or a lease was  *)
(* given up while an ensure of its own process was under way (compose.ts).  *)
THEOREM RacersAgree == Spec => []OneActiveEpochUnlessRaced
<1>1. IInv => OneActiveEpochUnlessRaced
  BY DEF IInv, Raced, Exclusive, OneActiveEpochUnlessRaced
<1>. QED  BY <1>1, Invariant, PTL

(* A host whose fence lets it mutate does so under the epoch that is active *)
(* in the store; a stop whose write landed but was reported as failed is    *)
(* the one further way out.                                                 *)
THEOREM FenceHolds == Spec => []FenceIsCurrentUnlessRaced
<1>1. ASSUME IInv PROVE FenceIsCurrentUnlessRaced
  <2>1. CASE Lost
    BY <2>1 DEF Lost, FenceIsCurrentUnlessRaced
  <2>2. CASE Current
    <3>1. FenceIsCurrent
      BY <2>2 DEF Current, OwnedIsActive, FenceIsCurrent, Fenced
    <3>. QED  BY <3>1 DEF FenceIsCurrentUnlessRaced
  <2>. QED  BY <1>1, <2>1, <2>2 DEF IInv
<1>. QED  BY <1>1, Invariant, PTL

(* Both together: one runtime at a time, in the store and in the processes. *)
THEOREM OneHost == Spec => []OneHostRulesUnlessRaced
<1>1. OneActiveEpochUnlessRaced /\ FenceIsCurrentUnlessRaced => OneHostRulesUnlessRaced
  BY DEF OneHostRulesUnlessRaced
<1>. QED  BY <1>1, RacersAgree, FenceHolds, PTL

(* A caller of ensure that is told this process owns the runtime can rely   *)
(* on recovery having run into that epoch, except where the pid was used    *)
(* before or an ensure failed halfway (compose.ts, ownership).              *)
THEOREM RecoveryHasRun == Spec => []EnsuredIsRecoveredUnlessHalfway
<1>1. RInv => EnsuredIsRecoveredUnlessHalfway
  BY DEF RInv, EnsuredIsRecoveredUnlessHalfway
<1>. QED  BY <1>1, Invariant, PTL

(* No step rewrites an epoch that was superseded or stopped.                *)
THEOREM EpochsSettleOnce == Spec => SettledOnce
<1>1. ASSUME IInv, [Next]_vars
      PROVE  [\A e \in 1 .. Len(epochs) : epochs[e].state # "active" => epochs'[e] = epochs[e]]_vars
  BY <1>1, EpochsOnlyMove DEF IInv, EpochsMove
<1>. QED  BY <1>1, Invariant, PTL DEF Spec, SettledOnce
=============================================================================
