---------------------------- MODULE TerminalInput ----------------------------
(***************************************************************************)
(* Who may type into one managed terminal: src/packages/terminal/core.     *)
(* Controllers type under an input lease, a notification types under a     *)
(* durable reservation, a provider turn types under its turn barrier, and  *)
(* an interrupt types Control-C.                                           *)
(*                                                                         *)
(* Every command runs in the session's lane (serialize.ts), one at a time; *)
(* an operation of several writes is a sequence of lane steps.  Outside    *)
(* the lane run the controllers' sightings (presence.ts), begin and end of *)
(* an unmanaged turn (compose.ts), time, and the exit of the process.      *)
(*                                                                         *)
(* Abstracted: one session, whose boot recovery is part of Crash; a lease  *)
(* whose time is up is expired on the spot, because every reader settles   *)
(* it first (leases.ts); an operation of one write is one step, because it *)
(* fails without effect or, when the write lands but reports an error, has *)
(* the same effect; viewports; principals; the receipt of each command     *)
(* (CommandReceipts); a turn delivered again is another member of Turns.   *)
(* "Typed" is written to the PTY handle.                                   *)
(***************************************************************************)
EXTENDS Integers, Sequences, FiniteSets

CONSTANTS
    Controllers, \* attachments, each attached at most once
    Notices,     \* notification deliveries, one reservation each
    Turns,       \* provider-turn attempts
    Plain,       \* turns begun without an attempt (agent.beginTurn)
    None,
    MaxLeases,   \* bound: leases ever granted
    MaxWrites,   \* bound: writes of controllers
    MaxFaults    \* bound: store operations and PTY writes that fail

ASSUME TerminalAssumption ==
    /\ MaxLeases \in Nat /\ MaxWrites \in Nat /\ MaxFaults \in Nat
    /\ Turns \cap Plain = {}
    /\ None \notin Turns \cup Plain \cup Controllers \cup Notices

VARIABLES
    session,     \* "live"; "exited", the handle remains; "closed", it is gone
    lane,        \* the operation under way, between two of its steps
    attachment,  \* state of each controller's attachment
    draft,       \* controllers, not detached, whose draft is present
    leases,      \* who holds the lease of each generation, None once it ended
    reservation, \* state of each notification's reservation
    notice,      \* its attempt: outcome and position
    turn,        \* effect, barrier, authority and position of each attempt
    activeTurn,  \* LiveSession.activeTurn
    nextSeq,     \* LiveSession.nextInputSequence
    typed,       \* history: what was typed, in order
    crossed,     \* history: "turn", one was prepared while a notification was
                 \* reserved; "draft", one came back during the present claim
    faults

claims == <<reservation, notice, turn>>
process == <<session, activeTurn>>
stream == <<nextSeq, typed>>
people == <<attachment, draft>>
history == <<crossed, faults>>
vars == <<session, lane, attachment, draft, leases, reservation, notice, turn, activeTurn,
          nextSeq, typed, crossed, faults>>

Idle == [step |-> "idle", who |-> None]
Free == lane = Idle
At(step) == lane.step = step
Goto(step, who) == lane' = [step |-> step, who |-> who]
Done == lane' = Idle

MayFail == faults < MaxFaults
Fault == MayFail /\ faults' = faults + 1 /\ UNCHANGED crossed

ActiveLeases == {g \in 1 .. Len(leases) : leases[g] # None}
HeldBy(c) == {g \in ActiveLeases : leases[g] = c}
End(gs) == [g \in 1 .. Len(leases) |-> IF g \in gs THEN None ELSE leases[g]]

Reserved == {n \in Notices : reservation[n] = "reserved"}

(* attemptTerminal: the barrier has reached an end.                         *)
OpenBarriers == {"reserved", "active", "interrupted"}
OpenTurns == {t \in Turns : turn[t].barrier \in OpenBarriers}

(* Mutant: only notifications are looked at before a lease or a reservation.*)
BoundaryIsFree_noTurns == Reserved = {}

(* requireNoNotificationReservation: neither a notification nor a provider  *)
(* turn holds the terminal boundary.                                        *)
BoundaryIsFree == Reserved = {} /\ OpenTurns = {}

AttachedDrafts == {c \in draft : attachment[c] = "attached"}

(* A claim on the boundary ends; a draft that came back meanwhile is no     *)
(* longer in anybody's way.                                                 *)
ClaimEnds ==
    /\ crossed' = IF BoundaryIsFree' THEN crossed \ {"draft"} ELSE crossed
    /\ UNCHANGED faults

(* Everything typed: by a lease, a notification, a turn or an interrupt.    *)
Input(source, who, gen, pos) == [source |-> source, who |-> who, gen |-> gen, pos |-> pos]
Type(input) == typed' = Append(typed, input)

Init ==
    /\ session = "live" /\ lane = Idle
    /\ attachment = [c \in Controllers |-> "none"] /\ draft = {}
    /\ leases = << >>
    /\ reservation = [n \in Notices |-> "none"]
    /\ notice = [n \in Notices |-> [outcome |-> "none", pos |-> 0]]
    /\ turn = [t \in Turns |-> [effect |-> "none", barrier |-> "none", by |-> 0, pos |-> 0]]
    /\ activeTurn = None /\ nextSeq = 1 /\ typed = << >>
    /\ crossed = {} /\ faults = 0

-----------------------------------------------------------------------------
(* Controllers: attach, detach, drafts, and sightings outside the lane.     *)

Attach(c) ==
    /\ Free /\ session = "live" /\ attachment[c] = "none"
    /\ attachment' = [attachment EXCEPT ![c] = "attached"]
    /\ UNCHANGED <<lane, draft, leases, claims, process, stream, history>>

(* The lease goes back first, then the attachment is detached.              *)
Detach(c) ==
    /\ Free /\ attachment[c] \in {"attached", "stale"}
    /\ leases' = End(HeldBy(c))
    /\ Goto("detach", c)
    /\ UNCHANGED <<people, claims, process, stream, history>>

FinishDetach ==
    /\ At("detach")
    /\ attachment' = [attachment EXCEPT ![lane.who] = "detached"]
    /\ draft' = draft \ {lane.who}
    /\ Done
    /\ UNCHANGED <<leases, claims, process, stream, history>>

SetDraft(c) ==
    /\ Free /\ attachment[c] = "attached"
    /\ IF c \in draft THEN draft' = draft \ {c}
       ELSE BoundaryIsFree /\ draft' = draft \cup {c}
    /\ UNCHANGED <<lane, attachment, leases, claims, process, stream, history>>

(* A sighting that changes the record makes a detach that has read it lose  *)
(* its compare-and-set.                                                     *)
LoseDetach(c) == lane' = IF lane = [step |-> "detach", who |-> c] THEN Idle ELSE lane

MarkStale(c) ==
    /\ attachment[c] = "attached"
    /\ attachment' = [attachment EXCEPT ![c] = "stale"]
    /\ LoseDetach(c)
    /\ UNCHANGED <<draft, leases, claims, process, stream, history>>

ReturnsWithDraft(c) == c \in draft /\ ~BoundaryIsFree

SeenAgain(c) ==
    /\ attachment[c] = "stale"
    /\ attachment' = [attachment EXCEPT ![c] = "attached"]
    /\ LoseDetach(c)
    /\ crossed' = IF ReturnsWithDraft(c) THEN crossed \cup {"draft"} ELSE crossed
    /\ UNCHANGED <<draft, leases, claims, process, stream, faults>>

-----------------------------------------------------------------------------
(* Leases: acquire or take over, release, expiry, and typing under one.     *)

(* A takeover revokes the holder's lease before the new one is granted.     *)
Revocable(c) == ActiveLeases

Acquire(c) ==
    /\ Free /\ session = "live" /\ attachment[c] = "attached"
    /\ BoundaryIsFree
    /\ HeldBy(c) = {}
    /\ Len(leases) < MaxLeases
    /\ leases' = End(Revocable(c))
    /\ Goto("grant", c)
    /\ UNCHANGED <<people, claims, process, stream, history>>

Grant ==
    /\ At("grant")
    /\ leases' = Append(leases, lane.who)
    /\ Done
    /\ UNCHANGED <<people, claims, process, stream, history>>

Release(g) ==
    /\ Free /\ g \in ActiveLeases
    /\ leases' = End({g})
    /\ UNCHANGED <<lane, people, claims, process, stream, history>>

Lapse(g) ==
    /\ g \in ActiveLeases
    /\ leases' = End({g})
    /\ UNCHANGED <<lane, people, claims, process, stream, history>>

Writes == Cardinality({i \in 1 .. Len(typed) : typed[i].source = "write"})

Write(c, g) ==
    /\ Free /\ session = "live" /\ attachment[c] = "attached"
    /\ OpenTurns = {}
    /\ g \in HeldBy(c)
    /\ Writes < MaxWrites
    /\ Type(Input("write", None, g, nextSeq))
    /\ nextSeq' = nextSeq + 1
    /\ UNCHANGED <<lane, people, leases, claims, process, history>>

-----------------------------------------------------------------------------
(* Notifications: reserve the boundary, cancel, commit by typing once.      *)

Reserve(n) ==
    /\ Free /\ session = "live" /\ reservation[n] = "none"
    /\ ActiveLeases = {} /\ AttachedDrafts = {}
    /\ BoundaryIsFree
    /\ activeTurn = None
    /\ reservation' = [reservation EXCEPT ![n] = "reserved"]
    /\ UNCHANGED <<lane, people, leases, notice, turn, process, stream, history>>

MayCancel(n) == reservation[n] = "reserved" /\ notice[n].outcome = "none"

CancelNotice(n) ==
    /\ Free /\ MayCancel(n)
    /\ reservation' = [reservation EXCEPT ![n] = "cancelled"]
    /\ UNCHANGED <<lane, people, leases, notice, turn, process, stream>>
    /\ ClaimEnds

(* Mutant: a retried commit does not look for the attempt of the first try. *)
HasAttempt_never(n) == FALSE

HasAttempt(n) == notice[n].outcome # "none"

(* A commit that finds an attempt adopts it and types nothing.              *)
AdoptNotice(n) ==
    /\ Free /\ reservation[n] = "reserved" /\ HasAttempt(n)
    /\ reservation' = [reservation EXCEPT ![n] = "committed"]
    /\ UNCHANGED <<lane, people, leases, notice, turn, process, stream>>
    /\ ClaimEnds

(* The attempt is durable, unconfirmed, before the first byte.              *)
CommitNotice(n) ==
    /\ Free /\ session = "live" /\ reservation[n] = "reserved"
    /\ ~HasAttempt(n)
    /\ notice' = [notice EXCEPT ![n] = [outcome |-> "unconfirmed", pos |-> nextSeq]]
    /\ Goto("typeNotice", n)
    /\ UNCHANGED <<people, leases, reservation, turn, process, stream, history>>

TypeNotice ==
    /\ At("typeNotice")
    /\ nextSeq' = nextSeq + 1
    /\ \/ /\ Type(Input("notice", lane.who, 0, notice[lane.who].pos))
          /\ Goto("confirm", lane.who)
          /\ UNCHANGED history
       \/ /\ Fault
          /\ Goto("finish", lane.who)
          /\ UNCHANGED typed
    /\ UNCHANGED <<people, leases, claims, process>>

(* Mutant: the confirmed outcome is none that the type allows.              *)
Confirm_misnamed ==
    /\ At("confirm")
    /\ notice' = [notice EXCEPT ![lane.who].outcome = "submitted"]
    /\ Goto("finish", lane.who)
    /\ UNCHANGED <<people, leases, reservation, turn, process, stream, history>>

Confirm ==
    /\ At("confirm")
    /\ \/ notice' = [notice EXCEPT ![lane.who].outcome = "confirmed"] /\ UNCHANGED history
       \/ Fault /\ UNCHANGED notice
    /\ Goto("finish", lane.who)
    /\ UNCHANGED <<people, leases, reservation, turn, process, stream>>

FinishNotice ==
    /\ At("finish")
    /\ reservation' = [reservation EXCEPT ![lane.who] = "committed"]
    /\ Done
    /\ UNCHANGED <<people, leases, notice, turn, process, stream>>
    /\ ClaimEnds

-----------------------------------------------------------------------------
(* Provider turns: prepare, execute once, settle; and the interrupt.        *)

SetTurn(t, effect, barrier) ==
    turn' = [turn EXCEPT ![t].effect = effect, ![t].barrier = barrier]

(* The authority to prepare: the lease a controller holds, or (0) a safe    *)
(* boundary the runtime found.  Neither looks at reserved notifications.    *)
Authorities ==
    {g \in ActiveLeases : attachment[leases[g]] = "attached"}
    \cup (IF ActiveLeases = {} /\ AttachedDrafts = {} THEN {0} ELSE {})

Prepare(t, by) ==
    /\ Free /\ session = "live" /\ turn[t].effect = "none"
    /\ OpenTurns = {}
    /\ by \in Authorities
    /\ turn' = [turn EXCEPT ![t] = [effect |-> "prepared", barrier |-> "reserved",
                                    by |-> by, pos |-> nextSeq]]
    /\ crossed' = IF Reserved # {} THEN crossed \cup {"turn"} ELSE crossed
    /\ UNCHANGED <<lane, people, leases, reservation, notice, process, stream, faults>>

IsPrepared(t) == turn[t].effect = "prepared" /\ turn[t].barrier = "reserved"

Execute(t) ==
    /\ Free /\ IsPrepared(t)
    /\ SetTurn(t, "executing", "reserved")
    /\ Goto("typeTurn", t)
    /\ UNCHANGED <<people, leases, reservation, notice, process, stream, history>>

(* An attempt left executing may have been typed: it is never typed again.  *)
ExecuteAgain(t) ==
    /\ Free /\ turn[t].effect = "executing"
    /\ SetTurn(t, "unconfirmed", "active")
    /\ UNCHANGED <<lane, people, leases, reservation, notice, process, stream, history>>

TypeTurn ==
    /\ At("typeTurn") /\ session # "closed"
    /\ nextSeq' = nextSeq + 1
    /\ activeTurn' = lane.who
    /\ \/ /\ Type(Input("turn", lane.who, turn[lane.who].by, turn[lane.who].pos))
          /\ Goto("submit", lane.who)
          /\ UNCHANGED history
       \/ /\ Fault
          /\ Goto("submitUnsure", lane.who)
          /\ UNCHANGED typed
    /\ UNCHANGED <<session, people, leases, claims>>

TypeTurnWithoutProcess ==
    /\ At("typeTurn") /\ session = "closed"
    /\ SetTurn(lane.who, "unconfirmed", "active")
    /\ Done
    /\ UNCHANGED <<people, leases, reservation, notice, process, stream, history>>

Submit ==
    /\ lane.step \in {"submit", "submitUnsure"}
    /\ SetTurn(lane.who, IF At("submit") THEN "confirmed" ELSE "unconfirmed", "active")
    /\ Done
    /\ UNCHANGED <<people, leases, reservation, notice, process, stream, history>>

CancelPrepared(t) ==
    /\ Free /\ IsPrepared(t)
    /\ SetTurn(t, "rejected", "released")
    /\ UNCHANGED <<lane, people, leases, reservation, notice, process, stream>>
    /\ ClaimEnds

Settle(t) ==
    /\ Free /\ turn[t].barrier \in {"active", "interrupted"}
    /\ turn' = [turn EXCEPT ![t].barrier = "completed"]
    /\ activeTurn' = IF activeTurn = t THEN None ELSE activeTurn
    /\ UNCHANGED <<session, lane, people, leases, reservation, notice, stream>>
    /\ ClaimEnds

(* Called only when the terminal is final.                                  *)
CloseUnproven(t) ==
    /\ Free /\ session # "live" /\ turn[t].barrier \in {"active", "interrupted"}
    /\ turn' = [turn EXCEPT ![t].barrier = "unproven"]
    /\ UNCHANGED <<lane, people, leases, reservation, notice, process, stream>>
    /\ ClaimEnds

IsActiveTurn(x) ==
    \/ x \in Turns /\ turn[x].barrier = "active"
    \/ x \in Plain /\ activeTurn = x

(* Mutant: the interrupt leaves the lease alone.                            *)
Fenced_none == {}

Fenced == ActiveLeases

(* The lease is revoked, then the barrier is committed, then Control-C is   *)
(* typed, whatever has become of the turn meanwhile.                        *)
Interrupt(x) ==
    /\ Free /\ session = "live" /\ IsActiveTurn(x)
    /\ leases' = End(Fenced)
    /\ Goto(IF x \in Turns THEN "barrier" ELSE "controlC", x)
    /\ UNCHANGED <<people, claims, process, stream, history>>

CommitBarrier ==
    /\ At("barrier")
    /\ turn' = [turn EXCEPT ![lane.who].barrier = "interrupted"]
    /\ Goto("controlC", lane.who)
    /\ UNCHANGED <<people, leases, reservation, notice, process, stream, history>>

ControlC ==
    /\ At("controlC")
    /\ Type(Input("interrupt", lane.who, Len(leases) + 1, 0))
    /\ activeTurn' = None
    /\ Done
    /\ UNCHANGED <<session, people, leases, claims, nextSeq, history>>

(* Outside the lane.                                                        *)
BeginPlain(x) ==
    /\ session # "closed"
    /\ x \notin {typed[i].who : i \in 1 .. Len(typed)}
    /\ activeTurn' = x
    /\ UNCHANGED <<session, lane, people, leases, claims, stream, history>>

EndTurn ==
    /\ activeTurn # None
    /\ activeTurn' = None
    /\ UNCHANGED <<session, lane, people, leases, claims, stream, history>>

-----------------------------------------------------------------------------
(* A store operation fails, or lands and reports an error: the operation    *)
(* gives up where it is.                                                    *)
Abandon ==
    /\ ~Free /\ Fault /\ Done
    /\ UNCHANGED <<people, leases, claims, process, stream>>

Exit ==
    /\ session = "live" /\ session' = "exited"
    /\ UNCHANGED <<lane, people, leases, claims, activeTurn, stream, history>>

Terminate ==
    /\ Free /\ session = "live" /\ session' = "closed" /\ activeTurn' = None
    /\ UNCHANGED <<lane, people, leases, claims, stream, history>>

(* The runtime dies; the next one settles the orphaned session.             *)
Crash ==
    /\ session # "closed"
    /\ session' = "closed" /\ activeTurn' = None /\ Done
    /\ attachment' = [c \in Controllers |->
                        IF session = "live" /\ attachment[c] # "none"
                        THEN "detached" ELSE attachment[c]]
    /\ draft' = IF session = "live" THEN {} ELSE draft
    /\ UNCHANGED <<leases, claims, stream, history>>

Next ==
    \/ \E c \in Controllers :
          \/ Attach(c) \/ Detach(c) \/ SetDraft(c) \/ MarkStale(c) \/ SeenAgain(c)
          \/ Acquire(c)
          \/ \E g \in 1 .. Len(leases) : Write(c, g)
    \/ \E g \in 1 .. Len(leases) : Release(g) \/ Lapse(g)
    \/ \E n \in Notices : Reserve(n) \/ CancelNotice(n) \/ AdoptNotice(n) \/ CommitNotice(n)
    \/ \E t \in Turns :
          \/ \E by \in 0 .. Len(leases) : Prepare(t, by)
          \/ Execute(t) \/ ExecuteAgain(t) \/ CancelPrepared(t) \/ Settle(t) \/ CloseUnproven(t)
    \/ \E x \in Turns \cup Plain : Interrupt(x)
    \/ \E x \in Plain : BeginPlain(x)
    \/ FinishDetach \/ Grant \/ TypeNotice \/ Confirm \/ FinishNotice
    \/ TypeTurn \/ TypeTurnWithoutProcess \/ Submit \/ CommitBarrier \/ ControlC
    \/ EndTurn \/ Abandon \/ Exit \/ Terminate \/ Crash

Spec == Init /\ [][Next]_vars

-----------------------------------------------------------------------------
LaneSteps == {"idle", "detach", "grant", "typeNotice", "confirm", "finish", "typeTurn",
              "submit", "submitUnsure", "barrier", "controlC"}
Attachments == {"none", "attached", "stale", "detached"}
Effects == {"none", "prepared", "executing", "confirmed", "unconfirmed", "rejected"}
Barriers == OpenBarriers \cup {"none", "completed", "unproven", "released"}

(* Every record and every live field has one of the values its type allows. *)
TypeOK ==
    /\ session \in {"live", "exited", "closed"}
    /\ lane \in [step : LaneSteps, who : {None} \cup Controllers \cup Notices \cup Turns \cup Plain]
    /\ attachment \in [Controllers -> Attachments] /\ draft \subseteq Controllers
    /\ leases \in Seq(Controllers \cup {None})
    /\ reservation \in [Notices -> {"none", "reserved", "committed", "cancelled"}]
    /\ notice \in [Notices -> [outcome : {"none", "unconfirmed", "confirmed"}, pos : Nat]]
    /\ turn \in [Turns -> [effect : Effects, barrier : Barriers, by : Nat, pos : Nat]]
    /\ activeTurn \in {None} \cup Turns \cup Plain
    /\ nextSeq \in Nat
    /\ typed \in Seq([source : {"write", "notice", "turn", "interrupt"},
                      who : {None} \cup Notices \cup Turns \cup Plain,
                      gen : Nat, pos : Nat])
    /\ crossed \subseteq {"turn", "draft"}
    /\ faults \in 0 .. MaxFaults

(* Through takeovers, expiries, interrupts, detaches and operations that    *)
(* give up halfway, an active lease is the newest one ever granted, and the *)
(* controller that holds it has not said goodbye.                           *)
LeaseIsCurrent ==
    \A g \in ActiveLeases :
       /\ g = Len(leases)
       /\ session = "live" => attachment[leases[g]] # "detached"

(* The three ways to type exclude each other.  One notification at most     *)
(* holds the boundary and then nobody holds a lease; one provider turn at   *)
(* most is open and then the only lease is the one it was prepared under.   *)
(* A draft on an attached controller keeps both the notification and the    *)
(* runtime's own turn out, unless it came back with a stale controller      *)
(* since the boundary was last free; and a notification and a turn exclude  *)
(* each other unless a turn was prepared while a notification was reserved  *)
(* (prepareProviderTurnInput does not look).                                *)
BoundaryHasOneOwnerUnlessCrossed ==
    /\ \A m, n \in Reserved : m = n
    /\ \A t, u \in OpenTurns : t = u
    /\ Reserved # {} => ActiveLeases = {}
    /\ \A t \in OpenTurns : ActiveLeases \subseteq {turn[t].by}
    /\ "draft" \notin crossed =>
          /\ Reserved # {} => AttachedDrafts = {}
          /\ \A t \in OpenTurns : turn[t].by = 0 => AttachedDrafts = {}
    /\ "turn" \notin crossed => (Reserved = {} \/ OpenTurns = {})

TypedOnce ==
    \A i, j \in 1 .. Len(typed) :
       (/\ typed[i].source \in {"notice", "turn"}
        /\ typed[i].source = typed[j].source
        /\ typed[i].who = typed[j].who) => i = j

WasTyped(source, x) == \E i \in 1 .. Len(typed) : typed[i].source = source /\ typed[i].who = x

RecordsAreTrue ==
    /\ \A n \in Notices :
          /\ reservation[n] = "cancelled" => ~WasTyped("notice", n)
          /\ reservation[n] = "committed" => HasAttempt(n)
          /\ notice[n].outcome = "confirmed" => WasTyped("notice", n)
    /\ \A t \in Turns :
          /\ turn[t].effect \in {"none", "prepared", "rejected"} => ~WasTyped("turn", t)
          /\ turn[t].effect = "confirmed" => WasTyped("turn", t)

(* A notification and a provider turn are typed at most once, whatever is   *)
(* retried after a store fault, a lost outcome or a restart, and what the   *)
(* durable records say of the keyboard is true: what is cancelled or        *)
(* rejected (effectEscaped: false) was never typed, what is confirmed was,  *)
(* and a committed reservation has an attempt.                              *)
KeyboardIsRecorded == TypedOnce /\ RecordsAreTrue

(* Once a later generation has typed, or an interrupt has moved the         *)
(* generation and typed its Control-C, nothing of an earlier generation     *)
(* reaches the process, not even after the turn is settled.                 *)
OldGenerationsAreFenced ==
    \A i, j \in 1 .. Len(typed) :
       (/\ i < j
        /\ typed[i].source \in {"write", "interrupt"}
        /\ typed[j].source = "write") => typed[i].gen <= typed[j].gen

(* Many controllers may read, one lease generation may write (leases.ts).   *)
OneGenerationWrites == LeaseIsCurrent /\ OldGenerationsAreFenced
=============================================================================
