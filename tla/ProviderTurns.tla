---------------------------- MODULE ProviderTurns ----------------------------
(***************************************************************************)
(* Managed provider turns of one run: agent-runtime/core/provider-turns.ts *)
(* with the writers of the same run record in lifecycle.ts and recover.ts, *)
(* and the terminal's side of a turn (terminal/core/provider-turn-input.ts *)
(* and interrupt.ts).                                                      *)
(*                                                                         *)
(* A turn is a dance over three durable records: the submission, the       *)
(* terminal's attempt, and the run, whose operation fence and active turn  *)
(* say who may type.  Each write is a compare-and-set on a version its     *)
(* process read before; every step may be the last one of its operation,   *)
(* for a store can fail and a process can die.                             *)
(*                                                                         *)
(* Four processes write: the run's activity queue (controllers' turns,     *)
(* completion, repair), the inbox pump, which bypasses that queue, the     *)
(* lifecycle operations, and reconciliation.                               *)
(***************************************************************************)
EXTENDS Integers, Functions

CONSTANTS
    Controllers,   \* submissions made by a controller
    Systems,       \* submissions the runtime makes for an inbox item
    Modes,         \* the ways reconciliation is run: "startup", "periodic"
    MaxOrdinal,    \* bound: preparations of one submission
    MaxSnapshots,  \* bound: preparations in all
    MaxGeneration, \* bound: activity generations
    MaxFaults,     \* bound: failures of a store
    MaxCrashes,    \* bound: crashes of the runtime
    Bare,          \* a turn begun with beginProviderTurn
    None

ASSUME TurnsAssumption ==
    /\ Controllers \intersect Systems = {}
    /\ {Bare, None} \intersect (Controllers \union Systems) = {} /\ Bare # None
    /\ Modes \subseteq {"startup", "periodic"}
    /\ {MaxOrdinal, MaxSnapshots, MaxGeneration, MaxFaults, MaxCrashes} \subseteq Nat

VARIABLES
    run,     \* the run record
    sub,     \* the submission records
    att,     \* the terminal's attempts, by submission and ordinal
    live,    \* the provider's process is there
    lane,    \* who has the terminal's input lane
    proc,    \* where each process is
    phase,   \* "up", or "starting" while a new runtime reconciles
    spent,   \* controller commands that were refused for good
    typed,   \* how often a submission's text was typed
    faults, crashes

records == <<run, sub, att>>
world == <<live, lane, phase, spent, typed>>
budget == <<faults, crashes>>
vars == <<run, sub, att, live, lane, proc, phase, spent, typed, faults, crashes>>

Subs == Controllers \union Systems
Procs == {"queue", "pump", "ops", "recovery"}
Attempts == Subs \X (1 .. MaxOrdinal)
FINAL_LIFECYCLES == {"stopped", "failed", "interrupted"}
Submitted == "submitted"       \* submitted-confirmed and submitted-unconfirmed
NoTurn == [turn |-> None, gen |-> 0]
NoFence == [sub |-> None, ord |-> 0, gen |-> 0, phase |-> "none"]
NoSubmission == [state |-> "absent", ord |-> 0, gen |-> 0, safe |-> "none", ref |-> 0,
                 activation |-> "none"]
NoAttempt == [effect |-> "absent", barrier |-> "none", gen |-> 0]
(* seen and effect are what reconciliation read of submission and attempt. *)
Rest == [pc |-> "idle", sub |-> None, ord |-> 0, gen |-> 0, fresh |-> {},
         seen |-> NoSubmission, effect |-> "absent"]

States == {"absent", "queued", "prepared", Submitted, "recovery-required", "rejected",
           "completed", "completion-unproven-final"}
Submissions == [state : States, ord : 0 .. MaxOrdinal, gen : 0 .. MaxGeneration,
                safe : {"none", "queued", "prepared", Submitted}, ref : 0 .. MaxOrdinal,
                activation : {"none", "pending", "committed"}]
Effects == {"absent", "prepared", "executing", "submitted", "rejected", "quarantined"}
Completed == {"completed", "completed-interrupted"}
Barriers == {"none", "reserved", "active", "interrupted", "closed", "released"} \union Completed
Phases == {"none", "terminal-prepared", "submission-prepared", "active", "completing",
           "completion-barrier-committed", "recovery-required"}
Steps == {"idle", "refresh", "snapshot", "prepare", "fence", "cancel", "mark", "advance",
          "execute", "type", "record", "activate", "commit",
          "barrier", "interrupting", "terminate", "stopped", "exited",
          "repairSub", "completing", "settle", "refreshed", "complete", "completeSub",
          "completeClear",
          "closeCancel", "closeCancelOnly", "closeClear", "closeReject", "closeBarrier",
          "closeRun", "closeFinal",
          "inventory", "judge", "quarantine", "hold", "orphanFence",
          "ctlLook", "ctlGuard", "ctlCancel", "ctlClear", "ctlReject",
          "genLook", "recFence", "recMark", "recAdvance", "recRecord", "recActivate",
          "recCommit", "verdict"}

Init ==
    /\ run = [lifecycle |-> "running", gen |-> 0, active |-> NoTurn, fence |-> NoFence,
              last |-> None, uncertain |-> FALSE]
    /\ sub = [s \in Subs |-> NoSubmission]
    /\ att = [a \in Attempts |-> NoAttempt]
    /\ live = TRUE /\ lane = None
    /\ proc = [p \in Procs |-> Rest]
    /\ phase = "up"
    /\ spent = {}
    /\ typed = [s \in Subs |-> 0]
    /\ faults = 0 /\ crashes = 0

TypeOK ==
    /\ run \in [lifecycle : {"running", "stopping", "recovery-required"} \union FINAL_LIFECYCLES,
               gen : 0 .. MaxGeneration,
               active : [turn : Subs \union {Bare, None}, gen : 0 .. MaxGeneration],
               fence : [sub : Subs \union {None}, ord : 0 .. MaxOrdinal, gen : 0 .. MaxGeneration,
                        phase : Phases],
               last : Subs \union {None}, uncertain : BOOLEAN]
    /\ sub \in [Subs -> Submissions]
    /\ att \in [Attempts -> [effect : Effects, barrier : Barriers, gen : 0 .. MaxGeneration]]
    /\ live \in BOOLEAN /\ lane \in Procs \union {None}
    /\ proc \in [Procs -> [pc : Steps, sub : Subs \union {Bare, None}, ord : 0 .. MaxOrdinal,
                          gen : 0 .. MaxGeneration, fresh : SUBSET {"run", "sub", "attempt"},
                          seen : Submissions, effect : Effects]]
    /\ phase \in {"up", "starting"} /\ spent \subseteq Controllers
    /\ typed \in [Subs -> Nat]
    /\ faults \in 0 .. MaxFaults /\ crashes \in 0 .. MaxCrashes

-----------------------------------------------------------------------------
(* Processes.  A process holds a fresh copy of the records it has read or  *)
(* written, until another process writes them; a compare-and-set succeeds  *)
(* just when the copy is fresh.                                            *)

At(p, step) == proc[p].pc = step
Has(p, record) == record \in proc[p].fresh
Mine(p) == <<proc[p].sub, proc[p].ord>>

(* What q loses when p writes the given records.                           *)
Stale(p, q, written) ==
    {r \in written : \/ r = "run"
                     \/ r = "sub" /\ proc[q].sub = proc[p].sub
                     \/ r = "attempt" /\ proc[q].sub = proc[p].sub /\ proc[q].ord = proc[p].ord}

Becomes(p, local, written) ==
    proc' = [q \in Procs |->
               IF q = p THEN local ELSE [proc[q] EXCEPT !.fresh = @ \ Stale(p, q, written)]]

Reads(p, step, read) ==
    proc' = [proc EXCEPT ![p].pc = step, ![p].fresh = @ \union read]
Wrote(p, step, written) ==
    Becomes(p, [proc[p] EXCEPT !.pc = step, !.fresh = @ \union written], written)
Goto(p, step) == Reads(p, step, {})
Returns(p, written) == Becomes(p, Rest, written)

(* The version each step compares.                                         *)
Compares == [snapshot |-> "sub", fence |-> "run", mark |-> "sub", advance |-> "run",
             record |-> "sub", activate |-> "run", commit |-> "sub",
             interrupting |-> "run", stopped |-> "run", exited |-> "run",
             repairSub |-> "sub", completing |-> "run", complete |-> "run",
             completeSub |-> "sub", completeClear |-> "run",
             closeClear |-> "run", closeReject |-> "sub", closeRun |-> "run", closeFinal |-> "sub",
             hold |-> "sub", ctlReject |-> "sub", recMark |-> "sub", recAdvance |-> "run",
             recRecord |-> "sub", recCommit |-> "sub"]

(* A compare-and-set that loses ends its operation, but for the fence of   *)
(* a submission, which then cancels its reservation.                       *)
Writes(p, step) == At(p, step) /\ Has(p, Compares[step])
Loses(p) ==
    /\ proc[p].pc \in DOMAIN Compares
    /\ ~Has(p, Compares[proc[p].pc])
    /\ IF At(p, "fence") THEN Goto(p, "cancel") ELSE Returns(p, {})
    /\ UNCHANGED <<records, world, budget>>

(* A store fails, or an event cannot be published: the operation ends with *)
(* an error, where no step below says otherwise.                           *)
Fault == faults < MaxFaults /\ faults' = faults + 1
Count(failed) == IF failed THEN 1 ELSE 0
Costs(n) == faults + n <= MaxFaults /\ faults' = faults + n
Fails(p) ==
    /\ Fault /\ proc[p].pc \notin {"idle", "prepare", "fence", "cancel", "type"}
    /\ Returns(p, {})
    /\ UNCHANGED <<records, world, crashes>>

-----------------------------------------------------------------------------
(* The run and the terminal as the operations below see them.              *)

Final == run.lifecycle \in FINAL_LIFECYCLES
FenceFree == run.fence = NoFence
FenceIs(s) == run.fence.sub = s
Phased(f) == run' = [run EXCEPT !.fence.phase = f]
Fence(s, o) == [sub |-> s, ord |-> o, gen |-> sub[s].gen, phase |-> "terminal-prepared"]
(* Mutants: a generation too far; the turn's generation without the run's. *)
Activated_next(s) ==
    [run EXCEPT !.gen = sub[s].gen + 1, !.active = [turn |-> s, gen |-> sub[s].gen],
                !.fence.phase = "active"]
Activated_stay(s) ==
    [run EXCEPT !.active = [turn |-> s, gen |-> sub[s].gen], !.fence.phase = "active"]

Activated(s) ==
    [run EXCEPT !.gen = sub[s].gen, !.active = [turn |-> s, gen |-> sub[s].gen],
                !.fence.phase = "active"]

Visible(a) == att[a].effect \notin {"absent", "quarantined"}
Incomplete(a) == Visible(a) /\ att[a].barrier \notin {"closed", "released"} \union Completed
Reserved(a) == att[a].effect = "prepared" /\ att[a].barrier = "reserved"
InProvider(a) == att[a].barrier \in {"active", "interrupted"}
(* getProviderTurnInputAttempt: the first attempt with the turn and key.   *)
Ordinals(s) == {o \in 1 .. MaxOrdinal : Visible(<<s, o>>)}
FirstOrdinal(s) ==
    IF Ordinals(s) = {} THEN 0 ELSE CHOOSE o \in Ordinals(s) : \A q \in Ordinals(s) : o <= q
(* conflictingAttempt                                                      *)
Competes(s) == \E a \in Attempts : a[1] # s /\ Incomplete(a)

LaneIsFree == lane = None

(* cancelPreparedProviderTurnInput, once it is known to succeed.           *)
Cancelled(a) == att' = [att EXCEPT ![a].effect = "rejected", ![a].barrier = "released"]
Uncertain(a) == att' = [att EXCEPT ![a].effect = "submitted", ![a].barrier = "active"]

-----------------------------------------------------------------------------
(* submitProviderTurn                                                      *)

(* Mutant: a settled submission is taken up again.                         *)
MayResume_any(s) == TRUE

(* The epoch is held, the run is not final, and the submission is new or   *)
(* still queued: any other one is answered from its record.                *)
MayResume(s) == sub[s].state \in {"absent", "queued"}

(* A bound of the model.                                                   *)
Snapshots == FoldFunction(LAMBDA r, n : r.ord + n, 0, sub)
MayPrepare(s) == sub[s].ord < MaxOrdinal /\ Snapshots < MaxSnapshots

SubmitStart(p, s) ==
    /\ At(p, "idle") /\ phase = "up"
    /\ \/ p = "queue" /\ s \in Controllers \ spent
       \/ p = "pump" /\ s \in Systems
    /\ ~Final /\ MayResume(s) /\ MayPrepare(s)
    /\ sub' = [sub EXCEPT ![s].state = "queued"]
    /\ Becomes(p, [Rest EXCEPT !.pc = "refresh", !.sub = s, !.fresh = {"sub"}],
               IF sub[s].state = "absent" THEN {"sub"} ELSE {})
    /\ UNCHANGED <<run, att, world, budget>>

SafeBoundary == FenceFree /\ run.active = NoTurn

SubmitRefresh(p) ==
    /\ At(p, "refresh") /\ run.gen < MaxGeneration
    /\ IF SafeBoundary
         THEN proc' = [proc EXCEPT ![p].pc = "snapshot", ![p].gen = run.gen + 1,
                                   ![p].fresh = @ \union {"run"}]
         ELSE Returns(p, {})
    /\ UNCHANGED <<records, world, budget>>

SubmitSnapshot(p) ==
    LET s == proc[p].sub IN
    /\ Writes(p, "snapshot") /\ MayPrepare(s)
    /\ sub' = [sub EXCEPT ![s].ord = @ + 1, ![s].gen = proc[p].gen]
    /\ Becomes(p, [proc[p] EXCEPT !.pc = "prepare", !.ord = sub[s].ord + 1], {"sub"})
    /\ UNCHANGED <<run, att, world, budget>>

(* prepareProviderTurnInput writes a reservation ...                       *)
SubmitPrepare(p) ==
    /\ At(p, "prepare") /\ LaneIsFree /\ live /\ ~Competes(proc[p].sub)
    /\ att' = [att EXCEPT ![Mine(p)] = [effect |-> "prepared", barrier |-> "reserved",
                                        gen |-> proc[p].gen]]
    /\ Wrote(p, "fence", {"attempt"})
    /\ UNCHANGED <<run, sub, world, budget>>

(* ... or finds another turn, or for a system's turn a lease or a draft in *)
(* the way, and the submission is patched to say what ...                  *)
SubmitBlocked(p) ==
    /\ At(p, "prepare") /\ LaneIsFree /\ live
    /\ (Competes(proc[p].sub) \/ proc[p].sub \in Systems)
    /\ Returns(p, IF Has(p, "sub") THEN {"sub"} ELSE {})
    /\ UNCHANGED <<records, world, budget>>

(* Any other answer rejects a controller's submission.  Nobody asks        *)
(* whether that write succeeds: it may be lost.                            *)
RejectsController(p, lost) ==
    LET s == proc[p].sub IN
    IF s \in Controllers /\ Has(p, "sub") /\ ~lost
      THEN sub' = [sub EXCEPT ![s].state = "rejected"] /\ Returns(p, {"sub"})
      ELSE sub' = sub /\ Returns(p, {})

(* A refusal for good ends a controller's command, unless its receipt      *)
(* cannot be written (receipts.ts:254): then the command may be sent again. *)
EndsCommand(p, unsettled) ==
    spent' = IF unsettled THEN spent ELSE spent \union ({proc[p].sub} \intersect Controllers)

(* ... or refuses: there is no live process, or the controller's lease is  *)
(* gone, which rejects a controller's submission.                          *)
SubmitRefused(p) ==
    /\ At(p, "prepare") /\ LaneIsFree /\ (~live \/ proc[p].sub \in Controllers)
    /\ \E lost, unsettled \in BOOLEAN :
         /\ RejectsController(p, lost) /\ EndsCommand(p, unsettled)
         /\ Costs(Count(lost) + Count(unsettled))
    /\ UNCHANGED <<run, att, live, lane, phase, typed, crashes>>

(* ... or fails, and the reservation may be there all the same.  The       *)
(* failure of a store invites the caller to send the command again.        *)
SubmitLosesPrepare(p) ==
    /\ At(p, "prepare") /\ LaneIsFree
    /\ \/ att' = att
       \/ /\ live /\ ~Competes(proc[p].sub)
          /\ att' = [att EXCEPT ![Mine(p)] = [effect |-> "prepared", barrier |-> "reserved",
                                              gen |-> proc[p].gen]]
    /\ \E lost \in BOOLEAN : RejectsController(p, lost) /\ Costs(1 + Count(lost))
    /\ UNCHANGED <<run, live, lane, phase, spent, typed, crashes>>

SubmitFence(p) ==
    LET s == proc[p].sub IN
    /\ Writes(p, "fence")
    /\ run' = [run EXCEPT !.fence = Fence(s, proc[p].ord)]
    /\ Wrote(p, "mark", {"run"})
    /\ UNCHANGED <<sub, att, world, budget>>

SubmitLosesFence(p) ==
    /\ At(p, "fence") /\ Fault
    /\ Goto(p, "cancel")
    /\ UNCHANGED <<records, world, crashes>>

(* The run changed, as far as is known: the reservation is cancelled, and  *)
(* whether that succeeds is not asked.                                     *)
SubmitCancel(p) ==
    /\ At(p, "cancel") /\ LaneIsFree
    /\ \E lost, unsettled \in BOOLEAN :
         /\ IF Reserved(Mine(p)) /\ Has(p, "attempt") /\ ~lost
              THEN Cancelled(Mine(p)) /\ Returns(p, {"attempt"})
              ELSE att' = att /\ Returns(p, {})
         /\ EndsCommand(p, unsettled) /\ Costs(Count(lost) + Count(unsettled))
    /\ UNCHANGED <<run, sub, live, lane, phase, typed, crashes>>

SubmitMark(p) ==
    /\ Writes(p, "mark")
    /\ sub' = [sub EXCEPT ![proc[p].sub].state = "prepared"]
    /\ Wrote(p, "advance", {"sub"})
    /\ UNCHANGED <<run, att, world, budget>>

SubmitAdvance(p) ==
    /\ Writes(p, "advance")
    /\ Phased("submission-prepared")
    /\ Wrote(p, "execute", {"run"})
    /\ UNCHANGED <<sub, att, world, budget>>

-----------------------------------------------------------------------------
(* executeProviderTurnInput                                                *)

AfterExecute(p) == IF p = "recovery" THEN "recRecord" ELSE "record"

(* The effect marker is on disk before the first key.                      *)
Execute(p) ==
    LET a == Mine(p) IN
    /\ At(p, "execute") /\ LaneIsFree /\ Reserved(a) /\ Has(p, "attempt")
    /\ att' = [att EXCEPT ![a].effect = "executing"]
    /\ lane' = p
    /\ Wrote(p, "type", {"attempt"})
    /\ UNCHANGED <<run, sub, live, phase, spent, typed, budget>>

(* A marker without an outcome: the write may have escaped.                *)
ExecuteAgain(p) ==
    LET a == Mine(p) IN
    /\ At(p, "execute") /\ LaneIsFree /\ att[a].effect \in {"submitted", "executing"}
    /\ IF att[a].effect = "executing"
         THEN Uncertain(a) /\ Wrote(p, AfterExecute(p), {"attempt"})
         ELSE att' = att /\ Goto(p, AfterExecute(p))
    /\ UNCHANGED <<run, sub, world, budget>>

(* The provider has not proven that it reads, or the attempt is not what   *)
(* was prepared: nothing is written.                                       *)
ExecuteRefused(p) ==
    LET a == Mine(p) IN
    /\ At(p, "execute") /\ LaneIsFree
    /\ \/ Reserved(a) /\ Has(p, "attempt") /\ live
       \/ Reserved(a) /\ ~Has(p, "attempt")
       \/ att[a].effect \in {"rejected", "quarantined"}
    /\ Returns(p, {})
    /\ UNCHANGED <<records, world, budget>>

(* The text is typed if the process is still there, and the outcome        *)
(* recorded unless the attempt was quarantined meanwhile.                  *)
Type(p) ==
    LET a == Mine(p) IN
    /\ At(p, "type")
    /\ typed' = IF live THEN [typed EXCEPT ![proc[p].sub] = @ + 1] ELSE typed
    /\ lane' = None
    /\ IF att[a].effect = "executing"
         THEN Uncertain(a) /\ Wrote(p, AfterExecute(p), {"attempt"})
         ELSE att' = att /\ Returns(p, {})
    /\ UNCHANGED <<run, sub, live, phase, spent, budget>>

(* The outcome cannot be recorded, whatever was typed.                     *)
TypeFails(p) ==
    /\ At(p, "type") /\ Fault
    /\ typed' = IF live THEN [typed EXCEPT ![proc[p].sub] = @ + 1] ELSE typed
    /\ lane' = None
    /\ Returns(p, {})
    /\ UNCHANGED <<records, live, phase, spent, crashes>>

SubmitRecord(p) ==
    /\ Writes(p, "record")
    /\ sub' = [sub EXCEPT ![proc[p].sub].state = Submitted,
                          ![proc[p].sub].ref = proc[p].ord,
                          ![proc[p].sub].activation = "pending"]
    /\ Wrote(p, "activate", {"sub"})
    /\ UNCHANGED <<run, att, world, budget>>

(* Mutant: the run is written whatever has become of it.                   *)
SubmitActivate_blind(p) ==
    /\ At(p, "activate")
    /\ run' = Activated(proc[p].sub)
    /\ Wrote(p, "commit", {"run"})
    /\ UNCHANGED <<sub, att, world, budget>>

SubmitActivate(p) ==
    /\ Writes(p, "activate")
    /\ run' = Activated(proc[p].sub)
    /\ Wrote(p, "commit", {"run"})
    /\ UNCHANGED <<sub, att, world, budget>>

SubmitCommit(p) ==
    /\ Writes(p, "commit")
    /\ sub' = [sub EXCEPT ![proc[p].sub].activation = "committed"]
    /\ Returns(p, {"sub"})
    /\ UNCHANGED <<run, att, world, budget>>

Submitting(p) ==
    \/ \E s \in Subs : SubmitStart(p, s)
    \/ SubmitRefresh(p) \/ SubmitSnapshot(p)
    \/ SubmitPrepare(p) \/ SubmitBlocked(p) \/ SubmitRefused(p)
    \/ SubmitLosesPrepare(p) \/ SubmitFence(p) \/ SubmitLosesFence(p) \/ SubmitCancel(p)
    \/ SubmitMark(p) \/ SubmitAdvance(p)
    \/ Execute(p) \/ ExecuteAgain(p) \/ ExecuteRefused(p) \/ Type(p) \/ TypeFails(p)
    \/ SubmitRecord(p) \/ SubmitActivate(p) \/ SubmitCommit(p)

-----------------------------------------------------------------------------
(* lifecycle.ts and recover.ts                                             *)

(* interruptAgentTurn: the terminal's barrier first, the run afterwards.   *)
InterruptStart ==
    /\ At("ops", "idle") /\ phase = "up" /\ ~Final /\ run.active # NoTurn
    /\ run.gen < MaxGeneration
    /\ proc' = [proc EXCEPT !["ops"] = [Rest EXCEPT !.pc = "barrier", !.sub = run.active.turn,
                                                    !.gen = run.active.gen, !.fresh = {"run"}]]
    /\ UNCHANGED <<records, world, budget>>

(* interruptTerminalTurn looks at the first attempt with the turn's tuple; *)
(* a turn begun without one it only has in memory, if at all.              *)
Named(o) == proc["ops"].sub \in Subs /\ o \in Ordinals(proc["ops"].sub)
            /\ att[<<proc["ops"].sub, o>>].gen = proc["ops"].gen
Target(o) ==
    Named(o) /\ (\A q \in 1 .. o - 1 : ~Named(q)) /\ InProvider(<<proc["ops"].sub, o>>)

InterruptBarrier ==
    /\ At("ops", "barrier") /\ LaneIsFree
    /\ \/ /\ live /\ \E o \in 1 .. MaxOrdinal :
                        /\ Target(o)
                        /\ att' = [att EXCEPT ![<<proc["ops"].sub, o>>].barrier = "interrupted"]
                        /\ Becomes("ops", [proc["ops"] EXCEPT !.pc = "interrupting", !.ord = o],
                                   {"attempt"})
       \/ live /\ proc["ops"].sub = Bare /\ att' = att /\ Goto("ops", "interrupting")
       \/ /\ ~live \/ ~\E o \in 1 .. MaxOrdinal : Target(o)
          /\ att' = att /\ Returns("ops", {})
    /\ UNCHANGED <<run, sub, world, budget>>

InterruptRun ==
    /\ Writes("ops", "interrupting")
    /\ run' = [run EXCEPT !.gen = @ + 1]
    /\ Returns("ops", {"run"})
    /\ UNCHANGED <<sub, att, world, budget>>

(* beginProviderTurn and endProviderTurn read the run and write it.        *)
BeginTurn ==
    /\ At("queue", "idle") /\ phase = "up" /\ ~Final /\ run.gen < MaxGeneration
    /\ run' = [run EXCEPT !.gen = @ + 1, !.active = [turn |-> Bare, gen |-> run.gen + 1]]
    /\ Returns("queue", {"run"})
    /\ UNCHANGED <<sub, att, world, budget>>

EndTurn ==
    /\ At("ops", "idle") /\ phase = "up" /\ run.active # NoTurn /\ run.gen < MaxGeneration
    /\ run' = [run EXCEPT !.gen = @ + 1, !.active = NoTurn]
    /\ Returns("ops", {"run"})
    /\ UNCHANGED <<sub, att, world, budget>>

(* closeRun                                                                *)
StopStart ==
    /\ At("ops", "idle") /\ phase = "up" /\ ~Final
    /\ run' = [run EXCEPT !.lifecycle = "stopping"]
    /\ Becomes("ops", [Rest EXCEPT !.pc = "terminate", !.fresh = {"run"}], {"run"})
    /\ UNCHANGED <<sub, att, world, budget>>

Terminate ==
    /\ At("ops", "terminate")
    /\ live' = FALSE
    /\ Goto("ops", "stopped")
    /\ UNCHANGED <<records, lane, phase, spent, typed, budget>>

TerminateFails ==
    /\ At("ops", "terminate")
    /\ IF Has("ops", "run")
         THEN run' = [run EXCEPT !.lifecycle = "recovery-required"] /\ Returns("ops", {"run"})
         ELSE run' = run /\ Returns("ops", {})
    /\ UNCHANGED <<sub, att, world, budget>>

StopDone ==
    /\ Writes("ops", "stopped")
    /\ run' = [run EXCEPT !.lifecycle = "stopped"]
    /\ Returns("ops", {"run"})
    /\ UNCHANGED <<sub, att, world, budget>>

(* The provider exits; settleIfTerminalGone marks the activity unknown     *)
(* once, and the run interrupted.                                          *)
ProviderExits ==
    /\ live /\ live' = FALSE
    /\ UNCHANGED <<records, lane, phase, spent, typed, proc, budget>>

ObserveExit ==
    /\ At("ops", "idle") /\ phase = "up" /\ ~live /\ ~Final
    /\ (run.uncertain \/ run.gen < MaxGeneration)
    /\ run' = IF run.uncertain THEN run ELSE [run EXCEPT !.gen = @ + 1, !.uncertain = TRUE]
    /\ Becomes("ops", [Rest EXCEPT !.pc = "exited", !.fresh = {"run"}],
               IF run.uncertain THEN {} ELSE {"run"})
    /\ UNCHANGED <<sub, att, world, budget>>

SettleExit ==
    /\ Writes("ops", "exited")
    /\ run' = [run EXCEPT !.lifecycle = "interrupted"]
    /\ Returns("ops", {"run"})
    /\ UNCHANGED <<sub, att, world, budget>>

Lifecycle ==
    \/ InterruptStart \/ InterruptBarrier \/ InterruptRun
    \/ BeginTurn \/ EndTurn
    \/ StopStart \/ Terminate \/ TerminateFails \/ StopDone
    \/ ProviderExits \/ ObserveExit \/ SettleExit

-----------------------------------------------------------------------------
(* completeProviderTurn: sys_reconciler has the provider's own evidence    *)
(* that the turn ended.                                                    *)

TupleMatches(s) == run.active.turn = s /\ run.active.gen = run.gen /\ FenceIs(s)
                   /\ run.fence.gen = run.gen

CompleteStep(s) ==
    CASE run.last = s /\ sub[s].state = Submitted -> "repairSub"
      [] run.last = s /\ sub[s].state = "completed" /\ FenceIs(s) -> "completeClear"
      [] /\ run.last # s /\ ~Final /\ TupleMatches(s) /\ sub[s].state = Submitted
         /\ run.fence.phase \notin {"completing", "completion-barrier-committed"} -> "completing"
      [] /\ run.last # s /\ ~Final /\ TupleMatches(s) /\ sub[s].state = Submitted
         /\ run.fence.phase \in {"completing", "completion-barrier-committed"} -> "settle"
      [] OTHER -> "idle"

CompleteStart(s) ==
    /\ At("queue", "idle") /\ phase = "up" /\ typed[s] > 0
    /\ CompleteStep(s) # "idle" /\ run.gen < MaxGeneration
    /\ proc' = [proc EXCEPT !["queue"] =
                  [Rest EXCEPT !.pc = CompleteStep(s), !.sub = s, !.ord = sub[s].ref,
                               !.gen = run.gen, !.fresh = {"run", "sub"}]]
    /\ UNCHANGED <<records, world, budget>>

(* The run says that the turn is complete, and the submission does not.    *)
CompleteRepairs ==
    LET s == proc["queue"].sub IN
    /\ Writes("queue", "repairSub")
    /\ sub' = [sub EXCEPT ![s].state = "completed"]
    /\ IF FenceIs(s) THEN Wrote("queue", "completeClear", {"sub"}) ELSE Returns("queue", {"sub"})
    /\ UNCHANGED <<run, att, world, budget>>

CompleteFences ==
    /\ Writes("queue", "completing")
    /\ Phased("completing")
    /\ Wrote("queue", "settle", {"run"})
    /\ UNCHANGED <<sub, att, world, budget>>

(* settleProviderTurnCompletion: which came first, the interrupt or the    *)
(* end of the turn, is recorded.                                           *)
CompleteSettles ==
    LET a == Mine("queue") IN
    /\ At("queue", "settle") /\ LaneIsFree
    /\ IF Visible(a) /\ att[a].gen = proc["queue"].gen
          /\ (InProvider(a) \/ att[a].barrier \in Completed)
         THEN /\ att' = [att EXCEPT ![a].barrier =
                          CASE @ = "active" -> "completed"
                            [] @ = "interrupted" -> "completed-interrupted"
                            [] OTHER -> @]
              /\ Wrote("queue", "refreshed", {"attempt"})
         ELSE att' = att /\ Returns("queue", {})
    /\ UNCHANGED <<run, sub, world, budget>>

(* The run is read again; nobody asks whether it is final now.             *)
CompleteRefreshes ==
    LET s == proc["queue"].sub IN
    /\ At("queue", "refreshed")
    /\ IF /\ run.active.turn = s /\ run.gen = proc["queue"].gen
          /\ FenceIs(s) /\ run.fence.ord = proc["queue"].ord
         THEN Reads("queue", "complete", {"run"})
         ELSE Returns("queue", {})
    /\ UNCHANGED <<records, world, budget>>

CompleteRun ==
    /\ Writes("queue", "complete")
    /\ run' = [run EXCEPT !.gen = @ + 1, !.active = NoTurn, !.last = proc["queue"].sub,
                          !.fence.phase = "completion-barrier-committed"]
    /\ Wrote("queue", "completeSub", {"run"})
    /\ UNCHANGED <<sub, att, world, budget>>

CompleteSub ==
    /\ Writes("queue", "completeSub")
    /\ sub' = [sub EXCEPT ![proc["queue"].sub].state = "completed"]
    /\ Wrote("queue", "completeClear", {"sub"})
    /\ UNCHANGED <<run, att, world, budget>>

CompleteClear ==
    /\ Writes("queue", "completeClear")
    /\ run' = [run EXCEPT !.fence = NoFence]
    /\ Returns("queue", {"run"})
    /\ UNCHANGED <<sub, att, world, budget>>

Completing ==
    \/ \E s \in Subs : CompleteStart(s)
    \/ CompleteRepairs \/ CompleteFences \/ CompleteSettles \/ CompleteRefreshes
    \/ CompleteRun \/ CompleteSub \/ CompleteClear

-----------------------------------------------------------------------------
(* closeProviderTurnCompletionUnproven: an operator's repair of a          *)
(* submission that is held for recovery.                                   *)

CloseStart(s, step) ==
    /\ At("queue", "idle") /\ phase = "up" /\ sub[s].state = "recovery-required"
    /\ proc' = [proc EXCEPT !["queue"] =
                  [Rest EXCEPT !.pc = step, !.sub = s, !.ord = FirstOrdinal(s),
                               !.gen = sub[s].gen, !.fresh = {"run", "sub", "attempt"}]]
    /\ UNCHANGED <<records, world, budget>>

CloseNoAttempt(s) ==
    /\ FirstOrdinal(s) = 0 /\ sub[s].ref = 0 /\ run.active.turn # s /\ ~FenceIs(s)
    /\ CloseStart(s, "closeReject")

NoEffect(a) == Reserved(a) \/ att[a].effect = "rejected"

ClosePreEffect(s) ==
    LET a == <<s, FirstOrdinal(s)>> IN
    /\ FirstOrdinal(s) # 0 /\ sub[s].ref = FirstOrdinal(s) /\ att[a].gen = sub[s].gen
    /\ run.active.turn # s /\ NoEffect(a)
    /\ \/ FenceFree
       \/ /\ FenceIs(s) /\ run.fence.ord = a[2]
          /\ run.fence.phase \in {"terminal-prepared", "submission-prepared", "recovery-required"}
    /\ CloseStart(s, CASE Reserved(a) /\ FenceFree -> "closeCancelOnly"
                       [] Reserved(a) /\ ~FenceFree -> "closeCancel"
                       [] ~Reserved(a) /\ FenceFree -> "closeReject"
                       [] OTHER -> "closeClear")

(* Both the terminal and the provider must be final.                       *)
CloseActivated(s) ==
    LET a == <<s, FirstOrdinal(s)>> IN
    /\ FirstOrdinal(s) # 0 /\ sub[s].ref = FirstOrdinal(s) /\ att[a].gen = sub[s].gen
    /\ sub[s].safe = Submitted /\ (InProvider(a) \/ att[a].barrier = "closed")
    /\ \/ run.lifecycle = "failed" /\ att[a].barrier = "closed" /\ CloseStart(s, "closeFinal")
       \/ /\ run.active = [turn |-> s, gen |-> run.gen] /\ run.gen = sub[s].gen
          /\ FenceIs(s) /\ run.fence.phase = "recovery-required" /\ ~live
          /\ run.gen < MaxGeneration
          /\ CloseStart(s, IF InProvider(a) THEN "closeBarrier" ELSE "closeRun")

CloseCancels ==
    LET a == Mine("queue") IN
    /\ proc["queue"].pc \in {"closeCancel", "closeCancelOnly"} /\ LaneIsFree
    /\ IF (Reserved(a) /\ Has("queue", "attempt")) \/ att[a].effect = "rejected"
         THEN /\ Cancelled(a)
              /\ Wrote("queue", IF At("queue", "closeCancel") THEN "closeClear" ELSE "closeReject",
                       {"attempt"})
         ELSE att' = att /\ Returns("queue", {})
    /\ UNCHANGED <<run, sub, world, budget>>

CloseClears ==
    /\ Writes("queue", "closeClear")
    /\ run' = [run EXCEPT !.fence = NoFence]
    /\ Wrote("queue", "closeReject", {"run"})
    /\ UNCHANGED <<sub, att, world, budget>>

CloseRejects ==
    /\ Writes("queue", "closeReject")
    /\ sub' = [sub EXCEPT ![proc["queue"].sub].state = "rejected"]
    /\ Returns("queue", {"sub"})
    /\ UNCHANGED <<run, att, world, budget>>

CloseBarrier ==
    LET a == Mine("queue") IN
    /\ At("queue", "closeBarrier") /\ LaneIsFree
    /\ IF InProvider(a) \/ att[a].barrier = "closed"
         THEN att' = [att EXCEPT ![a].barrier = "closed"] /\ Wrote("queue", "closeRun", {"attempt"})
         ELSE att' = att /\ Returns("queue", {})
    /\ UNCHANGED <<run, sub, world, budget>>

CloseRun ==
    /\ Writes("queue", "closeRun")
    /\ run' = [run EXCEPT !.lifecycle = "failed", !.gen = @ + 1, !.active = NoTurn,
                          !.fence = NoFence]
    /\ Wrote("queue", "closeFinal", {"run"})
    /\ UNCHANGED <<sub, att, world, budget>>

CloseFinal ==
    /\ Writes("queue", "closeFinal")
    /\ sub' = [sub EXCEPT ![proc["queue"].sub].state = "completion-unproven-final"]
    /\ Returns("queue", {"sub"})
    /\ UNCHANGED <<run, att, world, budget>>

Closing ==
    \/ \E s \in Subs : CloseNoAttempt(s) \/ ClosePreEffect(s) \/ CloseActivated(s)
    \/ CloseCancels \/ CloseClears \/ CloseRejects
    \/ CloseBarrier \/ CloseRun \/ CloseFinal

-----------------------------------------------------------------------------
(* Reconciliation.  A pass takes the submissions one by one, from lists it *)
(* read before, and ends at the first error: it is any sequence of the     *)
(* tasks below.                                                            *)

R == "recovery"
S == proc[R].sub
Mode == IF phase = "starting" THEN "startup" ELSE "periodic"
MayReconcile == At(R, "idle") /\ (phase = "starting" \/ "periodic" \in Modes)
Seen == proc[R].seen
ReadsAttempt(step, o) ==
    proc' = [proc EXCEPT ![R].pc = step, ![R].ord = o,
                         ![R].effect = IF o = 0 THEN "absent" ELSE att[<<S, o>>].effect,
                         ![R].fresh = @ \union {"attempt"}]
Task(step, s) ==
    /\ MayReconcile
    /\ proc' = [proc EXCEPT ![R] = [Rest EXCEPT !.pc = step, !.sub = s, !.seen = sub[s],
                                                !.fresh = {"sub"}]]
    /\ UNCHANGED <<records, world, budget>>
(* A step that only moves on.                                              *)
Quietly == UNCHANGED <<records, world, budget>>

(* The inventory of the terminal's incomplete attempts: one that is not    *)
(* what its submission says is put in quarantine.  The submissions are     *)
(* listed first, the attempts then, and the run is read for each attempt.  *)
Mismatch ==
    \/ Seen.state = "absent"
    \/ att[Mine(R)].gen # Seen.gen
    \/ /\ proc[R].effect = "executing"
       /\ \/ Seen.state # "prepared"
          \/ ~FenceIs(S) \/ run.fence.ord # proc[R].ord \/ run.fence.phase # "submission-prepared"

InventoryStart(s) == Task("inventory", s)

InventoryList ==
    /\ At(R, "inventory")
    /\ \/ \E o \in Ordinals(S) : Incomplete(<<S, o>>) /\ ReadsAttempt("judge", o)
       \/ (\A o \in Ordinals(S) : ~Incomplete(<<S, o>>)) /\ Returns(R, {})
    /\ Quietly

InventoryJudge ==
    /\ At(R, "judge")
    /\ IF (Final /\ Seen.state # "absent") \/ ~Mismatch
         THEN Returns(R, {})
         ELSE Goto(R, "quarantine")
    /\ Quietly

Quarantine ==
    /\ At(R, "quarantine")
    /\ att' = [att EXCEPT ![Mine(R)].effect = "quarantined"]
    /\ Wrote(R, IF Seen.state = "absent" THEN "orphanFence" ELSE "hold", {"attempt"})
    /\ UNCHANGED <<run, sub, world, budget>>

(* holdForRecovery, with the fence of a quarantined orphan treated alike.  *)
Holdable == {"queued", "prepared", Submitted}

Hold ==
    /\ At(R, "hold") /\ Seen.state \in Holdable /\ Has(R, "sub")
    /\ sub' = [sub EXCEPT ![S] = [@ EXCEPT !.state = "recovery-required", !.safe = Seen.state,
                                           !.ref = proc[R].ord, !.activation = "none"]]
    /\ Wrote(R, "orphanFence", {"sub"})
    /\ UNCHANGED <<run, att, world, budget>>

HoldNothing ==
    /\ At(R, "hold") /\ ~(Seen.state \in Holdable /\ Has(R, "sub"))
    /\ Returns(R, {})
    /\ Quietly

HoldFence ==
    /\ At(R, "orphanFence")
    /\ IF FenceIs(S) /\ run.fence.phase # "recovery-required"
         THEN Phased("recovery-required") /\ Returns(R, {"run"})
         ELSE run' = run /\ Returns(R, {})
    /\ UNCHANGED <<sub, att, world, budget>>

(* reconcileControllerPreEffectSubmissions                                 *)
ControllerStart(s) ==
    /\ s \in Controllers /\ sub[s].state \in {"queued", "prepared"} /\ ~Final
    /\ Task("ctlLook", s)

PreEffect(a) == Reserved(a)

ControllerLook ==
    LET o == FirstOrdinal(S) IN
    /\ At(R, "ctlLook")
    /\ IF o # 0 /\ ~PreEffect(<<S, o>>) THEN Returns(R, {}) ELSE ReadsAttempt("ctlGuard", o)
    /\ Quietly

(* The periodic pass leaves a command time to resume: until the deadline   *)
(* in the run's fence, which a controller's has and whosever it is, has    *)
(* passed.                                                                 *)
ControllerGuard ==
    /\ At(R, "ctlGuard")
    /\ \/ /\ ~Final
          /\ Mode = "startup" \/ run.fence.sub \in Controllers \/ proc[R].ord # 0
          /\ Goto(R, IF proc[R].ord = 0 THEN "ctlClear" ELSE "ctlCancel")
       \/ /\ Final \/ Mode = "periodic"
          /\ Returns(R, {})
    /\ Quietly

ControllerCancel ==
    LET a == Mine(R) IN
    /\ At(R, "ctlCancel") /\ LaneIsFree
    /\ IF (Reserved(a) /\ Has(R, "attempt")) \/ att[a].effect = "rejected"
         THEN Cancelled(a) /\ Wrote(R, "ctlClear", {"attempt"})
         ELSE att' = att /\ Returns(R, {})
    /\ UNCHANGED <<run, sub, world, budget>>

ControllerClear ==
    /\ At(R, "ctlClear")
    /\ IF FenceIs(S)
         THEN run' = [run EXCEPT !.fence = NoFence] /\ Wrote(R, "ctlReject", {"run"})
         ELSE run' = run /\ Goto(R, "ctlReject")
    /\ UNCHANGED <<sub, att, world, budget>>

ControllerReject ==
    /\ Writes(R, "ctlReject")
    /\ sub' = [sub EXCEPT ![S].state = "rejected"]
    /\ Returns(R, {"sub"})
    /\ UNCHANGED <<run, att, world, budget>>

(* reconcileAllProviderTurnSubmissions, the general pass.                  *)
GeneralStart(s) ==
    /\ sub[s].state \in Holdable /\ ~Final
    /\ Task("genLook", s)

(* The run says that the turn is complete: its fence is released.          *)
GeneralClear(s) ==
    /\ MayReconcile /\ sub[s].state = "completed" /\ ~Final /\ FenceIs(s)
    /\ run.last = s /\ run.fence.phase = "completion-barrier-committed"
    /\ run' = [run EXCEPT !.fence = NoFence]
    /\ Returns(R, {"run"})
    /\ UNCHANGED <<sub, att, world, budget>>

GeneralLook ==
    LET o == FirstOrdinal(S) IN
    /\ At(R, "genLook")
    /\ CASE Final -> Returns(R, {})
         [] ~Final /\ o # 0 -> ReadsAttempt("recFence", o)
         [] ~Final /\ o = 0 /\ Seen.state # "queued" -> Goto(R, "hold")
         [] ~Final /\ o = 0 /\ Seen.state = "queued" ->
              IF S \in Systems
                THEN \/ MayResume(S) /\ Reads(R, "refresh", {"sub"})  \* submitProviderTurn
                     \/ ~MayResume(S) /\ Returns(R, {})
                     \/ Goto(R, "hold")             \* its stored text is damaged
                ELSE Returns(R, {})
    /\ Quietly

(* recoverAttemptedSubmission                                              *)
FenceMatches == FenceIs(S) /\ run.fence.ord = proc[R].ord /\ run.fence.gen = Seen.gen
LawfulGap == S \in Systems /\ Seen.state = "queued" /\ proc[R].effect = "prepared" /\ FenceFree

RecoverFence ==
    /\ At(R, "recFence")
    /\ CASE att[Mine(R)].gen = Seen.gen /\ FenceMatches ->
              run' = run /\ Reads(R, "recMark", {"run"})
         [] att[Mine(R)].gen = Seen.gen /\ ~FenceMatches /\ LawfulGap ->
              /\ run' = [run EXCEPT !.fence = [Fence(S, proc[R].ord) EXCEPT !.gen = Seen.gen]]
              /\ Wrote(R, "recMark", {"run"})
         [] OTHER -> run' = run /\ Goto(R, "hold")
    /\ UNCHANGED <<sub, att, world, budget>>

(* Only a system's text is stored, and it may be damaged.                  *)
RecoverSkip ==
    /\ At(R, "recMark")
    /\ \/ proc[R].effect \in {"prepared", "rejected"} /\ Goto(R, "hold")
       \/ /\ proc[R].effect = "prepared" /\ S \in Systems /\ Seen.state # "queued"
          /\ Goto(R, "recAdvance")
       \/ proc[R].effect = "executing" /\ Goto(R, "execute")
       \/ proc[R].effect = "submitted" /\ Goto(R, "recRecord")
    /\ Quietly

RecoverMark ==
    /\ Writes(R, "recMark")
    /\ proc[R].effect = "prepared" /\ S \in Systems /\ Seen.state = "queued"
    /\ sub' = [sub EXCEPT ![S].state = "prepared"]
    /\ Becomes(R, [proc[R] EXCEPT !.pc = "recAdvance", !.seen.state = "prepared"], {"sub"})
    /\ UNCHANGED <<run, att, world, budget>>

RecoverAdvance ==
    /\ Writes(R, "recAdvance")
    /\ IF run.fence.phase = "submission-prepared"
         THEN run' = run /\ Goto(R, "execute")
         ELSE Phased("submission-prepared") /\ Wrote(R, "execute", {"run"})
    /\ UNCHANGED <<sub, att, world, budget>>

RecoverRecord ==
    /\ At(R, "recRecord")
    /\ IF Seen.state = Submitted
         THEN sub' = sub /\ Goto(R, "recActivate")
         ELSE /\ Has(R, "sub")
              /\ sub' = [sub EXCEPT ![S].state = Submitted, ![S].ref = proc[R].ord,
                                    ![S].activation = "pending"]
              /\ Becomes(R, [proc[R] EXCEPT !.pc = "recActivate", !.seen.state = Submitted,
                                            !.seen.activation = "pending"], {"sub"})
    /\ UNCHANGED <<run, att, world, budget>>

MayActivate == run.active = NoTurn /\ run.gen + 1 = Seen.gen /\ FenceIs(S)

(* The run is read again; nobody asks whether it is final now.             *)
RecoverActivate ==
    /\ At(R, "recActivate")
    /\ CASE run.active = [turn |-> S, gen |-> Seen.gen] /\ run.gen = Seen.gen ->
              IF run.fence.phase = "active"
                THEN run' = run /\ Reads(R, "recCommit", {"run"})
                ELSE Phased("active") /\ Wrote(R, "recCommit", {"run"})
         [] OTHER ->
              IF MayActivate
                THEN run' = Activated(S) /\ Wrote(R, "recCommit", {"run"})
                ELSE run' = run /\ Goto(R, "hold")
    /\ UNCHANGED <<sub, att, world, budget>>

RecoverCommit ==
    /\ At(R, "recCommit")
    /\ IF Seen.activation # "pending"
         THEN sub' = sub /\ Goto(R, "verdict")
         ELSE /\ Has(R, "sub")
              /\ sub' = [sub EXCEPT ![S].activation = "committed"]
              /\ Becomes(R, [proc[R] EXCEPT !.pc = "verdict", !.seen.activation = "committed"],
                         {"sub"})
    /\ UNCHANGED <<run, att, world, budget>>

(* The completion coordinator may say that the turn's end is unprovable.   *)
Verdict ==
    /\ At(R, "verdict")
    /\ Goto(R, "hold") \/ Returns(R, {})
    /\ Quietly

Reconciling ==
    \/ \E s \in Subs : \/ InventoryStart(s) \/ ControllerStart(s)
                       \/ GeneralStart(s) \/ GeneralClear(s)
    \/ InventoryList \/ InventoryJudge \/ Quarantine
    \/ Hold \/ HoldNothing \/ HoldFence
    \/ ControllerLook \/ ControllerGuard \/ ControllerCancel \/ ControllerClear \/ ControllerReject
    \/ GeneralLook \/ RecoverFence \/ RecoverSkip \/ RecoverMark \/ RecoverAdvance
    \/ RecoverRecord \/ RecoverActivate \/ RecoverCommit \/ Verdict

(* The runtime dies with its provider; the next one reconciles, and then   *)
(* settles a run nobody owns any more (reconcileAfterRestart).             *)
Crash ==
    /\ crashes < MaxCrashes /\ crashes' = crashes + 1
    /\ proc' = [p \in Procs |-> Rest]
    /\ lane' = None /\ live' = FALSE /\ phase' = "starting"
    /\ UNCHANGED <<records, spent, typed, faults>>

Started ==
    /\ phase = "starting" /\ At(R, "idle") /\ phase' = "up"
    /\ run' = IF Final THEN run ELSE [run EXCEPT !.lifecycle = "interrupted"]
    /\ Returns(R, {"run"})
    /\ UNCHANGED <<sub, att, live, lane, spent, typed, budget>>

Next ==
    \/ \E p \in {"queue", "pump", "recovery"} : Submitting(p)
    \/ Lifecycle \/ Completing \/ Closing \/ Reconciling
    \/ \E p \in Procs : Loses(p) \/ Fails(p)
    \/ Crash \/ Started

Spec == Init /\ [][Next]_vars

-----------------------------------------------------------------------------
(* The same text is never sent to the provider twice, by any number of     *)
(* retries, crashes and recoveries: the effect marker decides.             *)
TypedOnce == \A s \in Subs : typed[s] <= 1

(* A final state of a submission is true of the provider: "rejected", as   *)
(* any final refusal of a controller's command, means that nothing was     *)
(* typed; "completed" that the terminal settled the attempt, and the run   *)
(* has let go of the turn and calls it, or a later one, the last that was  *)
(* completed; "completion-unproven-final" that the run failed, the         *)
(* terminal closed the attempt, and the process is gone.                   *)
RefusalsAreTrue ==
    \A s \in Subs : sub[s].state = "rejected" \/ s \in spent => typed[s] = 0
CompletionsAreTrue ==
    \A s \in Subs : sub[s].state = "completed" =>
        /\ att[<<s, sub[s].ref>>].barrier \in Completed /\ run.active.turn # s
        /\ run.last # None /\ sub[s].gen <= sub[run.last].gen
ClosuresAreTrue ==
    \A s \in Subs : sub[s].state = "completion-unproven-final" =>
        run.lifecycle = "failed" /\ att[<<s, sub[s].ref>>].barrier = "closed" /\ ~live
VerdictsAreTrue == RefusalsAreTrue /\ CompletionsAreTrue /\ ClosuresAreTrue

(* The run and the terminal agree: the provider has one turn at most, and  *)
(* the managed turn the run calls active was submitted for the generation  *)
(* the run gives it.                                                       *)
TerminalAgrees ==
    /\ \A a, b \in Attempts : InProvider(a) /\ InProvider(b) => a = b
    /\ run.active.turn \in Subs =>
         \E o \in 1 .. MaxOrdinal : /\ att[<<run.active.turn, o>>].effect = "submitted"
                                    /\ att[<<run.active.turn, o>>].gen = run.active.gen

(* The record of a turn, its run, the terminal and what was typed tell one  *)
(* story.                                                                   *)
RecordsAgree == TypedOnce /\ VerdictsAreTrue /\ TerminalAgrees

(* Generations are taken one by one: a turn activated late never moves the *)
(* run to a generation that somebody else has used.  And a run that is     *)
(* final stays final: no step of a turn that was under way when it ended   *)
(* gives it another turn or another fence.                                 *)
RunMovesForward ==
    [][/\ run'.gen \in {run.gen, run.gen + 1}
       /\ Final => /\ Final'
                   /\ run'.active \in {run.active, NoTurn}
                   /\ run'.fence.sub \in {run.fence.sub, None}]_vars

(* When nothing is under way on a run that is up, its managed turn can be  *)
(* completed - unless the turn was interrupted, which moves the run's      *)
(* generation and not the turn's, or its terminal was seen to be gone.     *)
AtRest == phase = "up" /\ \A p \in Procs : At(p, "idle")
Interrupted(s) ==
    \E o \in 1 .. MaxOrdinal : att[<<s, o>>].barrier \in {"interrupted", "completed-interrupted"}
CompletableUnlessInterrupted ==
    AtRest /\ ~Final /\ run.active.turn \in Subs =>
        TupleMatches(run.active.turn) \/ Interrupted(run.active.turn) \/ run.uncertain
==============================================================================
