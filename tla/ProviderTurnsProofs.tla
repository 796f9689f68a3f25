------------------------ MODULE ProviderTurnsProofs ------------------------
(***************************************************************************)
(* The types of ProviderTurns, and its safety where the runtime reconciles *)
(* when it starts and not while it runs (StartupOnly) and prepares nothing *)
(* over a reservation that it left (PreparesAfresh).                       *)
(*                                                                         *)
(* The argument has three parts.                                           *)
(*   What holds of the records (RecordsOK): attempt, fence, active turn,   *)
(*     last turn and submission, each next to the others.                  *)
(*   What a process knows at each of its steps (SubmitterOK, CompleterOK,  *)
(*     CloserOK, OpsOK, ReconcilerOK): the records it has read, decided    *)
(*     about or written, and its copies as long as they are fresh.         *)
(*   What a step does to the records (Move), and who may take it (Owns).   *)
(* Every action is shown to be a move; every move keeps RecordsOK; a       *)
(* process's own step gives it what its next step has to know; and nobody  *)
(* else's move takes that away.                                            *)
(***************************************************************************)
EXTENDS ProviderTurns, TLAPS, WellFoundedInduction

(* The runtime reconciles when it starts (recover.ts:160), and not while it *)
(* runs: nothing but tests calls reconcileProviderTurns.                    *)
StartupOnly == "periodic" \notin Modes

(* A controller's submission is not prepared again over a reservation that  *)
(* an earlier preparation left.  For that to happen the reservation must    *)
(* have been written by a prepare that failed, or its cancellation been     *)
(* lost, and then the rejection must get lost as well                       *)
(* (provider-turns.ts:342), or the receipt of the refusal (receipts.ts:254):*)
(* two failures of one command, which is then sent again.                   *)
PreparesAfresh ==
    \A s \in Controllers :
        proc["queue"].sub = s /\ (\E o \in 1 .. MaxOrdinal : att[<<s, o>>].barrier = "reserved")
            => ~(SubmitRefresh("queue") /\ SafeBoundary)

Ords == 1 .. MaxOrdinal
State(s) == sub[s].state
Effect(s, o) == att[<<s, o>>].effect
Barrier(s, o) == att[<<s, o>>].barrier
Blank(s, o) == Effect(s, o) \in {"absent", "rejected"}
Taken(s, o) == Barrier(s, o) \in {"active", "interrupted"}
Busy(s, o) == Effect(s, o) = "executing" \/ Taken(s, o)
Fenced(s, o) == run.fence.sub = s /\ run.fence.ord = o
Settled(s, o) == o \in Ords /\ Barrier(s, o) \in Completed
Shut(s, o) == o \in Ords /\ Barrier(s, o) = "closed"
Idle(p) == At(p, "idle")
Starting == {"absent", "queued"}
Unheld == {"prepared", Submitted, "recovery-required"}
Open == {"refresh", "snapshot", "prepare", "fence", "cancel", "mark", "advance", "execute", "type",
         "record", "activate", "commit"}

-----------------------------------------------------------------------------
(* The life of the runtime, the process and the run.                        *)
LifeOK ==
    /\ Final \/ crashes > 0 => ~live
    /\ crashes > 0 /\ phase = "up" => Final
    /\ phase = "starting" => crashes > 0 /\ \A p \in Procs \ {R} : Idle(p)
    /\ phase = "up" => Idle(R)
    /\ crashes > 0 => Idle("pump") /\ Idle("ops") /\ proc["queue"].pc \notin Open
    /\ run.lifecycle = "failed" => run.active = NoTurn /\ crashes > 0

(* An attempt by itself.                                                    *)
ShapeOK(s, o) ==
    /\ Effect(s, o) \in {"prepared", "executing"} => Barrier(s, o) = "reserved"
    /\ Effect(s, o) = "rejected" => Barrier(s, o) = "released"
    /\ Effect(s, o) = "absent" => Barrier(s, o) = "none"
    /\ Effect(s, o) = "quarantined" => Barrier(s, o) = "reserved"
    /\ Effect(s, o) = "submitted" =>
         Barrier(s, o) \in {"active", "interrupted", "closed"} \union Completed
KnownOK(s, o) ==
    /\ Effect(s, o) # "absent" => State(s) # "absent" /\ o <= sub[s].ord
    /\ State(s) \in Starting => Effect(s, o) \notin {"executing", "submitted"}
BusyOK(s, o) ==
    /\ Busy(s, o) => Fenced(s, o)
    /\ Effect(s, o) = "executing" => State(s) \in {"prepared", "recovery-required"}
    /\ Effect(s, o) = "executing" /\ State(s) = "prepared" => run.fence.phase = "submission-prepared"
ClosedOK(s, o) ==
    Barrier(s, o) = "closed" => crashes > 0 /\ (FenceIs(s) => run.fence.ord = o)
AttemptsOK ==
    \A s \in Subs, o \in Ords : ShapeOK(s, o) /\ KnownOK(s, o) /\ BusyOK(s, o) /\ ClosedOK(s, o)

FencedOK(s) ==
    FenceIs(s) =>
        /\ run.fence.ord \in Ords
        /\ Effect(s, run.fence.ord) # "absent"
        /\ att[<<s, run.fence.ord>>].gen = sub[s].gen /\ run.fence.gen = sub[s].gen
        /\ State(s) = Submitted =>
             Effect(s, run.fence.ord) = "submitted" /\ sub[s].ref = run.fence.ord
FenceOK == (run.fence.sub = None => FenceFree) /\ \A s \in Subs : FencedOK(s)

ActivatedOK(s) ==
    run.active.turn = s =>
        /\ FenceIs(s) /\ Effect(s, run.fence.ord) = "submitted"
        /\ run.active.gen = sub[s].gen /\ run.active.gen <= run.gen
        /\ State(s) \in {Submitted, "recovery-required"}
        /\ run.last # s
        /\ crashes = 0 /\ run.active.gen # run.gen =>
             run.uncertain \/ \E o \in Ords : Barrier(s, o) \in {"interrupted", "completed-interrupted"}
ActiveOK == (run.active.turn = None => run.active = NoTurn) /\ \A s \in Subs : ActivatedOK(s)

DoneOK(s) ==
    run.last = s =>
        /\ \A o \in Ords : ~Busy(s, o)
        /\ State(s) \notin Starting \union {"prepared"}
        /\ sub[s].gen <= run.gen
        /\ State(s) = Submitted => Settled(s, sub[s].ref)
LastOK == \A s \in Subs : DoneOK(s)

(* A submission and what was typed for it.                                  *)
CompletedOK(s) ==
    State(s) = "completed" =>
        Settled(s, sub[s].ref) /\ run.active.turn # s /\ run.last # None /\ sub[s].gen <= sub[run.last].gen
UnprovenOK(s) ==
    State(s) = "completion-unproven-final" =>
        run.lifecycle = "failed" /\ crashes > 0 /\ Shut(s, sub[s].ref)
TypedOK(s) ==
    /\ typed[s] \in 0 .. 1
    /\ State(s) = "rejected" \/ s \in spent => typed[s] = 0
    /\ State(s) = "recovery-required" => crashes > 0
    /\ typed[s] # 0 /\ State(s) \notin {"completed", "completion-unproven-final"} =>
         /\ State(s) \in Unheld
         /\ \/ /\ FenceIs(s) /\ Effect(s, run.fence.ord) \in {"executing", "submitted", "quarantined"}
               /\ Effect(s, run.fence.ord) = "quarantined" => State(s) = "recovery-required"
            \/ State(s) = "recovery-required" /\ run.lifecycle = "failed" /\ Shut(s, sub[s].ref)
SubsOK == \A s \in Subs : CompletedOK(s) /\ UnprovenOK(s) /\ TypedOK(s)

-----------------------------------------------------------------------------
(* What a process knows.                                                    *)

SubmitterOK(p) ==
    LET s == proc[p].sub o == proc[p].ord pc == proc[p].pc IN
    /\ s \in (IF p = "queue" THEN Controllers \ spent ELSE Systems) /\ crashes = 0
    /\ pc \in {"refresh", "snapshot", "prepare", "fence", "cancel", "mark"} =>
         State(s) = "queued"
    /\ pc \in {"advance", "execute", "type", "record"} => State(s) = "prepared"
    /\ pc \notin {"record", "activate", "commit"} => typed[s] = 0
    /\ pc \in {"snapshot", "prepare"} /\ s \in Controllers => \A q \in Ords : Blank(s, q)
    /\ pc \in {"snapshot", "prepare", "fence"} =>
         /\ ~FenceIs(s)
         /\ Has(p, "run") => FenceFree /\ run.active = NoTurn /\ proc[p].gen = run.gen + 1
    /\ pc \in {"prepare", "fence"} => o \in Ords /\ sub[s].ord = o /\ sub[s].gen = proc[p].gen
    /\ pc = "prepare" => Effect(s, o) = "absent"
    /\ pc \in {"fence", "mark", "advance", "execute"} => Effect(s, o) = "prepared"
    /\ pc = "fence" => att[<<s, o>>].gen = proc[p].gen /\ (Has(p, "run") => ~Final)
    /\ pc \in {"mark", "advance", "execute", "type", "record"} => o \in Ords /\ Fenced(s, o)
    /\ pc \in {"mark", "advance", "execute", "type", "record", "activate"} /\ Has(p, "run") =>
         ~Final /\ run.active = NoTurn /\ sub[s].gen = run.gen + 1
    /\ pc \in {"execute", "type"} => run.fence.phase = "submission-prepared"
    /\ pc = "type" => Effect(s, o) = "executing"
    /\ pc = "record" => Effect(s, o) = "submitted"
    /\ pc = "activate" /\ Has(p, "run") =>
         o \in Ords /\ Fenced(s, o) /\ Effect(s, o) = "submitted" /\ State(s) = Submitted
QueueSubmits == proc["queue"].pc \in Open => SubmitterOK("queue")
PumpSubmits == proc["pump"].pc # "idle" => proc["pump"].pc \in Open /\ SubmitterOK("pump")

Finishing == {"repairSub", "completing", "settle", "refreshed", "complete", "completeSub", "completeClear"}
CompleterOK ==
    LET t == proc["queue"].sub o == proc["queue"].ord pc == proc["queue"].pc IN
    pc \in Finishing =>
        /\ t \in Subs /\ sub[t].gen <= run.gen
        /\ pc \notin {"repairSub", "completeClear"} => crashes = 0
        /\ State(t) = IF pc = "completeClear" THEN "completed" ELSE Submitted
        /\ pc \in {"completing", "settle", "refreshed", "complete"} => o \in Ords /\ proc["queue"].gen = sub[t].gen
        /\ pc \in {"completing", "complete"} /\ Has("queue", "run") =>
             run.active.turn = t /\ FenceIs(t) /\ run.gen = proc["queue"].gen
        /\ pc = "complete" /\ Has("queue", "run") => run.fence.ord = o
        /\ pc \in {"refreshed", "complete"} => Settled(t, o)
        /\ pc \in {"repairSub", "completeSub", "completeClear"} => run.last = t
        /\ pc \in {"completeSub", "completeClear"} => FenceIs(t)

Ending == {"closeCancel", "closeCancelOnly", "closeClear", "closeReject", "closeBarrier", "closeRun",
           "closeFinal"}
CloserOK ==
    LET t == proc["queue"].sub o == proc["queue"].ord pc == proc["queue"].pc IN
    pc \in Ending =>
        /\ t \in Subs /\ crashes > 0 /\ State(t) = "recovery-required"
        /\ pc \in {"closeCancel", "closeCancelOnly", "closeClear", "closeReject"} =>
             typed[t] = 0 /\ run.active.turn # t
        /\ pc \in {"closeCancel", "closeCancelOnly"} => o \in Ords
        /\ pc \in {"closeCancel", "closeClear"} => o \in Ords /\ Fenced(t, o) /\ ~Busy(t, o)
        /\ pc \in {"closeCancelOnly", "closeReject"} => ~FenceIs(t)
        /\ pc \in {"closeBarrier", "closeRun"} => FenceIs(t)
        /\ pc \in {"closeBarrier", "closeRun", "closeFinal"} => o \in Ords /\ sub[t].ref = o
        /\ pc \in {"closeRun", "closeFinal"} => Barrier(t, o) = "closed"
        /\ pc = "closeFinal" => run.lifecycle = "failed"
QueueOK == proc["queue"].pc \in {"idle"} \union Open \union Finishing \union Ending

OpsOK ==
    LET t == proc["ops"].sub pc == proc["ops"].pc IN
    /\ pc \in {"idle", "barrier", "interrupting", "terminate", "stopped", "exited"}
    /\ pc \in {"barrier", "interrupting"} =>
         t \in Subs \union {Bare} /\ (Has("ops", "run") => run.active.turn = t)
    /\ pc = "interrupting" => t = Bare \/ \E o \in Ords : Barrier(t, o) \in {"interrupted", "completed-interrupted"}
    /\ pc \in {"stopped", "exited"} => ~live
    /\ pc = "terminate" /\ Has("ops", "run") => ~Final

ReconcilerOK ==
    LET s == S o == proc[R].ord pc == proc[R].pc eff == proc[R].effect IN
    /\ pc # "idle" => s \in Subs
    /\ pc \notin {"idle", "refresh", "snapshot", "prepare", "orphanFence"} => Seen.state = State(s) /\ Seen.gen = sub[s].gen
    /\ pc \notin {"idle", "inventory", "judge"} => ~Final
    /\ pc \in {"judge", "quarantine"} => o \in Ords /\ eff = Effect(s, o) /\ Incomplete(<<s, o>>)
    /\ pc = "quarantine" => Mismatch
    /\ pc = "orphanFence" => State(s) = "recovery-required"
    /\ pc \in {"ctlLook", "ctlGuard", "ctlCancel", "ctlClear", "ctlReject"} =>
         s \in Controllers /\ State(s) \in {"queued", "prepared"}
    /\ pc \in {"ctlGuard", "ctlCancel", "ctlClear", "ctlReject"} =>
         typed[s] = 0 /\ \A q \in Ords : ~Busy(s, q)
    /\ pc \in {"ctlCancel"} => o \in Ords
    /\ pc = "ctlReject" => ~FenceIs(s)
    /\ pc = "genLook" => State(s) \in Holdable
    /\ pc = "recFence" => o \in Ords /\ eff = Effect(s, o) /\ Visible(<<s, o>>) /\ State(s) \in Holdable
    /\ pc \in {"recMark", "recAdvance", "execute", "type", "recRecord", "recActivate"} => o \in Ords /\ Fenced(s, o)
    /\ pc = "recMark" => eff = Effect(s, o) /\ Visible(<<s, o>>) /\ State(s) \in Holdable
    /\ pc \in {"recAdvance", "execute", "type"} => State(s) = "prepared"
    /\ pc = "recAdvance" => Effect(s, o) = "prepared"
    /\ pc \in {"execute", "type"} => run.fence.phase = "submission-prepared"
    /\ pc = "execute" => Effect(s, o) \in {"prepared", "executing"}
    /\ pc = "type" => Effect(s, o) = "executing"
    /\ pc = "recRecord" => Effect(s, o) = "submitted" /\ State(s) \in {"prepared", Submitted}
    /\ pc = "recActivate" => Effect(s, o) = "submitted" /\ State(s) = Submitted
    /\ pc \in {"refresh", "snapshot", "prepare"} => s \in Systems /\ State(s) = "queued"
    /\ pc = "snapshot" => ~FenceIs(s)
    /\ pc \notin {"fence", "cancel", "mark", "advance", "record", "activate", "commit"}

-----------------------------------------------------------------------------
(* What a step does to the records, and why it may.                         *)

OtherSubs(s) == \A t \in Subs : t # s => sub'[t] = sub[t]
OtherAtts(s, o) == \A t \in Subs, q \in Ords : t # s \/ q # o => att'[<<t, q>>] = att[<<t, q>>]
SubIs(s, state, ord, gen, ref) ==
    /\ sub'[s].state = state /\ sub'[s].ord = ord /\ sub'[s].gen = gen /\ sub'[s].ref = ref
    /\ OtherSubs(s)
StateIs(s, state) == SubIs(s, state, sub[s].ord, sub[s].gen, sub[s].ref)
AttIs(s, o, effect, barrier, gen) ==
    /\ att'[<<s, o>>].effect = effect /\ att'[<<s, o>>].barrier = barrier /\ att'[<<s, o>>].gen = gen
    /\ OtherAtts(s, o)
RunIs(life, gen, active, fence, last, uncertain) ==
    /\ run'.lifecycle = life /\ run'.gen = gen /\ run'.active = active /\ run'.fence = fence
    /\ run'.last = last /\ run'.uncertain = uncertain
OnSub == run' = run /\ att' = att /\ typed' = typed
OnAtt == run' = run /\ sub' = sub
OnRun == sub' = sub /\ att' = att /\ typed' = typed
WithFence(f) == RunIs(run.lifecycle, run.gen, run.active, f, run.last, run.uncertain) /\ OnRun
Untyped(s) == typed[s] = 0 /\ (\A o \in Ords : ~Busy(s, o)) /\ run.active.turn # s

Nothing == UNCHANGED <<run, sub, att, typed>>
Queues(s) == State(s) \in Starting /\ StateIs(s, "queued") /\ OnSub
Snaps(s) ==
    /\ State(s) = "queued" /\ ~FenceIs(s) /\ sub[s].ord < MaxOrdinal
    /\ sub'[s].gen \in 0 .. MaxGeneration
    /\ SubIs(s, "queued", sub[s].ord + 1, sub'[s].gen, sub[s].ref) /\ OnSub
Rejects(s) ==
    /\ State(s) \in {"queued", "prepared", "recovery-required"} /\ Untyped(s)
    /\ StateIs(s, "rejected") /\ OnSub
Marks(s) ==
    State(s) = "queued" /\ FenceIs(s) /\ StateIs(s, "prepared") /\ OnSub
Records(s, o) ==
    /\ State(s) = "prepared" /\ Fenced(s, o) /\ Effect(s, o) = "submitted"
    /\ SubIs(s, Submitted, sub[s].ord, sub[s].gen, o) /\ OnSub
Completes(s) == State(s) = Submitted /\ run.last = s /\ StateIs(s, "completed") /\ OnSub
Holds(s) ==
    /\ State(s) \in Holdable /\ crashes > 0 /\ ~Final
    /\ SubIs(s, "recovery-required", sub[s].ord, sub[s].gen, sub'[s].ref) /\ OnSub
Commits(s) == StateIs(s, State(s)) /\ OnSub
GivesUp(s) ==
    /\ State(s) = "recovery-required" /\ crashes > 0 /\ run.lifecycle = "failed" /\ Shut(s, sub[s].ref)
    /\ StateIs(s, "completion-unproven-final") /\ OnSub

Prepared(s, o) ==
    /\ State(s) = "queued" /\ sub[s].ord = o /\ Effect(s, o) = "absent" /\ ~FenceIs(s)
    /\ s \in Controllers => \A q \in Ords : Blank(s, q)
    /\ AttIs(s, o, "prepared", "reserved", sub[s].gen)
Prepares(s, o) == Prepared(s, o) /\ OnAtt /\ typed' = typed
PreparesInVain(s, o) ==
    Prepared(s, o) /\ Untyped(s) /\ StateIs(s, "rejected") /\ run' = run /\ typed' = typed
Cancels(s, o) ==
    /\ Effect(s, o) \in {"prepared", "rejected"}
    /\ AttIs(s, o, "rejected", "released", att[<<s, o>>].gen) /\ OnAtt /\ typed' = typed
Executes(s, o) ==
    /\ Effect(s, o) = "prepared" /\ Fenced(s, o) /\ State(s) = "prepared"
    /\ run.fence.phase = "submission-prepared"
    /\ AttIs(s, o, "executing", Barrier(s, o), att[<<s, o>>].gen) /\ OnAtt /\ typed' = typed
Types(s) ==
    \/ typed' = typed
    \/ /\ live /\ typed[s] = 0 /\ s \notin spent
       /\ typed'[s] = 1 /\ \A t \in Subs : t # s => typed'[t] = typed[t]
Lands(s, o) ==
    /\ Effect(s, o) = "executing" /\ State(s) = "prepared" /\ Types(s)
    /\ AttIs(s, o, "submitted", "active", att[<<s, o>>].gen) /\ OnAtt
OnlyTypes(s, o) ==
    Effect(s, o) = "executing" /\ State(s) = "prepared" /\ Types(s) /\ UNCHANGED <<run, sub, att>>
Barred(s, o, b) ==
    /\ Effect(s, o) = "submitted" /\ AttIs(s, o, "submitted", b, att[<<s, o>>].gen)
    /\ OnAtt /\ typed' = typed
Interrupts(s, o) == Taken(s, o) /\ Barred(s, o, "interrupted")
Settles(s, o) ==
    \/ Barrier(s, o) = "active" /\ Barred(s, o, "completed")
    \/ Barrier(s, o) = "interrupted" /\ Barred(s, o, "completed-interrupted")
Shuts(s, o) == Taken(s, o) /\ crashes > 0 /\ Barred(s, o, "closed")
Quarantines(s, o) ==
    /\ Effect(s, o) \in {"prepared", "executing"} /\ crashes > 0
    /\ Effect(s, o) = "executing" => State(s) = "recovery-required"
    /\ AttIs(s, o, "quarantined", Barrier(s, o), att[<<s, o>>].gen) /\ OnAtt /\ typed' = typed

Fences(s, o) ==
    /\ FenceFree /\ State(s) = "queued" /\ Effect(s, o) # "absent" /\ att[<<s, o>>].gen = sub[s].gen
    /\ ~Final /\ WithFence([sub |-> s, ord |-> o, gen |-> sub[s].gen, phase |-> "terminal-prepared"])
Rephases(s, f) ==
    /\ FenceIs(s)
    /\ State(s) = "prepared" => f = "submission-prepared"
    /\ WithFence([sub |-> s, ord |-> run.fence.ord, gen |-> run.fence.gen, phase |-> f])
Activates(s, o) ==
    /\ Fenced(s, o) /\ run.active = NoTurn /\ sub[s].gen = run.gen + 1 /\ State(s) = Submitted /\ ~Final
    /\ RunIs(run.lifecycle, sub[s].gen, [turn |-> s, gen |-> sub[s].gen],
             [sub |-> s, ord |-> o, gen |-> run.fence.gen, phase |-> "active"], run.last, run.uncertain)
    /\ OnRun
Finishes(s, o) ==
    /\ run.active.turn = s /\ Fenced(s, o) /\ Settled(s, o) /\ State(s) = Submitted
    /\ sub[s].gen = run.gen
    /\ RunIs(run.lifecycle, run.gen + 1, NoTurn,
             [sub |-> s, ord |-> o, gen |-> run.fence.gen, phase |-> "completion-barrier-committed"], s,
             run.uncertain)
    /\ OnRun
Clears(s) ==
    /\ FenceIs(s) /\ (\A o \in Ords : ~Busy(s, o)) /\ run.active.turn # s
    /\ (typed[s] = 0 /\ crashes > 0) \/ State(s) = "completed"
    /\ WithFence(NoFence)
FailsRun(s) ==
    /\ crashes > 0 /\ FenceIs(s) /\ State(s) = "recovery-required" /\ Shut(s, sub[s].ref)
    /\ RunIs("failed", run.gen + 1, NoTurn, NoFence, run.last, run.uncertain) /\ OnRun
Lives ==
    /\ run'.lifecycle \in {"stopping", "recovery-required", "stopped", "interrupted"}
    /\ run'.lifecycle \in FINAL_LIFECYCLES => ~live
    /\ Final => run'.lifecycle \in FINAL_LIFECYCLES
    /\ run.lifecycle # "failed"
    /\ RunIs(run'.lifecycle, run.gen, run.active, run.fence, run.last, run.uncertain) /\ OnRun
Shifts(active, uncertain) ==
    RunIs(run.lifecycle, run.gen + 1, active, run.fence, run.last, uncertain) /\ OnRun
ShiftsRun ==
    \/ /\ run.active # NoTurn
       /\ \A s \in Subs : run.active.turn = s =>
            \E o \in Ords : Barrier(s, o) \in {"interrupted", "completed-interrupted"}
       /\ Shifts(run.active, run.uncertain)
    \/ ~Final /\ Shifts([turn |-> Bare, gen |-> run.gen + 1], run.uncertain)
    \/ Shifts(NoTurn, run.uncertain)
    \/ Shifts(run.active, TRUE)

(* Who may: while the runtime has not crashed, a submission's own process.  *)
Owns(p, s) ==
    \/ p = R /\ crashes > 0
    \/ p = "queue" /\ (s \in Controllers \/ crashes > 0)
    \/ p = "pump" /\ s \in Systems /\ crashes = 0
SubMove(p, s) ==
    \/ /\ Owns(p, s)
       /\ \/ Queues(s) \/ Snaps(s) \/ Rejects(s) \/ Marks(s) \/ Commits(s)
          \/ \E o \in Ords : Records(s, o)
    \/ p = "queue" /\ (Completes(s) \/ GivesUp(s))
    \/ p = R /\ Holds(s)
AttMove(p, s, o) ==
    \/ /\ Owns(p, s)
       /\ \/ Prepares(s, o) \/ PreparesInVain(s, o) \/ Cancels(s, o) \/ Executes(s, o) \/ Lands(s, o)
          \/ OnlyTypes(s, o)
    \/ p = "ops" /\ Interrupts(s, o)
    \/ p = "queue" /\ (Settles(s, o) \/ Shuts(s, o))
    \/ p = R /\ Quarantines(s, o)
RunMove(p, s) ==
    \/ /\ Owns(p, s)
       /\ \E o \in Ords : Fences(s, o) \/ Activates(s, o)
    \/ p = "queue" /\ (FailsRun(s) \/ \E o \in Ords : Finishes(s, o))
    \/ p \in {"queue", R} /\ Clears(s)
    \/ (p = "queue" \/ Owns(p, s)) /\ \E f \in Phases : Rephases(s, f)
Move(p) ==
    \/ Nothing \/ Lives \/ ShiftsRun
    \/ \E s \in Subs : SubMove(p, s) \/ RunMove(p, s)
    \/ \E s \in Subs, o \in Ords : AttMove(p, s, o)
Spends(p) ==
    /\ spent \subseteq spent' /\ crashes' \in Nat /\ crashes' >= crashes
    /\ live' => live /\ crashes' = crashes
    /\ \A s \in Subs : s \in spent' \ spent => p = "queue" /\ typed[s] = 0 /\ typed'[s] = 0

-----------------------------------------------------------------------------
(* Each move keeps what holds of the records.                               *)

Typed ==
    /\ \A s \in Subs : /\ sub[s].state \in States /\ sub[s].ord \in 0 .. MaxOrdinal
                       /\ sub[s].gen \in 0 .. MaxGeneration /\ sub[s].ref \in 0 .. MaxOrdinal
                       /\ typed[s] \in Nat
    /\ \A s \in Subs, o \in Ords : Effect(s, o) \in Effects /\ Barrier(s, o) \in Barriers
    /\ run.gen \in 0 .. MaxGeneration /\ run.active.gen \in 0 .. MaxGeneration
    /\ run.last \in Subs \union {None} /\ run.active.turn \in Subs \union {Bare, None}
    /\ run.fence.sub \in Subs \union {None} /\ run.fence.ord \in 0 .. MaxOrdinal
    /\ crashes \in Nat /\ MaxOrdinal \in Nat /\ MaxGeneration \in Nat
    /\ None \notin Subs /\ Bare \notin Subs /\ Bare # None
RunLives ==
    /\ Final \/ crashes > 0 => ~live
    /\ run.lifecycle = "failed" => run.active = NoTurn /\ crashes > 0
(* A controller's submission has one attempt at most that is not rejected.  *)
FirstOK(s) ==
    s \in Controllers => \A o, q \in Ords : Blank(s, o) \/ Blank(s, q) \/ o = q
RecordsOK ==
    /\ AttemptsOK /\ FenceOK /\ ActiveOK /\ LastOK /\ SubsOK /\ RunLives
    /\ \A s \in Subs : FirstOK(s)

(* What the records' type says of each field.                               *)
LEMMA Typing == ASSUME TypeOK PROVE Typed
  BY TurnsAssumption DEF TypeOK, Typed, Subs, Attempts, Ords, Submissions, Effect, Barrier

(* The three records are moved one at a time, but for a rejection.          *)
LEMMA MoveKinds ==
  ASSUME NEW p, Move(p)
  PROVE \/ /\ UNCHANGED <<sub, att, typed>>
           /\ run' = run \/ Lives \/ ShiftsRun \/ \E s \in Subs : RunMove(p, s)
        \/ (\E s \in Subs : SubMove(p, s)) /\ UNCHANGED <<run, att, typed>>
        \/ (\E s \in Subs, o \in Ords : AttMove(p, s, o)) /\ run' = run
  <1>1. CASE Nothing \/ Lives \/ ShiftsRun
    BY <1>1 DEF Nothing, Lives, ShiftsRun, Shifts, OnRun
  <1>2. ASSUME NEW s \in Subs, SubMove(p, s) PROVE UNCHANGED <<run, att, typed>>
    BY <1>2 DEF SubMove, Queues, Snaps, Rejects, Marks, Completes, Holds, Commits, GivesUp, Records, OnSub
  <1>3. ASSUME NEW s \in Subs, RunMove(p, s) PROVE UNCHANGED <<sub, att, typed>>
    BY <1>3 DEF RunMove, Clears, FailsRun, Rephases, Fences, Activates, Finishes, WithFence, OnRun
  <1>4. ASSUME NEW s \in Subs, NEW o \in Ords, AttMove(p, s, o) PROVE run' = run
    BY <1>4 DEF AttMove, Prepares, PreparesInVain, Cancels, Executes, Lands, OnlyTypes, Interrupts, Settles,
                Shuts, Quarantines, Barred, OnAtt
  <1> QED BY <1>1, <1>2, <1>3, <1>4 DEF Move

(* Effect and barrier of an attempt go together after every move.           *)
LEMMA ShapeKept ==
  ASSUME Typed, RecordsOK, NEW p, Move(p), NEW t \in Subs, NEW q \in Ords
  PROVE ShapeOK(t, q)'
  <1> ShapeOK(t, q) BY DEF RecordsOK, AttemptsOK
  <1>1. CASE att' = att
    BY <1>1 DEF ShapeOK, Effect, Barrier
  <1>2. ASSUME NEW s \in Subs, NEW o \in Ords, AttMove(p, s, o) PROVE ShapeOK(t, q)'
    <2>1. CASE t # s \/ q # o
      <3>1. att'[<<t, q>>] = att[<<t, q>>]
        BY <1>2, <2>1 DEF AttMove, Prepares, PreparesInVain, Prepared, Cancels, Executes, Lands, OnlyTypes,
                     Interrupts, Settles, Shuts, Quarantines, Barred, AttIs, OtherAtts
      <3> QED BY <3>1 DEF ShapeOK, Effect, Barrier
    <2>2. CASE t = s /\ q = o
      BY <1>2, <2>2 DEF AttMove, Prepares, PreparesInVain, Prepared, Cancels, Executes, Lands, OnlyTypes,
                     Interrupts, Settles, Shuts, Quarantines, Barred, AttIs, ShapeOK, Effect, Barrier,
                     Taken,
                     Completed
    <2> QED BY <2>1, <2>2
  <1> QED BY <1>1, <1>2, MoveKinds

(* An attempt belongs to a submission that has been snapshotted that often. *)
LEMMA KnownKept ==
  ASSUME Typed, RecordsOK, NEW p, Move(p), NEW t \in Subs, NEW q \in Ords
  PROVE KnownOK(t, q)'
  <1>0. KnownOK(t, q) /\ ShapeOK(t, q) BY DEF RecordsOK, AttemptsOK
  <1>1. CASE sub' = sub /\ att' = att
    BY <1>0, <1>1 DEF KnownOK, Effect, State
  <1>2. ASSUME NEW s \in Subs, SubMove(p, s), att' = att PROVE KnownOK(t, q)'
    <2>1. CASE t # s
      BY <1>0, <1>2, <2>1 DEF SubMove, Queues, Snaps, Rejects, Marks, Completes, Holds, Commits, GivesUp,
          Records,
               StateIs, SubIs, OtherSubs, KnownOK, Effect, State
    <2>2. CASE t = s
      <3>0. q \in Int /\ sub[t].ord \in Int
        BY DEF Typed, Ords
      <3>1. CASE Snaps(s)
        BY <1>0, <1>2, <2>2, <3>0, <3>1 DEF Snaps, SubIs, KnownOK, Effect, State, Starting
      <3>2. CASE Queues(s) \/ Rejects(s) \/ Marks(s) \/ Completes(s) \/ Holds(s) \/ Commits(s) \/ GivesUp(s)
                 \/ \E o \in Ords : Records(s, o)
        BY <1>0, <1>2, <2>2, <3>2 DEF Queues, Rejects, Marks, Completes, Holds, Commits, GivesUp, Records,
               StateIs, SubIs, KnownOK, Effect, State, Starting, Holdable, Submitted
      <3> QED BY <1>2, <3>1, <3>2 DEF SubMove
    <2> QED BY <2>1, <2>2
  <1>3. ASSUME NEW s \in Subs, NEW o \in Ords, AttMove(p, s, o) PROVE KnownOK(t, q)'
    <2>1. CASE t # s
      BY <1>0, <1>3, <2>1 DEF AttMove, Prepares, PreparesInVain, Prepared, Cancels, Executes, Lands,
          OnlyTypes, OnAtt,
                     Interrupts, Settles, Shuts, Quarantines, Barred, AttIs, OtherAtts, StateIs, SubIs,
                     OtherSubs,
                     KnownOK, Effect, State
    <2>2. CASE t = s
      BY <1>0, <1>3, <2>2 DEF AttMove, Prepares, PreparesInVain, Prepared, Cancels, Executes, Lands,
          OnlyTypes, OnAtt,
                     Interrupts, Settles, Shuts, Quarantines, Barred, AttIs, OtherAtts, StateIs, SubIs,
                     KnownOK, ShapeOK, Effect, State, Starting, Typed, Taken, Barrier
    <2> QED BY <2>1, <2>2
  <1> QED BY <1>1, <1>2, <1>3, MoveKinds

(* What the provider may be working on is what the fence names.             *)
LEMMA BusyKept ==
  ASSUME Typed, RecordsOK, NEW p, Move(p), NEW t \in Subs, NEW q \in Ords
  PROVE BusyOK(t, q)'
  <1>0. /\ BusyOK(t, q) /\ ShapeOK(t, q) /\ KnownOK(t, q) /\ ClosedOK(t, q)
        /\ FenceOK /\ TypedOK(t)
        /\ \A o \in Ords : BusyOK(t, o) /\ ShapeOK(t, o) /\ ClosedOK(t, o)
    BY DEF RecordsOK, AttemptsOK, SubsOK
  <1>1. ASSUME UNCHANGED <<sub, att>>, run' = run \/ Lives \/ ShiftsRun \/ \E s \in Subs : RunMove(p, s)
        PROVE BusyOK(t, q)'
    <2>1. CASE Lives \/ ShiftsRun
      BY <1>0, <1>1, <2>1 DEF Lives, ShiftsRun, Shifts, RunIs, BusyOK, Busy, Taken, Effect, Barrier,
          State, Fenced
    <2>2. ASSUME NEW s \in Subs, RunMove(p, s) PROVE BusyOK(t, q)'
      <3>1. CASE Clears(s)
        BY <1>0, <1>1, <3>1 DEF Clears, WithFence, RunIs, BusyOK, Busy, Taken, Effect, Barrier, State,
            Fenced, FenceIs
      <3>2. CASE FailsRun(s)
        BY <1>0, <1>1, <3>2 DEF FailsRun, RunIs, BusyOK, Busy, Taken, Effect, Barrier, State, Fenced,
            FenceIs,
               Shut, ClosedOK, ShapeOK
      <3>3. CASE \E f \in Phases : Rephases(s, f)
        BY <1>0, <1>1, <3>3 DEF Rephases, WithFence, RunIs, BusyOK, Busy, Taken, Effect, Barrier, State,
            Fenced, FenceIs
      <3>4. CASE \E o \in Ords : Fences(s, o)
        BY <1>0, <1>1, <3>4 DEF Fences, WithFence, RunIs, BusyOK, Busy, Taken, Effect, Barrier, State,
            Fenced,
               FenceFree, NoFence, Typed
      <3>5. CASE \E o \in Ords : Activates(s, o) \/ Finishes(s, o)
        BY <1>0, <1>1, <3>5 DEF Activates, Finishes, RunIs, BusyOK, Busy, Taken, Effect, Barrier, State,
            Fenced, Submitted
      <3> QED BY <2>2, <3>1, <3>2, <3>3, <3>4, <3>5 DEF RunMove
    <2>3. CASE run' = run
      BY <1>0, <1>1, <2>3 DEF BusyOK, Busy, Taken, Effect, Barrier, State, Fenced
    <2> QED BY <1>1, <2>1, <2>2, <2>3
  <1>2. ASSUME NEW s \in Subs, SubMove(p, s), UNCHANGED <<run, att>> PROVE BusyOK(t, q)'
    <2>1. CASE t # s
      BY <1>0, <1>2, <2>1 DEF SubMove, Queues, Snaps, Rejects, Marks, Completes, Holds, Commits, GivesUp,
          Records,
               StateIs, SubIs, OtherSubs, BusyOK, Busy, Taken, Effect, Barrier, State, Fenced
    <2>2. CASE t = s
      <3>1. CASE Queues(s) \/ Snaps(s) \/ Marks(s) \/ Holds(s) \/ Commits(s)
        BY <1>0, <1>2, <2>2, <3>1 DEF Queues, Snaps, Marks, Holds, Commits, StateIs, SubIs, Holdable,
            Starting,
               KnownOK, BusyOK, Busy, Taken, Effect, Barrier, State, Fenced
      <3>2. CASE Rejects(s) \/ Completes(s)
        BY <1>0, <1>2, <2>2, <3>2 DEF Rejects, Untyped, Completes, StateIs, SubIs, Submitted,
               BusyOK, Busy, Taken, Effect, Barrier, State, Fenced
      <3>3. CASE GivesUp(s) \/ \E o \in Ords : Records(s, o)
        BY <1>0, <1>2, <2>2, <3>3 DEF GivesUp, Shut, ClosedOK, Records, StateIs, SubIs, FenceIs,
               BusyOK, Busy, Taken, Effect, Barrier, State, Fenced, ShapeOK
      <3> QED BY <1>2, <3>1, <3>2, <3>3 DEF SubMove
    <2> QED BY <2>1, <2>2
  <1>3. ASSUME NEW s \in Subs, NEW o \in Ords, AttMove(p, s, o), run' = run PROVE BusyOK(t, q)'
    <2>1. CASE PreparesInVain(s, o)
      BY <1>0, <1>3, <2>1 DEF PreparesInVain, Prepared, AttIs, OtherAtts, StateIs, SubIs, OtherSubs,
          Untyped,
           BusyOK, Busy, Taken, Effect, Barrier, State, Fenced
    <2>2. CASE sub' = sub
      BY <1>0, <1>3, <2>2 DEF AttMove, Prepares, PreparesInVain, Prepared, Cancels, Executes, Lands,
          OnlyTypes, OnAtt,
                     Interrupts, Settles, Shuts, Quarantines, Barred, AttIs, OtherAtts, 
                     BusyOK, Busy, Taken, Effect, Barrier, State, Fenced
    <2> QED BY <1>3, <2>1, <2>2 DEF AttMove, Prepares, Cancels, Executes, Lands, OnlyTypes, Interrupts,
        Settles,
                Shuts, Quarantines, Barred, OnAtt
  <1> QED BY <1>1, <1>2, <1>3, MoveKinds

(* A closed barrier is what the fence names, or nobody's.                   *)
LEMMA ClosedKept ==
  ASSUME Typed, RecordsOK, NEW p, Move(p), Spends(p), NEW t \in Subs, NEW q \in Ords
  PROVE ClosedOK(t, q)'
  <1>0. /\ ClosedOK(t, q) /\ ShapeOK(t, q) /\ KnownOK(t, q) /\ BusyOK(t, q)
        /\ crashes > 0 => crashes' > 0
        /\ Effect(t, q) \in Effects /\ (run.fence.sub = None => FenceFree)
    BY DEF RecordsOK, AttemptsOK, FenceOK, Spends, Typed
  <1>1. ASSUME UNCHANGED <<sub, att>>, run' = run \/ Lives \/ ShiftsRun \/ \E s \in Subs : RunMove(p, s)
        PROVE ClosedOK(t, q)'
    <2>1. CASE run' = run
      BY <1>0, <1>1, <2>1 DEF ClosedOK, Barrier, FenceIs
    <2>2. CASE Lives \/ ShiftsRun
      BY <1>0, <1>1, <2>2 DEF Lives, ShiftsRun, Shifts, RunIs, ClosedOK, Barrier, FenceIs
    <2>3. ASSUME NEW s \in Subs, RunMove(p, s) PROVE ClosedOK(t, q)'
      <3>0. t # None
        BY DEF Typed
      <3>1. CASE \E o \in Ords : Fences(s, o)
        BY <1>0, <1>1, <3>1 DEF Fences, WithFence, RunIs, ClosedOK, KnownOK, ShapeOK, Starting, Effects,
            Effect,
               Barrier, FenceIs, State
      <3>2. CASE Clears(s) \/ FailsRun(s)
        BY <1>0, <1>1, <3>0, <3>2 DEF Clears, FailsRun, WithFence, RunIs, NoFence, ClosedOK, Barrier,
            FenceIs
      <3>3. CASE \E f \in Phases : Rephases(s, f)
        BY <1>0, <1>1, <3>3 DEF Rephases, WithFence, RunIs, ClosedOK, Barrier, FenceIs
      <3>4. CASE \E o \in Ords : Activates(s, o) \/ Finishes(s, o)
        BY <1>0, <1>1, <3>4 DEF Activates, Finishes, RunIs, ClosedOK, Barrier, FenceIs, Fenced
      <3> QED BY <2>3, <3>1, <3>2, <3>3, <3>4 DEF RunMove
    <2> QED BY <1>1, <2>1, <2>2, <2>3
  <1>2. CASE UNCHANGED <<run, att>>
    BY <1>0, <1>2 DEF ClosedOK, Barrier, FenceIs
  <1>3. ASSUME NEW s \in Subs, NEW o \in Ords, AttMove(p, s, o), run' = run PROVE ClosedOK(t, q)'
    <2>1. CASE t # s \/ q # o
      <3>1. att'[<<t, q>>] = att[<<t, q>>]
        BY <1>3, <2>1 DEF AttMove, Prepares, PreparesInVain, Prepared, Cancels, Executes, Lands, OnlyTypes,
                     Interrupts, Settles, Shuts, Quarantines, Barred, AttIs, OtherAtts
      <3> QED BY <1>0, <1>3, <3>1 DEF ClosedOK, Barrier, FenceIs
    <2>2. CASE t = s /\ q = o
      BY <1>0, <1>3, <2>2 DEF AttMove, Prepares, PreparesInVain, Prepared, Cancels, Executes, Lands,
          OnlyTypes,
                     Interrupts, Settles, Shuts, Quarantines, Barred, AttIs, ShapeOK, Effect, Barrier,
                     Taken,
                     BusyOK, Busy, Fenced, ClosedOK, FenceIs
    <2> QED BY <2>1, <2>2
  <1> QED BY <1>1, <1>2, <1>3, MoveKinds

(* The fence names an attempt that exists, of its submission's generation.  *)
LEMMA FenceKept ==
  ASSUME Typed, RecordsOK, NEW p, Move(p), NEW t \in Subs
  PROVE FencedOK(t)' /\ (run'.fence.sub = None => FenceFree')
  <1>0. /\ FencedOK(t) /\ (run.fence.sub = None => FenceFree)
        /\ \A o \in Ords : ShapeOK(t, o) /\ KnownOK(t, o) /\ BusyOK(t, o)
    BY DEF RecordsOK, AttemptsOK, FenceOK
  <1>1. ASSUME UNCHANGED <<sub, att>>, run' = run \/ Lives \/ ShiftsRun \/ \E s \in Subs : RunMove(p, s)
        PROVE FencedOK(t)' /\ (run'.fence.sub = None => FenceFree')
    <2>1. CASE run' = run
      BY <1>0, <1>1, <2>1 DEF FencedOK, FenceIs, Effect, State, FenceFree
    <2>2. CASE Lives \/ ShiftsRun
      BY <1>0, <1>1, <2>2 DEF Lives, ShiftsRun, Shifts, RunIs, FencedOK, FenceIs, Effect, State, FenceFree
    <2>3. ASSUME NEW s \in Subs, RunMove(p, s) PROVE FencedOK(t)' /\ (run'.fence.sub = None => FenceFree')
      <3>0. t # None /\ s # None
        BY DEF Typed
      <3>1. CASE \E o \in Ords : Fences(s, o)
        BY <1>0, <1>1, <3>0, <3>1 DEF Fences, WithFence, RunIs, FencedOK, FenceIs, Effect, State,
            FenceFree, Submitted
      <3>2. CASE Clears(s) \/ FailsRun(s)
        BY <1>0, <1>1, <3>0, <3>2 DEF Clears, FailsRun, WithFence, RunIs, NoFence, FencedOK, FenceIs,
            FenceFree
      <3>3. CASE \E f \in Phases : Rephases(s, f)
        BY <1>0, <1>1, <3>0, <3>3 DEF Rephases, WithFence, RunIs, FencedOK, FenceIs, Effect, State
      <3>4. CASE \E o \in Ords : Activates(s, o) \/ Finishes(s, o)
        BY <1>0, <1>1, <3>0, <3>4 DEF Activates, Finishes, RunIs, FencedOK, FenceIs, Fenced, Effect, State
      <3> QED BY <2>3, <3>1, <3>2, <3>3, <3>4 DEF RunMove
    <2> QED BY <1>1, <2>1, <2>2, <2>3
  <1>2. ASSUME NEW s \in Subs, SubMove(p, s), UNCHANGED <<run, att>> PROVE FencedOK(t)'
    <2>1. CASE t # s
      BY <1>0, <1>2, <2>1 DEF SubMove, Queues, Snaps, Rejects, Marks, Completes, Holds, Commits, GivesUp,
          Records,
               StateIs, SubIs, OtherSubs, FencedOK, FenceIs, Effect, State
    <2>2. CASE t = s
      BY <1>0, <1>2, <2>2 DEF SubMove, Queues, Snaps, Rejects, Marks, Completes, Holds, Commits, GivesUp,
          Records,
               StateIs, SubIs, FencedOK, FenceIs, Fenced, Effect, State, Submitted
    <2> QED BY <2>1, <2>2
  <1>3. ASSUME NEW s \in Subs, NEW o \in Ords, AttMove(p, s, o), run' = run PROVE FencedOK(t)'
    <2>1. CASE PreparesInVain(s, o)
      BY <1>0, <1>3, <2>1 DEF PreparesInVain, Prepared, AttIs, OtherAtts, StateIs, SubIs, OtherSubs,
           FencedOK, FenceIs, Effect, State, Submitted
    <2>2. CASE sub' = sub
      <3>1. CASE t # s
        BY <1>0, <1>3, <2>2, <3>1 DEF AttMove, Prepares, PreparesInVain, Prepared, Cancels, Executes,
            Lands, OnlyTypes,
                     OnAtt, Interrupts, Settles, Shuts, Quarantines, Barred, AttIs, OtherAtts, 
                     FencedOK, FenceIs, Effect, State
      <3>2. CASE t = s
        BY <1>0, <1>3, <2>2, <3>2 DEF AttMove, Prepares, PreparesInVain, Prepared, Cancels, Executes,
            Lands, OnlyTypes,
                     OnAtt, Interrupts, Settles, Shuts, Quarantines, Barred, AttIs, OtherAtts, Submitted,
                     FencedOK, FenceIs, Effect, State
      <3> QED BY <3>1, <3>2
    <2> QED BY <1>3, <2>1, <2>2 DEF AttMove, Prepares, Cancels, Executes, Lands, OnlyTypes, Interrupts,
        Settles,
                Shuts, Quarantines, Barred, OnAtt
  <1>4. run' = run => (run'.fence.sub = None => FenceFree')
    BY <1>0 DEF FenceFree
  <1> QED BY <1>1, <1>2, <1>3, <1>4, MoveKinds

(* A move of a submission leaves the others alone.                          *)
LEMMA SubOthers ==
  ASSUME NEW p, NEW s \in Subs, SubMove(p, s)
  PROVE OtherSubs(s)
  BY DEF SubMove, Queues, Snaps, Rejects, Marks, Completes, Holds, Commits, GivesUp, Records, StateIs, SubIs

(* A move of an attempt leaves the other attempts and submissions alone.    *)
LEMMA AttOthers ==
  ASSUME NEW p, NEW s \in Subs, NEW o \in Ords, AttMove(p, s, o)
  PROVE /\ OtherAtts(s, o) /\ OtherSubs(s)
        /\ \A t \in Subs : t # s => typed'[t] = typed[t]
        /\ sub' = sub \/ PreparesInVain(s, o)
  BY DEF AttMove, Prepares, PreparesInVain, Prepared, Cancels, Executes, Lands, OnlyTypes, OnAtt, Types,
         Interrupts, Settles, Shuts, Quarantines, Barred, AttIs, OtherAtts, StateIs, SubIs, OtherSubs

(* The active turn is fenced, submitted and of its own generation.          *)
LEMMA ActiveKept ==
  ASSUME Typed, RecordsOK, NEW p, Move(p), Spends(p), NEW t \in Subs
  PROVE ActivatedOK(t)' /\ (run'.active.turn = None => run'.active = NoTurn)
  <1>0. /\ ActivatedOK(t) /\ (run.active.turn = None => run.active = NoTurn) /\ FencedOK(t) /\ DoneOK(t)
        /\ crashes' = 0 => crashes = 0
        /\ \A o \in Ords : ShapeOK(t, o)
        /\ t # None /\ t # Bare /\ Bare # None /\ RunLives
    BY DEF RecordsOK, AttemptsOK, FenceOK, ActiveOK, LastOK, Spends, Typed
  <1>00. /\ run.gen \in Int /\ run.active.gen \in Int /\ sub[t].gen \in Int
    BY DEF Typed
  <1>1. ASSUME UNCHANGED <<sub, att>>, run' = run \/ Lives \/ ShiftsRun \/ \E s \in Subs : RunMove(p, s)
        PROVE ActivatedOK(t)' /\ (run'.active.turn = None => run'.active = NoTurn)
    <2>1. CASE run' = run \/ Lives
      BY <1>0, <1>1, <2>1 DEF Lives, RunIs, ActivatedOK, FenceIs, Effect, Barrier, State
    <2>2. CASE ShiftsRun
      <3>1. CASE Shifts(NoTurn, run.uncertain) \/ Shifts([turn |-> Bare, gen |-> run.gen + 1], run.uncertain)
        BY <1>0, <3>1 DEF Shifts, RunIs, NoTurn, ActivatedOK
      <3>2. CASE Shifts(run.active, TRUE)
        BY <1>0, <1>00, <1>1, <3>2 DEF Shifts, RunIs, ActivatedOK, FenceIs, Effect, Barrier, State
      <3>3. CASE /\ Shifts(run.active, run.uncertain)
                 /\ \A s \in Subs : run.active.turn = s =>
                       \E o \in Ords : Barrier(s, o) \in {"interrupted", "completed-interrupted"}
        <4>1. /\ run'.active = run.active /\ run'.gen = run.gen + 1 /\ run'.fence = run.fence
              /\ run'.last = run.last
          BY <3>3 DEF Shifts, RunIs
        <4>2. run.active.turn = t =>
                \E o \in Ords : att'[<<t, o>>].barrier \in {"interrupted", "completed-interrupted"}
          BY <1>1, <3>3 DEF Barrier
        <4> QED BY <1>0, <1>00, <1>1, <4>1, <4>2 DEF ActivatedOK, FenceIs, Effect, Barrier, State
      <3> QED BY <2>2, <3>1, <3>2, <3>3 DEF ShiftsRun
    <2>3. ASSUME NEW s \in Subs, RunMove(p, s)
          PROVE ActivatedOK(t)' /\ (run'.active.turn = None => run'.active = NoTurn)
      <3>0. s # None
        BY DEF Typed
      <3>1. CASE \E o \in Ords : Fences(s, o)
        BY <1>0, <1>1, <3>0, <3>1 DEF Fences, WithFence, RunIs, ActivatedOK, FenceIs, FenceFree, NoFence
      <3>2. CASE Clears(s) \/ FailsRun(s)
        BY <1>0, <1>1, <3>0, <3>2 DEF Clears, FailsRun, WithFence, RunIs, NoFence, NoTurn, ActivatedOK,
            FenceIs
      <3>3. CASE \E f \in Phases : Rephases(s, f)
        BY <1>0, <1>1, <3>0, <3>3 DEF Rephases, WithFence, RunIs, ActivatedOK, FenceIs, Effect, Barrier,
            State
      <3>4. CASE \E o \in Ords : Activates(s, o)
        BY <1>0, <1>00, <1>1, <3>0, <3>4
           DEF Activates, RunIs, ActivatedOK, FencedOK, DoneOK, FenceIs, Fenced, Effect, Barrier, State,
               Submitted
      <3>5. CASE \E o \in Ords : Finishes(s, o)
        BY <1>0, <1>1, <3>0, <3>5 DEF Finishes, RunIs, ActivatedOK, NoTurn
      <3> QED BY <2>3, <3>1, <3>2, <3>3, <3>4, <3>5 DEF RunMove
    <2> QED BY <1>1, <2>1, <2>2, <2>3
  <1>2. ASSUME NEW s \in Subs, SubMove(p, s), UNCHANGED <<run, att>> PROVE ActivatedOK(t)'
    <2>1. CASE t # s
      BY <1>0, <1>2, <2>1, SubOthers DEF OtherSubs, ActivatedOK, FenceIs, Effect, Barrier, State
    <2>2. CASE t = s
      <3>1. CASE Queues(s) \/ Snaps(s) \/ Rejects(s) \/ Marks(s) \/ Completes(s) \/ \E o \in Ords : Records(s, o)
        BY <1>0, <1>2, <2>2, <3>1 DEF Queues, Snaps, Rejects, Marks, Completes, Records, Untyped, Starting,
             ActivatedOK, State, Submitted
      <3>2. CASE GivesUp(s)
        BY <1>0, <1>2, <2>2, <3>2 DEF GivesUp, RunLives, NoTurn, ActivatedOK
      <3>3. CASE Holds(s) \/ Commits(s)
        BY <1>0, <1>2, <2>2, <3>3 DEF Holds, Commits, StateIs, SubIs, ActivatedOK, FenceIs, Effect,
            Barrier, State
      <3> QED BY <1>2, <3>1, <3>2, <3>3 DEF SubMove
    <2> QED BY <2>1, <2>2
  <1>3. ASSUME NEW s \in Subs, NEW o \in Ords, AttMove(p, s, o), run' = run PROVE ActivatedOK(t)'
    <2>0. CASE t # s
      BY <1>0, <1>3, <2>0, AttOthers DEF OtherSubs, OtherAtts, FencedOK, ActivatedOK, FenceIs, Effect,
          Barrier, State
    <2>1. CASE t = s /\ PreparesInVain(s, o)
      BY <1>0, <1>3, <2>1 DEF PreparesInVain, Prepared, Untyped, ActivatedOK
    <2>2. CASE t = s /\ sub' = sub
      <3>0. run.active.turn = t => run.fence.ord \in Ords
        BY <1>0 DEF ActivatedOK, FencedOK
      <3> QED
        BY <1>0, <1>3, <2>2, <3>0 DEF AttMove, Prepares, PreparesInVain, Prepared, Cancels, Executes,
            Lands, OnlyTypes,
             OnAtt, Interrupts, Settles, Shuts, Quarantines, Barred, AttIs, OtherAtts, Submitted,
             ShapeOK, Taken, ActivatedOK, FenceIs, Effect, Barrier, State
    <2> QED BY <1>3, <2>0, <2>1, <2>2, AttOthers
  <1>4. run' = run => (run'.active.turn = None => run'.active = NoTurn)
    BY <1>0
  <1> QED BY <1>1, <1>2, <1>3, <1>4, MoveKinds

(* The turn that was completed last has nothing in the provider.            *)
LEMMA LastKept ==
  ASSUME Typed, RecordsOK, NEW p, Move(p), NEW t \in Subs
  PROVE DoneOK(t)'
  <1>0. /\ DoneOK(t) /\ FencedOK(t)
        /\ \A o \in Ords : ShapeOK(t, o) /\ BusyOK(t, o)
    BY DEF RecordsOK, AttemptsOK, FenceOK, LastOK
  <1>00. /\ run.gen \in Int /\ sub[t].gen \in Int /\ sub[t].ref \in Int
    BY DEF Typed
  <1>1. ASSUME UNCHANGED <<sub, att>>, run' = run \/ Lives \/ ShiftsRun \/ \E s \in Subs : RunMove(p, s)
        PROVE DoneOK(t)'
    <2>1. CASE run' = run \/ Lives \/ ShiftsRun
      BY <1>0, <1>00, <1>1, <2>1 DEF Lives, ShiftsRun, Shifts, RunIs, DoneOK, Busy, Taken, Settled,
          Effect, Barrier, State
    <2>2. ASSUME NEW s \in Subs, RunMove(p, s) PROVE DoneOK(t)'
      <3>1. CASE Clears(s) \/ (\E f \in Phases : Rephases(s, f)) \/ \E o \in Ords : Fences(s, o)
        <4>1. run'.last = run.last /\ run'.gen = run.gen
          BY <3>1 DEF Clears, Rephases, Fences, WithFence, RunIs
        <4> QED BY <1>0, <1>1, <4>1 DEF DoneOK, Busy, Taken, Settled, Effect, Barrier, State
      <3>0. CASE FailsRun(s)
        <4>1. run'.last = run.last /\ run'.gen = run.gen + 1
          BY <3>0 DEF FailsRun, RunIs
        <4> QED BY <1>0, <1>00, <1>1, <4>1 DEF DoneOK, Busy, Taken, Settled, Effect, Barrier, State
      <3>2. CASE \E o \in Ords : Activates(s, o)
        <4>1. sub[s].gen \in Int
          BY DEF Typed
        <4> QED BY <1>0, <1>00, <1>1, <3>2, <4>1 DEF Activates, RunIs, DoneOK, Busy, Taken, Settled,
            Effect, Barrier, State
      <3>3. CASE \E o \in Ords : Finishes(s, o)
        BY <1>0, <1>00, <1>1, <3>3 DEF Finishes, RunIs, DoneOK, FencedOK, FenceIs, BusyOK, Fenced, Busy,
            Taken, ShapeOK,
             Settled, Completed, Effect, Barrier, State, Submitted, Starting
      <3> QED BY <2>2, <3>0, <3>1, <3>2, <3>3 DEF RunMove
    <2> QED BY <1>1, <2>1, <2>2
  <1>2. ASSUME NEW s \in Subs, SubMove(p, s), UNCHANGED <<run, att>> PROVE DoneOK(t)'
    <2>1. CASE t # s
      BY <1>0, <1>2, <2>1, SubOthers DEF OtherSubs, DoneOK, Busy, Taken, Settled, Effect, Barrier, State
    <2>2. CASE t = s
      BY <1>0, <1>2, <2>2 DEF SubMove, Queues, Snaps, Rejects, Marks, Completes, Holds, Commits, GivesUp,
          Records,
               StateIs, SubIs, Starting, DoneOK, Busy, Taken, Settled, Effect, Barrier, State, Submitted
    <2> QED BY <2>1, <2>2
  <1>3. ASSUME NEW s \in Subs, NEW o \in Ords, AttMove(p, s, o), run' = run PROVE DoneOK(t)'
    <2>0. CASE t # s
      BY <1>0, <1>3, <2>0, AttOthers DEF OtherSubs, OtherAtts, DoneOK, Busy, Taken, Settled, Effect,
          Barrier, State
    <2>1. CASE t = s /\ PreparesInVain(s, o)
      BY <1>0, <1>3, <2>1 DEF PreparesInVain, Prepared, DoneOK, Starting
    <2>2. CASE t = s /\ sub' = sub
      BY <1>0, <1>3, <2>2 DEF AttMove, Prepares, PreparesInVain, Prepared, Cancels, Executes, Lands,
          OnlyTypes,
             OnAtt, Interrupts, Settles, Shuts, Quarantines, Barred, AttIs, OtherAtts, Submitted, Starting,
             ShapeOK, Taken, Busy, DoneOK, Settled, Completed, Effect, Barrier, State
    <2> QED BY <1>3, <2>0, <2>1, <2>2, AttOthers
  <1> QED BY <1>1, <1>2, <1>3, MoveKinds

(* A completed submission has a verdict of its own.                         *)
LEMMA CompletedKept ==
  ASSUME Typed, RecordsOK, NEW p, Move(p), NEW t \in Subs
  PROVE CompletedOK(t)'
  <1>0. /\ CompletedOK(t) /\ DoneOK(t) /\ ActivatedOK(t)
        /\ \A o \in Ords : ShapeOK(t, o)
        /\ run.last # None => run.last \in Subs /\ DoneOK(run.last)
    BY DEF RecordsOK, AttemptsOK, ActiveOK, SubsOK, LastOK, Typed
  <1>1. ASSUME UNCHANGED <<sub, att>>, run' = run \/ Lives \/ ShiftsRun \/ \E s \in Subs : RunMove(p, s)
        PROVE CompletedOK(t)'
    <2>1. CASE run' = run \/ Lives \/ ShiftsRun
      BY <1>0, <1>1, <2>1 DEF Lives, ShiftsRun, Shifts, RunIs, NoTurn, CompletedOK, Settled, Barrier,
          State, Typed
    <2>2. ASSUME NEW s \in Subs, RunMove(p, s) PROVE CompletedOK(t)'
      <3>0. t # None /\ s # None
        BY DEF Typed
      <3>1. CASE Clears(s) \/ (\E f \in Phases : Rephases(s, f)) \/ \E o \in Ords : Fences(s, o)
        <4>1. run'.last = run.last /\ run'.active = run.active
          BY <3>1 DEF Clears, Rephases, Fences, WithFence, RunIs
        <4> QED BY <1>0, <1>1, <4>1 DEF CompletedOK, Settled, Barrier, State
      <3>2. CASE FailsRun(s) \/ \E o \in Ords : Activates(s, o)
        <4>1. run'.last = run.last
          BY <3>2 DEF FailsRun, Activates, RunIs
        <4>2. run'.active.turn = t => State(t) = Submitted
          <5>1. CASE FailsRun(s)
            BY <3>0, <5>1 DEF FailsRun, RunIs, NoTurn
          <5>2. CASE \E o \in Ords : Activates(s, o)
            <6>1. run'.active.turn = s /\ State(s) = Submitted
              BY <5>2 DEF Activates, RunIs
            <6> QED BY <6>1
          <5> QED BY <3>2, <5>1, <5>2
        <4> QED BY <1>0, <1>1, <4>1, <4>2 DEF CompletedOK, Settled, Barrier, State, Submitted
      <3>3. CASE \E o \in Ords : Finishes(s, o)
        <4>1. sub[t].gen \in Int /\ sub[s].gen \in Int /\ run.gen \in Int
              /\ (run.last # None => sub[run.last].gen \in Int)
          BY DEF Typed
        <4> QED BY <1>0, <1>1, <3>0, <3>3, <4>1 DEF Finishes, RunIs, NoTurn, CompletedOK, DoneOK,
            Settled, Barrier, State
      <3> QED BY <2>2, <3>1, <3>2, <3>3 DEF RunMove
    <2> QED BY <1>1, <2>1, <2>2
  <1>2. ASSUME NEW s \in Subs, SubMove(p, s), UNCHANGED <<run, att>> PROVE CompletedOK(t)'
    <2>0. s = run.last => sub'[s].gen = sub[s].gen
      BY <1>0, <1>2 DEF SubMove, Queues, Snaps, Rejects, Marks, Completes, Holds, Commits, GivesUp, Records,
               StateIs, SubIs, DoneOK, State, Starting, Typed
    <2>1. CASE t # s
      <3>1. sub'[t] = sub[t] /\ (run.last # None => sub'[run.last].gen = sub[run.last].gen)
        BY <1>0, <1>2, <2>0, <2>1, SubOthers DEF OtherSubs
      <3> QED BY <1>0, <1>2, <2>1, <3>1 DEF CompletedOK, Settled, Barrier, State
    <2>2. CASE t = s
      <3>0. run.last # None => sub'[run.last].gen = sub[run.last].gen
        BY <1>0, <1>2, <2>0, SubOthers DEF OtherSubs
      <3>1. CASE Completes(s)
        <4>1. sub[t].gen \in Int
          BY DEF Typed
        <4> QED BY <1>0, <1>2, <2>2, <3>1, <4>1 DEF Completes, StateIs, SubIs, CompletedOK, DoneOK,
            ActivatedOK, Settled,
             Barrier, State, Typed
      <3>2. CASE Commits(s)
        BY <1>0, <1>2, <2>2, <3>0, <3>2 DEF Commits, StateIs, SubIs, CompletedOK, Settled, Barrier, State
      <3>3. CASE Queues(s) \/ Snaps(s) \/ Rejects(s) \/ Marks(s) \/ Holds(s) \/ GivesUp(s) \/ \E o \in Ords : Records(s, o)
        <4>1. sub'[t].state # "completed"
          BY <2>2, <3>3 DEF Queues, Snaps, Rejects, Marks, Holds, GivesUp, Records, StateIs, SubIs,
              Submitted
        <4> QED BY <4>1 DEF CompletedOK, State
      <3> QED BY <1>2, <3>1, <3>2, <3>3 DEF SubMove
    <2> QED BY <2>1, <2>2
  <1>3. ASSUME NEW s \in Subs, NEW o \in Ords, AttMove(p, s, o), run' = run PROVE CompletedOK(t)'
    <2>0. sub'[t].ref = sub[t].ref /\ sub'[t].gen = sub[t].gen
      BY <1>3, AttOthers DEF OtherSubs, PreparesInVain, StateIs, SubIs
    <2>1. sub'[t].state = "completed" => sub[t].state = "completed"
      BY <1>3, AttOthers DEF OtherSubs, PreparesInVain, StateIs, SubIs
    <2>2. run.last # None => sub'[run.last].gen = sub[run.last].gen
      BY <1>0, <1>3, AttOthers DEF OtherSubs, PreparesInVain, StateIs, SubIs
    <2>3. Settled(t, sub[t].ref) => Settled(t, sub[t].ref)'
      BY <1>0, <1>3, <2>0 DEF AttMove, Prepares, PreparesInVain, Prepared, Cancels, Executes, Lands,
          OnlyTypes,
             OnAtt, Interrupts, Settles, Shuts, Quarantines, Barred, AttIs, OtherAtts, 
             ShapeOK, Taken, Settled, Completed, Effect, Barrier
    <2> QED BY <1>0, <1>3, <2>0, <2>1, <2>2, <2>3 DEF CompletedOK, State
  <1> QED BY <1>1, <1>2, <1>3, MoveKinds

(* A submission given up as unproven belongs to a failed run and a closed   *)
(* barrier.                                                                 *)
LEMMA UnprovenKept ==
  ASSUME Typed, RecordsOK, NEW p, Move(p), Spends(p), NEW t \in Subs
  PROVE UnprovenOK(t)'
  <1>0. /\ UnprovenOK(t) /\ (crashes > 0 => crashes' > 0)
        /\ \A o \in Ords : ShapeOK(t, o)
    BY DEF RecordsOK, AttemptsOK, SubsOK, Spends, Typed
  <1>1. ASSUME UNCHANGED <<sub, att>>, run' = run \/ Lives \/ ShiftsRun \/ \E s \in Subs : RunMove(p, s)
        PROVE UnprovenOK(t)'
    <2>1. run.lifecycle = "failed" => run'.lifecycle = "failed"
      BY <1>1 DEF Lives, ShiftsRun, Shifts, RunIs, RunMove, Clears, FailsRun, Rephases, Fences,
          Activates, Finishes, WithFence
    <2> QED BY <1>0, <1>1, <2>1 DEF UnprovenOK, Shut, Barrier, State
  <1>2. ASSUME NEW s \in Subs, SubMove(p, s), UNCHANGED <<run, att>> PROVE UnprovenOK(t)'
    <2>1. CASE t # s
      BY <1>0, <1>2, <2>1, SubOthers DEF OtherSubs, UnprovenOK, Shut, Barrier, State
    <2>2. CASE t = s
      <3>1. CASE GivesUp(s) \/ Commits(s)
        BY <1>0, <1>2, <2>2, <3>1 DEF GivesUp, Commits, StateIs, SubIs, UnprovenOK, Shut, Barrier, State
      <3>2. CASE Queues(s) \/ Snaps(s) \/ Rejects(s) \/ Marks(s) \/ Holds(s) \/ Completes(s) \/ \E o \in Ords : Records(s, o)
        <4>1. sub'[t].state # "completion-unproven-final"
          BY <2>2, <3>2 DEF Queues, Snaps, Rejects, Marks, Holds, Completes, Records, StateIs, SubIs,
              Submitted
        <4> QED BY <4>1 DEF UnprovenOK, State
      <3> QED BY <1>2, <3>1, <3>2 DEF SubMove
    <2> QED BY <2>1, <2>2
  <1>3. ASSUME NEW s \in Subs, NEW o \in Ords, AttMove(p, s, o), run' = run PROVE UnprovenOK(t)'
    <2>0. sub'[t].ref = sub[t].ref
          /\ (sub'[t].state = "completion-unproven-final" => sub[t].state = "completion-unproven-final")
      BY <1>3, AttOthers DEF OtherSubs, PreparesInVain, StateIs, SubIs
    <2>1. Shut(t, sub[t].ref) => Shut(t, sub[t].ref)'
      BY <1>0, <1>3, <2>0 DEF AttMove, Prepares, PreparesInVain, Prepared, Cancels, Executes, Lands,
          OnlyTypes,
             OnAtt, Interrupts, Settles, Shuts, Quarantines, Barred, AttIs, OtherAtts, 
             ShapeOK, Taken, Shut, Completed, Effect, Barrier
    <2> QED BY <1>0, <1>3, <2>0, <2>1 DEF UnprovenOK, State
  <1> QED BY <1>1, <1>2, <1>3, MoveKinds

(* What is rejected stays so, and nothing else is reserved beside it.       *)
LEMMA FirstKept ==
  ASSUME Typed, RecordsOK, NEW p, Move(p), NEW t \in Subs
  PROVE FirstOK(t)'
  <1>0. FirstOK(t)
    BY DEF RecordsOK
  <1>1. CASE att' = att
    BY <1>0, <1>1 DEF FirstOK, Blank, Effect
  <1>2. ASSUME NEW s \in Subs, NEW o \in Ords, AttMove(p, s, o) PROVE FirstOK(t)'
    <2>1. CASE t # s
      BY <1>0, <1>2, <2>1, AttOthers DEF OtherAtts, FirstOK, Blank, Effect
    <2>2. CASE t = s
      <3>1. ASSUME NEW q \in Ords, ~Blank(t, q)'
            PROVE ~Blank(t, q) \/ (q = o /\ \A x \in Ords : s \in Controllers => Blank(t, x))
        BY <1>2, <2>2, <3>1 DEF Blank, AttMove, Prepares, PreparesInVain, Prepared, Cancels, Executes, Lands,
            OnlyTypes,
             Interrupts, Settles, Shuts, Quarantines, Barred, AttIs, OtherAtts, Effect
      <3> QED BY <1>0, <2>2, <3>1 DEF FirstOK
    <2> QED BY <2>1, <2>2
  <1> QED BY <1>1, <1>2, MoveKinds

(* What was typed once is held by the fence until there is a verdict.       *)
LEMMA TypedKept ==
  ASSUME Typed, RecordsOK, NEW p, Move(p), Spends(p), NEW t \in Subs
  PROVE TypedOK(t)'
  <1>0. /\ TypedOK(t) /\ FencedOK(t) /\ (crashes > 0 => crashes' > 0) /\ RunLives
        /\ \A o \in Ords : ShapeOK(t, o) /\ KnownOK(t, o) /\ BusyOK(t, o)
    BY DEF RecordsOK, AttemptsOK, FenceOK, SubsOK, Spends, Typed
  <1>s. /\ t \in spent => t \in spent'
        /\ t \in spent' => t \in spent \/ (typed[t] = 0 /\ typed'[t] = 0)
    BY DEF Spends
  <1>1. ASSUME UNCHANGED <<sub, att, typed>>, run' = run \/ Lives \/ ShiftsRun \/ \E s \in Subs : RunMove(p, s)
        PROVE TypedOK(t)'
    <2>0. run.lifecycle = "failed" => run'.lifecycle = "failed"
      BY <1>1 DEF Lives, ShiftsRun, Shifts, RunIs, RunMove, Clears, FailsRun, Rephases, Fences,
          Activates, Finishes, WithFence
    <2>1. CASE run'.fence = run.fence
      BY <1>0, <1>s, <1>1, <2>0, <2>1 DEF TypedOK, FenceIs, Effect, State, Shut, Barrier
    <2>2. ASSUME NEW s \in Subs, RunMove(p, s) PROVE TypedOK(t)'
      <3>0. t # None /\ s # None
        BY DEF Typed
      <3>1. CASE (\E f \in Phases : Rephases(s, f)) \/ \E o \in Ords : Activates(s, o) \/ Finishes(s, o)
        <4>1. run'.fence.sub = run.fence.sub /\ run'.fence.ord = run.fence.ord
          <5>1. CASE \E f \in Phases : Rephases(s, f)
            BY <5>1 DEF Rephases, WithFence, RunIs, FenceIs
          <5>2. CASE \E o \in Ords : Activates(s, o)
            BY <5>2 DEF Activates, RunIs, Fenced
          <5>3. CASE \E o \in Ords : Finishes(s, o)
            BY <5>3 DEF Finishes, RunIs, Fenced
          <5> QED BY <3>1, <5>1, <5>2, <5>3
        <4> QED BY <1>0, <1>s, <1>1, <2>0, <4>1 DEF TypedOK, FenceIs, Effect, State, Shut, Barrier
      <3>2. CASE \E o \in Ords : Fences(s, o)
        <4>1. ~FenceIs(t) /\ (t = s => State(t) = "queued")
          BY <3>0, <3>2 DEF Fences, FenceFree, NoFence, FenceIs
        <4> QED BY <1>0, <1>s, <1>1, <2>0, <4>1 DEF TypedOK, FenceIs, Effect, State, Shut, Barrier,
            Unheld, Submitted
      <3>3. CASE Clears(s)
        <4>1. /\ t # s => ~FenceIs(t)
              /\ t = s => typed[t] = 0 \/ State(t) = "completed"
          BY <3>3 DEF Clears, FenceIs
        <4> QED BY <1>0, <1>s, <1>1, <2>0, <4>1 DEF TypedOK, FenceIs, Effect, State, Shut, Barrier
      <3>4. CASE FailsRun(s)
        <4>1. /\ t # s => ~FenceIs(t)
              /\ t = s => State(t) = "recovery-required" /\ Shut(t, sub[t].ref)
              /\ run'.lifecycle = "failed"
          BY <3>4 DEF FailsRun, FenceIs, RunIs
        <4> QED BY <1>0, <1>s, <1>1, <2>0, <4>1 DEF TypedOK, FenceIs, Effect, State, Shut, Barrier, Unheld
      <3> QED BY <2>2, <3>1, <3>2, <3>3, <3>4 DEF RunMove
    <2>3. Lives \/ ShiftsRun \/ run' = run => run'.fence = run.fence
      BY DEF Lives, ShiftsRun, Shifts, RunIs
    <2> QED BY <1>1, <2>1, <2>2, <2>3
  <1>2. ASSUME NEW s \in Subs, SubMove(p, s), UNCHANGED <<run, att, typed>> PROVE TypedOK(t)'
    <2>1. CASE t # s
      BY <1>0, <1>s, <1>2, <2>1, SubOthers DEF OtherSubs, TypedOK, FenceIs, Effect, State, Shut, Barrier
    <2>2. CASE t = s
      <3>1. CASE Queues(s) \/ Snaps(s) \/ Rejects(s) \/ Marks(s)
        <4>1. typed[t] = 0 /\ sub'[t].state # "recovery-required"
          BY <1>0, <2>2, <3>1 DEF Queues, Snaps, Rejects, Marks, Untyped, StateIs, SubIs, TypedOK,
              Starting, Unheld, Submitted
        <4> QED BY <1>0, <1>s, <1>2, <4>1 DEF TypedOK, State
      <3>2. CASE Completes(s) \/ GivesUp(s)
        BY <1>0, <1>s, <1>2, <2>2, <3>2 DEF Completes, GivesUp, StateIs, SubIs, TypedOK, State, Submitted
      <3>3. CASE Commits(s)
        BY <1>0, <1>s, <1>2, <2>2, <3>3 DEF Commits, StateIs, SubIs, TypedOK, FenceIs, Effect, State,
            Shut, Barrier
      <3>4. CASE Holds(s)
        BY <1>0, <1>s, <1>2, <2>2, <3>4 DEF Holds, Holdable, SubIs, TypedOK, FenceIs, Effect, State,
            Shut, Barrier, Unheld,
             Submitted
      <3>5. CASE \E o \in Ords : Records(s, o)
        BY <1>0, <1>s, <1>2, <2>2, <3>5 DEF Records, SubIs, TypedOK, FenceIs, Fenced, Effect, State,
            Unheld, Submitted
      <3> QED BY <1>2, <3>1, <3>2, <3>3, <3>4, <3>5 DEF SubMove
    <2> QED BY <2>1, <2>2
  <1>3. ASSUME NEW s \in Subs, NEW o \in Ords, AttMove(p, s, o), run' = run PROVE TypedOK(t)'
    <2>0. FenceIs(t) => run.fence.ord \in Ords
      BY <1>0 DEF FencedOK
    <2>1. CASE t # s
      <3>1. sub'[t] = sub[t] /\ typed'[t] = typed[t] /\ \A q \in Ords : att'[<<t, q>>] = att[<<t, q>>]
        BY <1>3, <2>1, AttOthers DEF OtherSubs, OtherAtts
      <3> QED BY <1>0, <1>s, <1>3, <2>0, <3>1 DEF TypedOK, FenceIs, Effect, State, Shut, Barrier
    <2>2. CASE t = s
      <3>1. CASE PreparesInVain(s, o)
        BY <1>0, <1>s, <2>2, <3>1 DEF PreparesInVain, StateIs, SubIs, Untyped, TypedOK, State
      <3>2. CASE Lands(s, o) \/ OnlyTypes(s, o)
        <4>1. /\ State(t) = "prepared" /\ sub' = sub /\ FenceIs(t) /\ run.fence.ord = o
              /\ typed'[t] \in 0 .. 1 /\ (t \in spent => typed'[t] = typed[t])
              /\ Effect(t, o)' \in {"executing", "submitted"}
          BY <1>0, <1>3, <2>2, <3>2 DEF Lands, OnlyTypes, OnAtt, Types, AttIs, BusyOK, Busy, Fenced,
              FenceIs, Effect, State,
               TypedOK
        <4> QED BY <1>0, <1>s, <1>3, <4>1 DEF TypedOK, FenceIs, Effect, State, Unheld
      <3>3. CASE Prepares(s, o)
        BY <1>0, <1>s, <1>3, <2>2, <3>3 DEF Prepares, Prepared, OnAtt, TypedOK, State, Unheld, Submitted
      <3>4. CASE \/ Cancels(s, o) \/ Executes(s, o) \/ Interrupts(s, o) \/ Settles(s, o) \/ Shuts(s, o)
                 \/ Quarantines(s, o)
        <4>1. sub' = sub /\ typed' = typed
          BY <3>4 DEF Cancels, Executes, Interrupts, Settles, Shuts, Quarantines, Barred, OnAtt
        <4>2. ASSUME FenceIs(t), Effect(t, run.fence.ord) \in {"executing", "submitted", "quarantined"}
              PROVE /\ Effect(t, run.fence.ord)' \in {"executing", "submitted", "quarantined"}
                    /\ Effect(t, run.fence.ord)' = "quarantined" =>
                         Effect(t, run.fence.ord) = "quarantined" \/ State(t) = "recovery-required"
          BY <1>0, <1>3, <2>0, <2>2, <3>4, <4>2 DEF Cancels, Executes, Interrupts, Settles, Shuts,
              Quarantines, Barred,
               AttIs, OtherAtts, Effect
        <4>3. Shut(t, sub[t].ref) => Shut(t, sub[t].ref)'
          BY <1>0, <1>3, <2>2, <3>4, <4>1 DEF Cancels, Executes, Interrupts, Settles, Shuts, Quarantines,
              Barred,
               AttIs, OtherAtts, ShapeOK, Taken, Completed, Shut, Effect, Barrier
        <4> QED BY <1>0, <1>s, <1>3, <4>1, <4>2, <4>3 DEF TypedOK, FenceIs, State
      <3> QED BY <1>3, <3>1, <3>2, <3>3, <3>4 DEF AttMove
    <2> QED BY <2>1, <2>2
  <1> QED BY <1>1, <1>2, <1>3, MoveKinds

(* A final run has no process, a failed one no turn.                        *)
LEMMA LivesKept ==
  ASSUME Typed, RecordsOK, NEW p, Move(p), Spends(p)
  PROVE RunLives'
  <1>0. /\ RunLives /\ (crashes > 0 => crashes' > 0) /\ (live' => live /\ crashes' = crashes)
    BY DEF RecordsOK, Spends, Typed
  <1>1. CASE run' = run
    BY <1>0, <1>1 DEF RunLives, Final
  <1>2. CASE Lives
    BY <1>0, <1>2 DEF Lives, RunIs, RunLives, Final
  <1>3. CASE ShiftsRun
    BY <1>0, <1>3 DEF ShiftsRun, Shifts, RunIs, RunLives, Final, FINAL_LIFECYCLES
  <1>4. ASSUME NEW s \in Subs, RunMove(p, s) PROVE RunLives'
    <2>1. CASE Clears(s) \/ (\E f \in Phases : Rephases(s, f)) \/ \E o \in Ords : Fences(s, o)
      <3>1. run'.lifecycle = run.lifecycle /\ run'.active = run.active
        BY <2>1 DEF Clears, Rephases, Fences, WithFence, RunIs
      <3> QED BY <1>0, <3>1 DEF RunLives, Final
    <2>2. CASE FailsRun(s)
      BY <1>0, <2>2 DEF FailsRun, RunIs, RunLives, Final, FINAL_LIFECYCLES
    <2>3. CASE \E o \in Ords : Activates(s, o)
      <3>1. run'.lifecycle = run.lifecycle /\ ~Final
        BY <2>3 DEF Activates, RunIs
      <3> QED BY <1>0, <3>1 DEF RunLives, Final, FINAL_LIFECYCLES
    <2>4. CASE \E o \in Ords : Finishes(s, o)
      <3>1. run'.lifecycle = run.lifecycle /\ run'.active = NoTurn
        BY <2>4 DEF Finishes, RunIs
      <3> QED BY <1>0, <3>1 DEF RunLives, Final
    <2> QED BY <1>4, <2>1, <2>2, <2>3, <2>4 DEF RunMove
  <1> QED BY <1>1, <1>2, <1>3, <1>4, MoveKinds

(* All that holds of the records survives a move.                           *)
LEMMA RecordsKept ==
  ASSUME Typed, RecordsOK, NEW p, Move(p), Spends(p)
  PROVE RecordsOK'
  <1>1. AttemptsOK'
    BY ShapeKept, KnownKept, BusyKept, ClosedKept DEF AttemptsOK
  <1>2. FenceOK' /\ ActiveOK' /\ LastOK'
    <2>0. CASE Subs = {}
      <3>1. Nothing \/ Lives \/ ShiftsRun
        BY <2>0 DEF Move
      <3> QED BY <2>0, <3>1 DEF RecordsOK, FenceOK, ActiveOK, LastOK, Nothing, Lives, ShiftsRun, Shifts,
          RunIs,
             FenceFree, NoFence, NoTurn, Typed
    <2>1. CASE Subs # {}
      BY <2>1, FenceKept, ActiveKept, LastKept DEF FenceOK, ActiveOK, LastOK
    <2> QED BY <2>0, <2>1
  <1>3. SubsOK'
    BY CompletedKept, UnprovenKept, TypedKept DEF SubsOK
  <1>4. RunLives' /\ \A s \in Subs : FirstOK(s)'
    BY LivesKept, FirstKept
  <1> QED BY <1>1, <1>2, <1>3, <1>4 DEF RecordsOK

-----------------------------------------------------------------------------
(* Types.                                                                   *)

RunType ==
    [lifecycle : {"running", "stopping", "recovery-required"} \union FINAL_LIFECYCLES,
     gen : 0 .. MaxGeneration,
     active : [turn : Subs \union {Bare, None}, gen : 0 .. MaxGeneration],
     fence : [sub : Subs \union {None}, ord : 0 .. MaxOrdinal, gen : 0 .. MaxGeneration, phase : Phases],
     last : Subs \union {None}, uncertain : BOOLEAN]
AttemptType == [effect : Effects, barrier : Barriers, gen : 0 .. MaxGeneration]
Copies == {"run", "sub", "attempt"}
ProcessType ==
    [pc : Steps, sub : Subs \union {Bare, None}, ord : 0 .. MaxOrdinal, gen : 0 .. MaxGeneration,
     fresh : SUBSET Copies, seen : Submissions, effect : Effects]
RecordsType == run \in RunType /\ sub \in [Subs -> Submissions] /\ att \in [Attempts -> AttemptType]
RestType ==
    /\ live \in BOOLEAN /\ lane \in Procs \union {None}
    /\ phase \in {"up", "starting"} /\ spent \subseteq Controllers /\ typed \in [Subs -> Nat]
    /\ faults \in 0 .. MaxFaults /\ crashes \in 0 .. MaxCrashes
ProcsType == proc \in [Procs -> ProcessType]

(* The type invariant by its parts: records, rest of the world, processes.  *)
LEMMA TypeParts == TypeOK <=> RecordsType /\ RestType /\ ProcsType
  BY DEF TypeOK, RecordsType, RestType, ProcsType, RunType, AttemptType, ProcessType, Copies

(* The assumptions on the constants, one by one.                            *)
LEMMA Bounds ==
  /\ MaxOrdinal \in Nat /\ MaxGeneration \in Nat /\ MaxFaults \in Nat /\ MaxCrashes \in Nat
  /\ None \notin Subs /\ Bare \notin Subs /\ Bare # None
  /\ \A s \in Controllers : s \in Subs /\ s \notin Systems
  /\ \A s \in Systems : s \in Subs /\ s \notin Controllers
  BY TurnsAssumption DEF Subs

-----------------------------------------------------------------------------
(* A step of p changes what p holds, and takes copies from the others.      *)

Kept(q) ==
    /\ proc'[q].pc = proc[q].pc /\ proc'[q].sub = proc[q].sub /\ proc'[q].ord = proc[q].ord
    /\ proc'[q].gen = proc[q].gen /\ proc'[q].seen = proc[q].seen /\ proc'[q].effect = proc[q].effect
    /\ proc'[q].fresh \subseteq proc[q].fresh
Left(p, written) ==
    \A q \in Procs \ {p} : Kept(q) /\ ("run" \in written => "run" \notin proc'[q].fresh)

(* A step that writes W leaves the others as they are, but for their copies *)
(* of W.                                                                    *)
LEMMA BecomesIs ==
  ASSUME ProcsType, NEW p \in Procs, NEW local \in ProcessType, NEW W, Becomes(p, local, W)
  PROVE ProcsType' /\ proc'[p] = local /\ Left(p, W)
  <1>1. /\ proc'[p] = local
        /\ \A q \in Procs \ {p} : proc'[q] = [proc[q] EXCEPT !.fresh = @ \ Stale(p, q, W)]
    <2> DEFINE next(q) == IF q = p THEN local ELSE [proc[q] EXCEPT !.fresh = @ \ Stale(p, q, W)]
    <2>1. proc' = [q \in Procs |-> next(q)]
      BY DEF Becomes
    <2>2. next(p) = local /\ \A q \in Procs \ {p} : next(q) = [proc[q] EXCEPT !.fresh = @ \ Stale(p, q, W)]
      OBVIOUS
    <2> HIDE DEF next
    <2> QED BY <2>1, <2>2
  <1>2. ASSUME NEW q \in Procs \ {p} PROVE proc'[q] \in ProcessType /\ Kept(q)
    <2>1. proc[q] \in ProcessType /\ proc'[q] = [proc[q] EXCEPT !.fresh = @ \ Stale(p, q, W)]
      BY <1>1 DEF ProcsType
    <2> QED BY <2>1 DEF ProcessType, Kept
  <1>3. ASSUME NEW q \in Procs \ {p}, "run" \in W PROVE "run" \notin proc'[q].fresh
    BY ZenonT(60), <1>1, <1>3 DEF ProcsType, ProcessType, Stale
  <1>4. proc' = [q \in Procs |-> proc'[q]]
    BY DEF Becomes
  <1> QED BY <1>1, <1>2, <1>3, <1>4 DEF ProcsType, Left

(* The same of a step that keeps the writer's own locals.                   *)
LEMMA WroteIs ==
  ASSUME ProcsType, NEW p \in Procs, NEW step \in Steps, NEW W, W \subseteq Copies, Wrote(p, step, W)
  PROVE /\ ProcsType' /\ Left(p, W)
        /\ proc'[p] = [proc[p] EXCEPT !.pc = step, !.fresh = @ \union W]
  <1>1. [proc[p] EXCEPT !.pc = step, !.fresh = @ \union W] \in ProcessType
    BY DEF ProcsType, ProcessType
  <1> QED BY <1>1, BecomesIs DEF Wrote

(* A process at rest is well typed.                                         *)
LEMMA RestIs == Rest \in ProcessType
  BY Bounds DEF Rest, ProcessType, NoSubmission, Submissions, States, Effects, Steps

(* A process that is done is at rest.                                       *)
LEMMA ReturnsIs ==
  ASSUME ProcsType, NEW p \in Procs, NEW W, Returns(p, W)
  PROVE ProcsType' /\ Left(p, W) /\ proc'[p] = Rest
  BY RestIs, BecomesIs DEF Returns

(* Reading refreshes the reader's copies and nobody else's.                 *)
LEMMA ReadsIs ==
  ASSUME ProcsType, NEW p \in Procs, NEW step \in Steps, NEW W, W \subseteq Copies, Reads(p, step, W)
  PROVE /\ ProcsType' /\ Left(p, {})
        /\ proc'[p] = [proc[p] EXCEPT !.pc = step, !.fresh = @ \union W]
  <1>1. proc' = [proc EXCEPT ![p] = [proc[p] EXCEPT !.pc = step, !.fresh = @ \union W]]
    BY DEF Reads, ProcsType, ProcessType
  <1>2. [proc[p] EXCEPT !.pc = step, !.fresh = @ \union W] \in ProcessType
    BY DEF ProcsType, ProcessType
  <1> QED BY <1>1, <1>2 DEF ProcsType, Left, Kept

(* Moving on refreshes nothing.                                             *)
LEMMA GotoIs ==
  ASSUME ProcsType, NEW p \in Procs, NEW step \in Steps, Goto(p, step)
  PROVE /\ ProcsType' /\ Left(p, {})
        /\ proc'[p] = [proc[p] EXCEPT !.pc = step]
  <1>1. [proc[p] EXCEPT !.pc = step, !.fresh = @ \union {}] = [proc[p] EXCEPT !.pc = step]
    <2>1. proc[p].fresh \union {} = proc[p].fresh
      OBVIOUS
    <2> QED BY <2>1, Zenon
  <1>2. /\ ProcsType' /\ Left(p, {})
        /\ proc'[p] = [proc[p] EXCEPT !.pc = step, !.fresh = @ \union {}]
    BY ReadsIs DEF Goto, Copies
  <1> QED BY <1>1, <1>2

-----------------------------------------------------------------------------
(* Every step keeps the types, and the room for the next generation.        *)

Room(p) ==
    LET pc == proc[p].pc IN
    /\ p # "ops" /\ pc # "idle" => proc[p].sub \in Subs
    /\ p = "ops" /\ pc \in {"barrier", "interrupting"} /\ Has(p, "run") => run.gen < MaxGeneration
    /\ p = "queue" =>
         /\ pc \in {"completing", "settle", "refreshed", "complete"} => proc[p].gen < MaxGeneration
         /\ pc = "complete" /\ Has(p, "run") => run.gen = proc[p].gen
         /\ pc \in {"closeBarrier", "closeRun"} /\ Has(p, "run") => run.gen < MaxGeneration
RoomOK == \A p \in Procs : Room(p)

(* What a step of p does to the others.                                     *)
Untouched(p) ==
    \A q \in Procs \ {p} :
        Kept(q) /\ (Has(q, "run")' => Has(q, "run") /\ run' = run)

(* WroteIs by field.                                                        *)
LEMMA WroteFields ==
  ASSUME ProcsType, NEW p \in Procs, NEW step \in Steps, NEW W, W \subseteq Copies, Wrote(p, step, W)
  PROVE /\ ProcsType' /\ Left(p, W)
        /\ proc'[p].pc = step /\ proc'[p].sub = proc[p].sub /\ proc'[p].ord = proc[p].ord
        /\ proc'[p].gen = proc[p].gen /\ proc'[p].seen = proc[p].seen /\ proc'[p].effect = proc[p].effect
        /\ proc'[p].fresh = proc[p].fresh \union W
  <1>1. /\ ProcsType' /\ Left(p, W)
        /\ proc'[p] = [proc[p] EXCEPT !.pc = step, !.fresh = @ \union W]
    BY WroteIs
  <1>2. proc[p] \in ProcessType
    BY DEF ProcsType
  <1> QED BY <1>1, <1>2 DEF ProcessType

(* ReadsIs by field.                                                        *)
LEMMA ReadsFields ==
  ASSUME ProcsType, NEW p \in Procs, NEW step \in Steps, NEW W, W \subseteq Copies, Reads(p, step, W)
  PROVE /\ ProcsType' /\ Left(p, {})
        /\ proc'[p].pc = step /\ proc'[p].sub = proc[p].sub /\ proc'[p].ord = proc[p].ord
        /\ proc'[p].gen = proc[p].gen /\ proc'[p].seen = proc[p].seen /\ proc'[p].effect = proc[p].effect
        /\ proc'[p].fresh = proc[p].fresh \union W
  <1>1. /\ ProcsType' /\ Left(p, {})
        /\ proc'[p] = [proc[p] EXCEPT !.pc = step, !.fresh = @ \union W]
    BY ReadsIs
  <1>2. proc[p] \in ProcessType
    BY DEF ProcsType
  <1> QED BY <1>1, <1>2 DEF ProcessType

(* A step that changes the run makes the others' copies of it stale.        *)
LEMMA LeftIs ==
  ASSUME NEW p, NEW W, Left(p, W), run' = run \/ "run" \in W
  PROVE Untouched(p)
  BY DEF Left, Untouched, Kept, Has

(* Who has room in the generations keeps it while its copy of the run is    *)
(* fresh.                                                                   *)
LEMMA RoomKept ==
  ASSUME RoomOK, NEW p \in Procs, Untouched(p), Room(p)'
  PROVE RoomOK'
  BY DEF RoomOK, Room, Untouched, Kept, Has

TypeStep(p) == TypeOK' /\ Untouched(p) /\ Room(p)'
ProcsStep(p) == ProcsType' /\ Untouched(p) /\ Room(p)'

(* What a step has to show in order to keep the types.                      *)
LEMMA StepTypes ==
  ASSUME NEW p, RecordsType', RestType', ProcsStep(p)
  PROVE TypeStep(p)
  BY DEF TypeStep, ProcsStep, TypeOK, RecordsType, RestType, ProcsType, RunType, AttemptType,
      ProcessType, Copies

(* The steps before which nothing is asked of the run's generation.         *)
Tight == {"completing", "settle", "refreshed", "complete", "closeBarrier", "closeRun",
          "barrier", "interrupting"}
Workers == {"queue", "pump", "recovery"}

(* Outside the tight steps there is nothing to show about room.             *)
LEMMA RoomEasy ==
  ASSUME NEW p \in Procs, proc'[p].pc \notin Tight,
         p # "ops" /\ proc'[p].pc # "idle" => proc'[p].sub \in Subs
  PROVE Room(p)'
  BY DEF Room, Tight

(* A write keeps the types of the processes.                                *)
LEMMA WroteTypes ==
  ASSUME ProcsType, NEW p \in Procs, NEW step \in Steps \ Tight, NEW W, Wrote(p, step, W),
         W \subseteq Copies, run' = run \/ "run" \in W, p # "ops" => proc[p].sub \in Subs
  PROVE ProcsStep(p)
  <1>1. /\ ProcsType' /\ Left(p, W)
        /\ proc'[p] = [proc[p] EXCEPT !.pc = step, !.fresh = @ \union W]
    BY WroteIs
  <1>2. proc'[p].pc = step /\ proc'[p].sub = proc[p].sub
    BY <1>1 DEF ProcsType, ProcessType
  <1> QED BY <1>1, <1>2, LeftIs, RoomEasy DEF ProcsStep

(* A read does.                                                             *)
LEMMA ReadsTypes ==
  ASSUME ProcsType, NEW p \in Procs, NEW step \in Steps \ Tight, NEW W, Reads(p, step, W),
         W \subseteq Copies, run' = run, p # "ops" => proc[p].sub \in Subs
  PROVE ProcsStep(p)
  <1>1. /\ ProcsType' /\ Left(p, {})
        /\ proc'[p] = [proc[p] EXCEPT !.pc = step, !.fresh = @ \union W]
    BY ReadsIs
  <1>2. proc'[p].pc = step /\ proc'[p].sub = proc[p].sub
    BY <1>1 DEF ProcsType, ProcessType
  <1> QED BY <1>1, <1>2, LeftIs, RoomEasy DEF ProcsStep

(* Moving on does.                                                          *)
LEMMA GotoTypes ==
  ASSUME ProcsType, NEW p \in Procs, NEW step \in Steps \ Tight, Goto(p, step),
         run' = run, p # "ops" => proc[p].sub \in Subs
  PROVE ProcsStep(p)
  BY ReadsTypes DEF Goto, Copies

(* Coming to rest does.                                                     *)
LEMMA ReturnsTypes ==
  ASSUME ProcsType, NEW p \in Procs, NEW W, Returns(p, W), run' = run \/ "run" \in W
  PROVE ProcsStep(p)
  <1>1. ProcsType' /\ Left(p, W) /\ proc'[p] = Rest
    BY ReturnsIs
  <1>2. proc'[p].pc = "idle"
    BY <1>1 DEF Rest
  <1> QED BY <1>1, <1>2, LeftIs, RoomEasy DEF ProcsStep, Tight

(* Taking new locals does.                                                  *)
LEMMA BecomesTypes ==
  ASSUME ProcsType, NEW p \in Procs, NEW local \in ProcessType, NEW W, Becomes(p, local, W),
         run' = run \/ "run" \in W, local.pc \notin Tight, p # "ops" => local.sub \in Subs
  PROVE ProcsStep(p)
  <1>1. ProcsType' /\ Left(p, W) /\ proc'[p] = local
    BY BecomesIs
  <1> QED BY <1>1, LeftIs, RoomEasy DEF ProcsStep

(* So does setting them outright.                                           *)
LEMMA UpdateTypes ==
  ASSUME ProcsType, NEW p \in Procs, NEW local \in ProcessType, proc' = [proc EXCEPT ![p] = local],
         run' = run, local.pc \notin Tight, p # "ops" => local.sub \in Subs
  PROVE ProcsStep(p)
  <1>1. ProcsType' /\ proc'[p] = local /\ Left(p, {})
    BY DEF ProcsType, Left, Kept
  <1> QED BY <1>1, LeftIs, RoomEasy DEF ProcsStep

(* Every update of an attempt by a field or as a whole is well typed.       *)
LEMMA AttemptTypes ==
  ASSUME att \in [Attempts -> AttemptType], NEW a
  PROVE /\ \A e \in Effects : [att EXCEPT ![a].effect = e] \in [Attempts -> AttemptType]
        /\ \A b \in Barriers : [att EXCEPT ![a].barrier = b] \in [Attempts -> AttemptType]
        /\ \A e \in Effects, b \in Barriers :
              [att EXCEPT ![a].effect = e, ![a].barrier = b] \in [Attempts -> AttemptType]
        /\ \A r \in AttemptType : [att EXCEPT ![a] = r] \in [Attempts -> AttemptType]
  BY DEF AttemptType

(* The words that the code writes into an attempt.                          *)
LEMMA AttWords ==
  /\ \A w \in {"prepared", "executing", "submitted", "rejected", "quarantined"} : w \in Effects
  /\ \A w \in {"reserved", "active", "interrupted", "closed", "released", "completed",
               "completed-interrupted"} : w \in Barriers
  /\ \A g \in 0 .. MaxGeneration :
        [effect |-> "prepared", barrier |-> "reserved", gen |-> g] \in AttemptType
  BY DEF Effects, Barriers, Completed, AttemptType

(* Every update of an attempt that the actions make is well typed.          *)
LEMMA AttUpdates ==
  ASSUME RecordsType, NEW a
  PROVE /\ \A g \in 0 .. MaxGeneration :
             att' = [att EXCEPT ![a] = [effect |-> "prepared", barrier |-> "reserved", gen |-> g]]
             => att' \in [Attempts -> AttemptType]
        /\ Cancelled(a) \/ Uncertain(a) => att' \in [Attempts -> AttemptType]
        /\ \A w \in {"executing", "quarantined"} :
             att' = [att EXCEPT ![a].effect = w] => att' \in [Attempts -> AttemptType]
        /\ \A w \in {"interrupted", "closed"} :
             att' = [att EXCEPT ![a].barrier = w] => att' \in [Attempts -> AttemptType]
  BY AttWords, AttemptTypes DEF RecordsType, Cancelled, Uncertain

(* Every update of a submission that the actions make is well typed.        *)
LEMMA SubUpdates ==
  ASSUME RecordsType, NEW s
  PROVE /\ \A w \in States : [sub EXCEPT ![s].state = w] \in [Subs -> Submissions]
        /\ \A r \in Submissions : [sub EXCEPT ![s] = r] \in [Subs -> Submissions]
        /\ [sub EXCEPT ![s].activation = "committed"] \in [Subs -> Submissions]
        /\ \A o \in 0 .. MaxOrdinal :
             [sub EXCEPT ![s].state = Submitted, ![s].ref = o, ![s].activation = "pending"]
             \in [Subs -> Submissions]
        /\ s \in Subs => \A o \in 0 .. MaxOrdinal, g \in 0 .. MaxGeneration :
              [sub EXCEPT ![s].ord = o, ![s].gen = g] \in [Subs -> Submissions]
  <1>1. Submitted \in States
    BY DEF States
  <1> QED BY ZenonT(60), <1>1 DEF RecordsType, Submissions

(* Typing counts.                                                           *)
LEMMA TypedUpdates ==
  ASSUME typed \in [Subs -> Nat], NEW s
  PROVE [typed EXCEPT ![s] = @ + 1] \in [Subs -> Nat]
  <1>1. \A t \in Subs : typed[t] + 1 \in Nat
    OBVIOUS
  <1> QED BY <1>1

(* Rejecting a controller's submission keeps the types.                     *)
LEMMA RejectsTypes ==
  ASSUME RecordsType, ProcsType, RestType, NEW p \in Workers, NEW lost, RejectsController(p, lost), run' = run
  PROVE sub' \in [Subs -> Submissions] /\ ProcsStep(p)
  <1>1. sub' \in [Subs -> Submissions]
    <2>1. "rejected" \in States /\ sub \in [Subs -> Submissions]
      BY DEF States, RecordsType
    <2>2. sub' = sub \/ sub' = [sub EXCEPT ![proc[p].sub].state = "rejected"]
      BY DEF RejectsController
    <2> DEFINE t == proc[p].sub
    <2>3. [sub EXCEPT ![t].state = "rejected"] \in [Subs -> Submissions]
      BY <2>1, SubUpdates
    <2> QED BY <2>1, <2>2, <2>3
  <1>2. ProcsStep(p)
    BY ReturnsTypes DEF RejectsController, Workers, Procs
  <1> QED BY <1>1, <1>2

(* So do the end of a command and the count of the failures.                *)
LEMMA EndTypes ==
  ASSUME RestType, NEW p
  PROVE /\ \A unsettled : EndsCommand(p, unsettled) => spent' \subseteq Controllers
        /\ \A lost, unsettled \in BOOLEAN :
             Costs(Count(lost) + Count(unsettled)) \/ Costs(1 + Count(lost)) => faults' \in 0 .. MaxFaults
  <1>1. \A unsettled : EndsCommand(p, unsettled) => spent' \subseteq Controllers
    BY DEF EndsCommand, RestType
  <1>2. \A n \in 0 .. 2 : Costs(n) => faults' \in 0 .. MaxFaults
    BY Bounds DEF Costs, RestType
  <1>3. \A lost, unsettled \in BOOLEAN : Count(lost) + Count(unsettled) \in 0 .. 2 /\ 1 + Count(lost) \in 0 .. 2
    BY DEF Count
  <1> QED BY <1>1, <1>2, <1>3

(* Submitting a turn keeps the types, step by step of the ladder.           *)
LEMMA SubmitTypes ==
  ASSUME TypeOK, RoomOK, NEW p \in Workers, Submitting(p)
  PROVE TypeStep(p)
  <1>0. /\ RecordsType /\ RestType /\ ProcsType /\ p \in Procs /\ proc[p] \in ProcessType
        /\ (proc[p].pc # "idle" => proc[p].sub \in Subs)
    BY TypeParts DEF RoomOK, Room, Procs, ProcsType, Workers
  <1>20. CASE \E s \in Subs : SubmitStart(p, s)
    <2> PICK s \in Subs : SubmitStart(p, s)
      BY <1>20
    <2> DEFINE next == [Rest EXCEPT !.pc = "refresh", !.sub = s, !.fresh = {"sub"}]
    <2>1. RecordsType' /\ RestType'
      BY <1>0, Bounds DEF SubmitStart, records, world, budget, RecordsType, RestType, Submissions, States
    <2>2. next \in ProcessType /\ next.pc = "refresh" /\ next.sub = s /\ next.fresh = {"sub"}
      BY RestIs DEF ProcessType, Steps, Copies, Rest
    <2>3. run' = run /\ Becomes(p, next, IF sub[s].state = "absent" THEN {"sub"} ELSE {})
      BY DEF SubmitStart
    <2> HIDE DEF next
    <2>4. ProcsType' /\ proc'[p] = next /\ Untouched(p)
      BY <1>0, <2>2, <2>3, BecomesIs, LeftIs
    <2>5. Room(p)'
      BY <2>2, <2>4, <1>0 DEF Room, Procs, Has
    <2> QED BY <2>1, <2>4, <2>5, StepTypes DEF ProcsStep
  <1>1. CASE SubmitRefresh(p)
    <2> DEFINE next == [proc[p] EXCEPT !.pc = "snapshot", !.gen = run.gen + 1, !.fresh = @ \union {"run"}]
    <2>1. RecordsType' /\ RestType'
      BY <1>0, <1>1 DEF SubmitRefresh, records, world, budget, RecordsType, RestType
    <2>2. CASE SafeBoundary
      <3>1. run.gen + 1 \in 0 .. MaxGeneration
        BY <1>0, <1>1, Bounds DEF SubmitRefresh, RecordsType, RunType
      <3>2. next \in ProcessType /\ next.pc = "snapshot" /\ next.sub = proc[p].sub
        BY <1>0, <3>1 DEF ProcessType, Steps, Copies
      <3>3. proc' = [proc EXCEPT ![p] = next] /\ run' = run
        BY <1>0, <1>1, <2>2 DEF SubmitRefresh, records, ProcsType, ProcessType
      <3>4. proc[p].sub \in Subs
        BY <1>0, <1>1 DEF SubmitRefresh, At
      <3> HIDE DEF next
      <3> QED BY <1>0, <2>1, <3>2, <3>3, <3>4, UpdateTypes, StepTypes DEF Tight
    <2>3. CASE ~SafeBoundary
      <3>1. ProcsStep(p)
        BY <1>0, <1>1, <2>3, ReturnsTypes DEF SubmitRefresh, records
      <3> QED BY <2>1, <3>1, StepTypes
    <2> QED BY <2>2, <2>3
  <1>2. CASE SubmitSnapshot(p)
    <2> DEFINE t == proc[p].sub
               next == [proc[p] EXCEPT !.pc = "prepare", !.ord = sub[t].ord + 1]
    <2>1. t \in Subs /\ sub[t].ord + 1 \in 0 .. MaxOrdinal /\ proc[p].gen \in 0 .. MaxGeneration
      BY <1>0, <1>2, Bounds DEF SubmitSnapshot, Writes, At, MayPrepare, RecordsType, Submissions,
          ProcessType
    <2>2. sub' = [sub EXCEPT ![t].ord = sub[t].ord + 1, ![t].gen = proc[p].gen]
      BY <1>0, <1>2, <2>1 DEF SubmitSnapshot, RecordsType, Submissions
    <2>3. RecordsType' /\ RestType'
      <3>1. sub' \in [Subs -> Submissions]
        BY <1>0, <2>1, <2>2, SubUpdates
      <3> QED BY <1>0, <1>2, <3>1 DEF SubmitSnapshot, world, budget, RecordsType, RestType
    <2>4. next \in ProcessType /\ next.pc = "prepare" /\ next.sub = t
      BY <1>0, <2>1 DEF ProcessType, Steps
    <2>5. Becomes(p, next, {"sub"}) /\ run' = run
      BY <1>2 DEF SubmitSnapshot
    <2> HIDE DEF next
    <2>6. ProcsStep(p)
      BY <1>0, <2>1, <2>4, <2>5, BecomesTypes DEF Tight
    <2> QED BY <2>3, <2>6, StepTypes
  <1>3. CASE SubmitPrepare(p)
    <2>1. RecordsType' /\ RestType'
      BY <1>0, <1>3, AttUpdates DEF SubmitPrepare, records, world, budget, RecordsType, RestType,
          ProcessType, Mine
    <2>2. ProcsStep(p)
      BY <1>0, <1>3, WroteTypes, ReadsTypes, GotoTypes, ReturnsTypes DEF SubmitPrepare, Writes, At,
         Steps, Copies, Tight, records, world
    <2> QED BY <2>1, <2>2, StepTypes
  <1>4. CASE SubmitBlocked(p)
    <2>1. RecordsType' /\ RestType'
      BY <1>0, <1>4, Bounds DEF SubmitBlocked, records, world, budget, Writes, At,
         ProcessType, RecordsType, RestType, RunType, AttemptType, Submissions, States, Submitted,
         Effects, Barriers, Completed, Phases
    <2>2. ProcsStep(p)
      BY <1>0, <1>4, WroteTypes, ReadsTypes, GotoTypes, ReturnsTypes DEF SubmitBlocked, Writes, At,
         Steps, Copies, Tight, records, world
    <2> QED BY <2>1, <2>2, StepTypes
  <1>5. CASE SubmitRefused(p)
    <2>1. sub' \in [Subs -> Submissions] /\ ProcsStep(p)
      BY <1>0, <1>5, RejectsTypes DEF SubmitRefused
    <2>3. spent' \subseteq Controllers /\ faults' \in 0 .. MaxFaults
      BY <1>0, <1>5, EndTypes DEF SubmitRefused
    <2>2. RecordsType' /\ RestType'
      BY <1>0, <1>5, <2>1, <2>3 DEF SubmitRefused, RecordsType, RestType
    <2> QED BY <2>1, <2>2, StepTypes
  <1>6. CASE SubmitLosesPrepare(p)
    <2>1. sub' \in [Subs -> Submissions] /\ ProcsStep(p)
      BY <1>0, <1>6, RejectsTypes DEF SubmitLosesPrepare
    <2>5. faults' \in 0 .. MaxFaults
      BY <1>0, <1>6, EndTypes DEF SubmitLosesPrepare
    <2>2. att' \in [Attempts -> AttemptType]
      BY <1>0, <1>6, AttUpdates DEF SubmitLosesPrepare, RecordsType, ProcessType
    <2>3. RecordsType'
      BY <1>0, <1>6, <2>1, <2>2 DEF SubmitLosesPrepare, RecordsType
    <2>4. RestType'
      BY <1>0, <1>6, <2>5 DEF SubmitLosesPrepare, RestType
    <2> QED BY <2>1, <2>3, <2>4, StepTypes
  <1>7. CASE SubmitFence(p)
    <2>1. RecordsType' /\ RestType'
      BY <1>0, <1>7, Bounds DEF SubmitFence, Fence, records, world, budget, Writes, At,
         ProcessType, RecordsType, RestType, RunType, AttemptType, Submissions, States, Submitted,
         Effects, Barriers, Completed, Phases
    <2>2. ProcsStep(p)
      BY <1>0, <1>7, WroteTypes, ReadsTypes, GotoTypes, ReturnsTypes DEF SubmitFence, Writes, At,
         Steps, Copies, Tight, records, world
    <2> QED BY <2>1, <2>2, StepTypes
  <1>8. CASE SubmitLosesFence(p)
    <2>1. RecordsType' /\ RestType'
      BY <1>0, <1>8, Bounds DEF SubmitLosesFence, Fault, records, world, budget, Writes, At,
         ProcessType, RecordsType, RestType, RunType, AttemptType, Submissions, States, Submitted,
         Effects, Barriers, Completed, Phases
    <2>2. ProcsStep(p)
      BY <1>0, <1>8, WroteTypes, ReadsTypes, GotoTypes, ReturnsTypes DEF SubmitLosesFence, Writes, At,
         Steps, Copies, Tight, records, world
    <2> QED BY <2>1, <2>2, StepTypes
  <1>9. CASE SubmitCancel(p)
    <2>1. RecordsType' /\ RestType'
      <3>1. att' \in [Attempts -> AttemptType]
        BY <1>0, <1>9, AttUpdates DEF SubmitCancel, RecordsType
      <3>2. faults' \in 0 .. MaxFaults
        BY <1>0, <1>9, EndTypes DEF SubmitCancel
      <3>3. spent' \subseteq Controllers
        BY <1>0, <1>9, EndTypes DEF SubmitCancel
      <3> QED BY <1>0, <1>9, <3>1, <3>2, <3>3 DEF SubmitCancel, RecordsType, RestType
    <2>2. ProcsStep(p)
      BY <1>0, <1>9, WroteTypes, ReadsTypes, GotoTypes, ReturnsTypes DEF SubmitCancel, Writes, At,
         Steps, Copies, Tight, records, world
    <2> QED BY <2>1, <2>2, StepTypes
  <1>10. CASE SubmitMark(p)
    <2>1. RecordsType' /\ RestType'
      BY SMTT(30), <1>0, <1>10, Bounds DEF SubmitMark, records, world, budget, Writes, At,
         ProcessType, RecordsType, RestType, RunType, AttemptType, Submissions, States, Submitted,
         Effects, Barriers, Completed, Phases
    <2>2. ProcsStep(p)
      BY <1>0, <1>10, WroteTypes, ReadsTypes, GotoTypes, ReturnsTypes DEF SubmitMark, Writes, At,
         Steps, Copies, Tight, records, world
    <2> QED BY <2>1, <2>2, StepTypes
  <1>11. CASE SubmitAdvance(p)
    <2>1. RecordsType' /\ RestType'
      BY <1>0, <1>11, Bounds DEF SubmitAdvance, Phased, records, world, budget, Writes, At,
         ProcessType, RecordsType, RestType, RunType, AttemptType, Submissions, States, Submitted,
         Effects, Barriers, Completed, Phases
    <2>2. ProcsStep(p)
      BY <1>0, <1>11, WroteTypes, ReadsTypes, GotoTypes, ReturnsTypes DEF SubmitAdvance, Writes, At,
         Steps, Copies, Tight, records, world
    <2> QED BY <2>1, <2>2, StepTypes
  <1>12. CASE Execute(p)
    <2>1. RecordsType' /\ RestType'
      BY <1>0, <1>12, AttUpdates DEF Execute, records, world, budget, RecordsType, RestType, ProcessType,
          Mine
    <2>2. ProcsStep(p)
      BY <1>0, <1>12, WroteTypes, ReadsTypes, GotoTypes, ReturnsTypes DEF Execute, Writes, At,
         Steps, Copies, Tight, records, world
    <2> QED BY <2>1, <2>2, StepTypes
  <1>13. CASE ExecuteAgain(p)
    <2>1. RecordsType' /\ RestType'
      BY <1>0, <1>13, AttUpdates DEF ExecuteAgain, records, world, budget, RecordsType, RestType,
          ProcessType, Mine
    <2>2. ProcsStep(p)
      BY <1>0, <1>13, WroteTypes, ReadsTypes, GotoTypes, ReturnsTypes DEF ExecuteAgain, Writes, At,
         Steps, Copies, Tight, records, world, AfterExecute
    <2> QED BY <2>1, <2>2, StepTypes
  <1>14. CASE ExecuteRefused(p)
    <2>1. RecordsType' /\ RestType'
      BY <1>0, <1>14, Bounds DEF ExecuteRefused, records, world, budget, Writes, At,
         ProcessType, RecordsType, RestType, RunType, AttemptType, Submissions, States, Submitted,
         Effects, Barriers, Completed, Phases
    <2>2. ProcsStep(p)
      BY <1>0, <1>14, WroteTypes, ReadsTypes, GotoTypes, ReturnsTypes DEF ExecuteRefused, Writes, At,
         Steps, Copies, Tight, records, world
    <2> QED BY <2>1, <2>2, StepTypes
  <1>15. CASE Type(p)
    <2>1. RecordsType' /\ RestType'
      <3>1. att' \in [Attempts -> AttemptType]
        BY <1>0, <1>15, AttUpdates DEF Type, RecordsType
      <3>2. typed' \in [Subs -> Nat]
        <4> DEFINE t == proc[p].sub
        <4>1. [typed EXCEPT ![t] = @ + 1] \in [Subs -> Nat] /\ typed \in [Subs -> Nat]
          BY <1>0, TypedUpdates DEF RestType
        <4>2. typed' = [typed EXCEPT ![t] = @ + 1] \/ typed' = typed
          BY <1>15, Zenon DEF Type
        <4> QED BY <4>1, <4>2
      <3>3. run' = run /\ sub' = sub /\ live' = live /\ phase' = phase /\ spent' = spent
        BY <1>0, <1>15 DEF Type, RestType
      <3>4. faults' = faults /\ crashes' = crashes
        BY <1>0, <1>15 DEF Type, budget, RestType
      <3>5. lane' = None
        BY <1>0, <1>15 DEF Type, RestType
      <3> QED BY <1>0, <3>1, <3>2, <3>3, <3>4, <3>5 DEF RecordsType, RestType
    <2>2. ProcsStep(p)
      BY <1>0, <1>15, WroteTypes, ReadsTypes, GotoTypes, ReturnsTypes DEF Type, Writes, At,
         Steps, Copies, Tight, records, world, AfterExecute
    <2> QED BY <2>1, <2>2, StepTypes
  <1>16. CASE TypeFails(p)
    <2>1. RecordsType' /\ RestType'
      BY <1>0, <1>16, Bounds DEF TypeFails, Fault, records, world, budget, Writes, At,
         ProcessType, RecordsType, RestType, RunType, AttemptType, Submissions, States, Submitted,
         Effects, Barriers, Completed, Phases
    <2>2. ProcsStep(p)
      BY <1>0, <1>16, WroteTypes, ReadsTypes, GotoTypes, ReturnsTypes DEF TypeFails, Writes, At,
         Steps, Copies, Tight, records, world
    <2> QED BY <2>1, <2>2, StepTypes
  <1>17. CASE SubmitRecord(p)
    <2>1. RecordsType' /\ RestType'
      BY <1>0, <1>17, SubUpdates DEF SubmitRecord, world, budget, RecordsType, RestType, ProcessType
    <2>2. ProcsStep(p)
      BY <1>0, <1>17, WroteTypes, ReadsTypes, GotoTypes, ReturnsTypes DEF SubmitRecord, Writes, At,
         Steps, Copies, Tight, records, world
    <2> QED BY <2>1, <2>2, StepTypes
  <1>18. CASE SubmitActivate(p)
    <2>1. RecordsType' /\ RestType'
      BY <1>0, <1>18, Bounds DEF SubmitActivate, Activated, records, world, budget, Writes, At,
         ProcessType, RecordsType, RestType, RunType, AttemptType, Submissions, States, Submitted,
         Effects, Barriers, Completed, Phases
    <2>2. ProcsStep(p)
      BY <1>0, <1>18, WroteTypes, ReadsTypes, GotoTypes, ReturnsTypes DEF SubmitActivate, Writes, At,
         Steps, Copies, Tight, records, world
    <2> QED BY <2>1, <2>2, StepTypes
  <1>19. CASE SubmitCommit(p)
    <2>1. RecordsType' /\ RestType'
      BY SMTT(30), <1>0, <1>19, Bounds DEF SubmitCommit, records, world, budget, Writes, At,
         ProcessType, RecordsType, RestType, RunType, AttemptType, Submissions, States, Submitted,
         Effects, Barriers, Completed, Phases
    <2>2. ProcsStep(p)
      BY <1>0, <1>19, WroteTypes, ReadsTypes, GotoTypes, ReturnsTypes DEF SubmitCommit, Writes, At,
         Steps, Copies, Tight, records, world
    <2> QED BY <2>1, <2>2, StepTypes
  <1> QED BY <1>1, <1>2, <1>3, <1>4, <1>5, <1>6, <1>7, <1>8, <1>9, <1>10, <1>11, <1>12, <1>13, <1>14,
      <1>15, <1>16, <1>17, <1>18, <1>19, <1>20 DEF Submitting

(* A nonempty set of naturals has a least member.                           *)
LEMMA MinExists ==
  ASSUME NEW T \in SUBSET Nat, T # {}
  PROVE \E x \in T : \A y \in T : x <= y
  <1> DEFINE R0 == {ss \in Nat \X Nat : ss[1] < ss[2]}
  <1>1. IsWellFoundedOn(R0, Nat)
    BY NatLessThanWellFounded DEF OpToRel
  <1>2. PICK x \in T : \A y \in T : ~ (<<y, x>> \in R0)
    <2> HIDE DEF R0
    <2> QED BY <1>1, WFMin
  <1>3. ASSUME NEW y \in T PROVE x <= y
    <2>1. ~ (<<y, x>> \in {ss \in Nat \X Nat : ss[1] < ss[2]})
      BY <1>2
    <2>2. ~ (y < x)
      BY <2>1
    <2> QED BY <2>2
  <1> QED BY <1>3

(* FirstOrdinal is the first visible attempt's ordinal, 0 when there is     *)
(* none.                                                                    *)
LEMMA FirstIs ==
  ASSUME NEW s
  PROVE /\ FirstOrdinal(s) \in 0 .. MaxOrdinal
        /\ FirstOrdinal(s) # 0 => FirstOrdinal(s) \in Ords /\ Visible(<<s, FirstOrdinal(s)>>)
        /\ FirstOrdinal(s) = 0 => \A o \in Ords : ~Visible(<<s, o>>)
  <1>1. Ordinals(s) \in SUBSET Nat /\ Ordinals(s) \subseteq Ords /\ Ords \subseteq 1 .. MaxOrdinal
    BY Bounds DEF Ordinals, Ords
  <1>2. \A o \in Ords : o \in 0 .. MaxOrdinal /\ o # 0
    BY Bounds DEF Ords
  <1>3. 0 \in 0 .. MaxOrdinal
    BY Bounds
  <1>4. \A o \in Ordinals(s) : Visible(<<s, o>>)
    BY DEF Ordinals
  <1>5. \A o \in Ords : Visible(<<s, o>>) => o \in Ordinals(s)
    BY DEF Ordinals, Ords
  <1>6. CASE Ordinals(s) = {}
    BY <1>3, <1>5, <1>6 DEF FirstOrdinal
  <1>7. CASE Ordinals(s) # {}
    <2>1. \E o \in Ordinals(s) : \A q \in Ordinals(s) : o <= q
      BY <1>1, <1>7, MinExists
    <2>2. FirstOrdinal(s) \in Ordinals(s)
      BY <1>7, <2>1 DEF FirstOrdinal
    <2> QED BY <1>1, <1>2, <1>4, <2>2
  <1> QED BY <1>6, <1>7

Lifecycles == {"running", "stopping", "recovery-required"} \union FINAL_LIFECYCLES

(* Every update of the run within its generation is well typed.             *)
LEMMA RunUpdates ==
  ASSUME run \in RunType
  PROVE /\ \A f \in Phases : Phased(f) => run' \in RunType
        /\ \A w \in Lifecycles : [run EXCEPT !.lifecycle = w] \in RunType
        /\ [run EXCEPT !.fence = NoFence] \in RunType
  <1>1. NoFence \in [sub : Subs \union {None}, ord : 0 .. MaxOrdinal, gen : 0 .. MaxGeneration, phase : Phases]
    BY Bounds DEF NoFence, Phases
  <1> QED BY <1>1 DEF RunType, Phased, Lifecycles

(* Every update to the next generation is well typed while there is room.   *)
LEMMA RunShifts ==
  ASSUME run \in RunType, run.gen < MaxGeneration
  PROVE /\ run.gen + 1 \in 0 .. MaxGeneration
        /\ [run EXCEPT !.gen = @ + 1] \in RunType
        /\ [run EXCEPT !.gen = @ + 1, !.uncertain = TRUE] \in RunType
        /\ [run EXCEPT !.gen = @ + 1, !.active = NoTurn] \in RunType
        /\ [run EXCEPT !.gen = @ + 1, !.active = [turn |-> Bare, gen |-> run.gen + 1]] \in RunType
        /\ [run EXCEPT !.lifecycle = "failed", !.gen = @ + 1, !.active = NoTurn, !.fence = NoFence] \in RunType
        /\ \A s \in Subs : [run EXCEPT !.gen = @ + 1, !.active = NoTurn, !.last = s,
                                       !.fence.phase = "completion-barrier-committed"] \in RunType
  <1>1. run.gen + 1 \in 0 .. MaxGeneration
    BY Bounds DEF RunType
  <1>2. NoTurn \in [turn : Subs \union {Bare, None}, gen : 0 .. MaxGeneration]
    BY Bounds DEF NoTurn
  <1>3. NoFence \in [sub : Subs \union {None}, ord : 0 .. MaxOrdinal, gen : 0 .. MaxGeneration, phase : Phases]
    BY Bounds DEF NoFence, Phases
  <1>4. [turn |-> Bare, gen |-> run.gen + 1] \in [turn : Subs \union {Bare, None}, gen : 0 .. MaxGeneration]
    BY <1>1
  <1>5. "failed" \in Lifecycles /\ "completion-barrier-committed" \in Phases
    BY DEF Lifecycles, FINAL_LIFECYCLES, Phases
  <1> QED BY <1>1, <1>2, <1>3, <1>4, <1>5 DEF RunType, Lifecycles

(* A step that leaves the attempts' and submissions' records.               *)
LEMMA RunStep ==
  ASSUME RecordsType, RestType, run' \in RunType, UNCHANGED <<sub, att, world, budget>>
  PROVE RecordsType' /\ RestType'
  BY DEF RecordsType, RestType, world, budget

(* A step that leaves records and world alone keeps their types.            *)
LEMMA QuietStep ==
  ASSUME RecordsType, RestType, UNCHANGED <<records, world, budget>>
  PROVE RecordsType' /\ RestType' /\ run' = run
  BY DEF RecordsType, RestType, records, world, budget

(* A step that writes submissions keeps the types of the rest.              *)
LEMMA SubStep ==
  ASSUME RecordsType, RestType, sub' \in [Subs -> Submissions], UNCHANGED <<run, att, world, budget>>
  PROVE RecordsType' /\ RestType' /\ run' = run
  BY DEF RecordsType, RestType, world, budget

(* A step that writes attempts keeps the types of the rest.                 *)
LEMMA AttStep ==
  ASSUME RecordsType, RestType, att' \in [Attempts -> AttemptType], UNCHANGED <<run, sub, world, budget>>
  PROVE RecordsType' /\ RestType' /\ run' = run
  BY DEF RecordsType, RestType, world, budget

(* At the tight steps room is shown apart.                                  *)
LEMMA TightTypes ==
  ASSUME ProcsType, NEW p \in Procs, NEW local \in ProcessType, NEW W, Becomes(p, local, W),
         run' = run \/ "run" \in W
  PROVE ProcsType' /\ Untouched(p) /\ proc'[p] = local
  BY BecomesIs, LeftIs

(* The steps of lifecycle.ts and recover.ts but for beginProviderTurn,      *)
(* which is the queue's.                                                    *)
OpsStep ==
    \/ InterruptStart \/ InterruptBarrier \/ InterruptRun \/ EndTurn
    \/ StopStart \/ Terminate \/ TerminateFails \/ StopDone
    \/ ProviderExits \/ ObserveExit \/ SettleExit

(* Starting a turn of the controllers' queue keeps the types.               *)
LEMMA BeginTypes ==
  ASSUME TypeOK, RoomOK, BeginTurn
  PROVE TypeStep("queue")
  <1>0. RecordsType /\ RestType /\ ProcsType /\ run \in RunType /\ "queue" \in Procs
    BY TypeParts DEF Procs, RecordsType
  <1>1. RecordsType' /\ RestType'
    BY <1>0, RunShifts, RunStep DEF BeginTurn
  <1> QED BY <1>0, <1>1, ReturnsTypes, StepTypes DEF BeginTurn

(* Interrupts, stops and exits keep the types.                              *)
LEMMA OpsTypes ==
  ASSUME TypeOK, RoomOK, OpsStep
  PROVE TypeStep("ops")
  <1>0. /\ RecordsType /\ RestType /\ ProcsType /\ run \in RunType /\ "ops" \in Procs /\ "queue" \in Procs
        /\ proc["ops"] \in ProcessType /\ proc["queue"] \in ProcessType /\ Room("ops")
    BY TypeParts DEF RoomOK, Procs, ProcsType, RecordsType
  <1>1. CASE InterruptStart
    <2> DEFINE next == [Rest EXCEPT !.pc = "barrier", !.sub = run.active.turn,
                                    !.gen = run.active.gen, !.fresh = {"run"}]
    <2>1. RecordsType' /\ RestType' /\ run' = run
      BY <1>0, <1>1, QuietStep DEF InterruptStart
    <2>2. run.active.turn \in Subs \union {Bare, None} /\ run.active.gen \in 0 .. MaxGeneration
      BY <1>0 DEF RunType
    <2>3. next \in ProcessType /\ next.pc = "barrier"
      BY <2>2, RestIs DEF ProcessType, Steps, Copies, Rest
    <2>4. proc' = [proc EXCEPT !["ops"] = next]
      BY <1>1 DEF InterruptStart
    <2> HIDE DEF next
    <2>5. ProcsType' /\ proc'["ops"] = next /\ Left("ops", {})
      BY <1>0, <2>3, <2>4 DEF ProcsType, Left, Kept
    <2>6. Room("ops")'
      BY <1>1, <2>1, <2>3, <2>5 DEF InterruptStart, Room
    <2> QED BY <1>0, <2>1, <2>5, <2>6, LeftIs, StepTypes DEF ProcsStep
  <1>2. CASE InterruptBarrier
    <2>1. att' \in [Attempts -> AttemptType]
      BY <1>0, <1>2, AttUpdates DEF InterruptBarrier, RecordsType
    <2>2. RecordsType' /\ RestType' /\ run' = run
      BY <1>0, <1>2, <2>1, AttStep DEF InterruptBarrier
    <2>3. At("ops", "barrier")
      BY <1>2 DEF InterruptBarrier
    <2>4. CASE \E o \in 1 .. MaxOrdinal : Becomes("ops", [proc["ops"] EXCEPT !.pc = "interrupting", !.ord = o], {"attempt"})
      <3> PICK o \in 1 .. MaxOrdinal : Becomes("ops", [proc["ops"] EXCEPT !.pc = "interrupting", !.ord = o], {"attempt"})
        BY <2>4
      <3> DEFINE next == [proc["ops"] EXCEPT !.pc = "interrupting", !.ord = o]
      <3>1. next \in ProcessType /\ next.pc = "interrupting" /\ next.fresh = proc["ops"].fresh
        <4>1. o \in 0 .. MaxOrdinal /\ "interrupting" \in Steps
          BY Bounds DEF Steps
        <4> QED BY <1>0, <4>1 DEF ProcessType
      <3> HIDE DEF next
      <3>2. ProcsType' /\ Untouched("ops") /\ proc'["ops"] = next
        BY <1>0, <3>1, <2>2, TightTypes DEF next
      <3>3. Room("ops")'
        <4>1. Has("ops", "run")' => Has("ops", "run")
          BY <3>1, <3>2 DEF Has
        <4>2. Has("ops", "run")' => run'.gen < MaxGeneration
          BY <1>0, <2>2, <2>3, <4>1 DEF Room, At
        <4> QED BY <3>1, <3>2, <4>2 DEF Room
      <3> QED BY <1>0, <2>2, <3>2, <3>3, StepTypes DEF ProcsStep
    <2>5. CASE Goto("ops", "interrupting")
      <3>1. /\ ProcsType' /\ Left("ops", {})
            /\ proc'["ops"] = [proc["ops"] EXCEPT !.pc = "interrupting"]
        BY <1>0, <2>5, GotoIs DEF Steps
      <3>2. proc'["ops"].pc = "interrupting" /\ proc'["ops"].fresh = proc["ops"].fresh
        BY <1>0, <3>1 DEF ProcessType
      <3>3. Room("ops")'
        BY <1>0, <2>2, <2>3, <3>2 DEF Room, At, Has
      <3> QED BY <1>0, <2>2, <3>1, <3>3, LeftIs, StepTypes DEF ProcsStep
    <2>6. CASE Returns("ops", {})
      BY <1>0, <2>2, <2>6, ReturnsTypes, StepTypes
    <2> QED BY <1>2, <2>4, <2>5, <2>6 DEF InterruptBarrier
  <1>3. CASE InterruptRun
    <2>1. run.gen < MaxGeneration
      BY <1>0, <1>3 DEF InterruptRun, Room, Writes, At, Has, Compares
    <2>2. RecordsType' /\ RestType'
      BY <1>0, <1>3, <2>1, RunShifts, RunStep DEF InterruptRun
    <2> QED BY <1>0, <1>3, <2>2, ReturnsTypes, StepTypes DEF InterruptRun
  <1>5. CASE EndTurn
    <2>2. RecordsType' /\ RestType'
      BY <1>0, <1>5, RunShifts, RunStep DEF EndTurn
    <2> QED BY <1>0, <1>5, <2>2, ReturnsTypes, StepTypes DEF EndTurn
  <1>6. CASE StopStart
    <2> DEFINE next == [Rest EXCEPT !.pc = "terminate", !.fresh = {"run"}]
    <2>1. "stopping" \in Lifecycles
      BY DEF Lifecycles
    <2>2. RecordsType' /\ RestType'
      BY <1>0, <1>6, <2>1, RunUpdates, RunStep DEF StopStart
    <2>3. next \in ProcessType /\ next.pc = "terminate"
      BY RestIs DEF ProcessType, Steps, Copies, Rest
    <2>4. Becomes("ops", next, {"run"})
      BY <1>6 DEF StopStart
    <2> HIDE DEF next
    <2> QED BY <1>0, <2>2, <2>3, <2>4, BecomesTypes, StepTypes DEF Tight
  <1>7. CASE Terminate
    <2>1. RecordsType' /\ RestType' /\ run' = run
      BY <1>0, <1>7 DEF Terminate, records, budget, RecordsType, RestType
    <2> QED BY <1>0, <1>7, <2>1, GotoTypes, StepTypes DEF Terminate, Steps, Tight
  <1>8. CASE TerminateFails
    <2>1. "recovery-required" \in Lifecycles
      BY DEF Lifecycles
    <2>2. run' \in RunType
      BY <1>0, <1>8, <2>1, RunUpdates DEF TerminateFails
    <2>3. RecordsType' /\ RestType'
      BY <1>0, <1>8, <2>2, RunStep DEF TerminateFails
    <2> QED BY <1>0, <1>8, <2>3, ReturnsTypes, StepTypes DEF TerminateFails
  <1>9. CASE StopDone
    <2>1. "stopped" \in Lifecycles
      BY DEF Lifecycles, FINAL_LIFECYCLES
    <2>2. RecordsType' /\ RestType'
      BY <1>0, <1>9, <2>1, RunUpdates, RunStep DEF StopDone
    <2> QED BY <1>0, <1>9, <2>2, ReturnsTypes, StepTypes DEF StopDone
  <1>10. CASE ProviderExits
    <2>1. RecordsType' /\ RestType' /\ run' = run /\ proc' = proc
      BY <1>0, <1>10 DEF ProviderExits, records, budget, RecordsType, RestType
    <2>2. ProcsStep("ops")
      BY <1>0, <2>1 DEF ProcsStep, ProcsType, Untouched, Kept, Has, Room
    <2> QED BY <1>0, <2>1, <2>2, StepTypes
  <1>11. CASE ObserveExit
    <2> DEFINE next == [Rest EXCEPT !.pc = "exited", !.fresh = {"run"}]
    <2>1. run' \in RunType
      BY <1>0, <1>11, RunShifts DEF ObserveExit
    <2>2. RecordsType' /\ RestType'
      BY <1>0, <1>11, <2>1, RunStep DEF ObserveExit
    <2>3. next \in ProcessType /\ next.pc = "exited"
      BY RestIs DEF ProcessType, Steps, Copies, Rest
    <2>4. Becomes("ops", next, IF run.uncertain THEN {} ELSE {"run"})
      BY <1>11 DEF ObserveExit
    <2>5. run' = run \/ "run" \in (IF run.uncertain THEN {} ELSE {"run"})
      BY <1>11 DEF ObserveExit
    <2> HIDE DEF next
    <2>6. ProcsStep("ops")
      BY <1>0, <2>3, <2>4, <2>5, BecomesTypes DEF Tight
    <2> QED BY <1>0, <2>2, <2>6, StepTypes
  <1>12. CASE SettleExit
    <2>1. "interrupted" \in Lifecycles
      BY DEF Lifecycles, FINAL_LIFECYCLES
    <2>2. RecordsType' /\ RestType'
      BY <1>0, <1>12, <2>1, RunUpdates, RunStep DEF SettleExit
    <2> QED BY <1>0, <1>12, <2>2, ReturnsTypes, StepTypes DEF SettleExit
  <1> QED BY <1>1, <1>2, <1>3, <1>5, <1>6, <1>7, <1>8, <1>9, <1>10, <1>11, <1>12 DEF OpsStep

(* The words that end a submission.                                         *)
LEMMA SettledState ==
  /\ "completed" \in States /\ "completion-unproven-final" \in States /\ "rejected" \in States
  /\ "prepared" \in States /\ Submitted \in States
  BY DEF States

(* Completing a turn keeps the types.                                       *)
LEMMA CompletingTypes ==
  ASSUME TypeOK, RoomOK, Completing
  PROVE TypeStep("queue")
  <1> DEFINE q == proc["queue"]
  <1>0. /\ RecordsType /\ RestType /\ ProcsType /\ run \in RunType /\ "queue" \in Procs
        /\ q \in ProcessType /\ Room("queue") /\ (q.pc # "idle" => q.sub \in Subs)
    BY TypeParts DEF RoomOK, Room, Procs, ProcsType, RecordsType
  <1>1. CASE \E s \in Subs : CompleteStart(s)
    <2> PICK s \in Subs : CompleteStart(s)
      BY <1>1
    <2> DEFINE next == [Rest EXCEPT !.pc = CompleteStep(s), !.sub = s, !.ord = sub[s].ref,
                                    !.gen = run.gen, !.fresh = {"run", "sub"}]
    <2>1. RecordsType' /\ RestType' /\ run' = run
      BY <1>0, QuietStep DEF CompleteStart
    <2>2. CompleteStep(s) \in {"repairSub", "completeClear", "completing", "settle", "idle"}
      BY DEF CompleteStep
    <2>3. sub[s].ref \in 0 .. MaxOrdinal /\ run.gen \in 0 .. MaxGeneration
      BY <1>0 DEF RecordsType, RunType, Submissions
    <2>4. next \in ProcessType /\ next.pc \in {"repairSub", "completeClear", "completing", "settle", "idle"}
          /\ next.sub = s /\ next.gen = run.gen
      BY <2>2, <2>3, RestIs DEF ProcessType, Steps, Copies, Rest
    <2>5. proc' = [proc EXCEPT !["queue"] = next] /\ run.gen < MaxGeneration
      BY DEF CompleteStart
    <2> HIDE DEF next
    <2>6. ProcsType' /\ proc'["queue"] = next /\ Left("queue", {})
      BY <1>0, <2>4, <2>5 DEF ProcsType, Left, Kept
    <2>7. Room("queue")'
      BY <2>4, <2>5, <2>6 DEF Room
    <2> QED BY <1>0, <2>1, <2>6, <2>7, LeftIs, StepTypes DEF ProcsStep
  <1>2. CASE CompleteRepairs
    <2>1. sub' \in [Subs -> Submissions]
      BY <1>0, <1>2, SubUpdates, SettledState DEF CompleteRepairs
    <2>2. RecordsType' /\ RestType' /\ run' = run
      BY <1>0, <1>2, <2>1, SubStep DEF CompleteRepairs
    <2>3. ProcsStep("queue")
      BY <1>0, <1>2, <2>2, WroteTypes, ReturnsTypes DEF CompleteRepairs, Writes, At, Steps, Tight, Copies
    <2> QED BY <2>2, <2>3, StepTypes
  <1>3. CASE CompleteFences
    <2>1. run' \in RunType
      BY <1>0, <1>3, RunUpdates DEF CompleteFences, Phases
    <2>2. RecordsType' /\ RestType'
      BY <1>0, <1>3, <2>1, RunStep DEF CompleteFences
    <2>3. q.gen < MaxGeneration /\ q.sub \in Subs
      BY <1>0, <1>3 DEF CompleteFences, Writes, At, Room
    <2>4. ProcsType' /\ Left("queue", {"run"})
      BY <1>0, <1>3, WroteFields DEF CompleteFences, Steps, Copies
    <2>5. proc'["queue"].pc = "settle" /\ proc'["queue"].sub = q.sub /\ proc'["queue"].gen = q.gen
      BY <1>0, <1>3, WroteFields DEF CompleteFences, Steps, Copies
    <2>6. Room("queue")'
      BY <2>3, <2>5 DEF Room
    <2> QED BY <1>0, <2>2, <2>4, <2>6, LeftIs, StepTypes DEF ProcsStep
  <1>4. CASE CompleteSettles
    <2> DEFINE b(x) == CASE x = "active" -> "completed" [] x = "interrupted" -> "completed-interrupted" [] OTHER -> x
               a == Mine("queue")
    <2>1. att' \in [Attempts -> AttemptType]
      <3>1. att' = att \/ att' = [att EXCEPT ![a].barrier = b(att[a].barrier)]
        BY <1>4 DEF CompleteSettles
      <3>2. att \in [Attempts -> AttemptType]
        BY <1>0 DEF RecordsType
      <3>3. a \in Attempts => b(att[a].barrier) \in Barriers
        BY <3>2 DEF AttemptType, Barriers, Completed
      <3>4. a \notin Attempts => [att EXCEPT ![a].barrier = b(att[a].barrier)] = att
        BY <3>2
      <3> HIDE DEF b, a
      <3>5. a \in Attempts => [att EXCEPT ![a].barrier = b(att[a].barrier)] \in [Attempts -> AttemptType]
        BY <3>2, <3>3, AttemptTypes
      <3> QED BY <3>1, <3>2, <3>4, <3>5
    <2>2. RecordsType' /\ RestType' /\ run' = run
      BY <1>0, <1>4, <2>1, AttStep DEF CompleteSettles
    <2>3. q.gen < MaxGeneration /\ q.sub \in Subs
      BY <1>0, <1>4 DEF CompleteSettles, At, Room
    <2>4. CASE Wrote("queue", "refreshed", {"attempt"})
      <3>1. ProcsType' /\ Left("queue", {"attempt"})
        BY <1>0, <2>4, WroteFields DEF Steps, Copies
      <3>2. proc'["queue"].pc = "refreshed" /\ proc'["queue"].sub = q.sub /\ proc'["queue"].gen = q.gen
        BY <1>0, <2>4, WroteFields DEF Steps, Copies
      <3>3. Room("queue")'
        BY <2>3, <3>2 DEF Room
      <3> QED BY <1>0, <2>2, <3>1, <3>3, LeftIs, StepTypes DEF ProcsStep
    <2>5. CASE Returns("queue", {})
      BY <1>0, <2>2, <2>5, ReturnsTypes, StepTypes
    <2> QED BY <1>4, <2>4, <2>5 DEF CompleteSettles
  <1>5. CASE CompleteRefreshes
    <2>2. RecordsType' /\ RestType' /\ run' = run
      BY <1>0, <1>5, QuietStep DEF CompleteRefreshes
    <2>3. q.gen < MaxGeneration /\ q.sub \in Subs
      BY <1>0, <1>5 DEF CompleteRefreshes, At, Room
    <2>4. CASE Reads("queue", "complete", {"run"}) /\ run.gen = q.gen
      <3>1. ProcsType' /\ Left("queue", {})
        BY <1>0, <2>4, ReadsFields DEF Steps, Copies
      <3>2. proc'["queue"].pc = "complete" /\ proc'["queue"].sub = q.sub /\ proc'["queue"].gen = q.gen
        BY <1>0, <2>4, ReadsFields DEF Steps, Copies
      <3>3. Room("queue")'
        BY <2>2, <2>3, <2>4, <3>2 DEF Room
      <3> QED BY <1>0, <2>2, <3>1, <3>3, LeftIs, StepTypes DEF ProcsStep
    <2>5. CASE Returns("queue", {})
      BY <1>0, <2>2, <2>5, ReturnsTypes, StepTypes
    <2> QED BY <1>5, <2>4, <2>5 DEF CompleteRefreshes
  <1>6. CASE CompleteRun
    <2>1. run.gen < MaxGeneration /\ q.sub \in Subs
      BY <1>0, <1>6 DEF CompleteRun, Writes, At, Has, Compares, Room
    <2>2. run' \in RunType
      BY <1>0, <1>6, <2>1, RunShifts DEF CompleteRun
    <2>3. RecordsType' /\ RestType'
      BY <1>0, <1>6, <2>2, RunStep DEF CompleteRun
    <2>4. ProcsStep("queue")
      BY <1>0, <1>6, <2>1, WroteTypes DEF CompleteRun, Steps, Tight, Copies
    <2> QED BY <2>3, <2>4, StepTypes
  <1>7. CASE CompleteSub
    <2>1. sub' \in [Subs -> Submissions]
      BY <1>0, <1>7, SubUpdates, SettledState DEF CompleteSub
    <2>2. RecordsType' /\ RestType' /\ run' = run
      BY <1>0, <1>7, <2>1, SubStep DEF CompleteSub
    <2>3. ProcsStep("queue")
      BY <1>0, <1>7, <2>2, WroteTypes DEF CompleteSub, Writes, At, Steps, Tight, Copies
    <2> QED BY <2>2, <2>3, StepTypes
  <1>8. CASE CompleteClear
    <2>2. RecordsType' /\ RestType'
      BY <1>0, <1>8, RunUpdates, RunStep DEF CompleteClear
    <2>3. ProcsStep("queue")
      BY <1>0, <1>8, ReturnsTypes DEF CompleteClear
    <2> QED BY <2>2, <2>3, StepTypes
  <1> QED BY <1>1, <1>2, <1>3, <1>4, <1>5, <1>6, <1>7, <1>8 DEF Completing

(* So does picking the way in which a turn is closed.                       *)
LEMMA CloseStartTypes ==
  ASSUME RecordsType, RestType, ProcsType, NEW s \in Subs, NEW step \in Steps, CloseStart(s, step),
         step \in {"closeBarrier", "closeRun"} => run.gen < MaxGeneration,
         step \in {"closeReject", "closeCancelOnly", "closeCancel", "closeClear", "closeFinal",
                   "closeBarrier", "closeRun"}
  PROVE TypeStep("queue")
  <1> DEFINE next == [Rest EXCEPT !.pc = step, !.sub = s, !.ord = FirstOrdinal(s),
                                  !.gen = sub[s].gen, !.fresh = {"run", "sub", "attempt"}]
  <1>1. RecordsType' /\ RestType' /\ run' = run
    BY QuietStep DEF CloseStart
  <1>2. FirstOrdinal(s) \in 0 .. MaxOrdinal /\ sub[s].gen \in 0 .. MaxGeneration
    BY FirstIs DEF RecordsType, Submissions
  <1>3. next \in ProcessType /\ next.pc = step /\ next.sub = s
    BY <1>2, RestIs DEF ProcessType, Copies, Rest
  <1>4. proc' = [proc EXCEPT !["queue"] = next]
    BY DEF CloseStart
  <1> HIDE DEF next
  <1>5. ProcsType' /\ proc'["queue"] = next /\ Left("queue", {})
    BY <1>3, <1>4 DEF ProcsType, Left, Kept, Procs
  <1>6. Room("queue")'
    BY <1>1, <1>3, <1>5 DEF Room
  <1> QED BY <1>1, <1>5, <1>6, LeftIs, StepTypes DEF ProcsStep

(* So does closing a turn that recovery left behind.                        *)
LEMMA ClosingTypes ==
  ASSUME TypeOK, RoomOK, Closing
  PROVE TypeStep("queue")
  <1> DEFINE q == proc["queue"]
  <1>0. /\ RecordsType /\ RestType /\ ProcsType /\ run \in RunType /\ "queue" \in Procs
        /\ q \in ProcessType /\ Room("queue") /\ (q.pc # "idle" => q.sub \in Subs)
    BY TypeParts DEF RoomOK, Room, Procs, ProcsType, RecordsType
  <1>1. CASE \E s \in Subs : CloseNoAttempt(s)
    BY <1>0, <1>1, CloseStartTypes DEF CloseNoAttempt, Steps
  <1>2. CASE \E s \in Subs : ClosePreEffect(s)
    BY <1>0, <1>2, CloseStartTypes DEF ClosePreEffect, Steps
  <1>3. CASE \E s \in Subs : CloseActivated(s)
    BY <1>0, <1>3, CloseStartTypes DEF CloseActivated, Steps
  <1>4. CASE CloseCancels
    <2>1. att' \in [Attempts -> AttemptType]
      BY <1>0, <1>4, AttUpdates DEF CloseCancels, RecordsType
    <2>2. RecordsType' /\ RestType' /\ run' = run
      BY <1>0, <1>4, <2>1, AttStep DEF CloseCancels
    <2>3. ProcsStep("queue")
      BY <1>0, <1>4, <2>2, WroteTypes, ReturnsTypes DEF CloseCancels, Steps, Tight, Copies
    <2> QED BY <2>2, <2>3, StepTypes
  <1>5. CASE CloseClears
    <2>2. RecordsType' /\ RestType'
      BY <1>0, <1>5, RunUpdates, RunStep DEF CloseClears
    <2>3. ProcsStep("queue")
      BY <1>0, <1>5, WroteTypes DEF CloseClears, Writes, At, Steps, Tight, Copies
    <2> QED BY <2>2, <2>3, StepTypes
  <1>6. CASE CloseRejects
    <2>1. sub' \in [Subs -> Submissions]
      BY <1>0, <1>6, SubUpdates, SettledState DEF CloseRejects
    <2>2. RecordsType' /\ RestType' /\ run' = run
      BY <1>0, <1>6, <2>1, SubStep DEF CloseRejects
    <2>3. ProcsStep("queue")
      BY <1>0, <1>6, <2>2, ReturnsTypes DEF CloseRejects
    <2> QED BY <2>2, <2>3, StepTypes
  <1>7. CASE CloseBarrier
    <2>1. att' \in [Attempts -> AttemptType]
      BY <1>0, <1>7, AttUpdates DEF CloseBarrier, RecordsType
    <2>2. RecordsType' /\ RestType' /\ run' = run
      BY <1>0, <1>7, <2>1, AttStep DEF CloseBarrier
    <2>3. CASE Wrote("queue", "closeRun", {"attempt"})
      <3>1. ProcsType' /\ Left("queue", {"attempt"})
        BY <1>0, <2>3, WroteFields DEF Steps, Copies
      <3>2. proc'["queue"].pc = "closeRun" /\ proc'["queue"].sub = q.sub /\ (Has("queue", "run")' => Has("queue", "run"))
        BY <1>0, <2>3, WroteFields DEF Steps, Copies, Has
      <3>3. Room("queue")'
        BY <1>0, <1>7, <2>2, <3>2 DEF Room, CloseBarrier, At
      <3> QED BY <1>0, <2>2, <3>1, <3>3, LeftIs, StepTypes DEF ProcsStep
    <2>4. CASE Returns("queue", {})
      BY <1>0, <2>2, <2>4, ReturnsTypes, StepTypes
    <2> QED BY <1>7, <2>3, <2>4 DEF CloseBarrier
  <1>8. CASE CloseRun
    <2>1. run.gen < MaxGeneration /\ q.sub \in Subs
      BY <1>0, <1>8 DEF CloseRun, Writes, At, Has, Compares, Room
    <2>2. run' \in RunType
      BY <1>0, <1>8, <2>1, RunShifts DEF CloseRun
    <2>3. RecordsType' /\ RestType'
      BY <1>0, <1>8, <2>2, RunStep DEF CloseRun
    <2>4. ProcsStep("queue")
      BY <1>0, <1>8, <2>1, WroteTypes DEF CloseRun, Steps, Tight, Copies
    <2> QED BY <2>3, <2>4, StepTypes
  <1>9. CASE CloseFinal
    <2>1. sub' \in [Subs -> Submissions]
      BY <1>0, <1>9, SubUpdates, SettledState DEF CloseFinal
    <2>2. RecordsType' /\ RestType' /\ run' = run
      BY <1>0, <1>9, <2>1, SubStep DEF CloseFinal
    <2>3. ProcsStep("queue")
      BY <1>0, <1>9, <2>2, ReturnsTypes DEF CloseFinal
    <2> QED BY <2>2, <2>3, StepTypes
  <1> QED BY <1>1, <1>2, <1>3, <1>4, <1>5, <1>6, <1>7, <1>8, <1>9 DEF Closing

(* Recovery reads an attempt.                                               *)
LEMMA ReadsAttemptTypes ==
  ASSUME RecordsType, RestType, ProcsType, NEW step \in Steps \ Tight, NEW o, o = 0 \/ o \in Ords,
         ReadsAttempt(step, o), Quietly, S \in Subs
  PROVE TypeStep(R)
  <1> DEFINE e == IF o = 0 THEN "absent" ELSE att[<<S, o>>].effect
             next == [proc[R] EXCEPT !.pc = step, !.ord = o, !.effect = e, !.fresh = @ \union {"attempt"}]
  <1>1. RecordsType' /\ RestType' /\ run' = run
    BY QuietStep DEF Quietly
  <1>2. e \in Effects /\ o \in 0 .. MaxOrdinal
    <2>1. CASE o = 0
      BY <2>1, Bounds DEF Effects
    <2>2. CASE o # 0
      <3>1. <<S, o>> \in Attempts /\ o \in 0 .. MaxOrdinal
        BY <2>2, Bounds DEF Attempts, Ords
      <3> QED BY <2>2, <3>1 DEF RecordsType, AttemptType
    <2> QED BY <2>1, <2>2
  <1>3. R \in Procs /\ proc[R] \in ProcessType
    BY DEF R, Procs, ProcsType
  <1> HIDE DEF e
  <1>4. next \in ProcessType /\ next.pc = step /\ next.sub = S
    BY <1>2, <1>3 DEF ProcessType, S, Copies
  <1>5. proc' = [proc EXCEPT ![R] = next]
    BY <1>3 DEF ReadsAttempt, ProcsType, ProcessType, e
  <1> HIDE DEF next
  <1> QED BY <1>1, <1>3, <1>4, <1>5, UpdateTypes, StepTypes

(* Recovery takes a submission as its task.                                 *)
LEMMA TaskTypes ==
  ASSUME RecordsType, RestType, ProcsType, NEW step \in Steps \ Tight, NEW s \in Subs, Task(step, s)
  PROVE TypeStep(R)
  <1> DEFINE next == [Rest EXCEPT !.pc = step, !.sub = s, !.seen = sub[s], !.fresh = {"sub"}]
  <1>1. RecordsType' /\ RestType' /\ run' = run
    BY QuietStep DEF Task
  <1>2. sub[s] \in Submissions /\ R \in Procs
    BY DEF RecordsType, R, Procs
  <1>3. next \in ProcessType /\ next.pc = step /\ next.sub = s
    BY <1>2, RestIs DEF ProcessType, Copies, Rest
  <1>4. proc' = [proc EXCEPT ![R] = next]
    BY DEF Task
  <1> HIDE DEF next
  <1> QED BY <1>1, <1>2, <1>3, <1>4, UpdateTypes, StepTypes

(* Recovery of a turn keeps the types.                                      *)
LEMMA ReconcilingTypes ==
  ASSUME TypeOK, RoomOK, Reconciling
  PROVE TypeStep(R)
  <1>0. /\ RecordsType /\ RestType /\ ProcsType /\ run \in RunType /\ R \in Procs /\ R # "ops"
        /\ proc[R] \in ProcessType /\ S = proc[R].sub /\ (proc[R].pc # "idle" => S \in Subs)
    BY TypeParts DEF RoomOK, Room, Procs, ProcsType, RecordsType, R, S
  <1>1. CASE \E s \in Subs : InventoryStart(s)
    BY <1>0, <1>1, TaskTypes DEF InventoryStart, Steps, Tight
  <1>2. CASE \E s \in Subs : ControllerStart(s)
    BY <1>0, <1>2, TaskTypes DEF ControllerStart, Steps, Tight
  <1>3. CASE \E s \in Subs : GeneralStart(s)
    BY <1>0, <1>3, TaskTypes DEF GeneralStart, Steps, Tight
  <1>4. CASE \E s \in Subs : GeneralClear(s)
    <2>1. run' \in RunType
      BY <1>0, <1>4, RunUpdates DEF GeneralClear
    <2>2. RecordsType' /\ RestType'
      BY <1>0, <1>4, <2>1, RunStep DEF GeneralClear
    <2>3. ProcsStep(R)
      BY <1>0, <1>4, WroteTypes, ReturnsTypes, GotoTypes DEF GeneralClear, Writes, At, Steps, Tight, Copies
    <2> QED BY <2>2, <2>3, StepTypes
  <1>5. CASE InventoryList
    <2>1. CASE Returns(R, {})
      <3>1. RecordsType' /\ RestType' /\ run' = run
        BY <1>0, <1>5, QuietStep DEF InventoryList, Quietly
      <3> QED BY <1>0, <2>1, <3>1, ReturnsTypes, StepTypes
    <2>2. CASE \E o \in Ordinals(S) : ReadsAttempt("judge", o)
      <3>1. Ordinals(S) \subseteq Ords /\ Quietly /\ S \in Subs
        BY <1>0, <1>5 DEF Ordinals, Ords, InventoryList, At
      <3> QED BY <1>0, <2>2, <3>1, ReadsAttemptTypes DEF Steps, Tight
    <2> QED BY <1>5, <2>1, <2>2 DEF InventoryList
  <1>6. CASE InventoryJudge
    <2>1. RecordsType' /\ RestType' /\ run' = run
      BY <1>0, <1>6, QuietStep DEF InventoryJudge, Quietly
    <2>2. ProcsStep(R)
      BY <1>0, <1>6, <2>1, WroteTypes, ReturnsTypes, GotoTypes, ReadsTypes DEF InventoryJudge, Writes,
          At, Steps, Tight, Copies
    <2> QED BY <2>1, <2>2, StepTypes
  <1>7. CASE Quarantine
    <2>1. att' \in [Attempts -> AttemptType]
      BY <1>0, <1>7, AttUpdates DEF Quarantine, RecordsType
    <2>2. RecordsType' /\ RestType' /\ run' = run
      BY <1>0, <1>7, <2>1, AttStep DEF Quarantine
    <2>3. ProcsStep(R)
      BY <1>0, <1>7, <2>2, WroteTypes, ReturnsTypes, GotoTypes DEF Quarantine, Writes, At, Steps, Tight,
          Copies
    <2> QED BY <2>2, <2>3, StepTypes
  <1>8. CASE Hold
    <2> DEFINE next == [sub[S] EXCEPT !.state = "recovery-required", !.safe = Seen.state,
                                      !.ref = proc[R].ord, !.activation = "none"]
    <2>1. next \in Submissions
      <3>1. sub[S] \in Submissions /\ proc[R].ord \in 0 .. MaxOrdinal
        BY <1>0, <1>8 DEF Hold, At, RecordsType, ProcessType
      <3>2. Seen.state \in {"none", "queued", "prepared", Submitted} /\ "recovery-required" \in States
        BY <1>8 DEF Hold, Holdable, States
      <3> QED BY <3>1, <3>2 DEF Submissions
    <2>2. sub' = [sub EXCEPT ![S] = next]
      BY <1>0, <1>8 DEF Hold, RecordsType, Submissions
    <2> HIDE DEF next
    <2>3. sub' \in [Subs -> Submissions]
      BY <1>0, <2>1, <2>2, SubUpdates
    <2>4. RecordsType' /\ RestType' /\ run' = run
      BY <1>0, <1>8, <2>3, SubStep DEF Hold
    <2>5. ProcsStep(R)
      BY <1>0, <1>8, <2>4, WroteTypes DEF Hold, At, Steps, Tight, Copies
    <2> QED BY <2>4, <2>5, StepTypes
  <1>9. CASE HoldNothing
    <2>1. RecordsType' /\ RestType' /\ run' = run
      BY <1>0, <1>9, QuietStep DEF HoldNothing, Quietly
    <2>2. ProcsStep(R)
      BY <1>0, <1>9, <2>1, WroteTypes, ReturnsTypes, GotoTypes, ReadsTypes DEF HoldNothing, Writes, At,
          Steps, Tight, Copies
    <2> QED BY <2>1, <2>2, StepTypes
  <1>10. CASE HoldFence
    <2>1. run' \in RunType
      BY <1>0, <1>10, RunUpdates DEF HoldFence, Phases
    <2>2. RecordsType' /\ RestType'
      BY <1>0, <1>10, <2>1, RunStep DEF HoldFence
    <2>3. ProcsStep(R)
      BY <1>0, <1>10, WroteTypes, ReturnsTypes, GotoTypes DEF HoldFence, Writes, At, Steps, Tight, Copies
    <2> QED BY <2>2, <2>3, StepTypes
  <1>11. CASE ControllerLook
    <2>1. RecordsType' /\ RestType' /\ run' = run
      BY <1>0, <1>11, QuietStep DEF ControllerLook, Quietly
    <2>2. CASE Returns(R, {})
      BY <1>0, <2>1, <2>2, ReturnsTypes, StepTypes
    <2>3. CASE ReadsAttempt("ctlGuard", FirstOrdinal(S))
      <3>1. Quietly /\ S \in Subs
        BY <1>0, <1>11 DEF ControllerLook, At
      <3> QED BY <1>0, <2>3, <3>1, ReadsAttemptTypes, FirstIs DEF Steps, Tight
    <2> QED BY <1>11, <2>2, <2>3 DEF ControllerLook
  <1>12. CASE ControllerGuard
    <2>1. RecordsType' /\ RestType' /\ run' = run
      BY <1>0, <1>12, QuietStep DEF ControllerGuard, Quietly
    <2>2. ProcsStep(R)
      BY <1>0, <1>12, <2>1, WroteTypes, ReturnsTypes, GotoTypes, ReadsTypes DEF ControllerGuard, Writes,
          At, Steps, Tight, Copies
    <2> QED BY <2>1, <2>2, StepTypes
  <1>13. CASE ControllerCancel
    <2>1. att' \in [Attempts -> AttemptType]
      BY <1>0, <1>13, AttUpdates DEF ControllerCancel, RecordsType
    <2>2. RecordsType' /\ RestType' /\ run' = run
      BY <1>0, <1>13, <2>1, AttStep DEF ControllerCancel
    <2>3. ProcsStep(R)
      BY <1>0, <1>13, <2>2, WroteTypes, ReturnsTypes, GotoTypes DEF ControllerCancel, Writes, At, Steps,
          Tight, Copies
    <2> QED BY <2>2, <2>3, StepTypes
  <1>14. CASE ControllerClear
    <2>1. run' \in RunType
      BY <1>0, <1>14, RunUpdates DEF ControllerClear
    <2>2. RecordsType' /\ RestType'
      BY <1>0, <1>14, <2>1, RunStep DEF ControllerClear
    <2>3. ProcsStep(R)
      BY <1>0, <1>14, WroteTypes, ReturnsTypes, GotoTypes DEF ControllerClear, Writes, At, Steps, Tight,
          Copies
    <2> QED BY <2>2, <2>3, StepTypes
  <1>15. CASE ControllerReject
    <2>1. sub' \in [Subs -> Submissions]
      BY <1>0, <1>15, SubUpdates, SettledState DEF ControllerReject
    <2>2. RecordsType' /\ RestType' /\ run' = run
      BY <1>0, <1>15, <2>1, SubStep DEF ControllerReject
    <2>3. ProcsStep(R)
      BY <1>0, <1>15, <2>2, ReturnsTypes DEF ControllerReject
    <2> QED BY <2>2, <2>3, StepTypes
  <1>16. CASE GeneralLook
    <2>1. RecordsType' /\ RestType' /\ run' = run /\ Quietly /\ S \in Subs
      BY <1>0, <1>16, QuietStep DEF GeneralLook, Quietly, At
    <2>2. CASE Returns(R, {})
      BY <1>0, <2>1, <2>2, ReturnsTypes, StepTypes
    <2>3. CASE ReadsAttempt("recFence", FirstOrdinal(S))
      BY <1>0, <2>1, <2>3, ReadsAttemptTypes, FirstIs DEF Steps, Tight
    <2>4. CASE Goto(R, "hold")
      BY <1>0, <2>1, <2>4, GotoTypes, StepTypes DEF Steps, Tight
    <2>5. CASE Reads(R, "refresh", {"sub"})
      BY <1>0, <2>1, <2>5, ReadsTypes, StepTypes DEF Steps, Tight, Copies
    <2> QED BY <1>16, <2>2, <2>3, <2>4, <2>5 DEF GeneralLook
  <1>17. CASE RecoverFence
    <2> DEFINE f == [Fence(S, proc[R].ord) EXCEPT !.gen = Seen.gen]
    <2>1. [run EXCEPT !.fence = f] \in RunType
      <3>1. S \in Subs /\ proc[R].ord \in 0 .. MaxOrdinal /\ Seen.gen \in 0 .. MaxGeneration
        BY <1>0, <1>17 DEF RecoverFence, At, ProcessType, Seen, Submissions
      <3>2. f = [sub |-> S, ord |-> proc[R].ord, gen |-> Seen.gen, phase |-> "terminal-prepared"]
        BY DEF Fence
      <3>3. f \in [sub : Subs \union {None}, ord : 0 .. MaxOrdinal, gen : 0 .. MaxGeneration, phase : Phases]
        BY <3>1, <3>2 DEF Phases
      <3> HIDE DEF f
      <3> QED BY <1>0, <3>3 DEF RunType
    <2>2. run' = run \/ run' = [run EXCEPT !.fence = f]
      BY <1>17 DEF RecoverFence
    <2> HIDE DEF f
    <2>3. RecordsType' /\ RestType'
      BY <1>0, <1>17, <2>1, <2>2, RunStep DEF RecoverFence
    <2>4. ProcsStep(R)
      BY <1>0, <1>17, WroteTypes, ReadsTypes, GotoTypes DEF RecoverFence, At, Steps, Tight, Copies
    <2> QED BY <2>3, <2>4, StepTypes
  <1>18. CASE RecoverSkip
    <2>1. RecordsType' /\ RestType' /\ run' = run
      BY <1>0, <1>18, QuietStep DEF RecoverSkip, Quietly
    <2>2. ProcsStep(R)
      <3>1. \E step \in {"hold", "recAdvance", "execute", "recRecord"} : Goto(R, step)
        BY <1>18 DEF RecoverSkip
      <3>2. S \in Subs
        BY <1>0, <1>18 DEF RecoverSkip, At
      <3> QED BY <1>0, <2>1, <3>1, <3>2, GotoTypes DEF Steps, Tight
    <2> QED BY <2>1, <2>2, StepTypes
  <1>19. CASE RecoverMark
    <2> DEFINE next == [proc[R] EXCEPT !.pc = "recAdvance", !.seen.state = "prepared"]
    <2>1. sub' \in [Subs -> Submissions]
      BY <1>0, <1>19, SubUpdates, SettledState DEF RecoverMark
    <2>2. RecordsType' /\ RestType' /\ run' = run
      BY <1>0, <1>19, <2>1, SubStep DEF RecoverMark
    <2>3. next \in ProcessType /\ next.pc = "recAdvance" /\ next.sub = S
      BY <1>0, SettledState DEF ProcessType, Submissions, Steps
    <2>4. Becomes(R, next, {"sub"}) /\ S \in Subs
      BY <1>0, <1>19 DEF RecoverMark, Writes, At
    <2> HIDE DEF next
    <2>5. ProcsStep(R)
      BY <1>0, <2>2, <2>3, <2>4, BecomesTypes DEF Tight
    <2> QED BY <2>2, <2>5, StepTypes
  <1>20. CASE RecoverAdvance
    <2>1. run' \in RunType
      BY <1>0, <1>20, RunUpdates DEF RecoverAdvance, Phases
    <2>2. RecordsType' /\ RestType'
      BY <1>0, <1>20, <2>1, RunStep DEF RecoverAdvance
    <2>3. ProcsStep(R)
      BY <1>0, <1>20, WroteTypes, ReturnsTypes, GotoTypes DEF RecoverAdvance, Writes, At, Steps, Tight,
          Copies
    <2> QED BY <2>2, <2>3, StepTypes
  <1>21. CASE RecoverRecord
    <2> DEFINE next == [proc[R] EXCEPT !.pc = "recActivate", !.seen.state = Submitted, !.seen.activation = "pending"]
    <2>1. sub' \in [Subs -> Submissions]
      <3>1. sub' = sub \/ sub' = [sub EXCEPT ![S].state = Submitted, ![S].ref = proc[R].ord, ![S].activation = "pending"]
        BY <1>21 DEF RecoverRecord
      <3>2. proc[R].ord \in 0 .. MaxOrdinal /\ sub \in [Subs -> Submissions]
        BY <1>0 DEF ProcessType, RecordsType
      <3>3. [sub EXCEPT ![S].state = Submitted, ![S].ref = proc[R].ord, ![S].activation = "pending"] \in [Subs -> Submissions]
        <4> DEFINE s == S
                   o == proc[R].ord
        <4> HIDE DEF s, o
        <4>1. o \in 0 .. MaxOrdinal
          BY <3>2 DEF o
        <4>2. [sub EXCEPT ![s].state = Submitted, ![s].ref = o, ![s].activation = "pending"] \in [Subs -> Submissions]
          BY <1>0, <4>1, SubUpdates
        <4> QED BY <4>2 DEF s, o
      <3> QED BY <3>1, <3>2, <3>3
    <2>2. RecordsType' /\ RestType' /\ run' = run
      BY <1>0, <1>21, <2>1, SubStep DEF RecoverRecord
    <2>3. next \in ProcessType /\ next.pc = "recActivate" /\ next.sub = S
      BY <1>0, SettledState DEF ProcessType, Submissions, Steps
    <2>4. S \in Subs
      BY <1>0, <1>21 DEF RecoverRecord, At
    <2>5. CASE Becomes(R, next, {"sub"})
      <3> HIDE DEF next
      <3>1. ProcsStep(R)
        BY <1>0, <2>2, <2>3, <2>4, <2>5, BecomesTypes DEF Tight
      <3> QED BY <2>2, <3>1, StepTypes
    <2>6. CASE Goto(R, "recActivate")
      BY <1>0, <2>2, <2>4, <2>6, GotoTypes, StepTypes DEF Steps, Tight
    <2> QED BY <1>21, <2>5, <2>6 DEF RecoverRecord
  <1>22. CASE RecoverActivate
    <2>1. run' \in RunType
      <3>1. CASE run' = run
        BY <1>0, <3>1
      <3>2. CASE Phased("active")
        BY <1>0, <3>2, RunUpdates DEF Phases
      <3>3. CASE run' = Activated(S)
        <4>1. sub[S].gen \in 0 .. MaxGeneration /\ S \in Subs
          BY <1>0, <1>22 DEF RecoverActivate, At, RecordsType, Submissions
        <4> QED BY <1>0, <3>3, <4>1 DEF Activated, RunType, Phases
      <3> QED BY <1>22, <3>1, <3>2, <3>3 DEF RecoverActivate
    <2>2. RecordsType' /\ RestType'
      BY <1>0, <1>22, <2>1, RunStep DEF RecoverActivate
    <2>3. ProcsStep(R)
      BY <1>0, <1>22, WroteTypes, ReadsTypes, GotoTypes DEF RecoverActivate, At, Steps, Tight, Copies
    <2> QED BY <2>2, <2>3, StepTypes
  <1>23. CASE RecoverCommit
    <2> DEFINE next == [proc[R] EXCEPT !.pc = "verdict", !.seen.activation = "committed"]
    <2>1. sub' \in [Subs -> Submissions]
      <3>1. sub' = sub \/ sub' = [sub EXCEPT ![S].activation = "committed"]
        BY <1>23 DEF RecoverCommit
      <3>2. [sub EXCEPT ![S].activation = "committed"] \in [Subs -> Submissions] /\ sub \in [Subs -> Submissions]
        BY <1>0, SubUpdates DEF RecordsType
      <3> QED BY <3>1, <3>2
    <2>2. RecordsType' /\ RestType' /\ run' = run
      BY <1>0, <1>23, <2>1, SubStep DEF RecoverCommit
    <2>3. next \in ProcessType /\ next.pc = "verdict" /\ next.sub = S
      BY <1>0 DEF ProcessType, Submissions, Steps
    <2>4. S \in Subs
      BY <1>0, <1>23 DEF RecoverCommit, At
    <2>5. CASE Becomes(R, next, {"sub"})
      <3> HIDE DEF next
      <3>1. ProcsStep(R)
        BY <1>0, <2>2, <2>3, <2>4, <2>5, BecomesTypes DEF Tight
      <3> QED BY <2>2, <3>1, StepTypes
    <2>6. CASE Goto(R, "verdict")
      BY <1>0, <2>2, <2>4, <2>6, GotoTypes, StepTypes DEF Steps, Tight
    <2> QED BY <1>23, <2>5, <2>6 DEF RecoverCommit
  <1>24. CASE Verdict
    <2>1. RecordsType' /\ RestType' /\ run' = run
      BY <1>0, <1>24, QuietStep DEF Verdict, Quietly
    <2>2. ProcsStep(R)
      BY <1>0, <1>24, <2>1, WroteTypes, ReturnsTypes, GotoTypes, ReadsTypes DEF Verdict, Writes, At,
          Steps, Tight, Copies
    <2> QED BY <2>1, <2>2, StepTypes
  <1> QED BY <1>1, <1>2, <1>3, <1>4, <1>5, <1>6, <1>7, <1>8, <1>9, <1>10, <1>11, <1>12, <1>13, <1>14,
      <1>15, <1>16, <1>17, <1>18, <1>19, <1>20, <1>21, <1>22, <1>23, <1>24 DEF Reconciling

(* A lost race or a failed write keeps the types.                           *)
LEMMA EndingTypes ==
  ASSUME TypeOK, RoomOK, NEW p \in Procs, Loses(p) \/ Fails(p)
  PROVE TypeStep(p)
  <1>0. /\ RecordsType /\ RestType /\ ProcsType /\ (p # "ops" /\ proc[p].pc # "idle" => proc[p].sub \in Subs)
    BY TypeParts DEF RoomOK, Room
  <1>1. CASE Loses(p)
    <2>1. RecordsType' /\ RestType' /\ run' = run
      BY <1>0, <1>1, QuietStep DEF Loses
    <2>2. CASE Returns(p, {})
      BY <1>0, <2>1, <2>2, ReturnsTypes, StepTypes
    <2>3. CASE At(p, "fence") /\ Goto(p, "cancel")
      <3>1. ProcsStep(p)
        BY <1>0, <2>1, <2>3, GotoTypes DEF At, Steps, Tight
      <3> QED BY <2>1, <3>1, StepTypes
    <2> QED BY <1>1, <2>2, <2>3 DEF Loses
  <1>2. CASE Fails(p)
    <2>1. RecordsType' /\ run' = run
      BY <1>0, <1>2 DEF Fails, records, RecordsType
    <2>2. RestType'
      BY <1>0, <1>2, Bounds DEF Fails, Fault, world, RestType
    <2> QED BY <1>0, <1>2, <2>1, <2>2, ReturnsTypes, StepTypes DEF Fails
  <1> QED BY <1>1, <1>2

(* A crash keeps the types.                                                 *)
LEMMA CrashTypes ==
  ASSUME TypeOK, RoomOK, Crash
  PROVE TypeOK' /\ RoomOK'
  <1>0. RecordsType /\ RestType /\ ProcsType
    BY TypeParts
  <1>1. RecordsType'
    BY <1>0 DEF Crash, records, RecordsType
  <1>2. RestType'
    <2>1. crashes' \in 0 .. MaxCrashes
      BY <1>0, Bounds DEF Crash, RestType
    <2>2. lane' = None /\ live' = FALSE /\ phase' = "starting" /\ spent' = spent /\ typed' = typed /\ faults' = faults
      BY DEF Crash
    <2> QED BY <1>0, <2>1, <2>2 DEF RestType
  <1>3. ProcsType'
    BY RestIs DEF Crash, ProcsType
  <1>4. \A p \in Procs : proc'[p].pc = "idle"
    BY DEF Crash, Rest
  <1>5. RoomOK'
    BY <1>4 DEF RoomOK, Room
  <1>6. TypeOK'
    BY <1>1, <1>2, <1>3 DEF TypeOK, RecordsType, RestType, ProcsType, RunType, AttemptType, ProcessType,
        Copies
  <1> QED BY <1>5, <1>6

(* The end of recovery keeps the types.                                     *)
LEMMA StartedTypes ==
  ASSUME TypeOK, RoomOK, Started
  PROVE TypeStep(R)
  <1>0. RecordsType /\ RestType /\ ProcsType /\ run \in RunType /\ R \in Procs
    BY TypeParts DEF RecordsType, R, Procs
  <1>1. run' \in RunType
    <2>1. "interrupted" \in Lifecycles
      BY DEF Lifecycles, FINAL_LIFECYCLES
    <2> QED BY <1>0, <2>1, RunUpdates DEF Started
  <1>2. RecordsType' /\ RestType'
    BY <1>0, <1>1 DEF Started, budget, RecordsType, RestType
  <1> QED BY <1>0, <1>2, ReturnsTypes, StepTypes DEF Started

TypeInv == TypeOK /\ RoomOK

(* The types hold in the beginning.                                         *)
LEMMA TypeInit == Init => TypeInv
  <1> SUFFICES ASSUME Init PROVE TypeInv
    OBVIOUS
  <1>1. NoSubmission \in Submissions /\ NoAttempt \in AttemptType
    BY Bounds DEF NoSubmission, Submissions, States, NoAttempt, AttemptType, Effects, Barriers
  <1>2. run \in RunType
    BY Bounds DEF Init, RunType, NoTurn, NoFence, Phases
  <1>3. RecordsType
    BY <1>1, <1>2 DEF Init, RecordsType
  <1>4. RestType
    BY Bounds DEF Init, RestType
  <1>5. ProcsType /\ \A p \in Procs : proc[p].pc = "idle"
    BY RestIs DEF Init, ProcsType, Rest
  <1>6. RoomOK
    BY <1>5 DEF RoomOK, Room
  <1> QED BY <1>3, <1>4, <1>5, <1>6, TypeParts DEF TypeInv

(* A well typed step of one process keeps the whole type invariant.         *)
LEMMA TypeStepKeeps ==
  ASSUME TypeInv, NEW p \in Procs, TypeStep(p)
  PROVE TypeInv'
  BY RoomKept DEF TypeInv, TypeStep

(* Every step is one of those.                                              *)
LEMMA TypeNext == TypeInv /\ [Next]_vars => TypeInv'
  <1> SUFFICES ASSUME TypeInv, [Next]_vars PROVE TypeInv'
    OBVIOUS
  <1>0. TypeOK /\ RoomOK
    BY DEF TypeInv
  <1>1. CASE \E p \in {"queue", "pump", "recovery"} : Submitting(p)
    BY <1>0, <1>1, SubmitTypes, TypeStepKeeps DEF Workers, Procs
  <1>2. CASE Lifecycle
    BY <1>0, <1>2, OpsTypes, BeginTypes, TypeStepKeeps DEF Lifecycle, OpsStep, Procs
  <1>3. CASE Completing
    BY <1>0, <1>3, CompletingTypes, TypeStepKeeps DEF Procs
  <1>4. CASE Closing
    BY <1>0, <1>4, ClosingTypes, TypeStepKeeps DEF Procs
  <1>5. CASE Reconciling
    BY <1>0, <1>5, ReconcilingTypes, TypeStepKeeps DEF Procs, R
  <1>6. CASE \E p \in Procs : Loses(p) \/ Fails(p)
    BY <1>0, <1>6, EndingTypes, TypeStepKeeps
  <1>7. CASE Crash
    BY <1>0, <1>7, CrashTypes DEF TypeInv
  <1>8. CASE Started
    BY <1>0, <1>8, StartedTypes, TypeStepKeeps DEF Procs, R
  <1>9. CASE UNCHANGED vars
    BY <1>9 DEF vars, TypeInv, TypeOK, RoomOK, Room, Has
  <1> QED BY <1>1, <1>2, <1>3, <1>4, <1>5, <1>6, <1>7, <1>8, <1>9 DEF Next

(* Type correctness, for every number of submissions, attempts,             *)
(* generations, faults and crashes, whenever the runtime reconciles: every  *)
(* step keeps the records, the copies and the steps of all processes well   *)
(* formed.                                                                  *)
THEOREM TypeCorrect == Spec => []TypeOK
  <1>1. Spec => []TypeInv
    BY TypeInit, TypeNext, PTL DEF Spec
  <1>2. TypeInv => TypeOK
    BY DEF TypeInv
  <1> QED BY <1>1, <1>2, PTL

-----------------------------------------------------------------------------
(* Updates as moves.                                                        *)

Inv ==
    /\ TypeInv /\ RecordsOK /\ LifeOK
    /\ QueueSubmits /\ PumpSubmits /\ CompleterOK /\ CloserOK /\ QueueOK
    /\ OpsOK /\ ReconcilerOK

(* The updates of a submission as moves.                                    *)
LEMMA SubMoves ==
  ASSUME TypeOK, NEW s \in Subs
  PROVE /\ \A w : sub' = [sub EXCEPT ![s].state = w] => StateIs(s, w)
        /\ sub' = [sub EXCEPT ![s].activation = "committed"] => StateIs(s, State(s))
        /\ \A o, g : sub' = [sub EXCEPT ![s].ord = o, ![s].gen = g] => SubIs(s, State(s), o, g, sub[s].ref)
        /\ \A o : sub' = [sub EXCEPT ![s].state = Submitted, ![s].ref = o, ![s].activation = "pending"]
                  => SubIs(s, Submitted, sub[s].ord, sub[s].gen, o)
        /\ \A o, w : sub' = [sub EXCEPT ![s] = [@ EXCEPT !.state = "recovery-required", !.safe = w,
                                                !.ref = o, !.activation = "none"]]
                  => SubIs(s, "recovery-required", sub[s].ord, sub[s].gen, o)
  <1>1. sub \in [Subs -> Submissions]
    BY DEF TypeOK
  <1>2. \A r : sub' = [sub EXCEPT ![s] = r] => sub'[s] = r /\ OtherSubs(s)
    BY <1>1 DEF OtherSubs
  <1>3. \A w : sub' = [sub EXCEPT ![s].state = w] => StateIs(s, w)
    BY <1>1 DEF Submissions, SubIs, StateIs, OtherSubs
  <1>4. sub' = [sub EXCEPT ![s].activation = "committed"] => StateIs(s, State(s))
    BY <1>1 DEF Submissions, SubIs, StateIs, OtherSubs, State
  <1>5. \A o, g : sub' = [sub EXCEPT ![s].ord = o, ![s].gen = g] => SubIs(s, State(s), o, g, sub[s].ref)
    BY <1>1 DEF Submissions, SubIs, OtherSubs, State
  <1>6. \A o : sub' = [sub EXCEPT ![s].state = Submitted, ![s].ref = o, ![s].activation = "pending"]
                  => SubIs(s, Submitted, sub[s].ord, sub[s].gen, o)
    BY <1>1 DEF Submissions, SubIs, OtherSubs
  <1>7. ASSUME NEW o, NEW w,
               sub' = [sub EXCEPT ![s] = [@ EXCEPT !.state = "recovery-required", !.safe = w,
                                          !.ref = o, !.activation = "none"]]
        PROVE SubIs(s, "recovery-required", sub[s].ord, sub[s].gen, o)
    <2> DEFINE r == [sub[s] EXCEPT !.state = "recovery-required", !.safe = w, !.ref = o, !.activation = "none"]
    <2>1. r.state = "recovery-required" /\ r.ord = sub[s].ord /\ r.gen = sub[s].gen /\ r.ref = o
      BY <1>1 DEF Submissions
    <2>2. sub' = [sub EXCEPT ![s] = r]
      BY <1>7
    <2> HIDE DEF r
    <2> QED BY <1>2, <2>1, <2>2 DEF SubIs
  <1> QED BY <1>3, <1>4, <1>5, <1>6, <1>7

(* The updates of an attempt as moves.                                      *)
LEMMA AttMoves ==
  ASSUME TypeOK, NEW s \in Subs, NEW o \in Ords
  PROVE /\ \A e, b, g : att' = [att EXCEPT ![<<s, o>>] = [effect |-> e, barrier |-> b, gen |-> g]]
                  => AttIs(s, o, e, b, g)
        /\ \A e : att' = [att EXCEPT ![<<s, o>>].effect = e] => AttIs(s, o, e, Barrier(s, o), att[<<s, o>>].gen)
        /\ \A b : att' = [att EXCEPT ![<<s, o>>].barrier = b] => AttIs(s, o, Effect(s, o), b, att[<<s, o>>].gen)
        /\ Cancelled(<<s, o>>) => AttIs(s, o, "rejected", "released", att[<<s, o>>].gen)
        /\ Uncertain(<<s, o>>) => AttIs(s, o, "submitted", "active", att[<<s, o>>].gen)
  <1>1. att \in [Attempts -> AttemptType] /\ <<s, o>> \in Attempts
    BY DEF TypeOK, AttemptType, Attempts, Ords
  <1>2. \A t \in Subs, q \in Ords : (t # s \/ q # o) => <<t, q>> # <<s, o>> /\ <<t, q>> \in Attempts
    BY DEF Attempts, Ords
  <1>3. \A r, a : att' = [att EXCEPT ![<<s, o>>] = r] => att'[<<s, o>>] = r /\ OtherAtts(s, o)
    BY <1>1, <1>2 DEF OtherAtts
  <1>4. att[<<s, o>>] = [effect |-> Effect(s, o), barrier |-> Barrier(s, o), gen |-> att[<<s, o>>].gen]
    BY <1>1 DEF AttemptType, Effect, Barrier
  <1>5. /\ \A e, b, g : att' = [att EXCEPT ![<<s, o>>] = [effect |-> e, barrier |-> b, gen |-> g]]
                  => AttIs(s, o, e, b, g)
    BY <1>3 DEF AttIs
  <1>6. \A e : att' = [att EXCEPT ![<<s, o>>].effect = e] => AttIs(s, o, e, Barrier(s, o), att[<<s, o>>].gen)
    BY <1>1, <1>2 DEF AttIs, OtherAtts, Barrier, AttemptType
  <1>7. \A b : att' = [att EXCEPT ![<<s, o>>].barrier = b] => AttIs(s, o, Effect(s, o), b, att[<<s, o>>].gen)
    BY <1>1, <1>2 DEF AttIs, OtherAtts, Effect, AttemptType
  <1>8. \A e, b : att' = [att EXCEPT ![<<s, o>>].effect = e, ![<<s, o>>].barrier = b]
                  => AttIs(s, o, e, b, att[<<s, o>>].gen)
    BY <1>1, <1>2 DEF AttIs, OtherAtts, AttemptType
  <1> QED BY <1>5, <1>6, <1>7, <1>8 DEF Cancelled, Uncertain

(* An update of an attempt that there cannot be changes nothing.            *)
LEMMA NoAttempts ==
  ASSUME TypeOK, NEW s, NEW o, o \notin Ords
  PROVE Cancelled(<<s, o>>) \/ Uncertain(<<s, o>>) => att' = att
  <1>1. att \in [Attempts -> AttemptType] /\ <<s, o>> \notin Attempts
    BY DEF TypeOK, AttemptType, Attempts, Ords
  <1> QED BY <1>1 DEF Cancelled, Uncertain

(* The updates of the run as moves.                                         *)
LEMMA RunMoves ==
  ASSUME TypeOK
  PROVE /\ \A f : Phased(f) => RunIs(run.lifecycle, run.gen, run.active,
                [sub |-> run.fence.sub, ord |-> run.fence.ord, gen |-> run.fence.gen, phase |-> f], run.last, run.uncertain)
        /\ \A f : run' = [run EXCEPT !.fence = f] => RunIs(run.lifecycle, run.gen, run.active, f, run.last, run.uncertain)
        /\ \A w : run' = [run EXCEPT !.lifecycle = w] => RunIs(w, run.gen, run.active, run.fence, run.last, run.uncertain)
        /\ \A s : run' = Activated(s) => RunIs(run.lifecycle, sub[s].gen, [turn |-> s, gen |-> sub[s].gen],
                [sub |-> run.fence.sub, ord |-> run.fence.ord, gen |-> run.fence.gen, phase |-> "active"], run.last, run.uncertain)
  <1>1. run \in RunType
    BY DEF TypeOK, RunType
  <1> QED BY <1>1 DEF RunType, Phased, RunIs, Activated

(* A step that spends nothing.                                              *)
LEMMA Spendless ==
  ASSUME Typed, NEW p, spent' = spent, crashes' = crashes, live' => live
  PROVE Spends(p)
  BY DEF Spends, Typed

(* Submitting a turn moves the records as its owner may.                    *)
LEMMA SubmitMoves ==
  ASSUME Inv, NEW p \in {"queue", "pump"}, Submitting(p)
  PROVE Move(p) /\ Spends(p)
  <1> DEFINE s == proc[p].sub
             o == proc[p].ord
  <1>0. /\ TypeOK /\ Typed /\ RecordsOK /\ spent \subseteq Controllers
        /\ (proc[p].pc \in Open => SubmitterOK(p))
        /\ (SubmitterOK(p) => s \in Subs /\ Owns(p, s) /\ s \notin spent)
    <2>1. TypeOK /\ Typed /\ RecordsOK /\ spent \subseteq Controllers /\ (proc[p].pc \in Open => SubmitterOK(p))
      BY Typing DEF Inv, TypeInv, QueueSubmits, PumpSubmits, Open, TypeOK
    <2>2. SubmitterOK(p) => s \in Subs /\ Owns(p, s) /\ s \notin spent
      BY <2>1, Bounds DEF SubmitterOK, Owns
    <2> QED BY <2>1, <2>2
  <1>f. ASSUME NEW t \in Subs, ~FenceIs(t) PROVE (\A q \in Ords : ~Busy(t, q)) /\ run.active.turn # t
    BY <1>0, <1>f DEF RecordsOK, AttemptsOK, BusyOK, Fenced, FenceIs, ActiveOK, ActivatedOK
  <1>r. ASSUME At(p, "prepare"), NEW lost, RejectsController(p, lost), run' = run, typed' = typed,
               spent' \in {spent, spent \union ({s} \intersect Controllers)}
        PROVE /\ s \in Subs /\ SubmitterOK(p) /\ State(s) = "queued" /\ ~FenceIs(s) /\ Untyped(s) /\ Owns(p, s)
              /\ sub' = sub \/ StateIs(s, "rejected")
              /\ (crashes' = crashes /\ live' = live => Spends(p))
    <2>1. s \in Subs /\ SubmitterOK(p) /\ State(s) = "queued" /\ ~FenceIs(s) /\ typed[s] = 0 /\ Owns(p, s)
      BY <1>0, <1>r DEF At, Open, SubmitterOK
    <2>2. Untyped(s)
      BY <1>f, <2>1 DEF Untyped
    <2>3. sub' = sub \/ StateIs(s, "rejected")
      BY <1>0, <1>r, <2>1, SubMoves DEF RejectsController
    <2>4. spent' \in {spent, spent \union ({s} \intersect Controllers)}
      BY <1>r
    <2>5. s \in Controllers => p = "queue"
      BY <2>1, Bounds DEF SubmitterOK
    <2>6. ASSUME crashes' = crashes, live' = live PROVE Spends(p)
      BY <1>0, <1>r, <2>1, <2>4, <2>5, <2>6 DEF Spends, Typed
    <2> QED BY <2>1, <2>2, <2>3, <2>6
  <1>1. CASE \E t \in Subs : SubmitStart(p, t)
    <2> PICK t \in Subs : SubmitStart(p, t)
      BY <1>1
    <2>1. Queues(t)
      BY <1>0, SubMoves DEF SubmitStart, MayResume, Queues, State, Starting, OnSub, world
    <2>2. crashes = 0
      BY <1>0 DEF SubmitStart, Inv, LifeOK, Typed
    <2>3. Owns(p, t)
      BY <2>2, Bounds DEF SubmitStart, Owns
    <2>4. Spends(p)
      BY <1>0, Spendless DEF SubmitStart, world, budget
    <2> QED BY <2>1, <2>3, <2>4 DEF Move, SubMove
  <1>2. CASE SubmitRefresh(p) \/ SubmitBlocked(p) \/ SubmitLosesFence(p) \/ ExecuteRefused(p)
    <2>1. Nothing
      BY <1>2 DEF SubmitRefresh, SubmitBlocked, SubmitLosesFence, ExecuteRefused, Nothing, records, world
    <2>2. Spends(p)
      BY <1>0, <1>2, Spendless DEF SubmitRefresh, SubmitBlocked, SubmitLosesFence, ExecuteRefused, world,
          budget
    <2> QED BY <2>1, <2>2 DEF Move
  <1>3. CASE SubmitSnapshot(p)
    <2>0. s \in Subs /\ Owns(p, s) /\ State(s) = "queued" /\ ~FenceIs(s)
      BY <1>0, <1>3 DEF SubmitSnapshot, Writes, At, Open, SubmitterOK
    <2>1. proc[p].gen \in 0 .. MaxGeneration
      BY <1>0 DEF TypeOK, Procs
    <2>2. SubIs(s, State(s), sub[s].ord + 1, proc[p].gen, sub[s].ref)
      <3>1. sub' = [sub EXCEPT ![s].ord = sub[s].ord + 1, ![s].gen = proc[p].gen]
        BY <1>0, <1>3, <2>0 DEF SubmitSnapshot, TypeOK, Submissions
      <3> QED BY <1>0, <2>0, <3>1, SubMoves
    <2>3. Snaps(s)
      BY <1>3, <2>0, <2>1, <2>2 DEF SubmitSnapshot, MayPrepare, Snaps, SubIs, OnSub, world
    <2>4. Spends(p)
      BY <1>0, <1>3, Spendless DEF SubmitSnapshot, world, budget
    <2> QED BY <2>0, <2>3, <2>4 DEF Move, SubMove
  <1>4. ASSUME At(p, "prepare"), att' = [att EXCEPT ![Mine(p)] = [effect |-> "prepared", barrier |-> "reserved", gen |-> proc[p].gen]]
        PROVE o \in Ords /\ s \in Subs /\ Owns(p, s) /\ Prepared(s, o)
    <2>1. /\ s \in Subs /\ Owns(p, s) /\ State(s) = "queued" /\ ~FenceIs(s) /\ o \in Ords /\ sub[s].ord = o
          /\ sub[s].gen = proc[p].gen /\ Effect(s, o) = "absent" /\ SubmitterOK(p)
      BY <1>0, <1>4 DEF At, Open, SubmitterOK
    <2>2. AttIs(s, o, "prepared", "reserved", sub[s].gen)
      BY <1>0, <1>4, <2>1, AttMoves DEF Mine
    <2>3. s \in Controllers => \A q \in Ords : Blank(s, q)
      BY <1>4, <2>1 DEF SubmitterOK, At
    <2> QED BY <2>1, <2>2, <2>3 DEF Prepared
  <1>5. CASE SubmitPrepare(p)
    <2>1. o \in Ords /\ s \in Subs /\ Owns(p, s) /\ Prepared(s, o)
      BY <1>4, <1>5 DEF SubmitPrepare
    <2>2. Prepares(s, o) /\ Spends(p)
      BY <1>0, <1>5, <2>1, Spendless DEF SubmitPrepare, Prepares, OnAtt, world, budget
    <2> QED BY <2>1, <2>2 DEF Move, AttMove
  <1>6. CASE SubmitRefused(p)
    <2>1. /\ At(p, "prepare") /\ (\E lost \in BOOLEAN : RejectsController(p, lost))
          /\ run' = run /\ att' = att /\ typed' = typed /\ crashes' = crashes /\ live' = live
          /\ spent' \in {spent, spent \union ({s} \intersect Controllers)}
      BY <1>6 DEF SubmitRefused, EndsCommand
    <2>2. CASE sub' = sub
      BY <1>r, <2>1, <2>2 DEF Move, Nothing
    <2>3. CASE StateIs(s, "rejected")
      BY <1>r, <2>1, <2>3 DEF Move, SubMove, Rejects, OnSub
    <2> QED BY <1>r, <2>1, <2>2, <2>3
  <1>7. CASE SubmitLosesPrepare(p)
    <2>1. /\ At(p, "prepare") /\ (\E lost \in BOOLEAN : RejectsController(p, lost))
          /\ run' = run /\ typed' = typed /\ crashes' = crashes /\ live' = live
          /\ spent' \in {spent, spent \union ({s} \intersect Controllers)}
      BY <1>7 DEF SubmitLosesPrepare
    <2>2. att' = att \/ (o \in Ords /\ Prepared(s, o))
      BY <1>4, <1>7 DEF SubmitLosesPrepare
    <2>3. CASE sub' = sub /\ att' = att
      BY <1>r, <2>1, <2>3 DEF Move, Nothing
    <2>4. CASE StateIs(s, "rejected") /\ att' = att
      BY <1>r, <2>1, <2>4 DEF Move, SubMove, Rejects, OnSub
    <2>5. CASE sub' = sub /\ o \in Ords /\ Prepared(s, o)
      BY <1>r, <2>1, <2>5 DEF Move, AttMove, Prepares, OnAtt
    <2>6. CASE StateIs(s, "rejected") /\ o \in Ords /\ Prepared(s, o)
      BY <1>r, <2>1, <2>6 DEF Move, AttMove, PreparesInVain
    <2> QED BY <1>r, <2>1, <2>2, <2>3, <2>4, <2>5, <2>6
  <1>8. CASE SubmitFence(p)
    <2>1. /\ s \in Subs /\ Owns(p, s) /\ State(s) = "queued" /\ FenceFree /\ o \in Ords /\ ~Final
          /\ Effect(s, o) = "prepared" /\ att[<<s, o>>].gen = sub[s].gen
      BY <1>0, <1>8 DEF SubmitFence, Writes, Compares, At, Open, SubmitterOK
    <2>2. Fences(s, o)
      BY <1>0, <1>8, <2>1, RunMoves DEF SubmitFence, Fences, Fence, WithFence, OnRun, world
    <2>3. Spends(p)
      BY <1>0, <1>8, Spendless DEF SubmitFence, world, budget
    <2> QED BY <2>1, <2>2, <2>3 DEF Move, RunMove
  <1>9. CASE SubmitCancel(p)
    <2>1. s \in Subs /\ Owns(p, s) /\ typed[s] = 0 /\ SubmitterOK(p)
      BY <1>0, <1>9 DEF SubmitCancel, At, Open, SubmitterOK
    <2>2. run' = run /\ sub' = sub /\ typed' = typed /\ crashes' = crashes /\ live' = live
          /\ spent' \in {spent, spent \union ({s} \intersect Controllers)}
      BY <1>9 DEF SubmitCancel, EndsCommand
    <2>3. Spends(p)
      <3>1. s \in Controllers => p = "queue"
        BY <2>1, Bounds DEF SubmitterOK
      <3> QED BY <1>0, <2>1, <2>2, <3>1 DEF Spends, Typed
    <2>4. CASE att' = att
      BY <2>2, <2>3, <2>4 DEF Move, Nothing
    <2>5. CASE Reserved(<<s, o>>) /\ Cancelled(<<s, o>>)
      <3>1. CASE o \in Ords
        <4>1. AttIs(s, o, "rejected", "released", att[<<s, o>>].gen)
          BY <1>0, <2>1, <2>5, <3>1, AttMoves
        <4>2. Cancels(s, o)
          BY <2>2, <2>5, <4>1 DEF Cancels, Reserved, Effect, OnAtt
        <4> QED BY <2>1, <2>3, <3>1, <4>2 DEF Move, AttMove
      <3>2. CASE o \notin Ords
        BY <1>0, <2>4, <2>5, <3>2, NoAttempts
      <3> QED BY <3>1, <3>2
    <2> QED BY <1>9, <2>4, <2>5 DEF SubmitCancel, Mine
  <1>10. CASE SubmitMark(p)
    <2>1. s \in Subs /\ Owns(p, s) /\ State(s) = "queued" /\ FenceIs(s)
      BY <1>0, <1>10 DEF SubmitMark, Writes, At, Open, SubmitterOK, Fenced, FenceIs
    <2>2. Marks(s) /\ Spends(p)
      BY <1>0, <1>10, <2>1, SubMoves, Spendless DEF SubmitMark, Marks, OnSub, world, budget
    <2> QED BY <2>1, <2>2 DEF Move, SubMove
  <1>11. CASE SubmitAdvance(p)
    <2>1. s \in Subs /\ Owns(p, s) /\ State(s) = "prepared" /\ FenceIs(s)
      BY <1>0, <1>11 DEF SubmitAdvance, Writes, At, Open, SubmitterOK, Fenced, FenceIs
    <2>2. Rephases(s, "submission-prepared") /\ Spends(p)
      BY <1>0, <1>11, <2>1, RunMoves, Spendless DEF SubmitAdvance, Rephases, WithFence, FenceIs, OnRun,
          world, budget
    <2> QED BY <2>1, <2>2 DEF Move, RunMove, Phases
  <1>12. CASE Execute(p)
    <2>1. /\ s \in Subs /\ Owns(p, s) /\ State(s) = "prepared" /\ Fenced(s, o) /\ o \in Ords /\ Effect(s, o) = "prepared"
          /\ run.fence.phase = "submission-prepared"
      BY <1>0, <1>12 DEF Execute, At, Open, SubmitterOK
    <2>2. AttIs(s, o, "executing", Barrier(s, o), att[<<s, o>>].gen)
      BY <1>0, <1>12, <2>1, AttMoves DEF Execute, Mine
    <2>3. Executes(s, o) /\ Spends(p)
      BY <1>0, <1>12, <2>1, <2>2, Spendless DEF Execute, Executes, OnAtt, budget
    <2> QED BY <2>1, <2>3 DEF Move, AttMove
  <1>13. CASE ExecuteAgain(p)
    BY <1>0, <1>13 DEF ExecuteAgain, At, Open, SubmitterOK, Mine, Effect
  <1>14. ASSUME Type(p) \/ TypeFails(p)
         PROVE /\ s \in Subs /\ Owns(p, s) /\ State(s) = "prepared" /\ o \in Ords /\ Effect(s, o) = "executing"
               /\ Types(s) /\ Spends(p)
    <2>1. /\ s \in Subs /\ Owns(p, s) /\ State(s) = "prepared" /\ o \in Ords /\ Effect(s, o) = "executing"
          /\ typed[s] = 0 /\ s \notin spent
      BY <1>0, <1>14 DEF Type, TypeFails, At, Open, SubmitterOK
    <2>2. typed' = typed \/ (live /\ typed' = [typed EXCEPT ![s] = @ + 1])
      BY <1>14, Zenon DEF Type, TypeFails
    <2>3. Types(s)
      BY <1>0, <2>1, <2>2 DEF Types, TypeOK
    <2>4. Spends(p)
      <3>1. spent' = spent /\ crashes' = crashes /\ live' = live
        BY <1>14, Zenon DEF Type, TypeFails, budget
      <3> QED BY <1>0, <3>1, Spendless
    <2> QED BY <2>1, <2>3, <2>4
  <1>15. CASE Type(p)
    <2>1. AttIs(s, o, "submitted", "active", att[<<s, o>>].gen)
      BY <1>0, <1>14, <1>15, AttMoves DEF Type, Mine, Effect
    <2>2. Lands(s, o)
      <3>1. run' = run /\ sub' = sub
        BY <1>15, Zenon DEF Type
      <3> QED BY <1>14, <1>15, <2>1, <3>1 DEF Lands, OnAtt
    <2> QED BY <1>14, <1>15, <2>2 DEF Move, AttMove
  <1>16. CASE TypeFails(p)
    <2>1. UNCHANGED <<run, sub, att>>
      BY <1>16, Zenon DEF TypeFails, records
    <2> QED BY <1>14, <1>16, <2>1 DEF Move, AttMove, OnlyTypes
  <1>17. CASE SubmitRecord(p)
    <2>1. s \in Subs /\ Owns(p, s) /\ State(s) = "prepared" /\ Fenced(s, o) /\ o \in Ords /\ Effect(s, o) = "submitted"
      BY <1>0, <1>17 DEF SubmitRecord, Writes, At, Open, SubmitterOK
    <2>2. SubIs(s, Submitted, sub[s].ord, sub[s].gen, o)
      BY <1>0, <1>17, <2>1, SubMoves DEF SubmitRecord
    <2>3. Records(s, o) /\ Spends(p)
      BY <1>0, <1>17, <2>1, <2>2, Spendless DEF SubmitRecord, Records, OnSub, world, budget
    <2> QED BY <2>1, <2>3 DEF Move, SubMove
  <1>18. CASE SubmitActivate(p)
    <2>1. /\ s \in Subs /\ Owns(p, s) /\ State(s) = Submitted /\ Fenced(s, o) /\ o \in Ords
          /\ ~Final /\ run.active = NoTurn /\ sub[s].gen = run.gen + 1
      BY <1>0, <1>18 DEF SubmitActivate, Writes, Compares, At, Open, SubmitterOK
    <2>2. Activates(s, o) /\ Spends(p)
      BY <1>0, <1>18, <2>1, RunMoves, Spendless DEF SubmitActivate, Activates, Fenced, OnRun, world, budget
    <2> QED BY <2>1, <2>2 DEF Move, RunMove
  <1>19. CASE SubmitCommit(p)
    <2>1. s \in Subs /\ Owns(p, s)
      BY <1>0, <1>19 DEF SubmitCommit, Writes, At, Open, SubmitterOK
    <2>2. Commits(s) /\ Spends(p)
      BY <1>0, <1>19, <2>1, SubMoves, Spendless DEF SubmitCommit, Commits, OnSub, world, budget
    <2> QED BY <2>1, <2>2 DEF Move, SubMove
  <1> QED BY <1>1, <1>2, <1>3, <1>5, <1>6, <1>7, <1>8, <1>9, <1>10, <1>11, <1>12, <1>13, <1>15, <1>16,
      <1>17, <1>18, <1>19
          DEF Submitting

(* What every step may use.                                                 *)
LEMMA InvParts ==
  ASSUME Inv
  PROVE /\ TypeOK /\ Typed /\ RecordsOK /\ LifeOK /\ Room("queue") /\ Room("ops") /\ Room(R)
        /\ \A s \in Subs, o \in Ords : ShapeOK(s, o) /\ KnownOK(s, o) /\ BusyOK(s, o) /\ ClosedOK(s, o)
        /\ \A s \in Subs : ActivatedOK(s) /\ DoneOK(s) /\ FencedOK(s)
        /\ \A s \in Subs, o \in Ords : Taken(s, o) => Effect(s, o) = "submitted"
        /\ \A s \in Subs : ~FenceIs(s) => run.active.turn # s /\ \A o \in Ords : ~Busy(s, o)
  <1>1. /\ TypeOK /\ Typed /\ RecordsOK /\ LifeOK /\ Room("queue") /\ Room("ops") /\ Room(R)
        /\ \A s \in Subs, o \in Ords : ShapeOK(s, o) /\ KnownOK(s, o) /\ BusyOK(s, o) /\ ClosedOK(s, o)
        /\ \A s \in Subs : ActivatedOK(s) /\ DoneOK(s) /\ FencedOK(s)
    BY Typing DEF Inv, TypeInv, RoomOK, Procs, R, RecordsOK, AttemptsOK, ActiveOK, LastOK, FenceOK
  <1>2. \A s \in Subs, o \in Ords : Taken(s, o) => Effect(s, o) = "submitted"
    BY <1>1 DEF ShapeOK, Taken, Typed, Effects
  <1>3. \A s \in Subs : ~FenceIs(s) => run.active.turn # s /\ \A o \in Ords : ~Busy(s, o)
    BY <1>1 DEF BusyOK, Fenced, FenceIs, ActivatedOK
  <1> QED BY <1>1, <1>2, <1>3

(* A step that touches no record is a move.                                 *)
LEMMA NothingMoves ==
  ASSUME Typed, NEW p, UNCHANGED <<records, typed, spent, crashes>>, live' => live
  PROVE Move(p) /\ Spends(p)
  BY Spendless DEF Move, Nothing, records

(* A step that leaves records and world alone is a move.                    *)
LEMMA QuietMoves ==
  ASSUME Typed, NEW p, UNCHANGED <<records, world, budget>>
  PROVE Move(p) /\ Spends(p)
  BY NothingMoves DEF world, budget

(* A step of a single record, by what it is.                                *)
LEMMA OneMoves ==
  ASSUME Typed, NEW p, UNCHANGED <<world, budget>>
  PROVE /\ Spends(p) /\ typed' = typed
        /\ UNCHANGED <<sub, att>> => OnRun
        /\ UNCHANGED <<run, att>> => OnSub
        /\ UNCHANGED <<run, sub>> => OnAtt
  BY Spendless DEF world, budget, OnRun, OnSub, OnAtt

(* Writing the barrier that is there changes nothing.                       *)
LEMMA SameBarrier ==
  ASSUME TypeOK, NEW a, NEW b, att' = [att EXCEPT ![a].barrier = b], a \in Attempts => b = att[a].barrier
  PROVE att' = att
  <1>1. att \in [Attempts -> AttemptType]
    BY DEF TypeOK, AttemptType
  <1>2. a \in Attempts => [att[a] EXCEPT !.barrier = b] = att[a]
    BY <1>1 DEF AttemptType
  <1>3. att' = [att EXCEPT ![a] = [att[a] EXCEPT !.barrier = b]]
    OBVIOUS
  <1>4. CASE a \in Attempts
    <2>1. att' = [att EXCEPT ![a] = att[a]]
      BY <1>2, <1>3, <1>4
    <2> QED BY <1>1, <2>1
  <1>5. CASE a \notin Attempts
    BY <1>1, <1>5
  <1> QED BY <1>4, <1>5

(* Starting a turn of the controllers' queue moves the records as it may.   *)
LEMMA BeginMoves ==
  ASSUME Inv, BeginTurn
  PROVE Move("queue") /\ Spends("queue")
  <1>0. Typed /\ TypeOK /\ "queue" \in Procs
    BY InvParts DEF Procs
  <1>1. Shifts([turn |-> Bare, gen |-> run.gen + 1], run.uncertain) /\ Spends("queue")
    BY <1>0, OneMoves DEF BeginTurn, Shifts, RunIs, TypeOK
  <1> QED BY <1>0, <1>1 DEF BeginTurn, Move, ShiftsRun

(* Interrupts, stops and exits move the records as they may.                *)
LEMMA OpsMoves ==
  ASSUME Inv, OpsStep
  PROVE Move("ops") /\ Spends("ops")
  <1> DEFINE t == proc["ops"].sub
  <1>0. Typed /\ TypeOK /\ OpsOK /\ LifeOK /\ "ops" \in Procs /\ "queue" \in Procs
    BY InvParts DEF Inv, Procs
  <1>i. ~Idle("ops") => crashes = 0 /\ run.lifecycle # "failed"
    BY <1>0, InvParts DEF LifeOK, Typed
  <1>f. Final \/ run.lifecycle # "failed"
    BY DEF Final, FINAL_LIFECYCLES
  <1>1. CASE InterruptStart
    BY <1>0, <1>1, QuietMoves DEF InterruptStart
  <1>2. CASE InterruptBarrier
    <2>0. UNCHANGED <<run, sub, world, budget>>
      BY <1>2 DEF InterruptBarrier
    <2>1. CASE att' = att
      BY <1>0, <2>0, <2>1, QuietMoves DEF records
    <2>2. ASSUME NEW o \in 1 .. MaxOrdinal, Target(o), att' = [att EXCEPT ![<<t, o>>].barrier = "interrupted"]
          PROVE Move("ops")
      <3>1. t \in Subs /\ o \in Ords /\ Taken(t, o)
        BY <2>2 DEF Target, Named, InProvider, Ords, Taken, Barrier
      <3>2. Effect(t, o) = "submitted"
        BY <3>1, InvParts
      <3>3. AttIs(t, o, Effect(t, o), "interrupted", att[<<t, o>>].gen)
        BY <1>0, <2>2, <3>1, AttMoves
      <3>4. Interrupts(t, o)
        BY <1>0, <2>0, <3>1, <3>2, <3>3, OneMoves DEF Interrupts, Barred
      <3> QED BY <3>1, <3>4 DEF Move, AttMove
    <2>3. Spends("ops")
      BY <1>0, <2>0, OneMoves
    <2> QED BY <1>0, <1>2, <2>1, <2>2, <2>3 DEF InterruptBarrier
  <1>3. CASE InterruptRun
    <2>1. Has("ops", "run") /\ At("ops", "interrupting")
      BY <1>3 DEF InterruptRun, Writes, Compares, At
    <2>2. run.active.turn = t /\ t \in Subs \union {Bare} /\
          (t = Bare \/ \E o \in Ords : Barrier(t, o) \in {"interrupted", "completed-interrupted"})
      BY <1>0, <2>1 DEF OpsOK, At
    <2>3. run.active # NoTurn
      BY <2>2, Bounds DEF NoTurn
    <2>4. \A s \in Subs : run.active.turn = s =>
            \E o \in Ords : Barrier(s, o) \in {"interrupted", "completed-interrupted"}
      BY <2>2, Bounds
    <2>5. Shifts(run.active, run.uncertain)
      BY <1>0, <1>3, OneMoves DEF InterruptRun, Shifts, RunIs, TypeOK
    <2>6. ShiftsRun /\ Spends("ops")
      BY <1>0, <1>3, <2>3, <2>4, <2>5, OneMoves DEF InterruptRun, ShiftsRun
    <2> QED BY <1>0, <2>6 DEF Move
  <1>5. CASE EndTurn
    <2>1. Shifts(NoTurn, run.uncertain) /\ Spends("ops")
      BY <1>0, <1>5, OneMoves DEF EndTurn, Shifts, RunIs, TypeOK
    <2> QED BY <1>0, <2>1 DEF Move, ShiftsRun
  <1>6. CASE StopStart
    <2>1. RunIs("stopping", run.gen, run.active, run.fence, run.last, run.uncertain) /\ OnRun /\ Spends("ops") /\ ~Final
      BY <1>0, <1>6, RunMoves, OneMoves DEF StopStart
    <2>2. run'.lifecycle = "stopping"
      BY <2>1 DEF RunIs
    <2>3. Lives
      BY <1>f, <2>1, <2>2 DEF Lives, FINAL_LIFECYCLES
    <2> QED BY <1>0, <2>1, <2>3 DEF Move
  <1>7. CASE Terminate
    BY <1>0, <1>7, NothingMoves DEF Terminate, budget
  <1>8. CASE TerminateFails
    <2>1. CASE Has("ops", "run")
      <3>0. ~Final
        BY <1>0, <1>8, <2>1 DEF TerminateFails, At, OpsOK
      <3>1. RunIs("recovery-required", run.gen, run.active, run.fence, run.last, run.uncertain) /\ OnRun /\ Spends("ops")
        BY <1>0, <1>8, <2>1, RunMoves, OneMoves DEF TerminateFails
      <3>2. run'.lifecycle = "recovery-required"
        BY <3>1 DEF RunIs
      <3>3. Lives
        BY <1>f, <3>0, <3>1, <3>2 DEF Lives, FINAL_LIFECYCLES
      <3> QED BY <1>0, <3>1, <3>3 DEF Move
    <2>2. CASE ~Has("ops", "run")
      BY <1>0, <1>8, <2>2, QuietMoves DEF TerminateFails, records
    <2> QED BY <2>1, <2>2
  <1>9. CASE StopDone
    <2>1. ~live /\ run.lifecycle # "failed"
      BY <1>0, <1>9, <1>i DEF StopDone, Writes, At, OpsOK, Idle
    <2>2. RunIs("stopped", run.gen, run.active, run.fence, run.last, run.uncertain) /\ OnRun /\ Spends("ops")
      BY <1>0, <1>9, RunMoves, OneMoves DEF StopDone
    <2>3. run'.lifecycle = "stopped"
      BY <2>2 DEF RunIs
    <2>4. Lives
      BY <2>1, <2>2, <2>3 DEF Lives, FINAL_LIFECYCLES
    <2> QED BY <1>0, <2>2, <2>4 DEF Move
  <1>10. CASE ProviderExits
    BY <1>0, <1>10, NothingMoves DEF ProviderExits, budget
  <1>11. CASE ObserveExit
    <2>1. CASE run.uncertain
      BY <1>0, <1>11, <2>1, QuietMoves DEF ObserveExit, records
    <2>2. CASE ~run.uncertain
      <3>1. Shifts(run.active, TRUE) /\ Spends("ops")
        BY <1>0, <1>11, <2>2, OneMoves DEF ObserveExit, Shifts, RunIs, TypeOK
      <3> QED BY <1>0, <3>1 DEF Move, ShiftsRun
    <2> QED BY <2>1, <2>2
  <1>12. CASE SettleExit
    <2>1. ~live /\ run.lifecycle # "failed"
      BY <1>0, <1>12, <1>i DEF SettleExit, Writes, At, OpsOK, Idle
    <2>2. RunIs("interrupted", run.gen, run.active, run.fence, run.last, run.uncertain) /\ OnRun /\ Spends("ops")
      BY <1>0, <1>12, RunMoves, OneMoves DEF SettleExit
    <2>3. run'.lifecycle = "interrupted"
      BY <2>2 DEF RunIs
    <2>4. Lives
      BY <2>1, <2>2, <2>3 DEF Lives, FINAL_LIFECYCLES
    <2> QED BY <1>0, <2>2, <2>4 DEF Move
  <1> QED BY <1>1, <1>2, <1>3, <1>5, <1>6, <1>7, <1>8, <1>9, <1>10, <1>11, <1>12 DEF OpsStep

(* So does completing a turn.                                               *)
LEMMA CompletingMoves ==
  ASSUME Inv, Completing
  PROVE Move("queue") /\ Spends("queue")
  <1> DEFINE t == proc["queue"].sub
             o == proc["queue"].ord
  <1>0. Typed /\ TypeOK /\ CompleterOK /\ UNCHANGED <<world, budget>>
    BY InvParts DEF Inv, Completing, CompleteStart, CompleteRepairs, CompleteFences, CompleteSettles,
        CompleteRefreshes,
         CompleteRun, CompleteSub, CompleteClear
  <1>s. Spends("queue") /\ typed' = typed
    BY <1>0, OneMoves
  <1>1. CASE (\E s \in Subs : CompleteStart(s)) \/ CompleteRefreshes
    BY <1>0, <1>1, QuietMoves DEF CompleteStart, CompleteRefreshes
  <1>2. CASE CompleteRepairs \/ CompleteSub
    <2>1. t \in Subs /\ State(t) = Submitted /\ run.last = t
      BY <1>0, <1>2 DEF CompleteRepairs, CompleteSub, Writes, At, CompleterOK, Finishing
    <2>2. Completes(t)
      BY <1>0, <1>2, <2>1, SubMoves, OneMoves DEF CompleteRepairs, CompleteSub, Completes
    <2> QED BY <1>s, <2>1, <2>2 DEF Move, SubMove
  <1>3. CASE CompleteFences
    <2>1. t \in Subs /\ State(t) = Submitted /\ FenceIs(t)
      BY <1>0, <1>3 DEF CompleteFences, Writes, Compares, At, CompleterOK, Finishing
    <2>2. Rephases(t, "completing")
      BY <1>0, <1>3, <2>1, RunMoves, OneMoves DEF CompleteFences, Rephases, WithFence, FenceIs, Submitted
    <2> QED BY <1>s, <2>1, <2>2 DEF Move, RunMove, Phases
  <1>4. CASE CompleteSettles
    <2>0. t \in Subs /\ UNCHANGED <<run, sub>>
      BY <1>0, <1>4 DEF CompleteSettles, At, CompleterOK, Finishing
    <2>1. CASE att' = att
      BY <1>s, <2>0, <2>1 DEF Move, Nothing
    <2>2. CASE /\ att' # att
               /\ att' = [att EXCEPT ![<<t, o>>].barrier =
                          CASE @ = "active" -> "completed"
                            [] @ = "interrupted" -> "completed-interrupted"
                            [] OTHER -> @]
      <3>1. o \in Ords
        <4> SUFFICES ASSUME o \notin Ords PROVE FALSE
          OBVIOUS
        <4>1. <<t, o>> \notin Attempts
          BY DEF Attempts, Ords
        <4> QED BY <1>0, <2>2, <4>1, SameBarrier
      <3>2. CASE Barrier(t, o) = "active"
        <4>1. att' = [att EXCEPT ![<<t, o>>].barrier = "completed"]
          BY <2>2, <3>2 DEF Barrier
        <4>2. AttIs(t, o, Effect(t, o), "completed", att[<<t, o>>].gen) /\ Effect(t, o) = "submitted"
          BY <1>0, <2>0, <3>1, <3>2, <4>1, AttMoves, InvParts DEF Taken
        <4>3. Settles(t, o)
          BY <1>0, <2>0, <3>2, <4>2, OneMoves DEF Settles, Barred
        <4> QED BY <1>s, <2>0, <3>1, <4>3 DEF Move, AttMove
      <3>3. CASE Barrier(t, o) = "interrupted"
        <4>1. att' = [att EXCEPT ![<<t, o>>].barrier = "completed-interrupted"]
          BY <2>2, <3>3 DEF Barrier
        <4>2. AttIs(t, o, Effect(t, o), "completed-interrupted", att[<<t, o>>].gen) /\ Effect(t, o) = "submitted"
          BY <1>0, <2>0, <3>1, <3>3, <4>1, AttMoves, InvParts DEF Taken
        <4>3. Settles(t, o)
          BY <1>0, <2>0, <3>3, <4>2, OneMoves DEF Settles, Barred
        <4> QED BY <1>s, <2>0, <3>1, <4>3 DEF Move, AttMove
      <3>4. CASE Barrier(t, o) \notin {"active", "interrupted"}
        <4>1. att' = [att EXCEPT ![<<t, o>>].barrier = Barrier(t, o)]
          BY <2>2, <3>4 DEF Barrier
        <4>2. att' = att
          BY <1>0, <4>1, SameBarrier DEF Barrier
        <4> QED BY <2>2, <4>2
      <3> QED BY <3>2, <3>3, <3>4
    <2> QED BY <1>4, <2>1, <2>2 DEF CompleteSettles, Mine
  <1>5. CASE CompleteRun
    <2>1. /\ t \in Subs /\ State(t) = Submitted /\ run.active.turn = t /\ Fenced(t, o) /\ Settled(t, o)
          /\ run.gen = sub[t].gen
      BY <1>0, <1>5 DEF CompleteRun, Writes, Compares, At, CompleterOK, Finishing, Fenced, FenceIs
    <2>2. RunIs(run.lifecycle, run.gen + 1, NoTurn,
                [sub |-> t, ord |-> o, gen |-> run.fence.gen, phase |-> "completion-barrier-committed"], t, run.uncertain)
      <3>1. run \in RunType
        BY <1>0 DEF TypeOK, RunType
      <3> QED BY <1>5, <2>1, <3>1 DEF CompleteRun, RunType, RunIs, Fenced
    <2>3. Finishes(t, o)
      BY <1>0, <1>5, <2>1, <2>2, OneMoves DEF CompleteRun, Finishes
    <2> QED BY <1>s, <2>1, <2>3 DEF Move, RunMove, Settled
  <1>6. CASE CompleteClear
    <2>1. t \in Subs /\ State(t) = "completed" /\ FenceIs(t) /\ run.last = t
      BY <1>0, <1>6 DEF CompleteClear, Writes, Compares, At, CompleterOK, Finishing
    <2>2. (\A q \in Ords : ~Busy(t, q)) /\ run.active.turn # t
      BY <2>1, InvParts DEF DoneOK, ActivatedOK
    <2>3. Clears(t)
      BY <1>0, <1>6, <2>1, <2>2, RunMoves, OneMoves DEF CompleteClear, Clears, WithFence
    <2> QED BY <1>s, <2>1, <2>3 DEF Move, RunMove
  <1> QED BY <1>1, <1>2, <1>3, <1>4, <1>5, <1>6 DEF Completing

(* So does closing one.                                                     *)
LEMMA ClosingMoves ==
  ASSUME Inv, Closing
  PROVE Move("queue") /\ Spends("queue")
  <1> DEFINE t == proc["queue"].sub
             o == proc["queue"].ord
  <1>0. Typed /\ TypeOK /\ CloserOK /\ UNCHANGED <<world, budget>>
    BY InvParts DEF Inv, Closing, CloseNoAttempt, ClosePreEffect, CloseActivated, CloseStart,
         CloseCancels, CloseClears, CloseRejects, CloseBarrier, CloseRun, CloseFinal
  <1>s. Spends("queue") /\ typed' = typed
    BY <1>0, OneMoves
  <1>e. proc["queue"].pc \in Ending => t \in Subs /\ crashes > 0 /\ State(t) = "recovery-required" /\ Owns("queue", t)
    BY <1>0 DEF CloserOK, Owns
  <1>1. CASE \E s \in Subs : CloseNoAttempt(s) \/ ClosePreEffect(s) \/ CloseActivated(s)
    BY <1>0, <1>1, QuietMoves DEF CloseNoAttempt, ClosePreEffect, CloseActivated, CloseStart
  <1>2. CASE CloseCancels
    <2>0. t \in Subs /\ Owns("queue", t) /\ o \in Ords /\ UNCHANGED <<run, sub>>
      BY <1>0, <1>2, <1>e DEF CloseCancels, CloserOK, Ending
    <2>1. CASE att' = att
      BY <1>s, <2>0, <2>1 DEF Move, Nothing
    <2>2. CASE Cancelled(<<t, o>>) /\ (Reserved(<<t, o>>) \/ att[<<t, o>>].effect = "rejected")
      <3>1. AttIs(t, o, "rejected", "released", att[<<t, o>>].gen)
        BY <1>0, <2>0, <2>2, AttMoves
      <3>2. Cancels(t, o)
        BY <1>0, <2>0, <2>2, <3>1, OneMoves DEF Cancels, Reserved, Effect
      <3> QED BY <1>s, <2>0, <3>2 DEF Move, AttMove
    <2> QED BY <1>2, <2>1, <2>2 DEF CloseCancels, Mine
  <1>3. CASE CloseClears
    <2>1. t \in Subs /\ Fenced(t, o) /\ ~Busy(t, o) /\ run.active.turn # t /\ typed[t] = 0 /\ crashes > 0
      BY <1>0, <1>3 DEF CloseClears, Writes, At, CloserOK, Ending
    <2>2. \A q \in Ords : ~Busy(t, q)
      BY <2>1, InvParts DEF BusyOK, Fenced
    <2>3. Clears(t)
      BY <1>0, <1>3, <2>1, <2>2, RunMoves, OneMoves DEF CloseClears, Clears, WithFence, Fenced, FenceIs
    <2> QED BY <1>s, <2>1, <2>3 DEF Move, RunMove
  <1>4. CASE CloseRejects
    <2>1. t \in Subs /\ Owns("queue", t) /\ ~FenceIs(t) /\ State(t) = "recovery-required" /\ typed[t] = 0 /\ run.active.turn # t
      BY <1>0, <1>4, <1>e DEF CloseRejects, Writes, At, CloserOK, Ending
    <2>2. Untyped(t)
      BY <2>1, InvParts DEF Untyped
    <2>3. Rejects(t)
      BY <1>0, <1>4, <2>1, <2>2, SubMoves, OneMoves DEF CloseRejects, Rejects
    <2> QED BY <1>s, <2>1, <2>3 DEF Move, SubMove
  <1>5. CASE CloseBarrier
    <2>0. t \in Subs /\ crashes > 0 /\ o \in Ords /\ UNCHANGED <<run, sub>>
      BY <1>0, <1>5, <1>e DEF CloseBarrier, At, CloserOK, Ending
    <2>1. CASE att' = att
      BY <1>s, <2>0, <2>1 DEF Move, Nothing
    <2>2. CASE att' = [att EXCEPT ![<<t, o>>].barrier = "closed"] /\ InProvider(<<t, o>>)
      <3>1. Taken(t, o)
        BY <2>2 DEF InProvider, Taken, Barrier
      <3>2. AttIs(t, o, Effect(t, o), "closed", att[<<t, o>>].gen) /\ Effect(t, o) = "submitted"
        BY <1>0, <2>0, <2>2, <3>1, AttMoves, InvParts
      <3>3. Shuts(t, o)
        BY <1>0, <2>0, <3>1, <3>2, OneMoves DEF Shuts, Barred
      <3> QED BY <1>s, <2>0, <3>3 DEF Move, AttMove
    <2>3. CASE att' = [att EXCEPT ![<<t, o>>].barrier = "closed"] /\ att[<<t, o>>].barrier = "closed"
      <3>1. att' = att
        BY <1>0, <2>3, SameBarrier
      <3> QED BY <2>1, <3>1
    <2> QED BY <1>5, <2>1, <2>2, <2>3 DEF CloseBarrier, Mine
  <1>6. CASE CloseRun
    <2>1. t \in Subs /\ crashes > 0 /\ FenceIs(t) /\ State(t) = "recovery-required" /\ Shut(t, sub[t].ref)
      BY <1>0, <1>6, <1>e DEF CloseRun, Writes, At, CloserOK, Ending, Shut
    <2>2. RunIs("failed", run.gen + 1, NoTurn, NoFence, run.last, run.uncertain)
      <3>1. run \in RunType
        BY <1>0 DEF TypeOK, RunType
      <3> QED BY <1>6, <3>1 DEF CloseRun, RunType, RunIs
    <2>3. FailsRun(t)
      BY <1>0, <1>6, <2>1, <2>2, OneMoves DEF CloseRun, FailsRun
    <2> QED BY <1>s, <2>1, <2>3 DEF Move, RunMove
  <1>7. CASE CloseFinal
    <2>1. t \in Subs /\ crashes > 0 /\ run.lifecycle = "failed" /\ State(t) = "recovery-required" /\ Shut(t, sub[t].ref)
      BY <1>0, <1>7, <1>e DEF CloseFinal, Writes, At, CloserOK, Ending, Shut
    <2>2. GivesUp(t)
      BY <1>0, <1>7, <2>1, SubMoves, OneMoves DEF CloseFinal, GivesUp
    <2> QED BY <1>s, <2>1, <2>2 DEF Move, SubMove
  <1> QED BY <1>1, <1>2, <1>3, <1>4, <1>5, <1>6, <1>7 DEF Closing

(* Recovery at startup has the records to itself: everybody else died with  *)
(* the process.                                                             *)
LEMMA RecoveryIs ==
  ASSUME StartupOnly, Inv, ~Idle(R) \/ MayReconcile
  PROVE phase = "starting" /\ crashes > 0 /\ ~live /\ \A s \in Subs : Owns(R, s)
  <1>1. phase = "starting"
    BY InvParts DEF LifeOK, TypeOK, MayReconcile, StartupOnly
  <1>2. crashes > 0 /\ ~live
    BY <1>1, InvParts DEF LifeOK
  <1> QED BY <1>1, <1>2 DEF Owns

(* Submitting a turn again from recovery moves the records as it may.       *)
LEMMA RecoverySubmits ==
  ASSUME StartupOnly, Inv, Submitting(R)
  PROVE Move(R) /\ Spends(R)
  <1> DEFINE o == proc[R].ord
  <1>0. /\ Typed /\ TypeOK /\ ReconcilerOK /\ R \in Procs /\ S = proc[R].sub
    BY InvParts DEF Inv, R, S, Procs
  <1>i. ~Idle(R) => S \in Subs /\ Owns(R, S) /\ ~live
    BY <1>0, RecoveryIs DEF ReconcilerOK, Idle, At
  <1>1. ASSUME NEW s \in Subs, SubmitStart(R, s) PROVE FALSE
    BY <1>1 DEF SubmitStart, R
  <1>2. CASE SubmitRefresh(R) \/ SubmitBlocked(R) \/ SubmitLosesFence(R) \/ ExecuteRefused(R)
    <2>1. UNCHANGED <<records, typed, spent, crashes>> /\ live' = live
      BY <1>2 DEF SubmitRefresh, SubmitBlocked, SubmitLosesFence, ExecuteRefused, world, budget
    <2> QED BY <1>0, <2>1, NothingMoves
  <1>3. CASE SubmitSnapshot(R)
    <2>0. S \in Subs /\ Owns(R, S) /\ State(S) = "queued" /\ ~FenceIs(S)
      BY <1>0, <1>3, <1>i DEF SubmitSnapshot, Writes, At, Idle, ReconcilerOK
    <2>1. proc[R].gen \in 0 .. MaxGeneration
      BY <1>0 DEF TypeOK, Procs
    <2>2. SubIs(S, State(S), sub[S].ord + 1, proc[R].gen, sub[S].ref)
      <3>1. sub' = [sub EXCEPT ![S].ord = sub[S].ord + 1, ![S].gen = proc[R].gen]
        BY <1>0, <1>3, <2>0 DEF SubmitSnapshot, TypeOK, Submissions
      <3> QED BY <1>0, <2>0, <3>1, SubMoves
    <2>3. Snaps(S) /\ Spends(R)
      BY <1>0, <1>3, <2>0, <2>1, <2>2, OneMoves DEF SubmitSnapshot, MayPrepare, Snaps, SubIs
    <2> QED BY <2>0, <2>3 DEF Move, SubMove
  <1>4. CASE SubmitPrepare(R)
    BY <1>4, <1>i DEF SubmitPrepare, At, Idle
  <1>5. CASE SubmitRefused(R) \/ SubmitLosesPrepare(R)
    <2>1. S \in Subs /\ S \in Systems /\ S \notin Controllers /\ ~live
      BY <1>0, <1>5, <1>i, Bounds DEF SubmitRefused, SubmitLosesPrepare, At, Idle, ReconcilerOK
    <2>2. /\ run' = run /\ att' = att /\ typed' = typed /\ live' = live /\ crashes' = crashes
          /\ (\E lost \in BOOLEAN : RejectsController(R, lost))
          /\ spent' \in {spent, spent \union ({S} \intersect Controllers)}
      <3>1. CASE SubmitRefused(R)
        <4>1. PICK lost, unsettled \in BOOLEAN : RejectsController(R, lost) /\ EndsCommand(R, unsettled)
          BY <3>1 DEF SubmitRefused
        <4>2. spent' \in {spent, spent \union ({S} \intersect Controllers)}
          BY <1>0, <4>1 DEF EndsCommand
        <4>3. run' = run /\ att' = att /\ typed' = typed /\ live' = live /\ crashes' = crashes
          BY <3>1 DEF SubmitRefused
        <4> QED BY <4>1, <4>2, <4>3
      <3>2. CASE SubmitLosesPrepare(R)
        <4>1. run' = run /\ att' = att /\ typed' = typed /\ live' = live /\ crashes' = crashes /\ spent' = spent
          BY <2>1, <3>2 DEF SubmitLosesPrepare
        <4>2. \E lost \in BOOLEAN : RejectsController(R, lost)
          BY <3>2 DEF SubmitLosesPrepare
        <4> QED BY <4>1, <4>2
      <3> QED BY <1>5, <3>1, <3>2
    <2>3. sub' = sub /\ spent' = spent
      BY <1>0, <2>1, <2>2 DEF RejectsController
    <2> QED BY <1>0, <2>2, <2>3, NothingMoves DEF records
  <1>6. CASE SubmitFence(R) \/ SubmitCancel(R) \/ SubmitMark(R) \/ SubmitAdvance(R)
             \/ SubmitRecord(R) \/ SubmitActivate(R) \/ SubmitCommit(R)
    BY <1>0, <1>6 DEF SubmitFence, SubmitCancel, SubmitMark, SubmitAdvance, SubmitRecord, SubmitActivate,
        SubmitCommit,
         Writes, At, ReconcilerOK
  <1>7. CASE Execute(R)
    <2>1. /\ S \in Subs /\ Owns(R, S) /\ State(S) = "prepared" /\ Fenced(S, o) /\ o \in Ords
          /\ run.fence.phase = "submission-prepared"
      BY <1>0, <1>7, <1>i DEF Execute, At, Idle, ReconcilerOK
    <2>2. Effect(S, o) = "prepared"
      BY <1>0, <1>7 DEF Execute, Reserved, Mine, Effect
    <2>3. AttIs(S, o, "executing", Barrier(S, o), att[<<S, o>>].gen)
      BY <1>0, <1>7, <2>1, AttMoves DEF Execute, Mine
    <2>4. Executes(S, o) /\ Spends(R)
      BY <1>0, <1>7, <2>1, <2>2, <2>3, Spendless DEF Execute, Executes, OnAtt, budget
    <2> QED BY <2>1, <2>4 DEF Move, AttMove
  <1>8. CASE ExecuteAgain(R)
    <2>1. S \in Subs /\ Owns(R, S) /\ State(S) = "prepared" /\ o \in Ords /\ UNCHANGED <<run, sub, world, budget>>
      BY <1>0, <1>8, <1>i DEF ExecuteAgain, At, Idle, ReconcilerOK
    <2>2. CASE att' = att
      BY <1>0, <2>1, <2>2, QuietMoves DEF records
    <2>3. CASE Effect(S, o) = "executing" /\ Uncertain(<<S, o>>)
      <3>1. AttIs(S, o, "submitted", "active", att[<<S, o>>].gen)
        BY <1>0, <2>1, <2>3, AttMoves
      <3>2. Lands(S, o) /\ Spends(R)
        BY <1>0, <2>1, <2>3, <3>1, OneMoves DEF Lands, Types
      <3> QED BY <2>1, <3>2 DEF Move, AttMove
    <2> QED BY <1>0, <1>8, <2>2, <2>3 DEF ExecuteAgain, Mine, Effect
  <1>9. CASE Type(R)
    <2>1. S \in Subs /\ Owns(R, S) /\ State(S) = "prepared" /\ o \in Ords /\ Effect(S, o) = "executing" /\ ~live
      BY <1>0, <1>9, <1>i DEF Type, At, Idle, ReconcilerOK
    <2>2. typed' = typed /\ run' = run /\ sub' = sub /\ spent' = spent /\ crashes' = crashes /\ live' = live
      BY <1>9, <2>1, Zenon DEF Type, budget
    <2>3. AttIs(S, o, "submitted", "active", att[<<S, o>>].gen)
      BY <1>0, <1>9, <2>1, AttMoves DEF Type, Mine, Effect
    <2>4. Lands(S, o) /\ Spends(R)
      BY <1>0, <2>1, <2>2, <2>3, Spendless DEF Lands, Types, OnAtt
    <2> QED BY <2>1, <2>4 DEF Move, AttMove
  <1>10. CASE TypeFails(R)
    <2>1. ~live
      BY <1>10, <1>i DEF TypeFails, At, Idle
    <2>2. typed' = typed /\ UNCHANGED records /\ spent' = spent /\ crashes' = crashes /\ live' = live
      BY <1>10, <2>1, Zenon DEF TypeFails
    <2> QED BY <1>0, <2>2, NothingMoves
  <1> QED BY <1>1, <1>2, <1>3, <1>4, <1>5, <1>6, <1>7, <1>8, <1>9, <1>10 DEF Submitting

(* So does every other step of recovery.                                    *)
LEMMA ReconcilingMoves ==
  ASSUME StartupOnly, Inv, Reconciling
  PROVE Move(R) /\ Spends(R)
  <1> DEFINE o == proc[R].ord
  <1>0. /\ Typed /\ TypeOK /\ ReconcilerOK /\ R \in Procs /\ S = proc[R].sub /\ UNCHANGED <<world, budget>>
    <2>1. UNCHANGED <<world, budget>>
      BY DEF Reconciling, InventoryStart, ControllerStart, GeneralStart, Task, GeneralClear,
          InventoryList, InventoryJudge,
           Quarantine, Hold, HoldNothing, HoldFence, ControllerLook, ControllerGuard, ControllerCancel,
           ControllerClear,
           ControllerReject, GeneralLook, RecoverFence, RecoverSkip, RecoverMark, RecoverAdvance,
           RecoverRecord,
           RecoverActivate, RecoverCommit, Verdict, Quietly
    <2> QED BY <2>1, InvParts DEF Inv, R, S, Procs
  <1>i. ~Idle(R) => S \in Subs /\ Owns(R, S) /\ ~live /\ crashes > 0
    BY <1>0, RecoveryIs DEF ReconcilerOK, Idle, At
  <1>s. Spends(R) /\ typed' = typed
    BY <1>0, OneMoves
  <1>1. CASE \/ \E s \in Subs : InventoryStart(s) \/ ControllerStart(s) \/ GeneralStart(s)
             \/ InventoryList \/ InventoryJudge \/ HoldNothing \/ ControllerLook \/ ControllerGuard
             \/ GeneralLook \/ RecoverSkip \/ Verdict
    <2>1. UNCHANGED records
      BY <1>1 DEF InventoryStart, ControllerStart, GeneralStart, Task, InventoryList, InventoryJudge,
          HoldNothing,
           ControllerLook, ControllerGuard, GeneralLook, RecoverSkip, Verdict, Quietly
    <2> QED BY SMTT(30), <1>0, <2>1, QuietMoves
  <1>2. CASE \E s \in Subs : GeneralClear(s)
    <2> PICK s \in Subs : GeneralClear(s)
      BY <1>2
    <2>1. FenceIs(s) /\ State(s) = "completed" /\ run.last = s /\ crashes > 0
      BY RecoveryIs DEF GeneralClear, State
    <2>2. (\A q \in Ords : ~Busy(s, q)) /\ run.active.turn # s
      BY <2>1, InvParts DEF DoneOK, ActivatedOK
    <2>3. Clears(s)
      BY <1>0, <2>1, <2>2, RunMoves, OneMoves DEF GeneralClear, Clears, WithFence
    <2> QED BY <1>s, <2>1, <2>3 DEF Move, RunMove
  <1>3. CASE Quarantine
    <2>1. /\ S \in Subs /\ crashes > 0 /\ o \in Ords /\ proc[R].effect = Effect(S, o) /\ Incomplete(<<S, o>>) /\ Mismatch
          /\ Seen.state = State(S) /\ Seen.gen = sub[S].gen /\ UNCHANGED <<run, sub>>
      BY <1>0, <1>3, <1>i DEF Quarantine, At, Idle, ReconcilerOK
    <2>2. /\ Effect(S, o) \in Effects \ {"absent", "quarantined"}
          /\ Barrier(S, o) \notin {"closed", "released"} \union Completed
      BY <1>0, <2>1 DEF Incomplete, Visible, Effect, Barrier, Typed
    <2>3. ShapeOK(S, o) /\ KnownOK(S, o) /\ BusyOK(S, o) /\ FencedOK(S)
      BY <2>1, InvParts
    <2>4. Effect(S, o) \in {"prepared", "executing", "submitted"} /\ (Effect(S, o) = "submitted" => Taken(S, o))
      BY <2>2, <2>3 DEF ShapeOK, Effects, Taken
    <2>5. Busy(S, o) => att[<<S, o>>].gen = sub[S].gen
      BY <2>3 DEF BusyOK, Fenced, FencedOK, FenceIs
    <2>6. State(S) # "absent"
      BY <2>2, <2>3 DEF KnownOK
    <2>7. Effect(S, o) # "submitted"
      BY <1>0, <2>1, <2>4, <2>5, <2>6 DEF Mismatch, Busy, Mine
    <2>8. Effect(S, o) = "executing" => State(S) = "recovery-required"
      BY <1>0, <2>1, <2>3, <2>5, <2>6 DEF Mismatch, Busy, BusyOK, Fenced, FenceIs, Mine
    <2>9. AttIs(S, o, "quarantined", Barrier(S, o), att[<<S, o>>].gen)
      BY <1>0, <1>3, <2>1, AttMoves DEF Quarantine, Mine
    <2>10. Quarantines(S, o)
      BY <1>0, <2>1, <2>4, <2>7, <2>8, <2>9, OneMoves DEF Quarantines
    <2> QED BY <1>s, <2>1, <2>10 DEF Move, AttMove
  <1>4. CASE Hold
    <2>1. S \in Subs /\ crashes > 0 /\ ~Final /\ State(S) \in Holdable /\ UNCHANGED <<run, att>>
      BY <1>0, <1>4, <1>i DEF Hold, At, Idle, ReconcilerOK
    <2>2. SubIs(S, "recovery-required", sub[S].ord, sub[S].gen, o)
      BY <1>0, <1>4, <2>1, SubMoves DEF Hold
    <2>3. Holds(S)
      BY <1>0, <2>1, <2>2, OneMoves DEF Holds, SubIs
    <2> QED BY <1>s, <2>1, <2>3 DEF Move, SubMove
  <1>5. CASE HoldFence
    <2>0. S \in Subs /\ Owns(R, S) /\ State(S) = "recovery-required" /\ UNCHANGED <<sub, att>>
      BY <1>0, <1>5, <1>i DEF HoldFence, At, Idle, ReconcilerOK
    <2>1. CASE FenceIs(S) /\ Phased("recovery-required")
      <3>1. Rephases(S, "recovery-required")
        BY <1>0, <2>0, <2>1, RunMoves, OneMoves DEF Rephases, WithFence, FenceIs
      <3> QED BY <1>s, <2>0, <3>1 DEF Move, RunMove, Phases
    <2>2. CASE run' = run
      BY <1>0, <2>0, <2>2, QuietMoves DEF records
    <2> QED BY <1>5, <2>1, <2>2 DEF HoldFence
  <1>6. CASE ControllerCancel
    <2>0. S \in Subs /\ Owns(R, S) /\ o \in Ords /\ UNCHANGED <<run, sub>>
      BY <1>0, <1>6, <1>i DEF ControllerCancel, At, Idle, ReconcilerOK
    <2>1. CASE att' = att
      BY <1>0, <2>0, <2>1, QuietMoves DEF records
    <2>2. CASE Cancelled(<<S, o>>) /\ (Reserved(<<S, o>>) \/ att[<<S, o>>].effect = "rejected")
      <3>1. AttIs(S, o, "rejected", "released", att[<<S, o>>].gen)
        BY <1>0, <2>0, <2>2, AttMoves
      <3>2. Cancels(S, o)
        BY <1>0, <2>0, <2>2, <3>1, OneMoves DEF Cancels, Reserved, Effect
      <3> QED BY <1>s, <2>0, <3>2 DEF Move, AttMove
    <2> QED BY <1>0, <1>6, <2>1, <2>2 DEF ControllerCancel, Mine
  <1>7. CASE ControllerClear
    <2>0. /\ S \in Subs /\ crashes > 0 /\ State(S) \in {"queued", "prepared"} /\ typed[S] = 0 /\ (\A q \in Ords : ~Busy(S, q))
          /\ UNCHANGED <<sub, att>>
      BY <1>0, <1>7, <1>i DEF ControllerClear, At, Idle, ReconcilerOK
    <2>1. CASE run' = run
      BY <1>0, <2>0, <2>1, QuietMoves DEF records
    <2>2. CASE FenceIs(S) /\ run' = [run EXCEPT !.fence = NoFence]
      <3>1. run.active.turn # S
        BY <2>0, InvParts DEF ActivatedOK, Submitted
      <3>2. Clears(S)
        BY <1>0, <2>0, <2>2, <3>1, RunMoves, OneMoves DEF Clears, WithFence
      <3> QED BY <1>s, <2>0, <3>2 DEF Move, RunMove
    <2> QED BY <1>7, <2>1, <2>2 DEF ControllerClear
  <1>8. CASE ControllerReject
    <2>1. S \in Subs /\ Owns(R, S) /\ State(S) \in {"queued", "prepared"} /\ typed[S] = 0 /\ ~FenceIs(S)
      BY <1>0, <1>8, <1>i DEF ControllerReject, Writes, At, Idle, ReconcilerOK
    <2>2. Untyped(S)
      BY <2>1, InvParts DEF Untyped
    <2>3. Rejects(S)
      BY <1>0, <1>8, <2>1, <2>2, SubMoves, OneMoves DEF ControllerReject, Rejects
    <2> QED BY <1>s, <2>1, <2>3 DEF Move, SubMove
  <1>9. CASE RecoverFence
    <2>1. /\ S \in Subs /\ Owns(R, S) /\ ~Final /\ o \in Ords /\ Visible(<<S, o>>) /\ Seen.state = State(S)
          /\ Seen.gen = sub[S].gen /\ UNCHANGED <<sub, att>>
      BY <1>0, <1>9, <1>i DEF RecoverFence, At, Idle, ReconcilerOK
    <2>2. CASE run' = run
      BY <1>0, <2>1, <2>2, QuietMoves DEF records
    <2>3. CASE /\ att[Mine(R)].gen = Seen.gen /\ LawfulGap
               /\ run' = [run EXCEPT !.fence = [Fence(S, proc[R].ord) EXCEPT !.gen = Seen.gen]]
      <3>1. [Fence(S, proc[R].ord) EXCEPT !.gen = Seen.gen]
             = [sub |-> S, ord |-> o, gen |-> sub[S].gen, phase |-> "terminal-prepared"]
        BY <2>1 DEF Fence
      <3>2. WithFence([sub |-> S, ord |-> o, gen |-> sub[S].gen, phase |-> "terminal-prepared"])
        BY <1>0, <2>1, <2>3, <3>1, RunMoves, OneMoves DEF WithFence
      <3>3. Fences(S, o)
        BY <1>0, <2>1, <2>3, <3>2 DEF Fences, LawfulGap, Visible, Effect, Mine
      <3> QED BY <1>s, <2>1, <3>3 DEF Move, RunMove
    <2> QED BY <1>9, <2>2, <2>3 DEF RecoverFence
  <1>10. CASE RecoverMark
    <2>1. S \in Subs /\ Owns(R, S) /\ State(S) = "queued" /\ FenceIs(S)
      BY <1>0, <1>10, <1>i DEF RecoverMark, Writes, At, Idle, ReconcilerOK, Fenced, FenceIs
    <2>2. Marks(S)
      BY <1>0, <1>10, <2>1, SubMoves, OneMoves DEF RecoverMark, Marks
    <2> QED BY <1>s, <2>1, <2>2 DEF Move, SubMove
  <1>11. CASE RecoverAdvance
    <2>0. S \in Subs /\ Owns(R, S) /\ FenceIs(S) /\ UNCHANGED <<sub, att>>
      BY <1>0, <1>11, <1>i DEF RecoverAdvance, Writes, At, Idle, ReconcilerOK, Fenced, FenceIs
    <2>1. CASE Phased("submission-prepared")
      <3>1. Rephases(S, "submission-prepared")
        BY <1>0, <2>0, <2>1, RunMoves, OneMoves DEF Rephases, WithFence, FenceIs
      <3> QED BY <1>s, <2>0, <3>1 DEF Move, RunMove, Phases
    <2>2. CASE run' = run
      BY <1>0, <2>0, <2>2, QuietMoves DEF records
    <2> QED BY <1>11, <2>1, <2>2 DEF RecoverAdvance
  <1>12. CASE RecoverRecord
    <2>0. S \in Subs /\ Owns(R, S) /\ o \in Ords /\ Fenced(S, o) /\ Effect(S, o) = "submitted" /\ State(S) \in {"prepared", Submitted}
          /\ Seen.state = State(S) /\ UNCHANGED <<run, att>>
      BY <1>0, <1>12, <1>i DEF RecoverRecord, At, Idle, ReconcilerOK
    <2>1. CASE Seen.state = Submitted
      BY <1>0, <1>12, <2>0, <2>1, QuietMoves DEF RecoverRecord, records
    <2>2. CASE Seen.state # Submitted
      <3>1. SubIs(S, Submitted, sub[S].ord, sub[S].gen, o)
        BY <1>0, <1>12, <2>0, <2>2, SubMoves DEF RecoverRecord
      <3>2. Records(S, o)
        BY <1>0, <2>0, <2>2, <3>1, OneMoves DEF Records
      <3> QED BY <1>s, <2>0, <3>2 DEF Move, SubMove
    <2> QED BY <2>1, <2>2
  <1>13. CASE RecoverActivate
    <2>0. S \in Subs /\ Owns(R, S) /\ o \in Ords /\ Fenced(S, o) /\ State(S) = Submitted /\ ~Final
          /\ Seen.gen = sub[S].gen /\ UNCHANGED <<sub, att>>
      BY <1>0, <1>13, <1>i DEF RecoverActivate, At, Idle, ReconcilerOK
    <2>1. CASE run' = run
      BY <1>0, <2>0, <2>1, QuietMoves DEF records
    <2>2. CASE Phased("active")
      <3>1. Rephases(S, "active")
        BY <1>0, <2>0, <2>2, RunMoves, OneMoves DEF Rephases, WithFence, Fenced, FenceIs, Submitted
      <3> QED BY <1>s, <2>0, <3>1 DEF Move, RunMove, Phases
    <2>3. CASE MayActivate /\ run' = Activated(S)
      <3>1. Activates(S, o)
        BY <1>0, <2>0, <2>3, RunMoves, OneMoves DEF Activates, MayActivate, Fenced
      <3> QED BY <1>s, <2>0, <3>1 DEF Move, RunMove
    <2> QED BY <1>13, <2>1, <2>2, <2>3 DEF RecoverActivate
  <1>14. CASE RecoverCommit
    <2>0. S \in Subs /\ Owns(R, S) /\ UNCHANGED <<run, att>>
      BY <1>0, <1>14, <1>i DEF RecoverCommit, At, Idle, ReconcilerOK
    <2>1. CASE sub' = sub
      BY <1>0, <2>0, <2>1, QuietMoves DEF records
    <2>2. CASE sub' = [sub EXCEPT ![S].activation = "committed"]
      <3>1. Commits(S)
        BY <1>0, <2>0, <2>2, SubMoves, OneMoves DEF Commits
      <3> QED BY <1>s, <2>0, <3>1 DEF Move, SubMove
    <2> QED BY <1>14, <2>1, <2>2 DEF RecoverCommit
  <1> QED BY <1>1, <1>2, <1>3, <1>4, <1>5, <1>6, <1>7, <1>8, <1>9, <1>10, <1>11, <1>12, <1>13, <1>14
      DEF Reconciling

(* A lost race or a failed write moves nothing, or rejects a reservation    *)
(* that was never typed.                                                    *)
LEMMA EndingMoves ==
  ASSUME Inv, NEW p \in Procs, Loses(p) \/ Fails(p)
  PROVE Move(p) /\ Spends(p)
  <1>1. UNCHANGED <<records, typed, spent, crashes>> /\ live' = live
    BY DEF Loses, Fails, world, budget
  <1> QED BY <1>1, NothingMoves, InvParts

(* The end of recovery moves nothing.                                       *)
LEMMA StartedMoves ==
  ASSUME Inv, Started
  PROVE Move(R) /\ Spends(R)
  <1>0. Typed /\ TypeOK /\ ~live
    BY InvParts DEF Started, LifeOK
  <1>1. UNCHANGED <<sub, att, typed, spent, crashes, live>>
    BY DEF Started, budget
  <1>2. CASE Final
    BY <1>0, <1>1, <1>2, NothingMoves DEF Started, records
  <1>3. CASE ~Final
    <2>1. RunIs("interrupted", run.gen, run.active, run.fence, run.last, run.uncertain)
      BY <1>0, <1>3, RunMoves DEF Started
    <2>2. run'.lifecycle = "interrupted" /\ run.lifecycle # "failed"
      BY <1>3, <2>1 DEF RunIs, Final, FINAL_LIFECYCLES
    <2>3. Lives
      BY <1>0, <1>1, <2>1, <2>2 DEF Lives, OnRun, FINAL_LIFECYCLES
    <2> QED BY <1>0, <1>1, <2>3, Spendless DEF Move
  <1> QED BY <1>2, <1>3

(* A crash moves nothing.                                                   *)
LEMMA CrashMoves ==
  ASSUME Inv, Crash
  PROVE Move(R) /\ Spends(R)
  <1>1. Typed /\ UNCHANGED <<records, spent, typed>> /\ crashes' = crashes + 1 /\ live' = FALSE
    BY InvParts DEF Crash
  <1> QED BY <1>1 DEF Move, Nothing, Spends, records, Typed

-----------------------------------------------------------------------------
(* What the others leave of what a process knows.                           *)

Others == {"queue", "pump", "ops"}
StepOf(p) == Move(p) /\ Spends(p) /\ Untouched(p)

(* A final run stays final, and only a completion changes what was          *)
(* completed last.                                                          *)
LEMMA FinalStays ==
  ASSUME NEW p, Move(p)
  PROVE /\ Final => Final'
        /\ run'.last # run.last => \E s \in Subs, o \in Ords : Finishes(s, o)
  <1>1. CASE Nothing
    BY <1>1 DEF Nothing, Final
  <1>2. CASE Lives \/ ShiftsRun
    BY <1>2 DEF Lives, ShiftsRun, Shifts, RunIs, Final
  <1>3. ASSUME NEW s \in Subs, SubMove(p, s) PROVE run' = run
    BY <1>3 DEF SubMove, Queues, Snaps, Rejects, Marks, Completes, Holds, Commits, GivesUp, Records, OnSub
  <1>4. ASSUME NEW s \in Subs, NEW o \in Ords, AttMove(p, s, o) PROVE run' = run
    BY <1>4 DEF AttMove, Prepares, PreparesInVain, Cancels, Executes, Lands, OnlyTypes, Interrupts, Settles,
                Shuts, Quarantines, Barred, OnAtt
  <1>5. ASSUME NEW s \in Subs, RunMove(p, s), ~\E o \in Ords : Finishes(s, o)
        PROVE (Final => Final') /\ run'.last = run.last
    BY <1>5 DEF RunMove, Clears, FailsRun, Rephases, Fences, Activates, WithFence, RunIs, Final,
        FINAL_LIFECYCLES
  <1>6. ASSUME NEW s \in Subs, NEW o \in Ords, Finishes(s, o) PROVE Final => Final'
    BY <1>6 DEF Finishes, RunIs, Final
  <1> QED BY <1>1, <1>2, <1>3, <1>4, <1>5, <1>6 DEF Move, Final

(* What a step of p leaves of a submission that p does not own.             *)
LEMMA NotOwned ==
  ASSUME Typed, NEW p \in Others, StepOf(p), NEW s \in Subs, ~Owns(p, s), crashes = 0
  PROVE /\ State(s) \in {"absent", "queued", "prepared"} \/ run.last # s =>
             State(s)' = State(s) /\ sub'[s].ord = sub[s].ord /\ sub'[s].gen = sub[s].gen
        /\ \A o \in Ords : Effect(s, o)' = Effect(s, o) /\ att'[<<s, o>>].gen = att[<<s, o>>].gen
        /\ typed'[s] = typed[s]
        /\ ~FenceIs(s) => ~FenceIs(s)'
        /\ FenceIs(s) /\ State(s) \in {"queued", "prepared"} =>
             /\ FenceIs(s)' /\ run'.fence.ord = run.fence.ord
             /\ State(s) = "prepared" => run'.fence.phase \in {run.fence.phase, "submission-prepared"}
  <1>0. ~(crashes > 0) /\ s # None /\ p # R
    BY DEF Typed, Others, R
  <1>1. ASSUME UNCHANGED <<sub, att, typed>>, run' = run \/ Lives \/ ShiftsRun \/ \E t \in Subs : RunMove(p, t)
        PROVE /\ ~FenceIs(s) => ~FenceIs(s)'
              /\ FenceIs(s) /\ State(s) \in {"queued", "prepared"} =>
                   /\ FenceIs(s)' /\ run'.fence.ord = run.fence.ord
                   /\ State(s) = "prepared" => run'.fence.phase \in {run.fence.phase, "submission-prepared"}
    <2>1. CASE run' = run
      BY <2>1 DEF FenceIs
    <2>2. CASE Lives \/ ShiftsRun
      BY <2>2 DEF Lives, ShiftsRun, Shifts, RunIs, FenceIs
    <2>3. ASSUME NEW t \in Subs, RunMove(p, t)
          PROVE /\ ~FenceIs(s) => ~FenceIs(s)'
                /\ FenceIs(s) /\ State(s) \in {"queued", "prepared"} =>
                   /\ FenceIs(s)' /\ run'.fence.ord = run.fence.ord
                   /\ State(s) = "prepared" => run'.fence.phase \in {run.fence.phase, "submission-prepared"}
      <3>1. CASE \E f \in Phases : Rephases(t, f)
        BY <1>0, <3>1 DEF Rephases, WithFence, RunIs, FenceIs
      <3>2. CASE Clears(t)
        BY <1>0, <3>2 DEF Clears, WithFence, RunIs, FenceIs, NoFence
      <3>3. CASE FailsRun(t)
        BY <1>0, <3>3 DEF FailsRun
      <3>4. CASE \E o \in Ords : Finishes(t, o)
        BY <1>0, <3>4 DEF Finishes, RunIs, FenceIs, Fenced, Submitted
      <3>5. CASE Owns(p, t) /\ \E o \in Ords : Fences(t, o)
        BY <1>0, <3>5 DEF Fences, WithFence, RunIs, FenceIs, FenceFree, NoFence
      <3>6. CASE Owns(p, t) /\ \E o \in Ords : Activates(t, o)
        BY <1>0, <3>6 DEF Activates, RunIs, FenceIs, Fenced
      <3> QED BY <2>3, <3>1, <3>2, <3>3, <3>4, <3>5, <3>6 DEF RunMove
    <2> QED BY <1>1, <2>1, <2>2, <2>3
  <1>2. ASSUME NEW t \in Subs, SubMove(p, t), State(s) \in {"absent", "queued", "prepared"} \/ run.last # s
        PROVE State(s)' = State(s) /\ sub'[s].ord = sub[s].ord /\ sub'[s].gen = sub[s].gen
    <2>1. CASE t = s
      BY <1>0, <1>2, <2>1 DEF SubMove, Completes, GivesUp, Submitted
    <2>2. CASE t # s
      BY <1>2, <2>2 DEF SubMove, Queues, Snaps, Rejects, Marks, Completes, Holds, Commits, GivesUp, Records,
         StateIs, SubIs, OtherSubs, State
    <2> QED BY <2>1, <2>2
  <1>3. ASSUME NEW t \in Subs, NEW q \in Ords, AttMove(p, t, q)
        PROVE /\ State(s)' = State(s) /\ sub'[s].ord = sub[s].ord /\ sub'[s].gen = sub[s].gen
              /\ \A o \in Ords : Effect(s, o)' = Effect(s, o) /\ att'[<<s, o>>].gen = att[<<s, o>>].gen
              /\ typed'[s] = typed[s]
    <2>1. CASE t = s
      <3>1. Interrupts(s, q) \/ Settles(s, q) \/ Shuts(s, q)
        BY <1>0, <1>3, <2>1 DEF AttMove
      <3> QED BY <3>1 DEF Interrupts, Settles, Shuts, Barred, AttIs, OtherAtts, OnAtt, Effect, State
    <2>2. CASE t # s
      <3>1. OtherAtts(t, q) \/ att' = att
        BY <1>3 DEF AttMove, Prepares, PreparesInVain, Prepared, Cancels, Executes, Lands, OnlyTypes,
            Interrupts,
             Settles, Shuts, Quarantines, Barred, AttIs
      <3>2. sub' = sub \/ OtherSubs(t)
        BY <1>3 DEF AttMove, Prepares, PreparesInVain, Cancels, Executes, Lands, OnlyTypes, Interrupts,
             Settles, Shuts, Quarantines, Barred, OnAtt, StateIs, SubIs
      <3>3. typed'[s] = typed[s]
        BY <1>3, <2>2 DEF AttMove, Prepares, PreparesInVain, Cancels, Executes, Lands, OnlyTypes,
            Interrupts,
             Settles, Shuts, Quarantines, Barred, Types
      <3> QED BY <2>2, <3>1, <3>2, <3>3 DEF OtherAtts, OtherSubs, Effect, State
    <2> QED BY <2>1, <2>2
  <1>4. Move(p)
    BY DEF StepOf
  <1>5. CASE UNCHANGED <<sub, att, typed>> /\ (run' = run \/ Lives \/ ShiftsRun \/ \E t \in Subs : RunMove(p, t))
    BY <1>1, <1>5 DEF State, Effect
  <1>6. CASE (\E t \in Subs : SubMove(p, t)) /\ UNCHANGED <<run, att, typed>>
    BY <1>2, <1>6 DEF Effect, FenceIs
  <1>7. CASE (\E t \in Subs, o \in Ords : AttMove(p, t, o)) /\ run' = run
    BY <1>3, <1>7 DEF FenceIs
  <1> QED BY <1>4, <1>5, <1>6, <1>7, MoveKinds

(* What a process that submits a turn knows is not disturbed by the others. *)
LEMMA SubmitterKept ==
  ASSUME Inv, NEW p \in Others, NEW q \in {"queue", "pump"}, p # q, StepOf(p), crashes' = crashes,
         SubmitterOK(q)
  PROVE SubmitterOK(q)'
  <1> SUFFICES ASSUME NEW s, s = proc[q].sub, NEW o, o = proc[q].ord, NEW pc, pc = proc[q].pc
               PROVE SubmitterOK(q)'
    OBVIOUS
  <1>1. /\ Typed /\ Kept(q) /\ q \in Procs /\ s \in Subs /\ crashes = 0
        /\ (Has(q, "run")' => Has(q, "run") /\ run' = run)
        /\ (s \in Controllers => s \notin Systems) /\ (s \in Systems => s \notin Controllers)
    BY InvParts, Bounds DEF StepOf, Untouched, SubmitterOK, Procs
  <1>2. ~Owns(p, s)
    BY <1>1, Bounds DEF Owns, Others, SubmitterOK, Typed, R
  <1>3. s \in Controllers \ spent => s \in Controllers \ spent'
    BY <1>1, Bounds DEF SubmitterOK, StepOf, Spends
  <1>4. /\ \A w \in Ords : Effect(s, w)' = Effect(s, w) /\ att'[<<s, w>>].gen = att[<<s, w>>].gen
        /\ typed'[s] = typed[s]
        /\ ~FenceIs(s) => ~FenceIs(s)'
        /\ FenceIs(s) /\ State(s) \in {"queued", "prepared"} =>
             /\ FenceIs(s)' /\ run'.fence.ord = run.fence.ord
             /\ State(s) = "prepared" => run'.fence.phase \in {run.fence.phase, "submission-prepared"}
        /\ State(s) \in {"absent", "queued", "prepared"} \/ run.last # s =>
             State(s)' = State(s) /\ sub'[s].ord = sub[s].ord /\ sub'[s].gen = sub[s].gen
    BY <1>1, <1>2, NotOwned
  <1>5. pc = "activate" /\ Has(q, "run") => run.last # s
    <2>1. DoneOK(s) /\ run.gen \in Int
      BY <1>1, InvParts DEF Typed
    <2> QED BY <2>1 DEF SubmitterOK, DoneOK
  <1>6. proc'[q].pc = pc /\ proc'[q].sub = s /\ proc'[q].ord = o /\ proc'[q].gen = proc[q].gen
    BY <1>1 DEF Kept
  <1>7. CASE pc \in {"refresh", "snapshot", "prepare", "fence", "cancel", "mark"}
    <2>1. State(s) = "queued"
      BY <1>7 DEF SubmitterOK
    <2>2. \A w \in Ords : Blank(s, w)' <=> Blank(s, w)
      BY <1>4 DEF Blank
    <2> QED BY <1>1, <1>3, <1>4, <1>6, <1>7, <2>1, <2>2 DEF SubmitterOK, FenceFree, Final, Fenced, FenceIs
  <1>8. CASE pc \in {"advance", "execute", "type", "record"}
    <2>1. State(s) = "prepared"
      BY <1>8 DEF SubmitterOK
    <2> QED BY <1>1, <1>3, <1>4, <1>6, <1>8, <2>1 DEF SubmitterOK, FenceFree, Final, Fenced, FenceIs
  <1>9. CASE pc = "activate"
    <2>1. s \in (IF q = "queue" THEN Controllers \ spent' ELSE Systems) /\ crashes' = 0
      BY <1>1, <1>3 DEF SubmitterOK
    <2>2. CASE ~Has(q, "run")'
      BY <1>6, <1>9, <2>1, <2>2 DEF SubmitterOK
    <2>3. CASE Has(q, "run")'
      <3>1. /\ run' = run /\ Has(q, "run") /\ State(s)' = State(s) /\ sub'[s].gen = sub[s].gen
            /\ (o \in Ords => Effect(s, o)' = Effect(s, o))
        BY <1>1, <1>4, <1>5, <1>9, <2>3
      <3>2. ~Final' /\ run'.active = NoTurn /\ sub'[s].gen = run'.gen + 1
        BY <1>9, <3>1 DEF SubmitterOK, Final
      <3>3. o \in Ords /\ Fenced(s, o)' /\ Effect(s, o)' = "submitted" /\ State(s)' = Submitted
        BY <1>9, <3>1 DEF SubmitterOK, Fenced
      <3> QED BY <1>6, <1>9, <2>1, <2>3, <3>2, <3>3 DEF SubmitterOK, Fenced, Final
    <2> QED BY <2>2, <2>3
  <1>10. CASE pc \notin {"refresh", "snapshot", "prepare", "fence", "cancel", "mark", "advance", "execute", "type", "record", "activate"}
    BY <1>1, <1>3, <1>4, <1>6, <1>10 DEF SubmitterOK
  <1> QED BY <1>7, <1>8, <1>9, <1>10

(* The pump and the lifecycle operations leave what the queue is ending.    *)
LEMMA PumpMoves ==
  ASSUME Inv, NEW p \in {"pump", "ops"}, StepOf(p), crashes > 0
  PROVE \/ Nothing \/ Lives \/ ShiftsRun
        \/ \E s \in Subs, o \in Ords : Interrupts(s, o)
  <1>1. ~(crashes = 0)
    BY InvParts DEF Typed
  <1> QED BY <1>1 DEF StepOf, Move, SubMove, AttMove, RunMove, Owns, R

(* What a process that closes a turn knows is not disturbed by the others.  *)
LEMMA CloserKept ==
  ASSUME Inv, NEW p \in {"pump", "ops"}, StepOf(p), crashes' = crashes
  PROVE CloserOK'
  <1> SUFFICES ASSUME NEW t, t = proc["queue"].sub, NEW o, o = proc["queue"].ord,
                      NEW pc, pc = proc["queue"].pc, pc \in Ending
               PROVE CloserOK'
    BY DEF CloserOK, StepOf, Untouched, Kept, Procs
  <1>1. /\ Typed /\ CloserOK /\ t \in Subs /\ crashes > 0 /\ Bare # t /\ None # t
        /\ proc'["queue"].pc = pc /\ proc'["queue"].sub = t /\ proc'["queue"].ord = o
        /\ run.lifecycle = "failed" => run.lifecycle \notin {"running"}
    BY InvParts, Bounds DEF Inv, CloserOK, StepOf, Untouched, Kept, Procs
  <1>2. CASE Nothing
    BY <1>1, <1>2 DEF Nothing, CloserOK, State, Fenced, FenceIs, Busy, Taken, Effect, Barrier
  <1>3. CASE Lives
    BY <1>1, <1>3 DEF Lives, RunIs, OnRun, CloserOK, State, Fenced, FenceIs, Busy, Taken, Effect, Barrier
  <1>4. CASE ShiftsRun
    <2>1. /\ run'.active = run.active \/ run'.active = NoTurn \/ run'.active.turn = Bare
          /\ run'.fence = run.fence /\ run'.lifecycle = run.lifecycle /\ OnRun
      BY <1>4 DEF ShiftsRun, Shifts, RunIs
    <2>2. run.active.turn # t => run'.active.turn # t
      BY <1>1, <2>1 DEF NoTurn
    <2> QED BY <1>1, <2>1, <2>2 DEF OnRun, CloserOK, State, Fenced, FenceIs, Busy, Taken, Effect, Barrier
  <1>5. ASSUME NEW s \in Subs, NEW q \in Ords, Interrupts(s, q) PROVE CloserOK'
    <2>1. run' = run /\ sub' = sub /\ typed' = typed
      BY <1>5 DEF Interrupts, Barred, OnAtt
    <2>2. \A w \in Ords : ~Busy(t, w) \/ Barrier(t, w) = "closed" =>
             Effect(t, w)' = Effect(t, w) /\ Barrier(t, w)' = Barrier(t, w)
      <3> SUFFICES ASSUME NEW w \in Ords, ~Busy(t, w) \/ Barrier(t, w) = "closed"
                   PROVE att'[<<t, w>>] = att[<<t, w>>]
        BY DEF Effect, Barrier
      <3>1. t # s \/ w # q
        BY <1>5 DEF Interrupts, Busy, Taken
      <3> QED BY <1>1, <1>5, <3>1 DEF Interrupts, Barred, AttIs, OtherAtts
    <2> QED BY <1>1, <2>1, <2>2 DEF CloserOK, State, Fenced, FenceIs, Busy, Taken, Effect, Barrier
  <1> QED BY <1>1, <1>2, <1>3, <1>4, <1>5, PumpMoves

(* What is settled stays settled.                                           *)
LEMMA SettledKept ==
  ASSUME Inv, NEW p, Move(p), NEW s \in Subs, NEW o, Settled(s, o)
  PROVE Settled(s, o)'
  <1>1. o \in Ords /\ Barrier(s, o) \in Completed /\ ShapeOK(s, o) /\ KnownOK(s, o)
    BY InvParts DEF Settled
  <1>2. CASE att' = att
    BY <1>1, <1>2 DEF Settled, Barrier
  <1>3. ASSUME NEW t \in Subs, NEW q \in Ords, AttMove(p, t, q) PROVE Settled(s, o)'
    <2>1. CASE t # s \/ q # o
      <3>1. att'[<<s, o>>] = att[<<s, o>>]
        BY <1>1, <1>3, <2>1 DEF AttMove, Prepares, PreparesInVain, Prepared, Cancels, Executes, Lands,
            OnlyTypes,
                     Interrupts, Settles, Shuts, Quarantines, Barred, AttIs, OtherAtts
      <3> QED BY <1>1, <3>1 DEF Settled, Barrier
    <2>2. CASE t = s /\ q = o
      BY <1>1, <1>3, <2>2 DEF AttMove, Prepares, PreparesInVain, Prepared, Cancels, Executes, Lands,
          OnlyTypes,
                     Interrupts, Settles, Shuts, Quarantines, Barred, AttIs, ShapeOK, Effect, Barrier,
                     Taken,
                     Completed, Settled
    <2> QED BY <2>1, <2>2
  <1> QED BY <1>2, <1>3, MoveKinds

(* The pump and the operations leave the state of a submitted turn, and the *)
(* fence of any.                                                            *)
LEMMA SubmittedKept ==
  ASSUME Inv, NEW p \in {"pump", "ops"}, Move(p), NEW t \in Subs, State(t) \in {Submitted, "completed"}
  PROVE /\ State(t)' = State(t) /\ sub'[t].gen = sub[t].gen
        /\ run'.gen >= run.gen /\ run'.last = run.last
        /\ FenceIs(t) => FenceIs(t)'
  <1>0. run.gen \in Int /\ None # t /\ (State(t) = "submitted" \/ State(t) = "completed")
    BY InvParts, Bounds DEF Typed, Submitted
  <1>1. ASSUME NEW s \in Subs, SubMove(p, s) PROVE State(t)' = State(t) /\ sub'[t].gen = sub[t].gen
    <2>1. CASE t = s
      <3>1. Queues(s) \/ Snaps(s) \/ Rejects(s) \/ Marks(s) \/ Commits(s) \/ \E o \in Ords : Records(s, o)
        BY <1>1 DEF SubMove, R
      <3> QED BY <1>0, <2>1, <3>1 DEF Queues, Starting, Snaps, Rejects, Marks, Commits, Records, StateIs,
          SubIs, State
    <2>2. CASE t # s
      BY <1>1, <2>2 DEF SubMove, Queues, Snaps, Rejects, Marks, Completes, Holds, Commits, GivesUp, Records,
         StateIs, SubIs, OtherSubs, State
    <2> QED BY <2>1, <2>2
  <1>2. ASSUME NEW s \in Subs, NEW o \in Ords, AttMove(p, s, o)
        PROVE State(t)' = State(t) /\ sub'[t].gen = sub[t].gen
    <2>1. sub' = sub \/ (OtherSubs(s) /\ State(s) = "queued")
      BY <1>2 DEF AttMove, Prepares, PreparesInVain, Prepared, Cancels, Executes, Lands, OnlyTypes,
          Interrupts,
             Settles, Shuts, Quarantines, Barred, OnAtt, StateIs, SubIs
    <2> QED BY <1>0, <2>1 DEF OtherSubs, State
  <1>3. ASSUME Lives \/ ShiftsRun
        PROVE run'.gen >= run.gen /\ run'.last = run.last /\ (FenceIs(t) => FenceIs(t)')
    BY <1>0, <1>3 DEF Lives, ShiftsRun, Shifts, RunIs, FenceIs
  <1>4. ASSUME NEW s \in Subs, RunMove(p, s)
        PROVE run'.gen >= run.gen /\ run'.last = run.last /\ (FenceIs(t) => FenceIs(t)')
    <2>1. CASE \E f \in Phases : Rephases(s, f)
      BY <1>0, <2>1 DEF Rephases, WithFence, RunIs, FenceIs
    <2>2. CASE \E o \in Ords : Fences(s, o)
      BY <1>0, <2>2 DEF Fences, WithFence, RunIs, FenceIs, FenceFree, NoFence
    <2>3. CASE \E o \in Ords : Activates(s, o)
      BY <1>0, <2>3 DEF Activates, RunIs, FenceIs, Fenced
    <2> QED BY <1>4, <2>1, <2>2, <2>3 DEF RunMove, R
  <1>5. CASE UNCHANGED <<sub, att, typed>> /\ (run' = run \/ Lives \/ ShiftsRun \/ \E s \in Subs : RunMove(p, s))
    <2>1. State(t)' = State(t) /\ sub'[t].gen = sub[t].gen
      BY <1>5 DEF State
    <2>2. CASE run' = run
      BY <1>0, <2>1, <2>2 DEF FenceIs
    <2> QED BY <1>3, <1>4, <1>5, <2>1, <2>2
  <1>6. CASE (\E s \in Subs : SubMove(p, s)) /\ UNCHANGED <<run, att, typed>>
    BY <1>0, <1>1, <1>6 DEF FenceIs
  <1>7. CASE (\E s \in Subs, o \in Ords : AttMove(p, s, o)) /\ run' = run
    BY <1>0, <1>2, <1>7 DEF FenceIs
  <1> QED BY <1>5, <1>6, <1>7, MoveKinds

(* What a process that completes a turn knows is not disturbed by the       *)
(* others.                                                                  *)
LEMMA CompleterKept ==
  ASSUME Inv, NEW p \in {"pump", "ops"}, StepOf(p), crashes' = crashes
  PROVE CompleterOK'
  <1> SUFFICES ASSUME NEW t, t = proc["queue"].sub, NEW o, o = proc["queue"].ord,
                      NEW pc, pc = proc["queue"].pc, pc \in Finishing
               PROVE CompleterOK'
    BY DEF CompleterOK, StepOf, Untouched, Kept, Procs
  <1>1. /\ Typed /\ CompleterOK /\ t \in Subs
        /\ proc'["queue"].pc = pc /\ proc'["queue"].sub = t /\ proc'["queue"].ord = o
        /\ proc'["queue"].gen = proc["queue"].gen
        /\ (Has("queue", "run")' => Has("queue", "run") /\ run' = run)
    BY InvParts, Bounds DEF Inv, CompleterOK, StepOf, Untouched, Kept, Procs
  <1>2. State(t) \in {Submitted, "completed"}
    BY <1>1 DEF CompleterOK
  <1>3. /\ State(t)' = State(t) /\ sub'[t].gen = sub[t].gen
        /\ run'.gen >= run.gen /\ run'.last = run.last
        /\ FenceIs(t) => FenceIs(t)'
        /\ Settled(t, o) => Settled(t, o)'
    BY <1>1, <1>2, SubmittedKept, SettledKept DEF StepOf
  <1>4. sub[t].gen <= run.gen => sub'[t].gen <= run'.gen
    <2>1. run'.gen \in Int
      <3>1. run' = run \/ Lives \/ ShiftsRun \/ \E s \in Subs : RunMove(p, s)
        BY MoveKinds DEF StepOf
      <3>2. run.gen \in Int /\ \A s \in Subs : sub[s].gen \in Int
        BY <1>1 DEF Typed
      <3>3. CASE Lives \/ ShiftsRun
        BY <3>2, <3>3 DEF Lives, ShiftsRun, Shifts, RunIs
      <3>4. ASSUME NEW s \in Subs, RunMove(p, s) PROVE run'.gen \in Int
        BY <3>2, <3>4 DEF RunMove, RunIs, Fences, Activates, FailsRun, Finishes, Clears, Rephases, WithFence
      <3> QED BY <3>1, <3>2, <3>3, <3>4
    <2> QED BY <1>1, <1>3, <2>1 DEF Typed
  <1>5. proc'["queue"].pc = pc /\ pc \in Finishing
    BY <1>1
  <1>6. CASE Has("queue", "run")'
    BY <1>1, <1>3, <1>4, <1>6 DEF CompleterOK, FenceIs, State
  <1>7. CASE ~Has("queue", "run")'
    BY <1>1, <1>3, <1>4, <1>7 DEF CompleterOK, State
  <1> QED BY <1>6, <1>7

(* What an interrupt or a stop knows is not disturbed by a turn.            *)
LEMMA OpsKept ==
  ASSUME Inv, NEW p \in {"queue", "pump"}, StepOf(p), crashes' = crashes
  PROVE OpsOK'
  <1> SUFFICES ASSUME NEW t, t = proc["ops"].sub, NEW pc, pc = proc["ops"].pc
               PROVE OpsOK'
    OBVIOUS
  <1>1. /\ Typed /\ OpsOK /\ proc'["ops"].pc = pc /\ proc'["ops"].sub = t
        /\ (Has("ops", "run")' => Has("ops", "run") /\ run' = run)
        /\ (live' => live)
    BY InvParts DEF Inv, StepOf, Spends, Untouched, Kept, Procs
  <1>2. pc # "idle" => crashes = 0
    BY InvParts DEF LifeOK, Idle, At, Typed
  <1>3. ASSUME pc = "interrupting", t # Bare
        PROVE \E o \in Ords : Barrier(t, o)' \in {"interrupted", "completed-interrupted"}
    <2>1. PICK o \in Ords : Barrier(t, o) \in {"interrupted", "completed-interrupted"}
      BY <1>1, <1>3 DEF OpsOK
    <2>2. t \in Subs /\ ~(crashes > 0) /\ ShapeOK(t, o) /\ KnownOK(t, o)
      BY <1>1, <1>2, <1>3, InvParts DEF OpsOK
    <2>3. CASE att' = att
      BY <2>1, <2>3 DEF Barrier
    <2>4. ASSUME NEW s \in Subs, NEW q \in Ords, AttMove(p, s, q)
          PROVE Barrier(t, o)' \in {"interrupted", "completed-interrupted"}
      <3>1. CASE s # t \/ q # o
        <4>1. att'[<<t, o>>] = att[<<t, o>>]
          BY <2>2, <2>4, <3>1 DEF AttMove, Prepares, PreparesInVain, Prepared, Cancels, Executes, Lands,
              OnlyTypes,
                       Interrupts, Settles, Shuts, Quarantines, Barred, AttIs, OtherAtts
        <4> QED BY <2>1, <4>1 DEF Barrier
      <3>2. CASE s = t /\ q = o
        BY <2>1, <2>2, <2>4, <3>2 DEF AttMove, Prepares, PreparesInVain, Prepared, Cancels, Executes,
            Lands, OnlyTypes,
                       Interrupts, Settles, Shuts, Quarantines, Barred, AttIs, ShapeOK, Effect, Barrier,
                       Taken
      <3> QED BY <3>1, <3>2
    <2> QED BY <2>1, <2>3, <2>4, MoveKinds DEF StepOf
  <1> QED BY <1>1, <1>3 DEF OpsOK, Final

-----------------------------------------------------------------------------
(* What a process knows after a step of its own.                            *)

(* p goes to the given step, with the copies it had and more.               *)
Moves(p, step, W) ==
    /\ proc'[p].pc = step /\ proc'[p].sub = proc[p].sub /\ proc'[p].ord = proc[p].ord
    /\ proc'[p].gen = proc[p].gen /\ proc'[p].seen = proc[p].seen /\ proc'[p].effect = proc[p].effect
    /\ proc'[p].fresh = proc[p].fresh \union W

(* A write, as what its process has become.                                 *)
LEMMA WroteMoves ==
  ASSUME ProcsType, NEW p \in Procs, NEW step \in Steps, NEW W, W \subseteq Copies, Wrote(p, step, W)
  PROVE Moves(p, step, W)
  BY WroteFields DEF Moves

(* A read, as what its process has become.                                  *)
LEMMA ReadsMoves ==
  ASSUME ProcsType, NEW p \in Procs, NEW step \in Steps, NEW W, W \subseteq Copies, Reads(p, step, W)
  PROVE Moves(p, step, W)
  BY ReadsFields DEF Moves

(* Moving on, as what its process has become.                               *)
LEMMA GotoMoves ==
  ASSUME ProcsType, NEW p \in Procs, NEW step \in Steps, Goto(p, step)
  PROVE Moves(p, step, {})
  BY ReadsFields DEF Moves, Goto, Copies

(* A process that returns is at rest.                                       *)
LEMMA ReturnsRests ==
  ASSUME ProcsType, NEW p \in Procs, NEW W, Returns(p, W)
  PROVE proc'[p] = Rest /\ Idle(p)'
  BY ReturnsIs DEF Rest, Idle, At

(* The names of the steps.                                                  *)
LEMMA StepsAre ==
  /\ Open \subseteq Steps /\ Finishing \subseteq Steps /\ Ending \subseteq Steps
  /\ "idle" \in Steps /\ \A w \in {"barrier", "interrupting", "terminate", "stopped", "exited"} : w \in Steps
  BY DEF Open, Finishing, Ending, Steps

(* Each step of the ladder leaves its process with what the next step needs *)
(* to know.                                                                 *)
LEMMA SubmitKnows ==
  ASSUME Inv, PreparesAfresh, NEW p \in {"queue", "pump"}, Submitting(p)
  PROVE Idle(p)' \/ (proc'[p].pc \in Open /\ SubmitterOK(p)')
  <1> SUFFICES ASSUME NEW s, s = proc[p].sub, NEW o, o = proc[p].ord, NEW g, g = proc[p].gen
               PROVE Idle(p)' \/ (proc'[p].pc \in Open /\ SubmitterOK(p)')
    OBVIOUS
  <1>0. /\ TypeOK /\ Typed /\ ProcsType /\ p \in Procs /\ proc[p] \in ProcessType
        /\ (proc[p].pc \in Open => SubmitterOK(p))
        /\ (SubmitterOK(p) => s \in Subs)
        /\ AfterExecute(p) = "record"
    <2>1. TypeOK /\ Typed /\ ProcsType /\ p \in Procs /\ proc[p] \in ProcessType
      BY InvParts, TypeParts DEF Procs, ProcsType
    <2>2. proc[p].pc \in Open => SubmitterOK(p)
      BY DEF Inv, QueueSubmits, PumpSubmits, Open
    <2>3. (SubmitterOK(p) => s \in Subs) /\ AfterExecute(p) = "record"
      BY Bounds DEF SubmitterOK, AfterExecute
    <2> QED BY <2>1, <2>2, <2>3
  <1>1. ASSUME NEW t \in Subs, SubmitStart(p, t) PROVE proc'[p].pc \in Open /\ SubmitterOK(p)'
    <2> DEFINE next == [Rest EXCEPT !.pc = "refresh", !.sub = t, !.fresh = {"sub"}]
    <2>1. next \in ProcessType /\ next.pc = "refresh" /\ next.sub = t
      BY RestIs DEF ProcessType, Steps, Copies, Rest
    <2>2. Becomes(p, next, IF sub[t].state = "absent" THEN {"sub"} ELSE {})
      BY <1>1 DEF SubmitStart
    <2> HIDE DEF next
    <2>3. proc'[p].pc = "refresh" /\ proc'[p].sub = t
      BY <1>0, <2>1, <2>2, BecomesIs
    <2>4. crashes = 0 /\ crashes' = 0
      BY <1>0, <1>1, InvParts DEF SubmitStart, LifeOK, Typed, budget
    <2>5. typed[t] = 0 /\ typed'[t] = 0
      <3>1. TypedOK(t)
        BY InvParts DEF RecordsOK, SubsOK
      <3> QED BY <1>1, <3>1 DEF SubmitStart, MayResume, TypedOK, State, Unheld, Submitted, world
    <2>6. State(t)' = "queued"
      BY <1>0, <1>1 DEF SubmitStart, State, TypeOK, Submissions
    <2>7. t \in (IF p = "queue" THEN Controllers \ spent' ELSE Systems)
      BY <1>1 DEF SubmitStart, world
    <2> QED BY <2>3, <2>4, <2>5, <2>6, <2>7 DEF SubmitterOK, Open
  <1>2. CASE SubmitRefresh(p)
    <2>1. CASE SafeBoundary
      <3> DEFINE next == [proc[p] EXCEPT !.pc = "snapshot", !.gen = run.gen + 1, !.fresh = @ \union {"run"}]
      <3>1. proc'[p] = next
        BY <1>0, <1>2, <2>1 DEF SubmitRefresh, ProcsType
      <3>2. proc'[p].pc = "snapshot" /\ proc'[p].sub = s /\ proc'[p].gen = run.gen + 1
        BY <1>0, <3>1 DEF ProcessType
      <3>3. SubmitterOK(p) /\ State(s) = "queued" /\ typed[s] = 0 /\ s # None
        BY <1>0, <1>2, Bounds DEF SubmitRefresh, At, Open, SubmitterOK
      <3>4. FenceFree /\ run.active = NoTurn /\ ~FenceIs(s)
        BY <2>1, <3>3 DEF SafeBoundary, FenceFree, FenceIs, NoFence
      <3>5. UNCHANGED <<run, sub, att, typed, spent, crashes>>
        BY <1>2 DEF SubmitRefresh, records, world, budget
      <3>6. s \in (IF p = "queue" THEN Controllers \ spent' ELSE Systems) /\ crashes' = 0
        BY <3>3, <3>5 DEF SubmitterOK
      <3>7. s \in Controllers => \A q \in Ords : Blank(s, q) /\ Blank(s, q)'
        <4> SUFFICES ASSUME s \in Controllers, NEW q \in Ords PROVE Blank(s, q)
          BY <3>5 DEF Blank, Effect
        <4>1. p = "queue" /\ State(s) \in Starting /\ s \in Subs
          BY <1>0, <3>3, Bounds DEF SubmitterOK, Starting
        <4>2. Barrier(s, q) # "reserved"
          BY <1>2, <2>1, <4>1 DEF PreparesAfresh, Barrier, Ords
        <4>3. ShapeOK(s, q) /\ KnownOK(s, q) /\ Effect(s, q) \in Effects
          BY <1>0, <4>1, InvParts DEF Typed
        <4> QED BY <4>1, <4>2, <4>3 DEF ShapeOK, KnownOK, Blank, Effects
      <3> QED BY <3>2, <3>3, <3>4, <3>5, <3>6, <3>7 DEF SubmitterOK, Open, FenceFree, FenceIs, State
    <2>2. CASE ~SafeBoundary
      BY <1>0, <1>2, <2>2, ReturnsRests DEF SubmitRefresh
    <2> QED BY <2>1, <2>2
  <1>3. CASE SubmitSnapshot(p)
    <2>0. SubmitterOK(p) /\ State(s) = "queued" /\ s \in Subs /\ sub[s].ord < MaxOrdinal /\ proc[p].pc = "snapshot"
      BY <1>0, <1>3 DEF SubmitSnapshot, Writes, At, Open, SubmitterOK, MayPrepare
    <2>1. sub[s].ord + 1 \in Ords /\ sub[s].ord + 1 \in 0 .. MaxOrdinal /\ sub[s].ord \in Int
      BY <1>0, <2>0 DEF Typed, Ords
    <2> DEFINE next == [proc[p] EXCEPT !.pc = "prepare", !.ord = sub[s].ord + 1]
    <2>2. next \in ProcessType /\ next.pc = "prepare" /\ next.sub = s /\ next.ord = sub[s].ord + 1 /\ next.gen = g
          /\ next.fresh = proc[p].fresh
      BY <1>0, <2>1 DEF ProcessType, Steps
    <2>3. Becomes(p, next, {"sub"})
      BY <1>3 DEF SubmitSnapshot
    <2> HIDE DEF next
    <2>4. /\ proc'[p].pc = "prepare" /\ proc'[p].sub = s /\ proc'[p].ord = sub[s].ord + 1 /\ proc'[p].gen = g
          /\ (Has(p, "run")' <=> Has(p, "run"))
      BY <1>0, <2>2, <2>3, BecomesIs DEF Has
    <2>5. UNCHANGED <<run, att, typed, spent, crashes>>
      BY <1>3 DEF SubmitSnapshot, world, budget
    <2>6. sub'[s].state = sub[s].state /\ sub'[s].ord = sub[s].ord + 1 /\ sub'[s].gen = g
      <3>1. sub' = [sub EXCEPT ![s].ord = sub[s].ord + 1, ![s].gen = g]
        BY <1>0, <1>3, <2>0 DEF SubmitSnapshot, TypeOK, Submissions
      <3> QED BY <1>0, <2>0, <3>1 DEF TypeOK, Submissions
    <2>7. Effect(s, sub[s].ord + 1) = "absent"
      <3>1. KnownOK(s, sub[s].ord + 1)
        BY <2>0, <2>1, InvParts
      <3> QED BY <2>1, <3>1 DEF KnownOK
    <2>8. Effect(s, sub[s].ord + 1) = att'[<<s, sub[s].ord + 1>>].effect
      BY <2>5 DEF Effect
    <2>9. /\ s \in (IF p = "queue" THEN Controllers \ spent' ELSE Systems) /\ crashes' = 0 /\ ~FenceIs(s)
          /\ typed[s] = 0
          /\ Has(p, "run") => FenceFree /\ run.active = NoTurn /\ proc[p].gen = run.gen + 1
      BY <2>0, <2>5 DEF SubmitterOK
    <2>10. State(s)' = "queued" /\ sub'[s].ord \in Ords
      BY <2>0, <2>1, <2>6 DEF State
    <2>11. s \in Controllers => \A q \in Ords : Blank(s, q)'
      BY <2>0, <2>5 DEF SubmitterOK, Blank, Effect
    <2> QED BY <2>1, <2>4, <2>5, <2>6, <2>7, <2>8, <2>9, <2>10, <2>11 DEF SubmitterOK, Open, FenceFree, FenceIs,
        Effect, State
  <1>4. CASE SubmitPrepare(p)
    <2>0. SubmitterOK(p) /\ State(s) = "queued" /\ s \in Subs /\ o \in Ords /\ proc[p].pc = "prepare"
      BY <1>0, <1>4 DEF SubmitPrepare, At, Open, SubmitterOK
    <2>1. Moves(p, "fence", {"attempt"})
      BY <1>0, <1>4, WroteMoves, StepsAre DEF SubmitPrepare, Open, Copies
    <2>2. UNCHANGED <<run, sub, typed, spent, crashes>> /\ live
      BY <1>4 DEF SubmitPrepare, world, budget
    <2>3. att'[<<s, o>>].effect = "prepared" /\ att'[<<s, o>>].gen = g
      <3>1. att' = [att EXCEPT ![<<s, o>>] = [effect |-> "prepared", barrier |-> "reserved", gen |-> g]]
        BY <1>4 DEF SubmitPrepare, Mine
      <3>2. AttIs(s, o, "prepared", "reserved", g)
        BY <1>0, <2>0, <3>1, AttMoves
      <3> QED BY <3>2 DEF AttIs
    <2>4. ~Final
      BY <2>2, InvParts DEF LifeOK
    <2> QED BY <2>0, <2>1, <2>2, <2>3, <2>4 DEF SubmitterOK, Open, Moves, Has, FenceFree, FenceIs,
        Effect, State, Final
  <1>5. CASE SubmitBlocked(p) \/ SubmitRefused(p) \/ SubmitLosesPrepare(p) \/ SubmitCancel(p) \/ ExecuteRefused(p)
             \/ TypeFails(p) \/ SubmitCommit(p)
    <2>1. \E W : Returns(p, W)
      BY <1>5, Zenon DEF SubmitBlocked, SubmitRefused, SubmitLosesPrepare, RejectsController,
          SubmitCancel, ExecuteRefused,
            TypeFails, SubmitCommit
    <2> QED BY <1>0, <2>1, ReturnsRests
  <1>6. CASE SubmitFence(p)
    <2>0. SubmitterOK(p) /\ State(s) = "queued" /\ s \in Subs /\ o \in Ords /\ proc[p].pc = "fence" /\ Has(p, "run")
      BY <1>0, <1>6 DEF SubmitFence, Writes, Compares, At, Open, SubmitterOK
    <2>1. Moves(p, "mark", {"run"})
      BY <1>0, <1>6, WroteMoves, StepsAre DEF SubmitFence, Open, Copies
    <2>2. UNCHANGED <<sub, att, typed, spent, crashes>>
      BY <1>6 DEF SubmitFence, world, budget
    <2>3. run'.fence.sub = s /\ run'.fence.ord = o /\ run'.active = run.active /\ run'.gen = run.gen
          /\ run'.lifecycle = run.lifecycle
      BY <1>0, <1>6 DEF SubmitFence, Fence, TypeOK
    <2> QED BY <2>0, <2>1, <2>2, <2>3 DEF SubmitterOK, Open, Moves, Has, Fenced, Effect, State, Final
  <1>7. CASE SubmitLosesFence(p)
    <2>0. SubmitterOK(p) /\ State(s) = "queued" /\ typed[s] = 0
      BY <1>0, <1>7 DEF SubmitLosesFence, At, Open, SubmitterOK
    <2>1. Moves(p, "cancel", {})
      BY <1>0, <1>7, GotoMoves, StepsAre DEF SubmitLosesFence, Open
    <2>2. UNCHANGED <<sub, typed, spent, crashes>>
      BY <1>7 DEF SubmitLosesFence, records, world
    <2> QED BY <2>0, <2>1, <2>2 DEF SubmitterOK, Open, Moves, State
  <1>8. CASE SubmitMark(p)
    <2>0. SubmitterOK(p) /\ State(s) = "queued" /\ s \in Subs /\ o \in Ords /\ proc[p].pc = "mark"
      BY <1>0, <1>8 DEF SubmitMark, Writes, At, Open, SubmitterOK
    <2>1. Moves(p, "advance", {"sub"})
      BY <1>0, <1>8, WroteMoves, StepsAre DEF SubmitMark, Open, Copies
    <2>2. UNCHANGED <<run, att, typed, spent, crashes>>
      BY <1>8 DEF SubmitMark, world, budget
    <2>3. sub'[s].state = "prepared" /\ sub'[s].gen = sub[s].gen
      BY <1>0, <1>8, <2>0 DEF SubmitMark, TypeOK, Submissions
    <2> QED BY <2>0, <2>1, <2>2, <2>3 DEF SubmitterOK, Open, Moves, Has, Fenced, Effect, State, Final
  <1>9. CASE SubmitAdvance(p)
    <2>0. SubmitterOK(p) /\ State(s) = "prepared" /\ s \in Subs /\ o \in Ords /\ proc[p].pc = "advance" /\ Has(p, "run")
      BY <1>0, <1>9 DEF SubmitAdvance, Writes, Compares, At, Open, SubmitterOK
    <2>1. Moves(p, "execute", {"run"})
      BY <1>0, <1>9, WroteMoves, StepsAre DEF SubmitAdvance, Open, Copies
    <2>2. UNCHANGED <<sub, att, typed, spent, crashes>>
      BY <1>9 DEF SubmitAdvance, world, budget
    <2>3. run'.fence.sub = run.fence.sub /\ run'.fence.ord = run.fence.ord /\ run'.active = run.active
          /\ run'.fence.phase = "submission-prepared" /\ run'.gen = run.gen /\ run'.lifecycle = run.lifecycle
      BY <1>0, <1>9 DEF SubmitAdvance, Phased, TypeOK
    <2> QED BY <2>0, <2>1, <2>2, <2>3 DEF SubmitterOK, Open, Moves, Has, Fenced, Effect, State, Final
  <1>10. CASE Execute(p)
    <2>0. SubmitterOK(p) /\ State(s) = "prepared" /\ s \in Subs /\ o \in Ords /\ proc[p].pc = "execute"
      BY <1>0, <1>10 DEF Execute, At, Open, SubmitterOK
    <2>1. Moves(p, "type", {"attempt"})
      BY <1>0, <1>10, WroteMoves, StepsAre DEF Execute, Open, Copies
    <2>2. UNCHANGED <<run, sub, typed, spent, crashes>>
      BY <1>10 DEF Execute, budget
    <2>3. att'[<<s, o>>].effect = "executing"
      <3>1. AttIs(s, o, "executing", Barrier(s, o), att[<<s, o>>].gen)
        BY <1>0, <1>10, <2>0, AttMoves DEF Execute, Mine
      <3> QED BY <3>1 DEF AttIs
    <2> QED BY <2>0, <2>1, <2>2, <2>3 DEF SubmitterOK, Open, Moves, Has, Fenced, Effect, State, Final
  <1>11. CASE ExecuteAgain(p)
    BY <1>0, <1>11 DEF ExecuteAgain, At, Open, SubmitterOK, Mine, Effect
  <1>12. CASE Type(p)
    <2>0. SubmitterOK(p) /\ State(s) = "prepared" /\ s \in Subs /\ o \in Ords /\ proc[p].pc = "type"
          /\ att[Mine(p)].effect = "executing"
      BY <1>0, <1>12 DEF Type, At, Open, SubmitterOK, Effect, Mine
    <2>1. Wrote(p, "record", {"attempt"}) /\ Uncertain(<<s, o>>)
      BY <1>0, <1>12, <2>0 DEF Type, Mine
    <2>2. Moves(p, "record", {"attempt"})
      BY <1>0, <2>1, WroteMoves, StepsAre DEF Open, Copies
    <2>3. UNCHANGED <<run, sub, spent, crashes>>
      BY <1>12, Zenon DEF Type, budget
    <2>4. att'[<<s, o>>].effect = "submitted"
      BY <1>0, <2>0, <2>1, AttMoves DEF AttIs
    <2> QED BY <2>0, <2>2, <2>3, <2>4 DEF SubmitterOK, Open, Moves, Has, Fenced, Effect, State, Final
  <1>13. CASE SubmitRecord(p)
    <2>0. SubmitterOK(p) /\ State(s) = "prepared" /\ s \in Subs /\ o \in Ords /\ proc[p].pc = "record"
      BY <1>0, <1>13 DEF SubmitRecord, Writes, At, Open, SubmitterOK
    <2>1. Moves(p, "activate", {"sub"})
      BY <1>0, <1>13, WroteMoves, StepsAre DEF SubmitRecord, Open, Copies
    <2>2. UNCHANGED <<run, att, typed, spent, crashes>>
      BY <1>13 DEF SubmitRecord, world, budget
    <2>3. sub'[s].state = Submitted /\ sub'[s].gen = sub[s].gen
      BY <1>0, <1>13, <2>0 DEF SubmitRecord, TypeOK, Submissions
    <2> QED BY <2>0, <2>1, <2>2, <2>3 DEF SubmitterOK, Open, Moves, Has, Fenced, Effect, State, Final
  <1>14. CASE SubmitActivate(p)
    <2>0. SubmitterOK(p) /\ s \in Subs
      BY <1>0, <1>14 DEF SubmitActivate, Writes, At, Open
    <2>1. Moves(p, "commit", {"run"})
      BY <1>0, <1>14, WroteMoves, StepsAre DEF SubmitActivate, Open, Copies
    <2>2. UNCHANGED <<spent, crashes>>
      BY <1>14 DEF SubmitActivate, world, budget
    <2> QED BY <2>0, <2>1, <2>2 DEF SubmitterOK, Open, Moves
  <1> QED BY <1>1, <1>2, <1>3, <1>4, <1>5, <1>6, <1>7, <1>8, <1>9, <1>10, <1>11, <1>12, <1>13, <1>14
      DEF Submitting

(* What the others' processes leave undone.                                 *)
LEMMA EndingKnows ==
  ASSUME Inv, NEW p \in Procs, Loses(p) \/ Fails(p)
  PROVE Idle(p)' \/ (At(p, "fence") /\ Moves(p, "cancel", {}) /\ Loses(p))
  <1>0. ProcsType /\ "cancel" \in Steps
    BY InvParts, TypeParts DEF Steps
  <1>1. CASE Fails(p)
    BY <1>0, <1>1, ReturnsRests DEF Fails
  <1>2. CASE Loses(p)
    BY <1>0, <1>2, ReturnsRests, GotoMoves DEF Loses
  <1> QED BY <1>1, <1>2

(* The fields of a process that takes up new work.                          *)
LEMMA NewFields ==
  ASSUME NEW step, NEW s, NEW o, NEW g, NEW W
  PROVE LET next == [Rest EXCEPT !.pc = step, !.sub = s, !.ord = o, !.gen = g, !.fresh = W] IN
        next.pc = step /\ next.sub = s /\ next.ord = o /\ next.gen = g /\ next.fresh = W
  BY DEF Rest

(* The new locals of a process are what was assigned.                       *)
LEMMA NewIs ==
  ASSUME Inv, NEW p \in Procs, NEW next, proc' = [proc EXCEPT ![p] = next]
  PROVE proc'[p] = next
  BY InvParts, TypeParts DEF ProcsType

(* The same of completing a turn.                                           *)
LEMMA CompletingKnows ==
  ASSUME Inv, Completing
  PROVE Idle("queue")' \/ (proc'["queue"].pc \in Finishing /\ CompleterOK')
  <1> SUFFICES ASSUME NEW t, t = proc["queue"].sub, NEW o, o = proc["queue"].ord, NEW g, g = proc["queue"].gen
               PROVE Idle("queue")' \/ (proc'["queue"].pc \in Finishing /\ CompleterOK')
    OBVIOUS
  <1>0. /\ TypeOK /\ Typed /\ CompleterOK /\ ProcsType /\ "queue" \in Procs /\ Finishing \subseteq Steps
        /\ (proc["queue"].pc \in Finishing => t \in Subs /\ sub[t].gen \in Int /\ run.gen \in Int)
        /\ UNCHANGED <<world, budget>>
    <2>1. UNCHANGED <<world, budget>>
      BY DEF Completing, CompleteStart, CompleteRepairs, CompleteFences, CompleteSettles, CompleteRefreshes,
         CompleteRun, CompleteSub, CompleteClear
    <2>2. Typed
      BY InvParts
    <2>3. proc["queue"].pc \in Finishing => t \in Subs
      BY DEF Inv, CompleterOK
    <2> QED BY <2>1, <2>2, <2>3, InvParts, TypeParts, StepsAre DEF Inv, Procs, Typed
  <1>c. crashes' = crashes
    BY <1>0 DEF budget
  <1>1. ASSUME NEW s \in Subs, CompleteStart(s)
        PROVE proc'["queue"].pc \in Finishing /\ CompleterOK'
    <2>0. /\ CompleteStep(s) \in {"repairSub", "completeClear", "completing", "settle"}
          /\ phase = "up" /\ UNCHANGED <<run, sub, att>>
      BY <1>1 DEF CompleteStart, CompleteStep, records
    <2>1. /\ proc'["queue"].pc = CompleteStep(s) /\ proc'["queue"].sub = s /\ proc'["queue"].ord = sub[s].ref
          /\ proc'["queue"].gen = run.gen /\ proc'["queue"].fresh = {"run", "sub"}
      <3> DEFINE step == CompleteStep(s)
                 next == [Rest EXCEPT !.pc = step, !.sub = s, !.ord = sub[s].ref, !.gen = run.gen,
                                      !.fresh = {"run", "sub"}]
      <3>1. proc' = [proc EXCEPT !["queue"] = next]
        BY <1>1 DEF CompleteStart
      <3>2. next.pc = step /\ next.sub = s /\ next.ord = sub[s].ref /\ next.gen = run.gen /\ next.fresh = {"run", "sub"}
        BY NewFields
      <3> HIDE DEF step, next
      <3>3. proc'["queue"] = next
        BY <1>0, <3>1, NewIs
      <3> QED BY <3>2, <3>3 DEF step
    <2>2. DoneOK(s) /\ ActivatedOK(s) /\ FencedOK(s) /\ sub[s].gen \in Int /\ run.gen \in Int
      BY <1>0, InvParts DEF Typed
    <2>3. CASE CompleteStep(s) \in {"repairSub", "completeClear"}
      <3>1. run.last = s /\ State(s) = (IF CompleteStep(s) = "completeClear" THEN "completed" ELSE Submitted)
            /\ (CompleteStep(s) = "completeClear" => FenceIs(s))
        BY <2>3 DEF CompleteStep, State
      <3>2. sub[s].gen <= run.gen
        BY <2>2, <3>1 DEF DoneOK
      <3> QED BY <2>0, <2>1, <2>3, <3>1, <3>2 DEF CompleterOK, Finishing, State, FenceIs
    <2>4. CASE CompleteStep(s) \in {"completing", "settle"}
      <3>1. ~Final /\ TupleMatches(s) /\ State(s) = Submitted
        BY <2>4 DEF CompleteStep, State
      <3>2. crashes = 0
        BY <1>0, <2>0, <3>1, InvParts DEF LifeOK, Typed
      <3>3. sub[s].gen = run.gen /\ sub[s].gen <= run.gen
        BY <2>2, <3>1 DEF TupleMatches, ActivatedOK
      <3>4. sub[s].ref \in Ords
        BY <2>2, <3>1 DEF TupleMatches, FencedOK
      <3>5. run.active.turn = s /\ FenceIs(s)
        BY <3>1 DEF TupleMatches
      <3> QED BY <1>c, <2>0, <2>1, <2>4, <3>1, <3>2, <3>3, <3>4, <3>5 DEF CompleterOK, Finishing, State,
          FenceIs
    <2> QED BY <2>0, <2>3, <2>4
  <1>2. CASE CompleteRepairs
    <2>0. t \in Subs /\ run.last = t /\ sub[t].gen <= run.gen
      BY <1>0, <1>2 DEF CompleteRepairs, Writes, At, CompleterOK, Finishing
    <2>1. sub'[t].state = "completed" /\ sub'[t].gen = sub[t].gen /\ run' = run
      BY <1>0, <1>2, <2>0 DEF CompleteRepairs, TypeOK, Submissions
    <2>2. CASE FenceIs(t)
      <3>1. Moves("queue", "completeClear", {"sub"})
        BY <1>0, <1>2, <2>2, WroteMoves DEF CompleteRepairs, Finishing, Copies
      <3> QED BY <2>0, <2>1, <2>2, <3>1 DEF Moves, CompleterOK, Finishing, State, FenceIs
    <2>3. CASE ~FenceIs(t)
      BY <1>0, <1>2, <2>3, ReturnsRests DEF CompleteRepairs
    <2> QED BY <2>2, <2>3
  <1>3. CASE CompleteFences
    <2>0. t \in Subs /\ sub[t].gen <= run.gen /\ crashes = 0 /\ State(t) = Submitted /\ g = sub[t].gen /\ o \in Ords
      BY <1>0, <1>3 DEF CompleteFences, Writes, At, CompleterOK, Finishing
    <2>1. sub' = sub /\ run'.gen = run.gen
      BY <1>0, <1>3 DEF CompleteFences, Phased, TypeOK
    <2>2. Moves("queue", "settle", {"run"})
      BY <1>0, <1>3, WroteMoves DEF CompleteFences, Finishing, Copies
    <2> QED BY <1>c, <2>0, <2>1, <2>2 DEF Moves, CompleterOK, Finishing, State
  <1>4. CASE CompleteSettles
    <2>0. /\ t \in Subs /\ sub[t].gen <= run.gen /\ crashes = 0 /\ State(t) = Submitted /\ g = sub[t].gen /\ o \in Ords
          /\ sub' = sub /\ run' = run
      BY <1>0, <1>4 DEF CompleteSettles, At, CompleterOK, Finishing
    <2>1. CASE Returns("queue", {})
      BY <1>0, <2>1, ReturnsRests
    <2>2. CASE /\ InProvider(<<t, o>>) \/ att[<<t, o>>].barrier \in Completed
               /\ att' = [att EXCEPT ![<<t, o>>].barrier =
                          CASE @ = "active" -> "completed"
                            [] @ = "interrupted" -> "completed-interrupted"
                            [] OTHER -> @]
               /\ Wrote("queue", "refreshed", {"attempt"})
      <3>1. Moves("queue", "refreshed", {"attempt"})
        BY <1>0, <2>2, WroteMoves DEF Finishing, Copies
      <3>2. att'[<<t, o>>].barrier \in Completed
        <4>1. att \in [Attempts -> AttemptType] /\ <<t, o>> \in Attempts
          BY <1>0, <2>0 DEF TypeOK, AttemptType, Attempts, Ords
        <4>2. att'[<<t, o>>].barrier = (CASE att[<<t, o>>].barrier = "active" -> "completed"
                            [] att[<<t, o>>].barrier = "interrupted" -> "completed-interrupted"
                            [] OTHER -> att[<<t, o>>].barrier)
          BY <2>2, <4>1 DEF AttemptType
        <4> QED BY <2>2, <4>2 DEF InProvider, Completed
      <3>3. Settled(t, o)'
        BY <2>0, <3>2 DEF Settled, Barrier
      <3> QED BY <1>c, <2>0, <3>1, <3>3 DEF Moves, CompleterOK, Finishing, State, Settled, Barrier
    <2> QED BY <1>4, <2>1, <2>2 DEF CompleteSettles, Mine
  <1>5. CASE CompleteRefreshes
    <2>0. /\ t \in Subs /\ sub[t].gen <= run.gen /\ crashes = 0 /\ State(t) = Submitted /\ g = sub[t].gen /\ o \in Ords
          /\ Settled(t, o) /\ UNCHANGED <<run, sub, att>>
      BY <1>0, <1>5 DEF CompleteRefreshes, At, CompleterOK, Finishing, records
    <2>1. CASE Returns("queue", {})
      BY <1>0, <2>1, ReturnsRests
    <2>2. CASE run.active.turn = t /\ run.gen = g /\ FenceIs(t) /\ run.fence.ord = o /\ Reads("queue", "complete", {"run"})
      <3>1. Moves("queue", "complete", {"run"})
        BY <1>0, <2>2, ReadsMoves DEF Finishing, Copies
      <3> QED BY <1>c, <2>0, <2>2, <3>1 DEF Moves, CompleterOK, Finishing, State, Settled, Barrier, FenceIs
    <2> QED BY <1>5, <2>1, <2>2 DEF CompleteRefreshes
  <1>6. CASE CompleteRun
    <2>0. /\ t \in Subs /\ sub[t].gen <= run.gen /\ crashes = 0 /\ State(t) = Submitted
          /\ FenceIs(t) /\ UNCHANGED <<sub, att>> /\ sub[t].gen \in Int /\ run.gen \in Int
      BY <1>0, <1>6 DEF CompleteRun, Writes, Compares, At, CompleterOK, Finishing
    <2>1. run'.gen = run.gen + 1 /\ run'.last = t /\ run'.fence.sub = t
      BY <1>0, <1>6, <2>0 DEF CompleteRun, TypeOK, FenceIs
    <2>2. Moves("queue", "completeSub", {"run"})
      BY <1>0, <1>6, WroteMoves DEF CompleteRun, Finishing, Copies
    <2>3. sub[t].gen <= run'.gen
      BY <2>0, <2>1
    <2> QED BY <1>c, <2>0, <2>1, <2>2, <2>3 DEF Moves, CompleterOK, Finishing, State, FenceIs
  <1>7. CASE CompleteSub
    <2>0. t \in Subs /\ run.last = t /\ sub[t].gen <= run.gen /\ FenceIs(t)
      BY <1>0, <1>7 DEF CompleteSub, Writes, At, CompleterOK, Finishing
    <2>1. sub'[t].state = "completed" /\ sub'[t].gen = sub[t].gen /\ run' = run
      BY <1>0, <1>7, <2>0 DEF CompleteSub, TypeOK, Submissions
    <2>2. Moves("queue", "completeClear", {"sub"})
      BY <1>0, <1>7, WroteMoves DEF CompleteSub, Finishing, Copies
    <2> QED BY <2>0, <2>1, <2>2 DEF Moves, CompleterOK, Finishing, State, FenceIs
  <1>8. CASE CompleteClear
    BY <1>0, <1>8, ReturnsRests DEF CompleteClear
  <1> QED BY <1>1, <1>2, <1>3, <1>4, <1>5, <1>6, <1>7, <1>8 DEF Completing

(* The same of closing a turn.                                              *)
LEMMA ClosingKnows ==
  ASSUME Inv, Closing
  PROVE Idle("queue")' \/ (proc'["queue"].pc \in Ending /\ CloserOK')
  <1> SUFFICES ASSUME NEW t, t = proc["queue"].sub, NEW o, o = proc["queue"].ord
               PROVE Idle("queue")' \/ (proc'["queue"].pc \in Ending /\ CloserOK')
    OBVIOUS
  <1>0. /\ TypeOK /\ Typed /\ CloserOK /\ ProcsType /\ "queue" \in Procs /\ Ending \subseteq Steps
        /\ (proc["queue"].pc \in Ending => t \in Subs /\ crashes > 0 /\ State(t) = "recovery-required")
        /\ typed' = typed /\ crashes' = crashes
    <2>1. typed' = typed /\ crashes' = crashes
      BY DEF Closing, CloseNoAttempt, ClosePreEffect, CloseActivated, CloseStart,
         CloseCancels, CloseClears, CloseRejects, CloseBarrier, CloseRun, CloseFinal, world, budget
    <2>2. proc["queue"].pc \in Ending => t \in Subs /\ crashes > 0 /\ State(t) = "recovery-required"
      BY DEF Inv, CloserOK
    <2> QED BY <2>1, <2>2, InvParts, TypeParts, StepsAre DEF Inv, Procs
  <1>1. ASSUME NEW s \in Subs, CloseNoAttempt(s) \/ ClosePreEffect(s) \/ CloseActivated(s)
        PROVE proc'["queue"].pc \in Ending /\ CloserOK'
    <2> DEFINE q == FirstOrdinal(s)
    <2>0. /\ q \in 0 .. MaxOrdinal /\ (q # 0 => q \in Ords) /\ 0 \notin Ords
          /\ TypedOK(s) /\ FencedOK(s) /\ (q \in Ords => ShapeOK(s, q))
      <3>1. q \in 0 .. MaxOrdinal /\ (q # 0 => q \in Ords)
        BY FirstIs
      <3>2. 0 \notin Ords
        BY Bounds DEF Ords
      <3>3. TypedOK(s) /\ FencedOK(s) /\ (q \in Ords => ShapeOK(s, q))
        BY InvParts DEF RecordsOK, SubsOK
      <3> QED BY <3>1, <3>2, <3>3
    <2>1. ASSUME NEW step \in Ending, CloseStart(s, step)
          PROVE /\ proc'["queue"].pc = step /\ proc'["queue"].sub = s /\ proc'["queue"].ord = q
                /\ UNCHANGED <<run, sub, att>> /\ State(s) = "recovery-required" /\ crashes > 0
      <3> DEFINE next == [Rest EXCEPT !.pc = step, !.sub = s, !.ord = q, !.gen = sub[s].gen,
                                      !.fresh = {"run", "sub", "attempt"}]
      <3>1. proc' = [proc EXCEPT !["queue"] = next]
        BY <2>1 DEF CloseStart
      <3>2. next.pc = step /\ next.sub = s /\ next.ord = q
        BY NewFields
      <3> HIDE DEF next
      <3>3. proc'["queue"] = next
        BY <1>0, <3>1, NewIs
      <3>4. UNCHANGED <<run, sub, att>> /\ State(s) = "recovery-required"
        BY <2>1 DEF CloseStart, records, State
      <3> QED BY <2>0, <3>2, <3>3, <3>4 DEF TypedOK
    <2>2. CASE CloseNoAttempt(s)
      <3>1. CloseStart(s, "closeReject") /\ ~FenceIs(s) /\ run.active.turn # s /\ sub[s].ref = 0
        BY <2>2 DEF CloseNoAttempt
      <3>2. State(s) = "recovery-required"
        BY <3>1 DEF CloseStart, State
      <3>3. typed[s] = 0
        BY <2>0, <3>1, <3>2 DEF TypedOK, Shut
      <3>4. "closeReject" \in Ending
        BY DEF Ending
      <3> QED BY <1>0, <2>1, <3>1, <3>3, <3>4 DEF CloserOK, State, FenceIs
    <2>3. CASE ClosePreEffect(s)
      <3>1. /\ q \in Ords /\ sub[s].ref = q /\ run.active.turn # s
            /\ Effect(s, q) \in {"prepared", "rejected"} /\ Barrier(s, q) \in {"reserved", "released"}
            /\ FenceFree \/ Fenced(s, q)
        BY <2>0, <2>3 DEF ClosePreEffect, NoEffect, Reserved, Effect, Barrier, FenceIs, Fenced, ShapeOK
      <3>2. typed[s] = 0 /\ ~Busy(s, q) /\ (FenceFree => ~FenceIs(s))
        <4>1. State(s) = "recovery-required" /\ s # None
          BY <2>3, Bounds DEF ClosePreEffect, CloseStart, State
        <4>2. FenceFree => ~FenceIs(s)
          BY <4>1 DEF FenceFree, FenceIs, NoFence
        <4> QED BY <2>0, <3>1, <4>1, <4>2 DEF TypedOK, Shut, Busy, Taken, Fenced, FenceIs
      <3>3. CASE CloseStart(s, "closeCancelOnly") /\ FenceFree
        <4>1. "closeCancelOnly" \in Ending
          BY DEF Ending
        <4> QED BY <1>0, <2>1, <3>1, <3>2, <3>3, <4>1 DEF CloserOK, State, FenceIs
      <3>4. CASE CloseStart(s, "closeCancel") /\ ~FenceFree
        <4>1. "closeCancel" \in Ending
          BY DEF Ending
        <4> QED BY <1>0, <2>1, <3>1, <3>2, <3>4, <4>1 DEF CloserOK, State, Fenced, Busy, Taken, Effect,
            Barrier
      <3>5. CASE CloseStart(s, "closeReject") /\ FenceFree
        <4>1. "closeReject" \in Ending
          BY DEF Ending
        <4> QED BY <1>0, <2>1, <3>1, <3>2, <3>5, <4>1 DEF CloserOK, State, FenceIs
      <3>6. CASE CloseStart(s, "closeClear") /\ ~FenceFree
        <4>1. "closeClear" \in Ending
          BY DEF Ending
        <4> QED BY <1>0, <2>1, <3>1, <3>2, <3>6, <4>1 DEF CloserOK, State, Fenced, Busy, Taken, Effect,
            Barrier
      <3> QED BY <2>3, <3>3, <3>4, <3>5, <3>6 DEF ClosePreEffect
    <2>4. CASE CloseActivated(s)
      <3>1. q \in Ords /\ sub[s].ref = q
        BY <2>0, <2>4 DEF CloseActivated
      <3>2. CASE run.lifecycle = "failed" /\ Barrier(s, q) = "closed" /\ CloseStart(s, "closeFinal")
        <4>1. "closeFinal" \in Ending
          BY DEF Ending
        <4> QED BY <1>0, <2>1, <3>1, <3>2, <4>1 DEF CloserOK, State, Barrier
      <3>3. CASE FenceIs(s) /\ CloseStart(s, "closeBarrier")
        <4>1. "closeBarrier" \in Ending
          BY DEF Ending
        <4> QED BY <1>0, <2>1, <3>1, <3>3, <4>1 DEF CloserOK, State, FenceIs
      <3>4. CASE FenceIs(s) /\ Barrier(s, q) = "closed" /\ CloseStart(s, "closeRun")
        <4>1. "closeRun" \in Ending
          BY DEF Ending
        <4> QED BY <1>0, <2>1, <3>1, <3>4, <4>1 DEF CloserOK, State, FenceIs, Barrier
      <3> QED BY <2>4, <3>2, <3>3, <3>4 DEF CloseActivated, Barrier
    <2> QED BY <1>1, <2>2, <2>3, <2>4
  <1>2. CASE CloseCancels
    <2>0. /\ t \in Subs /\ o \in Ords /\ proc["queue"].pc \in {"closeCancel", "closeCancelOnly"} /\ UNCHANGED <<run, sub>>
          /\ typed[t] = 0 /\ run.active.turn # t
          /\ (At("queue", "closeCancel") => Fenced(t, o)) /\ (~At("queue", "closeCancel") => ~FenceIs(t))
          /\ crashes > 0 /\ State(t) = "recovery-required"
      BY <1>0, <1>2 DEF CloseCancels, CloserOK, Ending, At
    <2>1. CASE Returns("queue", {})
      BY <1>0, <2>1, ReturnsRests
    <2>2. CASE Cancelled(<<t, o>>) /\ Wrote("queue", IF At("queue", "closeCancel") THEN "closeClear" ELSE "closeReject", {"attempt"})
      <3>1. AttIs(t, o, "rejected", "released", att[<<t, o>>].gen)
        BY <1>0, <2>0, <2>2, AttMoves
      <3>2. Effect(t, o)' = "rejected" /\ Barrier(t, o)' = "released"
        BY <3>1 DEF AttIs, Effect, Barrier
      <3>3. CASE At("queue", "closeCancel")
        <4>1. Moves("queue", "closeClear", {"attempt"})
          BY <1>0, <2>2, <3>3, WroteMoves DEF Ending, Copies
        <4> QED BY <1>0, <2>0, <3>2, <3>3, <4>1 DEF Moves, CloserOK, Ending, State, Fenced, Busy, Taken,
            Effect, Barrier
      <3>4. CASE ~At("queue", "closeCancel")
        <4>1. Moves("queue", "closeReject", {"attempt"})
          BY <1>0, <2>2, <3>4, WroteMoves DEF Ending, Copies
        <4> QED BY <1>0, <2>0, <3>4, <4>1 DEF Moves, CloserOK, Ending, State, FenceIs
      <3> QED BY <3>3, <3>4
    <2> QED BY <1>2, <2>1, <2>2 DEF CloseCancels, Mine
  <1>3. CASE CloseClears
    <2>0. /\ t \in Subs /\ crashes > 0 /\ State(t) = "recovery-required" /\ typed[t] = 0 /\ run.active.turn # t /\ t # None
      BY <1>0, <1>3, Bounds DEF CloseClears, Writes, CloserOK, Ending, At
    <2>1. run'.fence.sub = None /\ run'.active = run.active /\ sub' = sub
      BY <1>0, <1>3 DEF CloseClears, TypeOK, NoFence
    <2>2. Moves("queue", "closeReject", {"run"})
      BY <1>0, <1>3, WroteMoves DEF CloseClears, Ending, Copies
    <2> QED BY <1>0, <2>0, <2>1, <2>2 DEF Moves, CloserOK, Ending, State, FenceIs
  <1>4. CASE CloseRejects \/ CloseFinal
    BY <1>0, <1>4, ReturnsRests DEF CloseRejects, CloseFinal
  <1>5. CASE CloseBarrier
    <2>0. /\ t \in Subs /\ o \in Ords /\ UNCHANGED <<run, sub>> /\ FenceIs(t) /\ sub[t].ref = o
          /\ crashes > 0 /\ State(t) = "recovery-required"
      BY <1>0, <1>5 DEF CloseBarrier, CloserOK, Ending, At
    <2>1. CASE Returns("queue", {})
      BY <1>0, <2>1, ReturnsRests
    <2>2. CASE att' = [att EXCEPT ![<<t, o>>].barrier = "closed"] /\ Wrote("queue", "closeRun", {"attempt"})
      <3>1. AttIs(t, o, Effect(t, o), "closed", att[<<t, o>>].gen)
        BY <1>0, <2>0, <2>2, AttMoves
      <3>2. Barrier(t, o)' = "closed"
        BY <3>1 DEF AttIs, Barrier
      <3>3. Moves("queue", "closeRun", {"attempt"})
        BY <1>0, <2>2, WroteMoves DEF Ending, Copies
      <3> QED BY <1>0, <2>0, <3>2, <3>3 DEF Moves, CloserOK, Ending, State, FenceIs, Barrier
    <2> QED BY <1>5, <2>1, <2>2 DEF CloseBarrier, Mine
  <1>6. CASE CloseRun
    <2>0. /\ t \in Subs /\ o \in Ords /\ UNCHANGED <<sub, att>> /\ sub[t].ref = o /\ Barrier(t, o) = "closed"
          /\ crashes > 0 /\ State(t) = "recovery-required"
      BY <1>0, <1>6 DEF CloseRun, Writes, CloserOK, Ending, At
    <2>1. run'.lifecycle = "failed"
      BY <1>0, <1>6 DEF CloseRun, TypeOK
    <2>2. Moves("queue", "closeFinal", {"run"})
      BY <1>0, <1>6, WroteMoves DEF CloseRun, Ending, Copies
    <2> QED BY <1>0, <2>0, <2>1, <2>2 DEF Moves, CloserOK, Ending, State, Barrier
  <1> QED BY <1>1, <1>2, <1>3, <1>4, <1>5, <1>6 DEF Closing

(* The same of interrupts, stops and exits.                                 *)
LEMMA OpsKnows ==
  ASSUME Inv, OpsStep
  PROVE OpsOK' /\ (crashes' > 0 => Idle("ops")')
  <1> SUFFICES ASSUME NEW t, t = proc["ops"].sub
               PROVE OpsOK' /\ (crashes' > 0 => Idle("ops")')
    OBVIOUS
  <1>0. /\ TypeOK /\ Typed /\ OpsOK /\ LifeOK /\ ProcsType /\ "ops" \in Procs /\ proc["ops"] \in ProcessType
        /\ \A w \in {"barrier", "interrupting", "terminate", "stopped", "exited"} : w \in Steps
        /\ crashes' = crashes
    <2>1. crashes' = crashes
      BY DEF OpsStep, InterruptStart, InterruptBarrier, InterruptRun, EndTurn, StopStart, Terminate,
          TerminateFails, StopDone,
        ProviderExits, ObserveExit, SettleExit, budget
    <2> QED BY <2>1, InvParts, TypeParts, StepsAre DEF Inv, Procs, ProcsType
  <1>i. Idle("ops")' => OpsOK'
    BY DEF Idle, At, OpsOK
  <1>c. (~Idle("ops") \/ (phase = "up" /\ ~Final)) => ~(crashes > 0)
    BY <1>0 DEF LifeOK, Typed
  <1>1. CASE InterruptStart
    <2> DEFINE next == [Rest EXCEPT !.pc = "barrier", !.sub = run.active.turn, !.gen = run.active.gen, !.fresh = {"run"}]
    <2>1. proc' = [proc EXCEPT !["ops"] = next] /\ next.pc = "barrier" /\ next.sub = run.active.turn
      BY <1>1, RestIs DEF InterruptStart, ProcessType
    <2> HIDE DEF next
    <2>2. proc'["ops"] = next
      BY <1>0, <2>1, NewIs
    <2>3. run.active.turn \in Subs \union {Bare} /\ run' = run
      BY <1>0, <1>1, InvParts DEF InterruptStart, Typed, RecordsOK, ActiveOK, records
    <2> QED BY <1>0, <1>1, <1>c, <2>1, <2>2, <2>3 DEF InterruptStart, OpsOK
  <1>2. CASE InterruptBarrier
    <2>0. UNCHANGED <<run, sub, live>> /\ ~Idle("ops") /\ t \in Subs \union {Bare} /\ (Has("ops", "run") => run.active.turn = t)
      BY <1>0, <1>2 DEF InterruptBarrier, world, Idle, At, OpsOK
    <2>1. CASE Returns("ops", {})
      BY <1>0, <1>i, <2>1, ReturnsRests
    <2>2. CASE t = Bare /\ Goto("ops", "interrupting")
      <3>1. Moves("ops", "interrupting", {})
        BY <1>0, <2>2, GotoMoves
      <3> QED BY <1>0, <1>c, <2>0, <2>2, <3>1 DEF Moves, OpsOK, Has
    <2>3. ASSUME NEW o \in 1 .. MaxOrdinal, Target(o), att' = [att EXCEPT ![<<t, o>>].barrier = "interrupted"],
                 Becomes("ops", [proc["ops"] EXCEPT !.pc = "interrupting", !.ord = o], {"attempt"})
          PROVE OpsOK' /\ (crashes' > 0 => Idle("ops")')
      <3> DEFINE next == [proc["ops"] EXCEPT !.pc = "interrupting", !.ord = o]
      <3>1. next \in ProcessType /\ next.pc = "interrupting" /\ next.fresh = proc["ops"].fresh /\ next.sub = t
        <4>1. o \in 0 .. MaxOrdinal
          BY Bounds
        <4> QED BY <1>0, <4>1 DEF ProcessType
      <3> HIDE DEF next
      <3>2. proc'["ops"] = next
        BY <1>0, <2>3, <3>1, BecomesIs DEF next
      <3>3. t \in Subs /\ o \in Ords
        BY <2>3 DEF Target, Named, Ords
      <3>4. AttIs(t, o, Effect(t, o), "interrupted", att[<<t, o>>].gen)
        BY <1>0, <2>3, <3>3, AttMoves
      <3>5. Barrier(t, o)' = "interrupted"
        BY <3>4 DEF AttIs, Barrier
      <3> QED BY <1>0, <1>c, <2>0, <3>1, <3>2, <3>3, <3>5 DEF OpsOK, Has, Barrier
    <2> QED BY <1>2, <2>1, <2>2, <2>3 DEF InterruptBarrier
  <1>3. CASE InterruptRun \/ EndTurn \/ TerminateFails \/ StopDone \/ SettleExit
    <2>1. \E W : Returns("ops", W)
      BY <1>3 DEF InterruptRun, EndTurn, TerminateFails, StopDone, SettleExit
    <2> QED BY <1>0, <1>i, <2>1, ReturnsRests
  <1>4. CASE StopStart
    <2> DEFINE next == [Rest EXCEPT !.pc = "terminate", !.fresh = {"run"}]
    <2>1. next \in ProcessType /\ next.pc = "terminate"
      BY RestIs DEF ProcessType, Steps, Copies, Rest
    <2>2. Becomes("ops", next, {"run"})
      BY <1>4 DEF StopStart
    <2> HIDE DEF next
    <2>3. proc'["ops"] = next
      BY <1>0, <2>1, <2>2, BecomesIs
    <2>4. run'.lifecycle = "stopping"
      BY <1>0, <1>4 DEF StopStart, TypeOK
    <2> QED BY <1>0, <1>4, <1>c, <2>1, <2>3, <2>4 DEF StopStart, OpsOK, Final, FINAL_LIFECYCLES
  <1>5. CASE Terminate
    <2>1. Moves("ops", "stopped", {})
      BY <1>0, <1>5, GotoMoves DEF Terminate
    <2> QED BY <1>0, <1>5, <1>c, <2>1 DEF Moves, OpsOK, Terminate, Idle, At
  <1>6. CASE ProviderExits
    BY <1>0, <1>6 DEF ProviderExits, records, OpsOK, LifeOK, Has, Barrier, Final, Idle, At
  <1>7. CASE ObserveExit
    <2> DEFINE next == [Rest EXCEPT !.pc = "exited", !.fresh = {"run"}]
    <2>1. next \in ProcessType /\ next.pc = "exited"
      BY RestIs DEF ProcessType, Steps, Copies, Rest
    <2>2. Becomes("ops", next, IF run.uncertain THEN {} ELSE {"run"})
      BY <1>7 DEF ObserveExit
    <2> HIDE DEF next
    <2>3. proc'["ops"] = next
      BY <1>0, <2>1, <2>2, BecomesIs
    <2> QED BY <1>0, <1>7, <1>c, <2>1, <2>3 DEF ObserveExit, OpsOK, world
  <1> QED BY <1>1, <1>2, <1>3, <1>4, <1>5, <1>6, <1>7 DEF OpsStep

(* What reconciliation knows after a step of its own.                       *)

(* Recovery at rest needs to know nothing.                                  *)
LEMMA RestKnows == ASSUME Idle(R)' PROVE ReconcilerOK'
  BY DEF Idle, At, ReconcilerOK

(* Recovery remembers the effect of the attempt it has read.                *)
LEMMA ReadsAttemptMoves ==
  ASSUME Inv, S \in Subs, NEW step, NEW o, o \in Ords \union {0}, ReadsAttempt(step, o), att' = att
  PROVE /\ proc'[R].pc = step /\ proc'[R].sub = S /\ proc'[R].ord = o /\ proc'[R].seen = Seen
        /\ o \in Ords => proc'[R].effect = Effect(S, o)
  <1>1. R \in Procs /\ proc[R] \in ProcessType /\ ProcsType
    BY InvParts, TypeParts DEF R, Procs, ProcsType
  <1> DEFINE e == IF o = 0 THEN "absent" ELSE att[<<S, o>>].effect
             next == [proc[R] EXCEPT !.pc = step, !.ord = o, !.effect = e, !.fresh = @ \union {"attempt"}]
  <1>2. o \in Ords => e = Effect(S, o)
    BY Bounds DEF Ords, Effect
  <1> HIDE DEF e
  <1>3. next.pc = step /\ next.sub = S /\ next.ord = o /\ next.effect = e /\ next.seen = Seen
    BY <1>1 DEF ProcessType, S, Seen
  <1>4. proc' = [proc EXCEPT ![R] = next]
    BY <1>1 DEF ReadsAttempt, ProcsType, ProcessType, e
  <1> HIDE DEF next
  <1>5. proc'[R] = next
    BY <1>1, <1>4, NewIs
  <1> QED BY <1>2, <1>3, <1>5

(* Recovery remembers the submission it has taken as its task.              *)
LEMMA TaskMoves ==
  ASSUME Inv, NEW step, NEW s, Task(step, s)
  PROVE proc'[R].pc = step /\ proc'[R].sub = s /\ proc'[R].seen = sub[s]
  <1> DEFINE next == [Rest EXCEPT !.pc = step, !.sub = s, !.seen = sub[s], !.fresh = {"sub"}]
  <1>1. next.pc = step /\ next.sub = s /\ next.seen = sub[s]
    BY DEF Rest
  <1>2. proc' = [proc EXCEPT ![R] = next] /\ R \in Procs
    BY DEF Task, R, Procs
  <1> HIDE DEF next
  <1>3. proc'[R] = next
    BY <1>2, NewIs
  <1> QED BY <1>1, <1>3

(* A controller's submission with no attempt, or with one that is only      *)
(* reserved, was not typed.                                                 *)
LEMMA PreEffectIs ==
  ASSUME Inv, NEW s \in Controllers, State(s) \in {"queued", "prepared"}, FirstOrdinal(s) # 0 => PreEffect(<<s, FirstOrdinal(s)>>)
  PROVE typed[s] = 0 /\ \A q \in Ords : ~Busy(s, q)
  <1> DEFINE o == FirstOrdinal(s)
  <1>1. s \in Subs /\ Typed /\ FirstOK(s) /\ TypedOK(s) /\ FencedOK(s)
    BY Bounds, InvParts DEF RecordsOK, SubsOK
  <1>2. o = 0 => \A q \in Ords : Effect(s, q) \in {"absent", "quarantined"}
    BY <1>1, FirstIs DEF Ordinals, Visible, Effect, Ords
  <1>3. o # 0 => o \in Ords /\ Effect(s, o) = "prepared"
    BY <1>1, FirstIs DEF PreEffect, Reserved, Effect, Ordinals, Ords
  <1>4. \A q \in Ords : Effect(s, q) \in {"absent", "quarantined", "prepared", "rejected"}
    BY <1>1, <1>2, <1>3 DEF FirstOK, Blank
  <1>5. \A q \in Ords : ~Busy(s, q)
    <2> TAKE q \in Ords
    <2>1. ShapeOK(s, q) /\ Effect(s, q) \in {"absent", "quarantined", "prepared", "rejected"}
      BY <1>1, <1>4, InvParts
    <2> QED BY <2>1 DEF ShapeOK, Busy, Taken
  <1>6. typed[s] = 0
    <2>1. FenceIs(s) => run.fence.ord \in Ords
                        /\ Effect(s, run.fence.ord) \in {"absent", "quarantined", "prepared", "rejected"}
      BY <1>1, <1>4 DEF FencedOK
    <2> QED BY <1>1, <2>1 DEF TypedOK
  <1> QED BY <1>5, <1>6

(* Submitting from recovery leaves it with what its next step needs to      *)
(* know.                                                                    *)
LEMMA RecoverySubmitsKnows ==
  ASSUME StartupOnly, Inv, Submitting(R)
  PROVE ReconcilerOK'
  <1> SUFFICES ASSUME NEW s, s = S, NEW o, o = proc[R].ord PROVE ReconcilerOK'
    OBVIOUS
  <1>0. /\ TypeOK /\ Typed /\ ReconcilerOK /\ ProcsType /\ R \in Procs /\ s = proc[R].sub /\ S = proc[R].sub
        /\ AfterExecute(R) = "recRecord"
    BY InvParts, TypeParts DEF Inv, R, S, Procs, AfterExecute
  <1>i. ~Idle(R) => s \in Subs /\ ~live
    BY <1>0, RecoveryIs DEF ReconcilerOK, Idle, At
  <1>w. \A w \in {"prepare", "type", "recRecord"} : w \in Steps
    BY DEF Steps
  <1>1. ASSUME NEW t \in Subs, SubmitStart(R, t) PROVE FALSE
    BY <1>1 DEF SubmitStart, R
  <1>2. CASE SubmitRefresh(R)
    <2>0. s \in Systems /\ State(s) = "queued" /\ ~Final /\ s \in Subs
      BY <1>0, <1>2, <1>i DEF SubmitRefresh, At, Idle, ReconcilerOK
    <2>1. CASE SafeBoundary
      <3> DEFINE next == [proc[R] EXCEPT !.pc = "snapshot", !.gen = run.gen + 1, !.fresh = @ \union {"run"}]
      <3>1. proc'[R] = next
        BY <1>0, <1>2, <2>1 DEF SubmitRefresh, ProcsType
      <3>2. proc[R] \in ProcessType
        BY <1>0 DEF ProcsType
      <3>3. proc'[R].pc = "snapshot" /\ proc'[R].sub = s
        BY <1>0, <3>1, <3>2 DEF ProcessType
      <3>4. ~FenceIs(s) /\ UNCHANGED <<run, sub>>
        BY <1>2, <2>0, <2>1, Bounds DEF SubmitRefresh, SafeBoundary, FenceFree, FenceIs, NoFence, records
      <3> QED BY <2>0, <3>3, <3>4 DEF ReconcilerOK, S, State, Final, FenceIs
    <2>2. CASE ~SafeBoundary
      BY <1>0, <1>2, <2>2, ReturnsRests, RestKnows DEF SubmitRefresh
    <2> QED BY <2>1, <2>2
  <1>3. CASE SubmitSnapshot(R)
    <2>0. s \in Systems /\ State(s) = "queued" /\ ~Final /\ s \in Subs /\ sub[s].ord < MaxOrdinal
      BY <1>0, <1>3, <1>i DEF SubmitSnapshot, Writes, At, Idle, ReconcilerOK, MayPrepare
    <2>1. sub[s].ord + 1 \in 0 .. MaxOrdinal /\ sub[s].ord \in Int
      BY <1>0, <2>0 DEF Typed
    <2> DEFINE next == [proc[R] EXCEPT !.pc = "prepare", !.ord = sub[s].ord + 1]
    <2>2. next \in ProcessType /\ next.pc = "prepare" /\ next.sub = s
      BY <1>0, <1>w, <2>1 DEF ProcsType, ProcessType
    <2>3. Becomes(R, next, {"sub"})
      BY <1>0, <1>3 DEF SubmitSnapshot
    <2> HIDE DEF next
    <2>4. proc'[R].pc = "prepare" /\ proc'[R].sub = s
      BY <1>0, <2>2, <2>3, BecomesIs
    <2>5. sub'[s].state = sub[s].state /\ run' = run
      <3>1. sub' = [sub EXCEPT ![s].ord = sub[s].ord + 1, ![s].gen = proc[R].gen]
        BY <1>0, <1>3, <2>0 DEF SubmitSnapshot, TypeOK, Submissions
      <3> QED BY <1>0, <1>3, <2>0, <3>1 DEF SubmitSnapshot, TypeOK, Submissions
    <2> QED BY <2>0, <2>4, <2>5 DEF ReconcilerOK, S, State, Final
  <1>4. CASE SubmitPrepare(R) \/ SubmitBlocked(R)
    BY <1>4, <1>i DEF SubmitPrepare, SubmitBlocked, At, Idle
  <1>5. CASE SubmitRefused(R) \/ SubmitLosesPrepare(R) \/ ExecuteRefused(R) \/ TypeFails(R)
    <2>1. \E W : Returns(R, W)
      BY <1>5, Zenon DEF SubmitRefused, SubmitLosesPrepare, RejectsController, ExecuteRefused, TypeFails
    <2> QED BY <1>0, <2>1, ReturnsRests, RestKnows
  <1>6. CASE SubmitFence(R) \/ SubmitLosesFence(R) \/ SubmitCancel(R) \/ SubmitMark(R) \/ SubmitAdvance(R)
             \/ SubmitRecord(R) \/ SubmitActivate(R) \/ SubmitCommit(R)
    BY <1>0, <1>6 DEF SubmitFence, SubmitLosesFence, SubmitCancel, SubmitMark, SubmitAdvance,
        SubmitRecord, SubmitActivate,
         SubmitCommit, Writes, At, ReconcilerOK
  <1>7. CASE Execute(R)
    <2>0. /\ s \in Subs /\ State(s) = "prepared" /\ Fenced(s, o) /\ o \in Ords /\ ~Final /\ Seen.state = State(s)
          /\ Seen.gen = sub[s].gen /\ run.fence.phase = "submission-prepared"
      BY <1>0, <1>7, <1>i DEF Execute, At, Idle, ReconcilerOK
    <2>1. Moves(R, "type", {"attempt"})
      BY <1>0, <1>7, <1>w, WroteMoves DEF Execute, Copies
    <2>2. run' = run /\ sub' = sub
      BY <1>7 DEF Execute
    <2>3. att'[<<s, o>>].effect = "executing"
      <3>1. AttIs(s, o, "executing", Barrier(s, o), att[<<s, o>>].gen)
        BY <1>0, <1>7, <2>0, AttMoves DEF Execute, Mine
      <3> QED BY <3>1 DEF AttIs
    <2> QED BY <1>0, <2>0, <2>1, <2>2, <2>3 DEF ReconcilerOK, Moves, S, Seen, State, Fenced, Effect, Final
  <1>8. CASE ExecuteAgain(R) \/ (Type(R) /\ ~Idle(R)')
    <2>0. /\ s \in Subs /\ State(s) = "prepared" /\ Fenced(s, o) /\ o \in Ords /\ ~Final /\ Seen.state = State(s)
          /\ Seen.gen = sub[s].gen
      BY <1>0, <1>8, <1>i DEF ExecuteAgain, Type, At, Idle, ReconcilerOK
    <2>1. run' = run /\ sub' = sub
      BY <1>8 DEF ExecuteAgain, Type
    <2>2. CASE Uncertain(<<s, o>>) /\ Wrote(R, "recRecord", {"attempt"})
      <3>1. Moves(R, "recRecord", {"attempt"})
        BY <1>0, <1>w, <2>2, WroteMoves DEF Copies
      <3>2. AttIs(s, o, "submitted", "active", att[<<s, o>>].gen)
        BY <1>0, <2>0, <2>2, AttMoves
      <3>3. att'[<<s, o>>].effect = "submitted"
        BY <3>2 DEF AttIs
      <3> QED BY <1>0, <2>0, <2>1, <3>1, <3>3 DEF ReconcilerOK, Moves, S, Seen, State, Fenced, Effect, Final
    <2>3. CASE att' = att /\ Goto(R, "recRecord") /\ Effect(s, o) = "submitted"
      <3>1. Moves(R, "recRecord", {})
        BY <1>0, <1>w, <2>3, GotoMoves
      <3> QED BY <1>0, <2>0, <2>1, <2>3, <3>1 DEF ReconcilerOK, Moves, S, Seen, State, Fenced, Effect, Final
    <2>4. CASE \E W : Returns(R, W)
      BY <1>0, <2>4, ReturnsRests, RestKnows
    <2> QED BY <1>0, <1>8, <2>2, <2>3, <2>4 DEF ExecuteAgain, Type, Mine, Effect
  <1>9. CASE Type(R) /\ Idle(R)'
    BY <1>9, RestKnows
  <1> QED BY <1>1, <1>2, <1>3, <1>4, <1>5, <1>6, <1>7, <1>8, <1>9 DEF Submitting

(* The same of every other step of recovery.                                *)
LEMMA ReconcilingKnows ==
  ASSUME StartupOnly, Inv, Reconciling
  PROVE ReconcilerOK'
  <1> SUFFICES ASSUME NEW s, s = S, NEW o, o = proc[R].ord PROVE ReconcilerOK'
    OBVIOUS
  <1>0. /\ TypeOK /\ Typed /\ ReconcilerOK /\ ProcsType /\ R \in Procs /\ s = proc[R].sub /\ S = proc[R].sub
        /\ proc[R] \in ProcessType
    BY InvParts, TypeParts DEF Inv, R, S, Procs, ProcsType
  <1>i. ~Idle(R) => s \in Subs
    BY <1>0 DEF ReconcilerOK, Idle, At
  <1>t. UNCHANGED typed
    BY DEF Reconciling, InventoryStart, ControllerStart, GeneralStart, Task, GeneralClear, InventoryList,
        InventoryJudge,
           Quarantine, Hold, HoldNothing, HoldFence, ControllerLook, ControllerGuard, ControllerCancel,
           ControllerClear,
           ControllerReject, GeneralLook, RecoverFence, RecoverSkip, RecoverMark, RecoverAdvance,
           RecoverRecord,
           RecoverActivate, RecoverCommit, Verdict, Quietly, world
  <1>w. \A w \in {"quarantine", "orphanFence", "hold", "ctlGuard", "ctlClear", "ctlCancel", "ctlReject", "recFence", "refresh",
                  "recMark", "recAdvance", "execute", "recRecord", "recActivate", "recCommit", "verdict"} : w \in Steps
    BY DEF Steps
  <1>r. (\E W : Returns(R, W)) => ReconcilerOK'
    BY <1>0, ReturnsRests, RestKnows
  <1>h. ASSUME Goto(R, "hold"), s \in Subs, ~Final, Seen.state = State(s), Seen.gen = sub[s].gen, UNCHANGED <<run, sub>>
        PROVE ReconcilerOK'
    <2>1. Moves(R, "hold", {})
      BY <1>0, <1>w, <1>h, GotoMoves
    <2> QED BY <1>0, <1>h, <2>1 DEF ReconcilerOK, Moves, S, Seen, State, Final
  <1>1. ASSUME NEW t \in Subs, InventoryStart(t) \/ ControllerStart(t) \/ GeneralStart(t)
        PROVE ReconcilerOK'
    <2>0. UNCHANGED <<run, sub, att>>
      BY <1>1 DEF InventoryStart, ControllerStart, GeneralStart, Task, records
    <2>1. CASE InventoryStart(t)
      <3>1. proc'[R].pc = "inventory" /\ proc'[R].sub = t /\ proc'[R].seen = sub[t]
        BY <2>1, TaskMoves DEF InventoryStart
      <3> QED BY <2>0, <3>1 DEF ReconcilerOK, S, Seen, State
    <2>2. CASE ControllerStart(t)
      <3>1. proc'[R].pc = "ctlLook" /\ proc'[R].sub = t /\ proc'[R].seen = sub[t] /\ t \in Controllers
            /\ State(t) \in {"queued", "prepared"} /\ ~Final
        BY <2>2, TaskMoves DEF ControllerStart, State
      <3> QED BY <1>1, <2>0, <3>1 DEF ReconcilerOK, S, Seen, State, Final
    <2>3. CASE GeneralStart(t)
      <3>1. proc'[R].pc = "genLook" /\ proc'[R].sub = t /\ proc'[R].seen = sub[t] /\ State(t) \in Holdable /\ ~Final
        BY <2>3, TaskMoves DEF GeneralStart, State
      <3> QED BY <1>1, <2>0, <3>1 DEF ReconcilerOK, S, Seen, State, Final
    <2> QED BY <1>1, <2>1, <2>2, <2>3
  <1>2. CASE \E t \in Subs : GeneralClear(t)
    BY <1>2, <1>r DEF GeneralClear
  <1>3. CASE HoldNothing \/ HoldFence \/ ControllerReject
    BY <1>3, <1>r DEF HoldNothing, HoldFence, ControllerReject
  <1>4. CASE InventoryList
    <2>1. ASSUME NEW q \in Ordinals(s), Incomplete(<<s, q>>), ReadsAttempt("judge", q)
          PROVE ReconcilerOK'
      <3>0. s \in Subs /\ q \in Ords /\ UNCHANGED <<run, sub, att>> /\ Seen.state = State(s) /\ Seen.gen = sub[s].gen
        BY <1>0, <1>4, <1>i, <2>1 DEF InventoryList, Ordinals, Ords, Quietly, records, At, Idle,
            ReconcilerOK
      <3>1. /\ proc'[R].pc = "judge" /\ proc'[R].sub = s /\ proc'[R].ord = q /\ proc'[R].seen = Seen
            /\ proc'[R].effect = Effect(s, q)
        BY <1>0, <2>1, <3>0, ReadsAttemptMoves
      <3> QED BY <2>1, <3>0, <3>1 DEF ReconcilerOK, S, Seen, State, Incomplete, Visible, Effect
    <2> QED BY <1>0, <1>4, <1>r, <2>1 DEF InventoryList
  <1>5. CASE InventoryJudge
    <2>0. /\ s \in Subs /\ o \in Ords /\ proc[R].effect = Effect(s, o) /\ Incomplete(<<s, o>>)
          /\ UNCHANGED <<run, sub, att>> /\ Seen.state = State(s) /\ Seen.gen = sub[s].gen
      BY <1>0, <1>5, <1>i DEF InventoryJudge, At, Idle, ReconcilerOK, Quietly, records
    <2>1. KnownOK(s, o) /\ Effect(s, o) # "absent"
      BY <2>0, InvParts DEF Incomplete, Visible, Effect
    <2>2. CASE Goto(R, "quarantine") /\ Mismatch /\ ~Final
      <3>1. Moves(R, "quarantine", {})
        BY <1>0, <1>w, <2>2, GotoMoves
      <3> QED BY <1>0, <2>0, <2>2, <3>1
        DEF ReconcilerOK, Moves, S, Seen, State, Incomplete, Visible, Effect, Mismatch, Mine, FenceIs, Final
    <2> QED BY <1>5, <1>r, <2>0, <2>1, <2>2 DEF InventoryJudge, KnownOK
  <1>6. CASE Quarantine
    <2>0. /\ s \in Subs /\ o \in Ords /\ Incomplete(<<s, o>>) /\ ~Final
          /\ UNCHANGED <<run, sub>> /\ Seen.state = State(s) /\ Seen.gen = sub[s].gen
      BY <1>0, <1>6, <1>i DEF Quarantine, At, Idle, ReconcilerOK
    <2>1. Seen.state # "absent"
      <3>1. KnownOK(s, o) /\ Effect(s, o) # "absent"
        BY <2>0, InvParts DEF Incomplete, Visible, Effect
      <3> QED BY <2>0, <3>1 DEF KnownOK
    <2>2. Moves(R, "hold", {"attempt"})
      BY <1>0, <1>6, <1>w, <2>1, WroteMoves DEF Quarantine, Copies
    <2> QED BY <1>0, <2>0, <2>2 DEF ReconcilerOK, Moves, S, Seen, State, Final
  <1>7. CASE Hold
    <2>0. s \in Subs /\ ~Final /\ run' = run
      BY <1>0, <1>7, <1>i DEF Hold, At, Idle, ReconcilerOK
    <2>1. SubIs(s, "recovery-required", sub[s].ord, sub[s].gen, o)
      BY <1>0, <1>7, <2>0, SubMoves DEF Hold
    <2>2. Moves(R, "orphanFence", {"sub"})
      BY <1>0, <1>7, <1>w, WroteMoves DEF Hold, Copies
    <2> QED BY <1>0, <2>0, <2>1, <2>2 DEF ReconcilerOK, Moves, S, Seen, State, Final, SubIs
  <1>8. CASE ControllerLook
    <2>0. /\ s \in Controllers /\ s \in Subs /\ State(s) \in {"queued", "prepared"} /\ ~Final
          /\ UNCHANGED <<run, sub, att>> /\ Seen.state = State(s) /\ Seen.gen = sub[s].gen
      BY <1>0, <1>8, <1>i DEF ControllerLook, At, Idle, ReconcilerOK, Quietly, records
    <2> DEFINE q == FirstOrdinal(s)
    <2>1. q \in Ords \union {0}
      BY FirstIs
    <2>2. CASE (q # 0 => PreEffect(<<s, q>>)) /\ ReadsAttempt("ctlGuard", q)
      <3>1. typed[s] = 0 /\ \A x \in Ords : ~Busy(s, x)
        BY <2>0, <2>2, PreEffectIs
      <3>2. proc'[R].pc = "ctlGuard" /\ proc'[R].sub = s /\ proc'[R].seen = Seen
        BY <1>0, <2>0, <2>1, <2>2, ReadsAttemptMoves
      <3> QED BY <1>t, <2>0, <3>1, <3>2 DEF ReconcilerOK, S, Seen, State, Final, Busy, Taken, Effect,
          Barrier
    <2> QED BY <1>0, <1>8, <1>r, <2>2 DEF ControllerLook
  <1>9. CASE ControllerGuard
    <2>0. /\ s \in Controllers /\ s \in Subs /\ State(s) \in {"queued", "prepared"} /\ ~Final
          /\ UNCHANGED <<run, sub, att>> /\ Seen.state = State(s) /\ Seen.gen = sub[s].gen
          /\ typed[s] = 0 /\ \A x \in Ords : ~Busy(s, x)
      BY <1>0, <1>9, <1>i DEF ControllerGuard, At, Idle, ReconcilerOK, Quietly, records
    <2>1. CASE Goto(R, IF proc[R].ord = 0 THEN "ctlClear" ELSE "ctlCancel")
      <3> DEFINE step == IF o = 0 THEN "ctlClear" ELSE "ctlCancel"
      <3>1. Moves(R, step, {})
        BY <1>0, <1>w, <2>1, GotoMoves
      <3>2. step = "ctlCancel" => o \in Ords
        BY <1>0, Bounds DEF ProcessType, Ords
      <3>3. step \in {"ctlClear", "ctlCancel"}
        OBVIOUS
      <3> HIDE DEF step
      <3> QED BY <1>0, <1>t, <2>0, <3>1, <3>2, <3>3 DEF ReconcilerOK, Moves, S, Seen, State, Final, Busy,
          Taken, Effect, Barrier
    <2> QED BY <1>9, <1>r, <2>1 DEF ControllerGuard
  <1>10. CASE ControllerCancel
    <2>0. /\ s \in Controllers /\ s \in Subs /\ State(s) \in {"queued", "prepared"} /\ ~Final /\ o \in Ords
          /\ UNCHANGED <<run, sub>> /\ Seen.state = State(s) /\ Seen.gen = sub[s].gen
          /\ typed[s] = 0 /\ \A x \in Ords : ~Busy(s, x)
      BY <1>0, <1>10, <1>i DEF ControllerCancel, At, Idle, ReconcilerOK
    <2>1. CASE Cancelled(<<s, o>>) /\ Wrote(R, "ctlClear", {"attempt"})
      <3>1. AttIs(s, o, "rejected", "released", att[<<s, o>>].gen)
        BY <1>0, <2>0, <2>1, AttMoves
      <3>2. \A x \in Ords : ~Busy(s, x)'
        BY <2>0, <3>1 DEF AttIs, OtherAtts, Busy, Taken, Effect, Barrier
      <3>3. Moves(R, "ctlClear", {"attempt"})
        BY <1>0, <1>w, <2>1, WroteMoves DEF Copies
      <3> QED BY <1>0, <1>t, <2>0, <3>2, <3>3 DEF ReconcilerOK, Moves, S, Seen, State, Final
    <2> QED BY <1>0, <1>10, <1>r, <2>1 DEF ControllerCancel, Mine
  <1>11. CASE ControllerClear
    <2>0. /\ s \in Controllers /\ s \in Subs /\ State(s) \in {"queued", "prepared"} /\ ~Final
          /\ UNCHANGED <<sub, att>> /\ Seen.state = State(s) /\ Seen.gen = sub[s].gen
          /\ typed[s] = 0 /\ \A x \in Ords : ~Busy(s, x)
      BY <1>0, <1>11, <1>i DEF ControllerClear, At, Idle, ReconcilerOK
    <2>1. Moves(R, "ctlReject", {"run"}) \/ Moves(R, "ctlReject", {})
      BY <1>0, <1>11, <1>w, WroteMoves, GotoMoves DEF ControllerClear, Copies
    <2>2. run'.lifecycle = run.lifecycle /\ run'.fence.sub # s
      BY <1>0, <1>11, <2>0, Bounds DEF ControllerClear, TypeOK, NoFence, FenceIs
    <2> QED BY <1>0, <1>t, <2>0, <2>1, <2>2 DEF ReconcilerOK, Moves, S, Seen, State, Final, FenceIs,
        Busy, Taken, Effect, Barrier
  <1>12. CASE GeneralLook
    <2>0. /\ s \in Subs /\ State(s) \in Holdable /\ ~Final
          /\ UNCHANGED <<run, sub, att>> /\ Seen.state = State(s) /\ Seen.gen = sub[s].gen
      BY <1>0, <1>12, <1>i DEF GeneralLook, At, Idle, ReconcilerOK, Quietly, records
    <2> DEFINE q == FirstOrdinal(s)
    <2>1. \/ q # 0 /\ ReadsAttempt("recFence", q)
          \/ Goto(R, "hold") \/ Returns(R, {})
          \/ s \in Systems /\ Seen.state = "queued" /\ Reads(R, "refresh", {"sub"})
      BY <1>0, <1>12, <2>0 DEF GeneralLook
    <2>2. CASE q # 0 /\ ReadsAttempt("recFence", q)
      <3>1. q \in Ords /\ Visible(<<s, q>>)
        BY <2>2, FirstIs
      <3>2. /\ proc'[R].pc = "recFence" /\ proc'[R].sub = s /\ proc'[R].ord = q /\ proc'[R].seen = Seen
            /\ proc'[R].effect = Effect(s, q)
        BY <1>0, <2>0, <2>2, <3>1, ReadsAttemptMoves
      <3> QED BY <2>0, <3>1, <3>2 DEF ReconcilerOK, S, Seen, State, Final, Visible, Effect
    <2>3. CASE s \in Systems /\ Seen.state = "queued" /\ Reads(R, "refresh", {"sub"})
      <3>1. Moves(R, "refresh", {"sub"})
        BY <1>0, <1>w, <2>3, ReadsMoves DEF Copies
      <3> QED BY <1>0, <2>0, <2>3, <3>1 DEF ReconcilerOK, Moves, S, Seen, State, Final
    <2> QED BY <1>h, <1>r, <2>0, <2>1, <2>2, <2>3
  <1>13. CASE RecoverFence
    <2>0. /\ s \in Subs /\ o \in Ords /\ Visible(<<s, o>>) /\ State(s) \in Holdable /\ ~Final /\ proc[R].effect = Effect(s, o)
          /\ UNCHANGED <<sub, att>> /\ Seen.state = State(s) /\ Seen.gen = sub[s].gen
      BY <1>0, <1>13, <1>i DEF RecoverFence, At, Idle, ReconcilerOK
    <2>1. CASE run' = run /\ FenceMatches /\ Reads(R, "recMark", {"run"})
      <3>1. Moves(R, "recMark", {"run"})
        BY <1>0, <1>w, <2>1, ReadsMoves DEF Copies
      <3>2. Fenced(s, o)
        BY <1>0, <2>1 DEF FenceMatches, FenceIs, Fenced
      <3> QED BY <1>0, <2>0, <2>1, <3>1, <3>2 DEF ReconcilerOK, Moves, S, Seen, State, Final, Fenced,
          Visible, Effect
    <2>2. CASE /\ run' = [run EXCEPT !.fence = [Fence(S, proc[R].ord) EXCEPT !.gen = Seen.gen]]
               /\ Wrote(R, "recMark", {"run"})
      <3>1. Moves(R, "recMark", {"run"})
        BY <1>0, <1>w, <2>2, WroteMoves DEF Copies
      <3>2. run'.fence.sub = s /\ run'.fence.ord = o /\ run'.lifecycle = run.lifecycle
        BY <1>0, <2>2 DEF TypeOK, Fence
      <3> QED BY <1>0, <2>0, <3>1, <3>2 DEF ReconcilerOK, Moves, S, Seen, State, Final, Fenced, Visible,
          Effect
    <2> QED BY <1>13, <1>h, <2>0, <2>1, <2>2 DEF RecoverFence
  <1>14. CASE RecoverSkip
    <2>0. /\ s \in Subs /\ o \in Ords /\ Visible(<<s, o>>) /\ State(s) \in Holdable /\ ~Final /\ proc[R].effect = Effect(s, o)
          /\ Fenced(s, o) /\ UNCHANGED <<run, sub, att>> /\ Seen.state = State(s) /\ Seen.gen = sub[s].gen
      BY <1>0, <1>14, <1>i DEF RecoverSkip, At, Idle, ReconcilerOK, Quietly, records
    <2>1. BusyOK(s, o) /\ KnownOK(s, o) /\ FencedOK(s)
      BY <2>0, InvParts
    <2>2. ASSUME NEW step \in Steps, Goto(R, step) PROVE Moves(R, step, {})
      BY <1>0, <2>2, GotoMoves
    <2>3. CASE Effect(s, o) = "prepared" /\ State(s) # "queued" /\ Goto(R, "recAdvance")
      <3>1. State(s) = "prepared"
        BY <2>0, <2>1, <2>3 DEF FencedOK, Fenced, FenceIs, Holdable
      <3>2. Moves(R, "recAdvance", {})
        BY <1>w, <2>2, <2>3
      <3> QED BY <1>0, <2>0, <2>3, <3>1, <3>2 DEF ReconcilerOK, Moves, S, Seen, State, Final, Fenced, Effect
    <2>4. CASE Effect(s, o) = "executing" /\ Goto(R, "execute")
      <3>1. State(s) = "prepared" /\ run.fence.phase = "submission-prepared"
        BY <2>0, <2>1, <2>4 DEF BusyOK, Holdable, Submitted
      <3>2. Moves(R, "execute", {})
        BY <1>w, <2>2, <2>4
      <3> QED BY <1>0, <2>0, <2>4, <3>1, <3>2 DEF ReconcilerOK, Moves, S, Seen, State, Final, Fenced, Effect
    <2>5. CASE Effect(s, o) = "submitted" /\ Goto(R, "recRecord")
      <3>1. State(s) \in {"prepared", Submitted}
        BY <2>0, <2>1, <2>5 DEF KnownOK, Starting, Holdable
      <3>2. Moves(R, "recRecord", {})
        BY <1>w, <2>2, <2>5
      <3> QED BY <1>0, <2>0, <2>5, <3>1, <3>2 DEF ReconcilerOK, Moves, S, Seen, State, Final, Fenced, Effect
    <2> QED BY <1>0, <1>14, <1>h, <2>0, <2>3, <2>4, <2>5 DEF RecoverSkip
  <1>15. CASE RecoverMark
    <2>0. /\ s \in Subs /\ o \in Ords /\ ~Final /\ Effect(s, o) = "prepared"
          /\ Fenced(s, o) /\ UNCHANGED <<run, att>> /\ Seen.state = State(s) /\ Seen.gen = sub[s].gen
      BY <1>0, <1>15, <1>i DEF RecoverMark, Writes, At, Idle, ReconcilerOK
    <2> DEFINE next == [proc[R] EXCEPT !.pc = "recAdvance", !.seen.state = "prepared"]
    <2>1. /\ next \in ProcessType /\ next.pc = "recAdvance" /\ next.sub = s /\ next.ord = o /\ next.seen.state = "prepared"
          /\ next.seen.gen = Seen.gen
      BY <1>0, <1>w DEF ProcessType, Submissions, States, Seen
    <2>2. Becomes(R, next, {"sub"})
      BY <1>15 DEF RecoverMark
    <2> HIDE DEF next
    <2>3. proc'[R] = next
      BY <1>0, <2>1, <2>2, BecomesIs
    <2>4. sub'[s].state = "prepared" /\ sub'[s].gen = sub[s].gen
      BY <1>0, <1>15, <2>0 DEF RecoverMark, TypeOK, Submissions
    <2> QED BY <2>0, <2>1, <2>3, <2>4 DEF ReconcilerOK, S, Seen, State, Final, Fenced, Effect
  <1>16. CASE RecoverAdvance
    <2>0. /\ s \in Subs /\ o \in Ords /\ ~Final /\ Effect(s, o) = "prepared" /\ State(s) = "prepared"
          /\ Fenced(s, o) /\ UNCHANGED <<sub, att>> /\ Seen.state = State(s) /\ Seen.gen = sub[s].gen
      BY <1>0, <1>16, <1>i DEF RecoverAdvance, Writes, At, Idle, ReconcilerOK
    <2>1. Moves(R, "execute", {"run"}) \/ Moves(R, "execute", {})
      BY <1>0, <1>16, <1>w, WroteMoves, GotoMoves DEF RecoverAdvance, Copies
    <2>2. run'.lifecycle = run.lifecycle /\ run'.fence.sub = s /\ run'.fence.ord = o /\ run'.fence.phase = "submission-prepared"
      BY <1>0, <1>16, <2>0 DEF RecoverAdvance, TypeOK, Phased, Fenced
    <2> QED BY <1>0, <2>0, <2>1, <2>2 DEF ReconcilerOK, Moves, S, Seen, State, Final, Fenced, Effect
  <1>17. CASE RecoverRecord
    <2>0. /\ s \in Subs /\ o \in Ords /\ ~Final /\ Effect(s, o) = "submitted"
          /\ Fenced(s, o) /\ UNCHANGED <<run, att>> /\ Seen.state = State(s) /\ Seen.gen = sub[s].gen
      BY <1>0, <1>17, <1>i DEF RecoverRecord, At, Idle, ReconcilerOK
    <2>1. CASE Seen.state = Submitted
      <3>1. Moves(R, "recActivate", {}) /\ sub' = sub
        BY <1>0, <1>17, <1>w, <2>1, GotoMoves DEF RecoverRecord
      <3> QED BY <1>0, <2>0, <2>1, <3>1 DEF ReconcilerOK, Moves, S, Seen, State, Final, Fenced, Effect
    <2>2. CASE Seen.state # Submitted
      <3> DEFINE next == [proc[R] EXCEPT !.pc = "recActivate", !.seen.state = Submitted, !.seen.activation = "pending"]
      <3>1. /\ next \in ProcessType /\ next.pc = "recActivate" /\ next.sub = s /\ next.ord = o /\ next.seen.state = Submitted
            /\ next.seen.gen = Seen.gen
        BY <1>0, <1>w DEF ProcessType, Submissions, States, Seen
      <3>2. Becomes(R, next, {"sub"})
        BY <1>17, <2>2 DEF RecoverRecord
      <3> HIDE DEF next
      <3>3. proc'[R] = next
        BY <1>0, <3>1, <3>2, BecomesIs
      <3>4. SubIs(s, Submitted, sub[s].ord, sub[s].gen, o)
        BY <1>0, <1>17, <2>0, <2>2, SubMoves DEF RecoverRecord
      <3> QED BY <2>0, <3>1, <3>3, <3>4 DEF ReconcilerOK, S, Seen, State, Final, Fenced, Effect, SubIs,
          Submitted
    <2> QED BY <2>1, <2>2
  <1>18. CASE RecoverActivate
    <2>0. /\ s \in Subs /\ o \in Ords /\ ~Final /\ State(s) = Submitted
          /\ UNCHANGED <<sub, att>> /\ Seen.state = State(s) /\ Seen.gen = sub[s].gen
      BY <1>0, <1>18, <1>i DEF RecoverActivate, At, Idle, ReconcilerOK
    <2>1. CASE run'.lifecycle = run.lifecycle /\ (Reads(R, "recCommit", {"run"}) \/ Wrote(R, "recCommit", {"run"}))
      <3>1. Moves(R, "recCommit", {"run"})
        BY <1>0, <1>w, <2>1, WroteMoves, ReadsMoves DEF Copies
      <3> QED BY <1>0, <2>0, <2>1, <3>1 DEF ReconcilerOK, Moves, S, Seen, State, Final
    <2>2. CASE run' = run /\ Goto(R, "hold")
      BY <1>h, <2>0, <2>2
    <2>3. Phased("active") \/ run' = Activated(S) => run'.lifecycle = run.lifecycle
      BY <1>0 DEF Phased, Activated, TypeOK
    <2> QED BY <1>18, <2>1, <2>2, <2>3 DEF RecoverActivate
  <1>19. CASE RecoverCommit
    <2>0. s \in Subs /\ ~Final /\ UNCHANGED <<run, att>> /\ Seen.state = State(s) /\ Seen.gen = sub[s].gen
      BY <1>0, <1>19, <1>i DEF RecoverCommit, At, Idle, ReconcilerOK
    <2>1. CASE Seen.activation # "pending"
      <3>1. Moves(R, "verdict", {}) /\ sub' = sub
        BY <1>0, <1>19, <1>w, <2>1, GotoMoves DEF RecoverCommit
      <3> QED BY <1>0, <2>0, <3>1 DEF ReconcilerOK, Moves, S, Seen, State, Final
    <2>2. CASE Seen.activation = "pending"
      <3> DEFINE next == [proc[R] EXCEPT !.pc = "verdict", !.seen.activation = "committed"]
      <3>1. /\ next \in ProcessType /\ next.pc = "verdict" /\ next.sub = s /\ next.seen.state = Seen.state
            /\ next.seen.gen = Seen.gen
        BY <1>0, <1>w DEF ProcessType, Submissions, Seen
      <3>2. Becomes(R, next, {"sub"})
        BY <1>19, <2>2 DEF RecoverCommit
      <3> HIDE DEF next
      <3>3. proc'[R] = next
        BY <1>0, <3>1, <3>2, BecomesIs
      <3>4. SubIs(s, State(s), sub[s].ord, sub[s].gen, sub[s].ref)
        BY <1>0, <1>19, <2>0, <2>2, SubMoves DEF RecoverCommit, StateIs
      <3> QED BY <2>0, <3>1, <3>3, <3>4 DEF ReconcilerOK, S, Seen, State, Final, SubIs
    <2> QED BY <2>1, <2>2
  <1>20. CASE Verdict
    <2>0. s \in Subs /\ ~Final /\ UNCHANGED <<run, sub>> /\ Seen.state = State(s) /\ Seen.gen = sub[s].gen
      BY <1>0, <1>20, <1>i DEF Verdict, At, Idle, ReconcilerOK, Quietly, records
    <2> QED BY <1>20, <1>h, <1>r, <2>0 DEF Verdict
  <1> QED BY <1>1, <1>2, <1>3, <1>4, <1>5, <1>6, <1>7, <1>8, <1>9, <1>10, <1>11, <1>12, <1>13, <1>14,
      <1>15, <1>16,
             <1>17, <1>18, <1>19, <1>20 DEF Reconciling

-----------------------------------------------------------------------------
(* The invariant is inductive.                                              *)

(* A lost race leaves a submitter at rest or at the cancellation of its     *)
(* reservation.                                                             *)
LEMMA CancelKnows ==
  ASSUME Inv, NEW p \in {"queue", "pump"}, Loses(p) \/ Fails(p)
  PROVE Idle(p)' \/ (proc'[p].pc \in Open /\ SubmitterOK(p)')
  <1> SUFFICES ASSUME NEW s, s = proc[p].sub, ~Idle(p)'
               PROVE proc'[p].pc \in Open /\ SubmitterOK(p)'
    OBVIOUS
  <1>1. At(p, "fence") /\ Moves(p, "cancel", {}) /\ Loses(p)
    BY EndingKnows DEF Procs
  <1>2. SubmitterOK(p) /\ State(s) = "queued" /\ typed[s] = 0
    BY <1>1 DEF Inv, QueueSubmits, PumpSubmits, Open, At, SubmitterOK
  <1>3. UNCHANGED <<sub, typed, spent, crashes>>
    BY <1>1 DEF Loses, records, world, budget
  <1> QED BY <1>1, <1>2, <1>3 DEF SubmitterOK, Open, Moves, State

(* The runtime is up when somebody but reconciliation takes a step.         *)
QueueStep == Submitting("queue") \/ BeginTurn \/ Completing \/ Closing \/ Loses("queue") \/ Fails("queue")
PumpStep == Submitting("pump") \/ Loses("pump") \/ Fails("pump")
OperationStep == OpsStep \/ Loses("ops") \/ Fails("ops")
RecoveryStep == Submitting(R) \/ Reconciling \/ Loses(R) \/ Fails(R) \/ Started

(* Every step is a step of the queue, the pump, an operation or recovery,   *)
(* or a crash.                                                              *)
LEMMA NextIs == Next => QueueStep \/ PumpStep \/ OperationStep \/ RecoveryStep \/ Crash
  BY DEF Next, Lifecycle, OpsStep, QueueStep, PumpStep, OperationStep, RecoveryStep, Procs, R

(* Only a crash is counted as one, and only recovery ends a startup.        *)
LEMMA StepsCount ==
  /\ QueueStep \/ PumpStep \/ OperationStep \/ RecoveryStep => crashes' = crashes
  /\ QueueStep \/ PumpStep \/ OperationStep => phase' = phase
  <1>1. \A p : Submitting(p) => crashes' = crashes /\ phase' = phase
    BY Zenon DEF Submitting, SubmitStart, SubmitRefresh, SubmitSnapshot, SubmitPrepare, SubmitBlocked,
        SubmitRefused,
      SubmitLosesPrepare, RejectsController, SubmitFence, SubmitLosesFence, SubmitCancel, SubmitMark,
      SubmitAdvance,
      Execute, ExecuteAgain, ExecuteRefused, Type, TypeFails, SubmitRecord, SubmitActivate, SubmitCommit,
      world, budget
  <1>2. BeginTurn \/ Completing \/ Closing \/ OpsStep => crashes' = crashes /\ phase' = phase
    BY DEF BeginTurn, Completing, CompleteStart, CompleteRepairs, CompleteFences, CompleteSettles,
        CompleteRefreshes,
         CompleteRun, CompleteSub, CompleteClear, Closing, CloseNoAttempt, ClosePreEffect,
         CloseActivated, CloseStart,
         CloseCancels, CloseClears, CloseRejects, CloseBarrier, CloseRun, CloseFinal, OpsStep,
         InterruptStart,
         InterruptBarrier, InterruptRun, EndTurn, StopStart, Terminate, TerminateFails, StopDone,
         ProviderExits,
         ObserveExit, SettleExit, world, budget
  <1>3. Reconciling => crashes' = crashes
    BY DEF Reconciling, InventoryStart, ControllerStart, GeneralStart, Task, GeneralClear, InventoryList,
        InventoryJudge,
           Quarantine, Hold, HoldNothing, HoldFence, ControllerLook, ControllerGuard, ControllerCancel,
           ControllerClear,
           ControllerReject, GeneralLook, RecoverFence, RecoverSkip, RecoverMark, RecoverAdvance,
           RecoverRecord,
           RecoverActivate, RecoverCommit, Verdict, Quietly, budget
  <1>4. \A p : Loses(p) \/ Fails(p) => crashes' = crashes /\ phase' = phase
    BY DEF Loses, Fails, world, budget
  <1>5. Started => crashes' = crashes
    BY DEF Started, budget
  <1> QED BY <1>1, <1>2, <1>3, <1>4, <1>5 DEF QueueStep, PumpStep, OperationStep, RecoveryStep

(* While the others take steps recovery is at rest.                         *)
LEMMA IsUp ==
  ASSUME Inv, QueueStep \/ PumpStep \/ OperationStep
  PROVE phase = "up" /\ phase' = "up" /\ Idle(R)
  <1>0. LifeOK /\ TypeOK /\ ("queue" \in Procs \ {R}) /\ ("pump" \in Procs \ {R}) /\ ("ops" \in Procs \ {R})
    BY InvParts DEF Procs, R
  <1>1. ASSUME phase = "starting" PROVE FALSE
    <2>0. /\ crashes > 0 /\ proc["queue"].pc = "idle" /\ proc["pump"].pc = "idle" /\ proc["ops"].pc = "idle" /\ ~live
          /\ phase # "up"
      BY <1>0, <1>1 DEF LifeOK, Idle, At
    <2>1. \A p \in {"queue", "pump"} : ~Submitting(p)
      BY <2>0, Zenon DEF Submitting, SubmitStart, SubmitRefresh, SubmitSnapshot, SubmitPrepare,
          SubmitBlocked, SubmitRefused,
      SubmitLosesPrepare, SubmitFence, SubmitLosesFence, SubmitCancel, SubmitMark, SubmitAdvance,
      Execute, ExecuteAgain, ExecuteRefused, Type, TypeFails, SubmitRecord, SubmitActivate, SubmitCommit,
      Writes, At
    <2>2. ~BeginTurn /\ ~Completing /\ ~Closing
      BY <2>0 DEF BeginTurn, Completing, CompleteStart, CompleteRepairs, CompleteFences, CompleteSettles,
          CompleteRefreshes,
         CompleteRun, CompleteSub, CompleteClear, Closing, CloseNoAttempt, ClosePreEffect,
         CloseActivated, CloseStart,
         CloseCancels, CloseClears, CloseRejects, CloseBarrier, CloseRun, CloseFinal, Writes, At
    <2>3. ~OpsStep
      BY <2>0 DEF OpsStep, InterruptStart,
         InterruptBarrier, InterruptRun, EndTurn, StopStart, Terminate, TerminateFails, StopDone,
         ProviderExits,
         ObserveExit, SettleExit, Writes, At
    <2>4. \A p \in {"queue", "pump", "ops"} : ~Loses(p) /\ ~Fails(p)
      BY <2>0 DEF Loses, Fails, Compares
    <2> QED BY <2>1, <2>2, <2>3, <2>4 DEF QueueStep, PumpStep, OperationStep
  <1>2. phase = "up"
    BY <1>0, <1>1 DEF TypeOK
  <1> QED BY <1>0, <1>2, StepsCount DEF LifeOK

(* Every step keeps the types and moves the records as its process may.     *)
LEMMA StepsMove ==
  ASSUME StartupOnly, Inv
  PROVE /\ QueueStep => TypeStep("queue") /\ StepOf("queue")
        /\ PumpStep => TypeStep("pump") /\ StepOf("pump")
        /\ OperationStep => TypeStep("ops") /\ StepOf("ops")
        /\ RecoveryStep => TypeStep(R) /\ StepOf(R)
  <1>0. TypeOK /\ RoomOK
    BY DEF Inv, TypeInv
  <1>1. /\ QueueStep => TypeStep("queue")
        /\ PumpStep => TypeStep("pump")
        /\ OperationStep => TypeStep("ops")
        /\ RecoveryStep => TypeStep(R)
    BY <1>0, SubmitTypes, BeginTypes, CompletingTypes, ClosingTypes, EndingTypes, OpsTypes,
        ReconcilingTypes, StartedTypes
       DEF QueueStep, PumpStep, OperationStep, RecoveryStep, Workers, Procs, R
  <1>2. /\ QueueStep => Move("queue") /\ Spends("queue")
        /\ PumpStep => Move("pump") /\ Spends("pump")
        /\ OperationStep => Move("ops") /\ Spends("ops")
        /\ RecoveryStep => Move(R) /\ Spends(R)
    BY SubmitMoves, BeginMoves, CompletingMoves, ClosingMoves, EndingMoves, OpsMoves, RecoverySubmits,
        ReconcilingMoves,
       StartedMoves DEF QueueStep, PumpStep, OperationStep, RecoveryStep, Procs, R
  <1> QED BY <1>1, <1>2 DEF TypeStep, StepOf

(* The parts of the invariant that a step of p keeps by what it is.         *)
LEMMA StepKeeps ==
  ASSUME Inv, NEW p \in Procs, TypeStep(p), StepOf(p), crashes' = crashes
  PROVE TypeInv' /\ RecordsOK' /\ RunLives' /\ (Final => Final')
  <1>1. TypeInv'
    BY TypeStepKeeps DEF Inv
  <1>2. RecordsOK'
    BY RecordsKept, InvParts DEF StepOf
  <1>4. Final => Final'
    BY FinalStays DEF StepOf
  <1> QED BY <1>1, <1>2, <1>4 DEF RecordsOK

(* The queue's steps keep the invariant.                                    *)
LEMMA QueueKeeps ==
  ASSUME StartupOnly, Inv, PreparesAfresh, QueueStep
  PROVE Inv'
  <1>0. /\ TypeStep("queue") /\ StepOf("queue") /\ crashes' = crashes /\ phase = "up" /\ phase' = "up" /\ Idle(R)
        /\ Kept("pump") /\ Kept("ops") /\ Kept(R) /\ crashes \in Nat /\ LifeOK
    <2>1. TypeStep("queue") /\ StepOf("queue")
      BY StepsMove
    <2>2. Kept("pump") /\ Kept("ops") /\ Kept(R)
      BY <2>1 DEF StepOf, Untouched, Procs, R
    <2> QED BY <2>1, <2>2, IsUp, StepsCount, InvParts DEF Typed
  <1>2. TypeInv' /\ RecordsOK' /\ RunLives' /\ (Final => Final')
    BY <1>0, StepKeeps DEF Procs
  <1>3. \/ Idle("queue")'
        \/ proc'["queue"].pc \in Open /\ SubmitterOK("queue")'
        \/ proc'["queue"].pc \in Finishing /\ CompleterOK'
        \/ proc'["queue"].pc \in Ending /\ CloserOK'
    <2>1. BeginTurn => Idle("queue")'
      BY ReturnsRests, InvParts, TypeParts DEF BeginTurn, Procs
    <2> QED BY <2>1, SubmitKnows, CancelKnows, CompletingKnows, ClosingKnows DEF QueueStep
  <1>4. QueueSubmits' /\ CompleterOK' /\ CloserOK' /\ QueueOK'
    <2>1. /\ "idle" \notin Open \union Finishing \union Ending
          /\ \A w : (w \in Open => w \notin Finishing \union Ending) /\ (w \in Finishing => w \notin Ending)
      BY DEF Open, Finishing, Ending
    <2>2. proc'["queue"].pc \notin Finishing => CompleterOK'
      BY DEF CompleterOK
    <2>3. proc'["queue"].pc \notin Ending => CloserOK'
      BY DEF CloserOK
    <2> QED BY <1>3, <2>1, <2>2, <2>3 DEF QueueSubmits, QueueOK, Idle, At
  <1>5. PumpSubmits'
    <2>1. proc["pump"].pc # "idle" => proc["pump"].pc \in Open /\ SubmitterOK("pump")'
      BY <1>0, SubmitterKept DEF Inv, PumpSubmits, Others
    <2> QED BY <1>0, <2>1 DEF PumpSubmits, Kept
  <1>6. OpsOK' /\ ReconcilerOK' /\ Idle(R)'
    <2>1. Idle(R)'
      BY <1>0 DEF Kept, Idle, At
    <2> QED BY <1>0, <2>1, OpsKept, RestKnows
  <1>7. LifeOK'
    <2>1. crashes' > 0 => Idle("pump")' /\ Idle("ops")'
      BY <1>0 DEF LifeOK, Kept, Idle, At
    <2>2. crashes' > 0 => proc'["queue"].pc \notin Open
      BY <1>0, <1>4 DEF QueueSubmits, SubmitterOK
    <2> QED BY <1>0, <1>2, <1>6, <2>1, <2>2 DEF LifeOK, RunLives
  <1> QED BY <1>2, <1>4, <1>5, <1>6, <1>7 DEF Inv

(* The pump's steps keep the invariant.                                     *)
LEMMA PumpKeeps ==
  ASSUME StartupOnly, Inv, PreparesAfresh, PumpStep
  PROVE Inv'
  <1>0. /\ TypeStep("pump") /\ StepOf("pump") /\ crashes' = crashes /\ phase = "up" /\ phase' = "up" /\ Idle(R)
        /\ Kept("queue") /\ Kept("ops") /\ Kept(R) /\ crashes \in Nat /\ LifeOK
    <2>1. TypeStep("pump") /\ StepOf("pump")
      BY StepsMove
    <2>2. Kept("queue") /\ Kept("ops") /\ Kept(R)
      BY <2>1 DEF StepOf, Untouched, Procs, R
    <2> QED BY <2>1, <2>2, IsUp, StepsCount, InvParts DEF Typed
  <1>2. TypeInv' /\ RecordsOK' /\ RunLives' /\ (Final => Final')
    BY <1>0, StepKeeps DEF Procs
  <1>3. Idle("pump")' \/ (proc'["pump"].pc \in Open /\ SubmitterOK("pump")')
    BY SubmitKnows, CancelKnows DEF PumpStep
  <1>4. PumpSubmits'
    BY <1>3 DEF PumpSubmits, Idle, At
  <1>5. QueueSubmits' /\ CompleterOK' /\ CloserOK' /\ QueueOK'
    <2>1. proc["queue"].pc \in Open => SubmitterOK("queue")'
      BY <1>0, SubmitterKept DEF Inv, QueueSubmits, Others
    <2>2. CompleterOK' /\ CloserOK'
      BY <1>0, CompleterKept, CloserKept
    <2> QED BY <1>0, <2>1, <2>2 DEF QueueSubmits, QueueOK, Kept, Inv
  <1>6. OpsOK' /\ ReconcilerOK' /\ Idle(R)'
    <2>1. Idle(R)'
      BY <1>0 DEF Kept, Idle, At
    <2> QED BY <1>0, <2>1, OpsKept, RestKnows
  <1>7. LifeOK'
    <2>1. crashes' > 0 => proc'["queue"].pc \notin Open /\ Idle("ops")'
      BY <1>0 DEF LifeOK, Kept, Idle, At
    <2>2. crashes' > 0 => Idle("pump")'
      BY <1>0, <1>3 DEF SubmitterOK
    <2> QED BY <1>0, <1>2, <1>6, <2>1, <2>2 DEF LifeOK, RunLives
  <1> QED BY <1>2, <1>4, <1>5, <1>6, <1>7 DEF Inv

(* Interrupts, stops and exits keep the invariant.                          *)
LEMMA OperationKeeps ==
  ASSUME StartupOnly, Inv, OperationStep
  PROVE Inv'
  <1>0. /\ TypeStep("ops") /\ StepOf("ops") /\ crashes' = crashes /\ phase = "up" /\ phase' = "up" /\ Idle(R)
        /\ Kept("queue") /\ Kept("pump") /\ Kept(R) /\ crashes \in Nat /\ LifeOK
    <2>1. TypeStep("ops") /\ StepOf("ops")
      BY StepsMove
    <2>2. Kept("queue") /\ Kept("pump") /\ Kept(R)
      BY <2>1 DEF StepOf, Untouched, Procs, R
    <2> QED BY <2>1, <2>2, IsUp, StepsCount, InvParts DEF Typed
  <1>2. TypeInv' /\ RecordsOK' /\ RunLives' /\ (Final => Final')
    BY <1>0, StepKeeps DEF Procs
  <1>3. OpsOK' /\ (crashes' > 0 => Idle("ops")')
    <2>1. ASSUME Loses("ops") \/ Fails("ops") PROVE Idle("ops")'
      <3>1. ~At("ops", "fence")
        BY DEF Inv, OpsOK, At
      <3> QED BY <2>1, <3>1, EndingKnows DEF Procs
    <2>2. Idle("ops")' => OpsOK'
      BY DEF Idle, At, OpsOK
    <2> QED BY <2>1, <2>2, OpsKnows DEF OperationStep
  <1>4. PumpSubmits'
    <2>1. proc["pump"].pc # "idle" => proc["pump"].pc \in Open /\ SubmitterOK("pump")'
      BY <1>0, SubmitterKept DEF Inv, PumpSubmits, Others
    <2> QED BY <1>0, <2>1 DEF PumpSubmits, Kept
  <1>5. QueueSubmits' /\ CompleterOK' /\ CloserOK' /\ QueueOK'
    <2>1. proc["queue"].pc \in Open => SubmitterOK("queue")'
      BY <1>0, SubmitterKept DEF Inv, QueueSubmits, Others
    <2>2. CompleterOK' /\ CloserOK'
      BY <1>0, CompleterKept, CloserKept
    <2> QED BY <1>0, <2>1, <2>2 DEF QueueSubmits, QueueOK, Kept, Inv
  <1>6. ReconcilerOK' /\ Idle(R)'
    <2>1. Idle(R)'
      BY <1>0 DEF Kept, Idle, At
    <2> QED BY <2>1, RestKnows
  <1>7. LifeOK'
    <2>1. crashes' > 0 => proc'["queue"].pc \notin Open /\ Idle("pump")'
      BY <1>0 DEF LifeOK, Kept, Idle, At
    <2> QED BY <1>0, <1>2, <1>3, <1>6, <2>1 DEF LifeOK, RunLives
  <1> QED BY <1>2, <1>3, <1>4, <1>5, <1>6, <1>7 DEF Inv

(* Reconciliation and the end of it: nobody else is at work.                *)
LEMMA RecoveryKeeps ==
  ASSUME StartupOnly, Inv, RecoveryStep
  PROVE Inv'
  <1>0. TypeStep(R) /\ StepOf(R) /\ crashes' = crashes /\ crashes > 0 /\ phase = "starting" /\ LifeOK
    <2>1. Started => phase = "starting" /\ crashes > 0
      BY InvParts DEF Started, LifeOK
    <2>2. Submitting(R) => ~Idle(R)
      BY DEF Submitting, SubmitStart, SubmitRefresh, SubmitSnapshot, SubmitPrepare, SubmitBlocked,
          SubmitRefused,
      SubmitLosesPrepare, SubmitFence, SubmitLosesFence, SubmitCancel, SubmitMark, SubmitAdvance,
      Execute, ExecuteAgain, ExecuteRefused, Type, TypeFails, SubmitRecord, SubmitActivate, SubmitCommit,
      Writes, At, Idle, R
    <2>3. Reconciling => ~Idle(R) \/ MayReconcile
      BY DEF Reconciling, InventoryStart, ControllerStart, GeneralStart, Task, GeneralClear,
          InventoryList, InventoryJudge,
           Quarantine, Hold, HoldNothing, HoldFence, ControllerLook, ControllerGuard, ControllerCancel,
           ControllerClear,
           ControllerReject, GeneralLook, RecoverFence, RecoverSkip, RecoverMark, RecoverAdvance,
           RecoverRecord,
           RecoverActivate, RecoverCommit, Verdict, Writes, At, Idle
    <2>4. Loses(R) \/ Fails(R) => ~Idle(R)
      BY DEF Loses, Fails, Compares, Idle, At
    <2>5. phase = "starting" /\ crashes > 0
      BY <2>1, <2>2, <2>3, <2>4, RecoveryIs DEF RecoveryStep
    <2> QED BY <2>5, StepsMove, StepsCount, InvParts
  <1>1. \A p \in {"queue", "pump", "ops"} : Idle(p)'
    BY <1>0 DEF LifeOK, StepOf, Untouched, Kept, Procs, R, Idle, At
  <1>2. TypeInv' /\ RecordsOK' /\ RunLives' /\ (Final => Final')
    BY <1>0, StepKeeps DEF Procs, R
  <1>3. ReconcilerOK'
    <2>1. Started => Idle(R)'
      BY ReturnsRests, InvParts, TypeParts DEF Started, Procs, R
    <2>2. Loses(R) \/ Fails(R) => Idle(R)'
      <3>1. ~At(R, "fence")
        BY DEF Inv, ReconcilerOK, At
      <3> QED BY <3>1, EndingKnows DEF Procs, R
    <2> QED BY <2>1, <2>2, RestKnows, RecoverySubmitsKnows, ReconcilingKnows DEF RecoveryStep
  <1>4. phase' = "starting" \/ (phase' = "up" /\ Idle(R)' /\ Final')
    <2>1. CASE Started
      <3>1. Idle(R)' /\ phase' = "up"
        BY <2>1, ReturnsRests, InvParts, TypeParts DEF Started, Procs, R
      <3>2. Final'
        <4>1. CASE Final
          BY <2>1, <4>1 DEF Started, Final
        <4>2. CASE ~Final
          <5>1. run'.lifecycle = "interrupted"
            BY <2>1, <4>2, InvParts DEF Started, TypeOK
          <5> QED BY <5>1 DEF Final, FINAL_LIFECYCLES
        <4> QED BY <4>1, <4>2
      <3> QED BY <3>1, <3>2
    <2>2. CASE Reconciling
      <3>1. phase' = phase
        BY <2>2 DEF Reconciling, InventoryStart, ControllerStart, GeneralStart, Task, GeneralClear,
            InventoryList, InventoryJudge,
           Quarantine, Hold, HoldNothing, HoldFence, ControllerLook, ControllerGuard, ControllerCancel,
           ControllerClear,
           ControllerReject, GeneralLook, RecoverFence, RecoverSkip, RecoverMark, RecoverAdvance,
           RecoverRecord,
           RecoverActivate, RecoverCommit, Verdict, Quietly, world
      <3> QED BY <1>0, <3>1
    <2>3. CASE Submitting(R)
      <3>1. phase' = phase
        BY <2>3, Zenon DEF Submitting, SubmitStart, SubmitRefresh, SubmitSnapshot, SubmitPrepare,
            SubmitBlocked, SubmitRefused,
      SubmitLosesPrepare, SubmitFence, SubmitLosesFence, SubmitCancel, SubmitMark, SubmitAdvance,
      Execute, ExecuteAgain, ExecuteRefused, Type, TypeFails, SubmitRecord, SubmitActivate, SubmitCommit,
      world
      <3> QED BY <1>0, <3>1
    <2>4. CASE Loses(R) \/ Fails(R)
      BY <1>0, <2>4 DEF Loses, Fails, world
    <2> QED BY <2>1, <2>2, <2>3, <2>4 DEF RecoveryStep
  <1>5. QueueSubmits' /\ PumpSubmits' /\ CompleterOK' /\ CloserOK' /\ QueueOK' /\ OpsOK'
    BY <1>1 DEF Idle, At, QueueSubmits, PumpSubmits, CompleterOK, CloserOK, QueueOK, OpsOK, Open,
        Finishing, Ending
  <1>6. LifeOK'
    <2>1. proc'["queue"].pc \notin Open /\ \A p \in Procs \ {R} : Idle(p)'
      BY <1>1 DEF Idle, At, Open, Procs, R
    <2> QED BY <1>0, <1>1, <1>2, <1>4, <2>1 DEF LifeOK, RunLives
  <1> QED BY <1>2, <1>3, <1>5, <1>6 DEF Inv

(* A crash keeps the invariant: what was in memory is gone.                 *)
LEMMA CrashKeeps ==
  ASSUME Inv, Crash
  PROVE Inv'
  <1>1. TypeInv'
    BY CrashTypes DEF Inv, TypeInv
  <1>2. RecordsOK'
    BY CrashMoves, RecordsKept, InvParts
  <1>3. crashes' > 0 /\ phase' = "starting" /\ live' = FALSE
    BY InvParts DEF Crash, Typed
  <1>4. \A p \in Procs : Idle(p)'
    BY DEF Crash, Rest, Idle, At
  <1>5. Idle("queue")' /\ Idle("pump")' /\ Idle("ops")' /\ Idle(R)'
    BY <1>4 DEF Procs, R
  <1>6. QueueSubmits' /\ PumpSubmits' /\ CompleterOK' /\ CloserOK' /\ QueueOK' /\ OpsOK' /\ ReconcilerOK'
    BY <1>5, RestKnows DEF Idle, At, QueueSubmits, PumpSubmits, CompleterOK, CloserOK, QueueOK, OpsOK,
        Open, Finishing, Ending
  <1>8. LifeOK'
    BY <1>2, <1>3, <1>4, <1>5 DEF LifeOK, RecordsOK, RunLives, Idle, At, Open
  <1> QED BY <1>1, <1>2, <1>6, <1>8 DEF Inv

(* The invariant holds in the beginning.                                    *)
LEMMA InvInit == Init => Inv
  <1> SUFFICES ASSUME Init PROVE Inv
    OBVIOUS
  <1>1. TypeInv
    BY TypeInit
  <1>2. \A p \in Procs : Idle(p)
    BY DEF Init, Rest, Idle, At
  <1>3. Idle("queue") /\ Idle("pump") /\ Idle("ops") /\ Idle(R)
    BY <1>2 DEF Procs, R
  <1>4. QueueSubmits /\ PumpSubmits /\ CompleterOK /\ CloserOK /\ QueueOK /\ OpsOK /\ ReconcilerOK
    BY <1>3 DEF Idle, At, QueueSubmits, PumpSubmits, CompleterOK, CloserOK, QueueOK, OpsOK, ReconcilerOK,
        Open, Finishing, Ending
  <1>5. /\ \A s \in Subs : State(s) = "absent" /\ typed[s] = 0
        /\ \A s \in Subs, o \in Ords : Effect(s, o) = "absent" /\ Barrier(s, o) = "none" /\ ~Taken(s, o) /\ ~Busy(s, o)
    BY DEF Init, NoSubmission, NoAttempt, Attempts, Ords, State, Effect, Barrier, Taken, Busy
  <1>6. run.fence = NoFence /\ run.active = NoTurn /\ run.last = None /\ run.lifecycle = "running" /\ ~Final /\ crashes = 0 /\ phase = "up"
        /\ spent = {}
    BY DEF Init, Final, FINAL_LIFECYCLES
  <1>7. \A s \in Subs : ~FenceIs(s) /\ run.active.turn # s /\ run.last # s
    BY <1>6, Bounds DEF FenceIs, NoFence, NoTurn
  <1>8. AttemptsOK
    BY <1>5, <1>7 DEF AttemptsOK, ShapeOK, KnownOK, BusyOK, ClosedOK, Starting, Completed
  <1>9. FenceOK /\ ActiveOK /\ LastOK
    BY <1>6, <1>7 DEF FenceOK, FencedOK, FenceFree, ActiveOK, ActivatedOK, LastOK, DoneOK
  <1>10. SubsOK
    BY <1>5, <1>6 DEF SubsOK, CompletedOK, UnprovenOK, TypedOK
  <1>11. LifeOK /\ RunLives
    BY <1>2, <1>3, <1>6 DEF LifeOK, RunLives, Idle, At, Open
  <1>12. \A s \in Subs : FirstOK(s)
    BY <1>5, Bounds DEF FirstOK, Blank
  <1>13. RecordsOK
    BY <1>8, <1>9, <1>10, <1>11, <1>12 DEF RecordsOK
  <1> QED BY <1>1, <1>4, <1>11, <1>13 DEF Inv

(* The invariant is about the variables.                                    *)
LEMMA InvStutters == Inv /\ UNCHANGED vars => Inv'
  <1> SUFFICES ASSUME Inv, UNCHANGED vars PROVE Inv'
    OBVIOUS
  <1>1. TypeInv'
    BY TypeNext DEF Inv
  <1>2. UNCHANGED <<run, sub, att, live, lane, proc, phase, spent, typed, faults, crashes>>
    BY DEF vars
  <1>3. RecordsOK' /\ LifeOK'
    BY <1>2 DEF Inv, RecordsOK, AttemptsOK, ShapeOK, KnownOK, BusyOK, ClosedOK, FenceOK, FencedOK,
        ActiveOK, ActivatedOK, LastOK,
      DoneOK, SubsOK, CompletedOK, UnprovenOK, TypedOK, RunLives, FirstOK, LifeOK, Blank,
      State, Effect, Barrier,
      Taken, Busy, Fenced, FenceIs, FenceFree, Settled, Shut, Final, Idle, At
  <1>4. QueueSubmits' /\ PumpSubmits' /\ CompleterOK' /\ CloserOK' /\ QueueOK' /\ OpsOK' /\ ReconcilerOK'
    BY <1>2 DEF Inv, QueueSubmits, PumpSubmits, SubmitterOK, CompleterOK, CloserOK, QueueOK, OpsOK,
        ReconcilerOK, Has, State,
      Effect, Blank, Barrier, Taken, Busy, Fenced, FenceIs, FenceFree, Settled, Shut, Final, Idle, At, S, Seen,
      Incomplete, Visible,
      Mismatch, Mine
  <1> QED BY <1>1, <1>3, <1>4 DEF Inv

(* Every step keeps the invariant.                                          *)
LEMMA InvNext == StartupOnly /\ Inv /\ [Next]_vars /\ [PreparesAfresh]_vars => Inv'
  BY NextIs, QueueKeeps, PumpKeeps, OperationKeeps, RecoveryKeeps, CrashKeeps, InvStutters

(* The invariant implies that the records agree.                            *)
LEMMA InvRecords == Inv => RecordsAgree
  <1> SUFFICES ASSUME Inv PROVE RecordsAgree
    OBVIOUS
  <1>0. /\ \A s \in Subs : TypedOK(s) /\ CompletedOK(s) /\ UnprovenOK(s) /\ ActivatedOK(s) /\ FencedOK(s)
        /\ RunLives
    BY InvParts DEF RecordsOK, SubsOK
  <1>1. TypedOnce
    BY <1>0 DEF TypedOK, TypedOnce
  <1>2. RefusalsAreTrue
    BY <1>0 DEF TypedOK, RefusalsAreTrue, State
  <1>3. CompletionsAreTrue
    BY <1>0 DEF CompletedOK, CompletionsAreTrue, State, Settled, Barrier
  <1>4. ClosuresAreTrue
    BY <1>0 DEF UnprovenOK, ClosuresAreTrue, State, Shut, Barrier, RunLives, Final, FINAL_LIFECYCLES
  <1>5. TerminalAgrees
    <2>1. ASSUME NEW a \in Attempts, NEW b \in Attempts, InProvider(a), InProvider(b) PROVE a = b
      <3>1. PICK s \in Subs, o \in Ords : a = <<s, o>>
        BY DEF Attempts, Ords
      <3>2. PICK t \in Subs, q \in Ords : b = <<t, q>>
        BY DEF Attempts, Ords
      <3>3. Busy(s, o) /\ Busy(t, q)
        BY <2>1, <3>1, <3>2 DEF InProvider, Busy, Taken, Barrier
      <3>4. Fenced(s, o) /\ Fenced(t, q)
        BY <3>3, InvParts DEF BusyOK
      <3> QED BY <3>1, <3>2, <3>4 DEF Fenced
    <2>2. ASSUME NEW s \in Subs, run.active.turn = s
         
                PROVE \E o \in 1 .. MaxOrdinal : att[<<s, o>>].effect = "submitted" /\ att[<<s, o>>].gen = run.active.gen
      <3>1. ActivatedOK(s) /\ FencedOK(s)
        BY InvParts
      <3>2. FenceIs(s) /\ Effect(s, run.fence.ord) = "submitted" /\ run.active.gen = sub[s].gen
        BY <2>2, <3>1 DEF ActivatedOK
      <3>3. run.fence.ord \in 1 .. MaxOrdinal /\ att[<<s, run.fence.ord>>].gen = sub[s].gen
        BY <3>1, <3>2 DEF FencedOK, Ords
      <3> QED BY <3>2, <3>3 DEF Effect
    <2>3. run.active.turn \in Subs =>
            \E o \in 1 .. MaxOrdinal : att[<<run.active.turn, o>>].effect = "submitted"
                                      /\ att[<<run.active.turn, o>>].gen = run.active.gen
      <3> SUFFICES ASSUME run.active.turn \in Subs
                   PROVE \E o \in 1 .. MaxOrdinal : att[<<run.active.turn, o>>].effect = "submitted"
                                                    /\ att[<<run.active.turn, o>>].gen = run.active.gen
        OBVIOUS
      <3>1. PICK s \in Subs : run.active.turn = s
        OBVIOUS
      <3> QED BY <2>2, <3>1
    <2>4. \A a, b \in Attempts : InProvider(a) /\ InProvider(b) => a = b
      BY <2>1
    <2> QED BY <2>3, <2>4, Zenon DEF TerminalAgrees
  <1> QED BY <1>1, <1>2, <1>3, <1>4, <1>5 DEF RecordsAgree, VerdictsAreTrue

(* The invariant implies that the active turn can be completed, but for an  *)
(* interrupt.                                                               *)
LEMMA InvCompletable == Inv => CompletableUnlessInterrupted
  <1> SUFFICES ASSUME Inv, phase = "up", ~Final, NEW s \in Subs, run.active.turn = s
               PROVE TupleMatches(s) \/ Interrupted(s) \/ run.uncertain
    BY DEF CompletableUnlessInterrupted, AtRest
  <1>1. crashes = 0
    BY InvParts DEF LifeOK, Typed
  <1>2. ActivatedOK(s) /\ FencedOK(s)
    BY InvParts
  <1>3. CASE run.active.gen = run.gen
    BY <1>2, <1>3 DEF ActivatedOK, FencedOK, TupleMatches
  <1>4. CASE run.active.gen # run.gen
    BY <1>1, <1>2, <1>4 DEF ActivatedOK, Interrupted, Barrier, Ords
  <1> QED BY <1>3, <1>4

Forward ==
    /\ run'.gen \in {run.gen, run.gen + 1}
    /\ Final => /\ Final'
                /\ run'.active \in {run.active, NoTurn}
                /\ run'.fence.sub \in {run.fence.sub, None}

(* A move takes the run forward.                                            *)
LEMMA MovesForward ==
  ASSUME Inv, NEW p, Move(p)
  PROVE Forward
  <1>1. Final => Final'
    BY FinalStays
  <1>2. CASE run' = run
    BY <1>1, <1>2 DEF Forward
  <1>3. CASE Lives \/ ShiftsRun
    BY <1>1, <1>3 DEF Lives, ShiftsRun, Shifts, RunIs, Forward
  <1>4. ASSUME NEW s \in Subs, RunMove(p, s) PROVE Forward
    <2>1. ASSUME NEW f \in Phases, Rephases(s, f) PROVE Forward
      BY <1>1, <2>1 DEF Rephases, WithFence, RunIs, FenceIs, Forward
    <2>6. CASE Clears(s)
      BY <1>1, <2>6 DEF Clears, WithFence, RunIs, NoFence, Forward
    <2>2. CASE FailsRun(s)
      BY <1>1, <2>2 DEF FailsRun, RunIs, NoFence, Forward
    <2>3. ASSUME NEW o \in Ords, Fences(s, o) PROVE Forward
      BY <1>1, <2>3 DEF Fences, WithFence, RunIs, Forward
    <2>4. ASSUME NEW o \in Ords, Activates(s, o) PROVE Forward
      BY <1>1, <2>4 DEF Activates, RunIs, Forward
    <2>5. ASSUME NEW o \in Ords, Finishes(s, o) PROVE Forward
      BY <1>1, <2>5 DEF Finishes, RunIs, Fenced, Forward
    <2> QED BY <1>4, <2>1, <2>2, <2>3, <2>4, <2>5, <2>6 DEF RunMove
  <1> QED BY <1>2, <1>3, <1>4, MoveKinds

(* So does every step.                                                      *)
LEMMA StepsForward == StartupOnly /\ Inv /\ [Next]_vars => [Forward]_vars
  <1> SUFFICES ASSUME StartupOnly, Inv, Next PROVE Forward
    OBVIOUS
  <1>1. \E p \in Procs : Move(p)
    BY NextIs, StepsMove, CrashMoves DEF StepOf, Procs, R
  <1> QED BY <1>1, MovesForward

(* Inv is an invariant where the runtime reconciles at startup only, as the *)
(* program does, and nothing is prepared again over a reservation that an   *)
(* earlier preparation left: what each process knows at each step, next to  *)
(* what holds of the records, for any number of submissions, attempts,      *)
(* failures and crashes.                                                    *)
THEOREM Inductive == ASSUME StartupOnly PROVE Spec /\ [][PreparesAfresh]_vars => []Inv
  <1>1. Inv /\ [Next]_vars /\ [PreparesAfresh]_vars => Inv'
    BY InvNext
  <1> QED BY <1>1, InvInit, PTL DEF Spec

(* The records of turn, run and terminal and what was typed tell one story: *)
(* nothing is typed twice, a refused turn was not typed, a completed one    *)
(* has the verdict of a turn that is over, and the terminal works on one    *)
(* attempt at a time, the active turn's - unless a submission is prepared   *)
(* again over a reservation that it left before.                            *)
THEOREM Agreement == ASSUME StartupOnly PROVE Spec /\ [][PreparesAfresh]_vars => []RecordsAgree
  BY Inductive, InvRecords, PTL

(* At rest, the active turn of a run that is up can be completed, unless it *)
(* was interrupted or its generation is uncertain.                          *)
THEOREM Completable ==
  ASSUME StartupOnly PROVE Spec /\ [][PreparesAfresh]_vars => []CompletableUnlessInterrupted
  BY Inductive, InvCompletable, PTL

(* The run takes its generations one by one, and once it is final it stays  *)
(* so and gets neither another turn nor another fence.                      *)
THEOREM MovesOnward == ASSUME StartupOnly PROVE Spec /\ [][PreparesAfresh]_vars => RunMovesForward
  <1>1. Inv /\ [Next]_vars => [Forward]_vars
    BY StepsForward
  <1>2. RunMovesForward <=> [][Forward]_vars
    BY DEF RunMovesForward, Forward
  <1> QED BY <1>1, <1>2, Inductive, PTL DEF Spec
=============================================================================
