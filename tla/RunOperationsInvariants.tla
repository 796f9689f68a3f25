---------------------- MODULE RunOperationsInvariants ----------------------
(***************************************************************************)
(* The inductive invariants of RunOperations, for its proofs, and the words *)
(* in which the proofs say what a step does.                                *)
(***************************************************************************)
EXTENDS RunOperations

-----------------------------------------------------------------------------
(* The shape of the records: where a call can be, given its command, and    *)
(* what it then holds; whose a run, a journal and a fence are.              *)

Climber(c) == call[c].kind \in {"spawn", "continue"}
Closer == {"stopping", "terminate", "unsure", "stopped"}
Loop == {"stopEach"} \cup Closer \cup {"settleTree"}
Undoing == {"compTerminal", "compRun", "compOp"}
HasRun == {"journalRun", "reserveTerminal", "openTerminal", "journalTerminal", "patchTerminal",
           "furnish", "gated", "ready", "settle"}
HasJournal == HasRun \ {"journalRun"}
Opened == {"journalTerminal", "patchTerminal", "furnish", "gated", "ready"}

Where(c) ==
    /\ call[c].kind = "none" <=> call[c].at = "new"
    /\ call[c].kind = "spawn" =>
         call[c].at \in AtRest \cup {"admit", "open", "identity", "reserve", "journalRun",
            "reserveTerminal", "openTerminal", "journalTerminal", "patchTerminal", "furnish",
            "gated", "ready", "settle"} \cup Undoing
    /\ call[c].kind = "continue" =>
         call[c].at \in AtRest \cup {"admit", "open", "fenceOld", "drain", "reserve", "journalRun",
            "openTerminal", "journalTerminal", "patchTerminal", "furnish", "gated", "ready",
            "settle", "releaseOld"} \cup Undoing \cup Closer
    /\ call[c].kind = "stop" => call[c].at \in AtRest \cup {"admit"} \cup Closer
    /\ call[c].kind = "stopTree" =>
         call[c].at \in AtRest \cup {"open", "closeFence", "createFence", "snapshot"} \cup Loop
    /\ call[c].kind = "repair" =>
         call[c].at \in AtRest \cup {"judge", "repairFence", "repairSettle"} \cup Undoing \cup Loop

Named(c) ==
    /\ call[c].kind = "spawn" => call[c].target \in Agents /\ Exists(call[c].target)
    /\ call[c].kind \in {"continue", "stop"} =>
         /\ call[c].old \in Runs \ {c}
         /\ call[c].target \in Agents /\ runs[call[c].old].agent = call[c].target
    /\ call[c].kind = "stopTree" => call[c].target \in Agents
    /\ call[c].kind = "repair" => call[c].target \in Calls /\ ops[call[c].target].state # "none"

Holding(c) ==
    /\ call[c].kind = "spawn" /\ call[c].at = "reserve" => parent[c] # None
    /\ Climber(c) /\ call[c].at \in HasRun \cup Closer => runs[c].life # "none"
    /\ Climber(c) /\ call[c].at \in HasJournal \cup Closer => "run" \in ops[c].rungs
    /\ call[c].kind \in {"spawn", "continue", "stopTree"}
         /\ call[c].at \notin AtRest \cup {"admit", "open"} => ops[c].state # "none"
    /\ call[c].at \in Closer => call[c].victim \in Runs /\ runs[call[c].victim].life # "none"
    /\ call[c].at \in Closer /\ call[c].kind \in {"continue", "stop"} => call[c].victim = call[c].old
    /\ call[c].kind = "stopTree" /\ call[c].at \in {"snapshot"} \cup Loop =>
         /\ call[c].fence \in Calls /\ fences[call[c].fence] # "none"
         /\ call[call[c].fence].target = call[c].target
    /\ call[c].kind = "repair" /\ call[c].at \in Loop => call[call[c].target].kind = "stopTree"

RunOK(r) ==
    /\ r = Root => runs[r].agent = Root /\ runs[r].terminal
    /\ r \in Calls /\ runs[r].life # "none" => Climber(r) /\ runs[r].agent = AgentOf(r)

BornOK == /\ born \in Seq(Runs)
          /\ \A r \in Runs : runs[r].life # "none" <=> \E i \in DOMAIN born : born[i] = r

ParentOK == \A a \in Agents : parent[a] # None =>
               a \in Calls /\ call[a].kind = "spawn" /\ parent[a] = call[a].target

JournalOK(o) ==
    /\ ops[o].state = "none" => ops[o] = NoOp
    /\ ops[o].state # "none" => call[o].kind \in {"spawn", "continue", "stopTree"}
    /\ ops[o].rungs # {} => Climber(o)
    /\ ops[o].state = "tree-stop-pending" => call[o].kind = "stopTree"
    /\ "run" \in ops[o].rungs => runs[o].life # "none"
    /\ {"reserved", "live", "furnished", "ready"} \cap ops[o].rungs # {} => "run" \in ops[o].rungs
    /\ fences[o] # "none" => call[o].kind = "stopTree"

Shape ==
    /\ \A c \in Calls : Where(c) /\ Named(c) /\ Holding(c) /\ JournalOK(c)
    /\ \A r \in Runs : RunOK(r)
    /\ BornOK /\ ParentOK

-----------------------------------------------------------------------------
(* What a step does to the calls, to the runs and to the journals, written  *)
(* once for the actions that have it in common.                             *)

(* Another call: it loses copies, and nothing else.                         *)
Same(d) ==
    /\ call'[d].kind = call[d].kind /\ call'[d].target = call[d].target
    /\ call'[d].old = call[d].old /\ call'[d].at = call[d].at
    /\ call'[d].todo = call[d].todo /\ call'[d].missed = call[d].missed
    /\ call'[d].victim = call[d].victim /\ call'[d].fence = call[d].fence
    /\ call'[d].outcome = call[d].outcome /\ call'[d].copies \subseteq call[d].copies
Others(c) == \A d \in Calls \ {c} : Same(d)

Lands(c, rec) ==
    /\ call'[c].kind = rec.kind /\ call'[c].target = rec.target
    /\ call'[c].old = rec.old /\ call'[c].at = rec.at /\ call'[c].copies \subseteq rec.copies
    /\ rec.at \notin AtRest =>
         /\ call'[c].todo = rec.todo /\ call'[c].missed = rec.missed
         /\ call'[c].victim = rec.victim /\ call'[c].fence = rec.fence
         /\ call'[c].outcome = rec.outcome

(* A write of a run: made, whatever is said of it, or not made.             *)
Patched(c, r, new, then, otherwise) ==
    /\ call' \in [Calls -> CallRecord] /\ runs' \in [Runs -> RunRecord] /\ ops' = ops
    /\ Others(c) /\ troubles' \in 0 .. MaxTroubles
    /\ \/ /\ r \in call[c].copies /\ r \in Runs /\ runs' = [runs EXCEPT ![r] = new]
          /\ Lands(c, Reading(then, r)) \/ Lands(c, Reading(otherwise, r))
          /\ \A d \in Calls \ {c} : r \notin call'[d].copies
       \/ runs' = runs /\ Lands(c, otherwise)

(* A write of a journal, likewise.                                          *)
Journalled(c, o, new, then, otherwise) ==
    /\ call' \in [Calls -> CallRecord] /\ ops' \in [Calls -> OpRecord] /\ runs' = runs
    /\ Others(c) /\ troubles' \in 0 .. MaxTroubles
    /\ \/ ops' = [ops EXCEPT ![o] = new] /\ (Lands(c, then) \/ Lands(c, otherwise))
       \/ ops' = ops /\ Lands(c, otherwise)

(* A rung of a ladder.                                                      *)
Advanced(c, rung, state, then) ==
    /\ call' \in [Calls -> CallRecord] /\ ops' \in [Calls -> OpRecord] /\ runs' = runs
    /\ Others(c) /\ troubles' \in 0 .. MaxTroubles
    /\ \/ ops' = ops
       \/ rung \notin ops[c].rungs
          /\ ops' = [ops EXCEPT ![c] = [ops[c] EXCEPT !.rungs = @ \cup {rung}, !.state = state]]
    /\ \/ Lands(c, then) /\ rung \in ops'[c].rungs
       \/ Lands(c, At(c, "compTerminal"))

(* A call goes on to a step, or to rest, with what it had.                  *)
Goes(c, step) ==
    /\ call'[c].kind = call[c].kind /\ call'[c].target = call[c].target
    /\ call'[c].old = call[c].old /\ call'[c].at = step
    /\ step \notin AtRest =>
         /\ call'[c].todo = call[c].todo /\ call'[c].missed = call[c].missed
         /\ call'[c].victim = call[c].victim /\ call'[c].fence = call[c].fence
         /\ call'[c].outcome = call[c].outcome

Acts(c) == /\ call' \in [Calls -> CallRecord] /\ Others(c) /\ troubles' \in 0 .. MaxTroubles
           /\ call'[c].kind = call[c].kind /\ call'[c].target = call[c].target
           /\ call'[c].old = call[c].old
Quiet == UNCHANGED <<parent, born, fences, crowd, overlooked, lost, asked, meddled, hollow, retries>>

Climbs(c, from, rung, state, to) ==
    /\ call[c].at = from /\ Acts(c) /\ runs' = runs /\ pty' = pty
    /\ ops' \in [Calls -> OpRecord]
    /\ \/ ops' = ops
       \/ rung \notin ops[c].rungs
          /\ ops' = [ops EXCEPT ![c] = [ops[c] EXCEPT !.rungs = @ \cup {rung}, !.state = state]]
    /\ (Goes(c, to) /\ rung \in ops'[c].rungs) \/ Goes(c, "compTerminal")

Writes(c, from, r, new, to, other) ==
    /\ call[c].at = from /\ Acts(c) /\ ops' = ops /\ pty' = pty
    /\ runs' \in [Runs -> RunRecord]
    /\ \/ /\ r \in call[c].copies /\ r \in Runs /\ runs' = [runs EXCEPT ![r] = new]
          /\ Goes(c, to) \/ Goes(c, other)
          /\ \A d \in Calls \ {c} : r \notin call'[d].copies
       \/ runs' = runs /\ Goes(c, other)

(* What becomes of a call when a run it closes is closed, or is not.        *)
Closes(c, result) ==
    /\ call'[c].kind = call[c].kind /\ call'[c].target = call[c].target
    /\ call'[c].old = call[c].old
    /\ call[c].kind = "stop" => call'[c].at \in {"failed", "ended"}
    /\ call[c].kind = "continue" => call'[c].at \in {"compTerminal", "settle"}
    /\ call[c].kind \in {"stopTree", "repair"} =>
         /\ call'[c].at = "stopEach" /\ call'[c].fence = call[c].fence
         /\ call'[c].todo = call[c].todo \ {runs[call[c].victim].agent}
         /\ call'[c].missed = IF result = "stopped" THEN call[c].missed
                              ELSE call[c].missed \cup {runs[call[c].victim].agent}

(* A closed run is recorded.                                                *)
Marks(c, new, result) ==
    /\ Acts(c) /\ ops' = ops /\ pty' = pty /\ Quiet /\ runs' \in [Runs -> RunRecord]
    /\ \/ runs' = runs /\ Closes(c, "error")
       \/ /\ call[c].victim \in call[c].copies
          /\ runs' = [runs EXCEPT ![call[c].victim] = new]
          /\ \A d \in Calls \ {c} : call[c].victim \notin call'[d].copies
          /\ Closes(c, "error") \/ Closes(c, result)

(* A fence is released, or keeps closing and nobody notices.                *)
Released(f) ==
    \/ fences' = [fences EXCEPT ![f] = IF @ = "closing" THEN "released" ELSE @] /\ lost' = lost
    \/ fences' = fences /\ lost' = lost \cup {f}

\* what a tree-stop, or the repair of one, has stopped
DoneBy(c) ==
    (IF call[c].kind = "repair" THEN ops[Journal(c)].stopped \cup call[c].shown
     ELSE call[c].shown \cup {call[c].target}) \ call[c].missed

Unmarked(o) == {"reserved", "live"} \cap ops[o].rungs = {}

(* What becomes of a call when its compensation is over, or failed.         *)
Ends(c, ok) ==
    \/ call[c].kind = "spawn" /\ (Goes(c, "failed") \/ Goes(c, "refused"))
    \/ call[c].kind = "continue" /\ Goes(c, "releaseOld")
    \/ call[c].kind = "repair" /\ ok /\ Goes(c, "repairFence")
    \/ call[c].kind = "repair" /\ Goes(c, "failed")

-----------------------------------------------------------------------------
(* What a step may do to the shape of the records.                          *)

HistoryOK ==
    /\ fences' \in [Calls -> {"none", "closing", "released"}]
    /\ crowd' \in [Calls -> SUBSET Calls]
    /\ overlooked' \subseteq Runs /\ lost' \subseteq Calls
    /\ asked' \subseteq Agents /\ meddled' \subseteq Calls /\ hollow' \subseteq Calls
    /\ troubles' \in 0 .. MaxTroubles /\ retries' \in 0 .. MaxRetries
    /\ \A f \in Calls : /\ fences[f] # "none" => fences'[f] # "none"
                        /\ fences'[f] # "none" => fences[f] # "none" \/ call[f].kind = "stopTree"

RunsKept ==
    /\ runs' \in [Runs -> RunRecord]
    /\ \A r \in Runs : /\ runs'[r].agent = runs[r].agent
                       /\ runs'[r].life = "none" <=> runs[r].life = "none"
                       /\ runs[r].terminal => runs'[r].terminal

PtyKept ==
    /\ pty' \in [Runs -> {"none", "live", "dead"}]
    /\ \A r \in Runs : pty'[r] # "none" => runs[r].life # "none"

Rewritten(o) ==
    /\ ops'[o].state # "none" /\ call[o].kind \in {"spawn", "continue", "stopTree"}
    /\ ops'[o].rungs # {} => Climber(o)
    /\ ops'[o].state = "tree-stop-pending" => call[o].kind = "stopTree"
    /\ "run" \in ops'[o].rungs => runs[o].life # "none"
    /\ {"reserved", "live", "furnished", "ready"} \cap ops'[o].rungs # {} => "run" \in ops'[o].rungs
    /\ ops[o].rungs \subseteq ops'[o].rungs

OpsKept == /\ ops' \in [Calls -> OpRecord]
           /\ \A o \in Calls : ops'[o] = ops[o] \/ Rewritten(o)

Stays(d) == /\ call'[d].kind = call[d].kind /\ call'[d].target = call[d].target
            /\ call'[d].old = call[d].old
            /\ Same(d) \/ (Where(d)' /\ Holding(d)')

(* A call that acts holds what its next step needs.                         *)
Rests(c) == call'[c].at \in {"failed", "refused", "ended"}
Climbing == {"reserve"} \cup HasRun

-----------------------------------------------------------------------------
(* What no step takes back.                                                 *)

RunsGrow == \A r \in Runs : runs[r].life # "none" =>
    /\ runs'[r].life # "none" /\ runs'[r].agent = runs[r].agent
    /\ runs[r].terminal => runs'[r].terminal
PtyGrows == \A r \in Runs : pty[r] = "dead" => pty'[r] = "dead"
OpsGrow == \A o \in Calls : ops[o].rungs \subseteq ops'[o].rungs
CallsGrow == \A c \in Calls : call[c].kind # "none" =>
    /\ call'[c].kind = call[c].kind /\ call'[c].target = call[c].target
    /\ call'[c].old = call[c].old
HistoryGrows ==
    /\ meddled \subseteq meddled' /\ hollow \subseteq hollow' /\ asked \subseteq asked'
    /\ overlooked \subseteq overlooked' /\ lost \subseteq lost'
    /\ \A f \in Calls : crowd[f] \subseteq crowd'[f]
    /\ \A a \in Agents : parent[a] # None => parent'[a] = parent[a]
Grows == RunsGrow /\ PtyGrows /\ OpsGrow /\ CallsGrow /\ HistoryGrows

-----------------------------------------------------------------------------
(* A journal has one worker: the call that it is of, or the repairs of it.  *)
(* No ladder is climbed twice, unless the journal was meddled with.         *)

Owns(c) == call[c].kind \in {"spawn", "continue", "stopTree"}
Ascends(c) == Owns(c) /\ Working(c) /\ call[c].at \notin Undoing \cup {"releaseOld"}
Repairing(d, o) ==
    call[d].kind = "repair" /\ call[d].target = o /\ Working(d) /\ call[d].at # "judge"
Alone(o) == Working(o) \/ call[o].at = "ended" => \A d \in Calls : ~Repairing(d, o)

\* its journal is completed when its call has ended, and not before
Unready(c) ==
    /\ Ascends(c) => ops[c].state # "completed" /\ "ready" \notin ops[c].rungs
    /\ Owns(c) /\ call[c].at = "ended" => ops[c].state = "completed"
Guarded == \A c \in Calls : c \notin meddled => Alone(c) /\ Unready(c)

-----------------------------------------------------------------------------
(* Who is as good as ready has a terminal, who is to be marked stopped has  *)
(* none that lives.                                                         *)

Fit == {"furnish", "gated", "ready"} \cup Retiring
Attached(c) ==
    Climber(c) /\ call[c].at \in Fit => runs[c].terminal /\ runs[c].life # "none"
Killed(c) ==
    call[c].at = "stopped" /\ call[c].victim \in call[c].copies =>
        pty[call[c].victim] = "dead" \/ ~runs[call[c].victim].terminal
Fitted == \A c \in Calls : Attached(c) /\ Killed(c)

-----------------------------------------------------------------------------
(* What a compensation found out stays true while it is at work.            *)

Mends == {"compRun", "compOp", "repairFence", "repairSettle"}
Undone(c) ==
    LET o == Journal(c) IN
    /\ call[c].at \in {"compRun", "compOp"} =>
         /\ call[c].outcome = "none" => Unmarked(o)
         /\ call[c].outcome = "sure" => pty[o] = "dead"
    /\ call[c].at \in {"repairFence", "repairSettle"} /\ pty[o] = "live" =>
         ops[o].doubt \/ Unmarked(o)
Mended == \A c \in Calls : Journal(c) \notin meddled => Undone(c)

-----------------------------------------------------------------------------
(* An ended run whose terminal lives is on record.                          *)

Recorded(r) ==
    /\ r \in Calls /\ ops[r].state = "completed" /\ pty[r] = "live" =>
         runs[r].terminal \/ Unmarked(r)
    /\ r \in Calls /\ Climber(r) /\ call[r].at \in Retiring =>
         (runs[r].life \in Final /\ pty[r] = "live" => runs[r].doubt)
    /\ runs[r].life \in Final /\ pty[r] = "live" =>
         runs[r].doubt \/ (r \in Calls /\ (ops[r].state # "completed" \/ Unmarked(r)))
AllRecorded == \A r \in Runs : r \notin meddled => Recorded(r)

\* a call does not come to retire by this step
Lingers(r) == r \in Calls => (Climber(r)' /\ call'[r].at \in Retiring
                                => Climber(r) /\ call[r].at \in Retiring)

OrphanInv == Guarded /\ Fitted /\ Mended /\ AllRecorded

-----------------------------------------------------------------------------
(* An agent that works keeps a run: a run that worked lives until a younger *)
(* one has taken its place, and what a call at its place knows of that.     *)

Excused(a) == a \in asked \/ \E c \in meddled \cup hollow : AgentOf(c) = a
Seasoned(r) == r = Root \/ (r \in Calls /\ Climber(r) /\ call[r].at \in Retiring)
Started(r) == Seasoned(r) \/ (r \in Calls /\ Climber(r) /\ call[r].at \in Opened)
Replaced(r) == \E d \in Calls : /\ call[d].kind = "continue" /\ call[d].old = r
                                /\ "furnished" \in ops[d].rungs
Kept(r) == ~Excused(runs[r].agent) =>
    /\ Seasoned(r) => Live(r) \/ Replaced(r)
    /\ Started(r) /\ pty[r] = "dead" => Replaced(r)

Precedes(r, q) == \E i, j \in DOMAIN born : i < j /\ born[i] = r /\ born[j] = q
Proven == {"ready"} \cup Retiring
Informed(c) ==
    /\ c \in meddled \cup hollow => call[c].kind # "none"
    /\ call[c].at \in Closer /\ call[c].kind # "continue" => runs[call[c].victim].agent \in asked
    /\ Climber(c) /\ call[c].at \in Proven => "furnished" \in ops[c].rungs
    /\ call[c].kind = "continue" /\ runs[c].life # "none" => Precedes(call[c].old, c)

AllInformed == \A c \in Calls : Informed(c)
AllKept == \A r \in Runs : Kept(r)

BornAfter == \/ born' = born
             \/ \E q \in Runs : runs[q].life = "none" /\ born' = Append(born, q)

\* how far a call has come, as far as the runs it keeps are concerned
Lags(c) == Climber(c) =>
    /\ call'[c].at \in Retiring => call[c].at \in Retiring
    /\ call'[c].at \in Proven => call[c].at \in Proven \/ "furnished" \in ops'[c].rungs
    /\ call'[c].at \in Opened \cup Retiring => call[c].at \in Opened \cup Retiring
Attends(c) ==
    call'[c].at \in Closer /\ call[c].kind # "continue" =>
        call[c].at \in Closer /\ call'[c].victim = call[c].victim

KeepInv == OrphanInv /\ AllInformed /\ AllKept

-----------------------------------------------------------------------------
(* A fence that is closing belongs to a journal that is open.               *)

Fenced(f) == fences[f] # "none" => ops[f].state # "none"

\* nobody will be left to open the fence, and that is known
Loose(f) == f \in meddled \cup lost \/ fences[f] # "closing" \/ Doubled(f)

\* whoever is about to complete a journal has opened its fence
Settles(d) == \/ call[d].at = "settleTree" /\ call[d].missed = {}
              \/ call[d].at = "repairSettle"
              => Loose(Journal(d))
OwnerInv == \A f \in Calls : /\ Fenced(f) /\ Settles(f)
                             /\ ops[f].state = "completed" => Loose(f)

JournalsGoOn == \A o \in Calls :
    /\ ops[o].state # "none" => ops'[o].state # "none"
    /\ ops'[o].state = "completed" =>
         ops[o].state = "completed" \/ fences'[o] # "closing" \/ Loose(o)
FencesOpen == \A f \in Calls : /\ fences'[f] = "closing" => fences[f] = "closing"
                               /\ fences'[f] # "none" <=> fences[f] # "none"

-----------------------------------------------------------------------------
(* What a tree-stop has behind it stays stopped: what a step does to the    *)
(* runs as other calls see them, who may still be alive, and where.         *)

Touches(c) ==
    /\ Others(c)
    /\ \A r \in Runs : runs'[r] = runs[r] \/ \A d \in Calls \ {c} : r \notin call'[d].copies
    /\ \A r \in Runs : Live(r)' => Live(r) \/ (r = c /\ Admitted(c))

\* what a copy that is up to date says
Copied(c) ==
    /\ call[c].kind = "continue" /\ call[c].at \in {"open", "fenceOld"} /\ call[c].old \in call[c].copies
         => Live(call[c].old)
    /\ call[c].at \in {"terminate", "unsure", "stopped"} /\ call[c].victim \in call[c].copies
         => runs[call[c].victim].life = "stopping"

Outside(c, root) == /\ call[c].target \notin Tree(root)
                    /\ call[c].kind = "spawn" => c # root

\* the crowd of a fence is complete
Counted(f) == fences[f] # "none" =>
    \A c \in Calls : Admitted(c) => c \in crowd[f] \/ Outside(c, call[f].target)

\* the live runs of a tree: known to slip through, or of agents A, or v
Behind(f, A, v) == \A r \in Runs : Live(r) /\ runs[r].agent \in Tree(call[f].target) =>
    r \in crowd[f] \cup overlooked \/ runs[r].agent \in A \/ r = v
Owner(c) == IF call[c].kind = "repair" THEN call[c].target ELSE call[c].fence
Sweeps(c) == call[c].kind \in {"stopTree", "repair"} /\ call[c].at \in Loop
Left(c) == call[c].todo \cup call[c].missed
Swept(c) ==
    Sweeps(c) /\ (call[c].kind = "repair" => ~Doubled(Owner(c))) =>
    /\ fences[Owner(c)] # "none"
    /\ call[c].at \notin Closer => Behind(Owner(c), Left(c), None)
    /\ call[c].at \in Closer =>
         Behind(Owner(c), Left(c) \ {runs[call[c].victim].agent}, call[c].victim)
    /\ call[c].at = "settleTree" => call[c].todo = {}
Rest(o) == ops[o].state = "tree-stop-pending" =>
    Doubled(o) \/ (fences[o] # "none" /\ Behind(o, Agents \ ops[o].stopped, None))
OpenInv == \A c \in Calls : Counted(c) /\ Swept(c) /\ Rest(c) /\ Copied(c)

\* a run comes alive only for a call that was admitted, a tree grows only by an agent without runs
Arises == \A r \in Runs : Live(r)' => Live(r) \/ (r \in Calls /\ Admitted(r))
Grafts == \A a \in Agents : \A x \in Tree(a)' : x \in Tree(a) \/ (~Exists(x) /\ runs' = runs)
Steady == Arises /\ Grafts /\ \A f \in Calls : fences[f] # "none" => fences'[f] # "none"

=============================================================================
