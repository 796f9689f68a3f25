---------------------------- MODULE RunOperations ----------------------------
(***************************************************************************)
(* The operations of src/packages/agent-runtime/core that create and end    *)
(* runs: spawn (spawn.ts, spawn-stages.ts, gate.ts), continue (continue.ts, *)
(* continue-launch.ts), stop (lifecycle.ts), stop-tree (stop-tree.ts) and   *)
(* repair (repair.ts), over the operation journal (journal.ts), with boot   *)
(* recovery and the settling of runs whose terminal ended (recover.ts).     *)
(*                                                                         *)
(* Nothing serialises these operations: each await is a place where another *)
(* one may step in, and what protects a record is the compare-and-set on    *)
(* its version: a call writes a run only while it holds a copy of its       *)
(* current version (field copies), a journal while it holds that (entry).   *)
(*                                                                         *)
(* A spawn c creates agent c and run c under journal c; a continuation c    *)
(* creates run c for an agent that exists; a call that is sent again is the *)
(* same call under the same journal.                                       *)
(*                                                                         *)
(* Abstracted: authority, launch plans, grants, supervision and endpoints;  *)
(* the rungs of a ladder between two steps of other parties are one step    *)
(* that may fail; spawns have a parent and a terminal (a headless child has *)
(* no terminal to lose); the two identical reads of stableSnapshot are one; *)
(* a read and the compare-and-set that follows at once are one step.        *)
(***************************************************************************)
EXTENDS Integers, Sequences, FiniteSets

CONSTANTS
    Calls,        \* commands that clients send
    Root,         \* the agent, and its run, that exist from the start
    None,
    Kinds,        \* the commands that are sent
    MaxTroubles,  \* bound: failed writes, port failures, exits and restarts
    MaxRetries    \* bound: commands that are sent again

ASSUME Parameters ==
    /\ Root \notin Calls /\ None \notin Calls \cup {Root}
    /\ Kinds \subseteq {"spawn", "continue", "stop", "stopTree", "repair"}
    /\ MaxTroubles \in Nat /\ MaxRetries \in Nat

Agents == Calls \cup {Root}
Runs == Calls \cup {Root}
AtRest == {"new", "failed", "refused", "ended"}
Steps == AtRest \cup
    {"admit", "open", "identity", "fenceOld", "drain", "reserve", "journalRun",
     "reserveTerminal", "openTerminal", "journalTerminal", "patchTerminal", "furnish", "gated",
     "ready", "settle", "stopping", "terminate", "unsure", "stopped", "closeFence",
     "createFence", "snapshot", "stopEach", "release", "settleTree", "compTerminal",
     "compRun", "compOp", "releaseOld", "judge", "repairFence", "repairSettle"}
Final == {"stopped", "failed", "interrupted"}   \* FINAL_LIFECYCLES
Lifecycles == Final \cup {"none", "provisioning", "ready", "continuation-pending", "stopping",
                          "recovery-required"}
Rungs == {"identity", "fenced", "run", "reserved", "live", "furnished", "ready"}

VARIABLES
    call,     \* what each call is doing
    parent,   \* the family edges that Agents records
    runs, pty,     \* the runs, and the terminal process of each
    born,     \* the runs in the order of their creation
    ops,      \* the operation journals
    fences,   \* the tree-mutation fence that a stop-tree created
    crowd,    \* history: calls that a fence did not hold back since it was created
    overlooked,    \* history: live runs that were not the oldest of an agent being stopped
    lost,     \* history: fences whose release failed unnoticed
    asked,    \* history: agents somebody stopped, or that lost a terminal or a runtime
    meddled,  \* history: journals that a call worked on next to, or after, a repair
    hollow,   \* history: continuations that took up a terminal that had ended
    troubles, retries

vars == <<call, parent, runs, pty, born, ops, fences, crowd, overlooked, lost, asked,
          meddled, hollow, troubles, retries>>

NoRun == [agent |-> None, life |-> "none", terminal |-> FALSE, doubt |-> FALSE]
NoOp == [state |-> "none", mine |-> FALSE, rungs |-> {}, doubt |-> FALSE, stopped |-> {}]
Idle == [kind |-> "none", target |-> None, old |-> None, at |-> "new", copies |-> {},
         entry |-> FALSE, shown |-> {}, todo |-> {}, missed |-> {}, victim |-> None,
         fence |-> None, outcome |-> "none", verdict |-> "failed"]

Init ==
    /\ call = [c \in Calls |-> Idle]
    /\ parent = [a \in Agents |-> None]
    /\ runs = [r \in Runs |-> IF r = Root
                   THEN [agent |-> Root, life |-> "ready", terminal |-> TRUE, doubt |-> FALSE]
                   ELSE NoRun]
    /\ pty = [r \in Runs |-> IF r = Root THEN "live" ELSE "none"]
    /\ born = <<Root>>
    /\ ops = [c \in Calls |-> NoOp]
    /\ fences = [c \in Calls |-> "none"]
    /\ crowd = [c \in Calls |-> {}]
    /\ overlooked = {} /\ lost = {} /\ asked = {} /\ meddled = {}
    /\ hollow = {}
    /\ troubles = 0 /\ retries = 0

-----------------------------------------------------------------------------
(* What the records say.                                                    *)

Exists(a) == a = Root \/ parent[a] # None
Live(r) == runs[r].life \notin Final \cup {"none"}
LiveRuns(a) == {r \in Runs : runs[r].agent = a /\ Live(r)}
Age(r) == CHOOSE i \in 1 .. Len(born) : born[i] = r

\* liveRunOf: the list is in order of creation, the first live run wins
LiveRunOf(a) ==
    IF LiveRuns(a) = {} THEN None
    ELSE CHOOSE r \in LiveRuns(a) : \A q \in LiveRuns(a) : Age(r) <= Age(q)

KidsOf(a) == {k \in Agents : parent[k] = a}
\* a family has the kids of an agent, and the kids of all its members
Family(S, a) == KidsOf(a) \cup UNION {KidsOf(k) : k \in S} \subseteq S
\* descendantsOf: the walk down from an agent, the members of every family of it
DescendantsOf(a) == {d \in Agents : \A S \in SUBSET Agents : Family(S, a) => d \in S}
Tree(a) == DescendantsOf(a) \cup {a}

Closing(root) == {f \in Calls : fences[f] = "closing" /\ call[f].target = root}
\* mutant: the root of the tree is not part of it
InsideClosingTree_below(a) == \E root \in Agents : Closing(root) # {} /\ a \in DescendantsOf(root)

InsideClosingTree(a) == \E root \in Agents : Closing(root) # {} /\ a \in Tree(root)

Working(c) == call[c].at \notin AtRest
Admitted(c) == call[c].kind \in {"spawn", "continue"} /\ Working(c) /\ call[c].at # "admit"
Journal(c) == IF call[c].kind = "repair" THEN call[c].target ELSE c
AgentOf(c) == IF call[c].kind = "spawn" THEN c ELSE call[c].target

-----------------------------------------------------------------------------
(* Steps of a call, and the writes they make.  then and otherwise are what  *)
(* the call is afterwards.                                                  *)

At(c, step) == [call[c] EXCEPT !.at = step]
Reading(rec, r) == [rec EXCEPT !.copies = @ \cup {r}]

\* a call at rest holds nothing but its request
Tidy(rec) ==
    IF rec.at \notin AtRest THEN rec
    ELSE [rec EXCEPT !.copies = {}, !.entry = FALSE, !.todo = {}, !.missed = {},
                     !.victim = None, !.fence = None, !.outcome = "none", !.verdict = "failed",
                     !.shown = IF rec.kind = "stopTree" THEN @ ELSE {}]

Become(c, rec) == call' = [call EXCEPT ![c] = Tidy(rec)]
KeepRuns == UNCHANGED runs
Keep == KeepRuns /\ UNCHANGED ops

Trouble == troubles < MaxTroubles /\ troubles' = troubles + 1
Smooth == UNCHANGED troubles

\* patchRun / store.update on a run: every other copy of it is stale from now on
WriteRun(c, rec, r, new) ==
    /\ runs' = [runs EXCEPT ![r] = new]
    /\ call' = [d \in Calls |-> IF d = c THEN Tidy(Reading(rec, r))
                                ELSE [call[d] EXCEPT !.copies = @ \ {r}]]

\* the write, its refusal, and its failure: not written, or written and not announced
PatchRun(c, r, new, then, otherwise) ==
    /\ UNCHANGED ops
    /\ \/ r \in call[c].copies /\ WriteRun(c, then, r, new) /\ Smooth
       \/ r \notin call[c].copies /\ Become(c, otherwise) /\ KeepRuns /\ Smooth
       \/ /\ r \in call[c].copies /\ Trouble
          /\ WriteRun(c, otherwise, r, new) \/ (Become(c, otherwise) /\ KeepRuns)

WriteOp(c, rec, o, new) ==
    /\ ops' = [ops EXCEPT ![o] = new]
    /\ call' = [d \in Calls |-> IF d = c THEN Tidy([rec EXCEPT !.entry = TRUE])
                                ELSE IF Journal(d) = o THEN [call[d] EXCEPT !.entry = FALSE]
                                ELSE call[d]]

PatchOp(c, o, new, then, otherwise) ==
    /\ KeepRuns
    /\ \/ call[c].entry /\ WriteOp(c, then, o, new) /\ Smooth
       \/ ~call[c].entry /\ Become(c, otherwise) /\ UNCHANGED ops /\ Smooth
       \/ /\ call[c].entry /\ Trouble
          /\ WriteOp(c, otherwise, o, new) \/ (Become(c, otherwise) /\ UNCHANGED ops)

\* advance: a rung that is recorded already is not recorded again
Advance(c, rung, state, then) ==
    \/ rung \in ops[c].rungs /\ Become(c, then) /\ Keep /\ Smooth
    \/ rung \notin ops[c].rungs
       /\ PatchOp(c, c, [ops[c] EXCEPT !.rungs = @ \cup {rung}, !.state = state],
                  then, At(c, "compTerminal"))

-----------------------------------------------------------------------------
(* Requests.  A client names what it has seen; the request may be late.     *)

Ask(kind, target, old, step) ==
    [Idle EXCEPT !.kind = kind, !.target = target, !.old = old, !.at = step]

Send(c) ==
    /\ call[c].at = "new"
    /\ \E k \in Kinds :
         \/ /\ k = "spawn"
            /\ \E a \in Agents : Exists(a) /\ Become(c, Ask(k, a, None, "admit"))
         \/ /\ k \in {"continue", "stop"}
            /\ \E r \in Runs : Live(r) /\ Become(c, Ask(k, runs[r].agent, r, "admit"))
         \/ /\ k = "stopTree"
            /\ \E a \in Agents : Exists(a)
                 /\ Become(c, [Ask(k, a, None, "open") EXCEPT !.shown = DescendantsOf(a)])
         \/ /\ k = "repair"
            /\ \E o \in Calls : ops[o].state # "none" /\ Become(c, Ask(k, o, None, "judge"))
    /\ UNCHANGED <<meddled, hollow, parent, runs, pty, born, ops, fences, crowd, overlooked, lost, asked,
                   troubles, retries>>

SendAgain(c) ==
    /\ call[c].at = "failed" /\ retries < MaxRetries /\ retries' = retries + 1
    /\ Become(c, At(c, CASE call[c].kind = "stopTree" -> "open"
                         [] call[c].kind = "repair" -> "judge"
                         [] OTHER -> "admit"))
    /\ meddled' = IF \/ \E d \in Calls : Working(d) /\ Journal(d) = c
                     \/ ops[c].state = "completed" \/ "ready" \in ops[c].rungs
                  THEN meddled \cup {c} ELSE meddled
    /\ UNCHANGED <<hollow, parent, runs, pty, born, ops, fences, crowd, overlooked, lost, asked,
                   troubles>>

\* treeAcceptsAChild / continuableRun / stopAgent, before anything is written
Admit(c) ==
    /\ call[c].at = "admit"
    /\ LET old == call[c].old
           closed == call[c].kind # "stop" /\ InsideClosingTree(call[c].target)
           gone == \/ call[c].kind = "continue" /\ ~Live(old)
                   \/ call[c].kind = "stop" /\ LiveRunOf(call[c].target) \notin {None, old}
           answer ==
             IF closed THEN At(c, "failed") ELSE IF gone THEN At(c, "refused")
             ELSE CASE call[c].kind = "spawn" -> At(c, "open")
                    [] call[c].kind = "continue" -> Reading(At(c, "open"), old)
                    [] OTHER -> Reading([At(c, "stopping") EXCEPT !.victim = old], old)
       IN  /\ Become(c, answer)
           /\ asked' = IF answer.at = "stopping" THEN asked \cup {call[c].target} ELSE asked
           /\ crowd' = [f \in Calls |->
                  IF answer.at = "open" /\ (f \in Closing(AgentOf(c)) \/ fences[f] = "released")
                  THEN crowd[f] \cup {c} ELSE crowd[f]]
    /\ UNCHANGED <<meddled, hollow, parent, runs, pty, born, ops, fences, overlooked, lost, troubles,
                   retries>>

-----------------------------------------------------------------------------
(* The ladders of spawn and continue.                                       *)

ResumeRefused(c) ==
    /\ call[c].kind = "spawn" /\ ops[c].state = "recovery-required"
    /\ ops[c].doubt \/ "run" \in ops[c].rungs

OpenOperation(c) ==
    /\ call[c].at = "open"
    /\ LET go == At(c, CASE call[c].kind = "spawn" -> "identity"
                         [] call[c].kind = "continue" -> "fenceOld"
                         [] OTHER -> "closeFence")
           fresh == [NoOp EXCEPT !.state = "running", !.mine = TRUE]
       IN  \/ /\ ops[c].state = "none" /\ WriteOp(c, go, c, fresh) /\ Smooth
           \/ /\ ops[c].state = "none" /\ Trouble
              /\ WriteOp(c, At(c, "failed"), c, fresh) \/ (Become(c, At(c, "failed")) /\ UNCHANGED ops)
           \/ /\ ops[c].state # "none" /\ UNCHANGED ops /\ Smooth
              /\ Become(c, IF ResumeRefused(c) THEN At(c, "failed") ELSE [go EXCEPT !.entry = TRUE])
    /\ KeepRuns
    /\ UNCHANGED <<meddled, hollow, parent, pty, born, fences, crowd, overlooked, lost, asked, retries>>

\* mutant: an agent without its family edge
Identity_unrelated(c) ==
    /\ call[c].at = "identity"
    /\ Advance(c, "identity", ops[c].state, At(c, "reserve"))
    /\ UNCHANGED <<meddled, hollow, parent, pty, born, fences, crowd, overlooked, lost, asked, retries>>

\* governedIdentity: the agent and its family edge, then the journal
Identity(c) ==
    /\ call[c].at = "identity"
    /\ \/ parent' = [parent EXCEPT ![c] = call[c].target]
          /\ Advance(c, "identity", ops[c].state, At(c, "reserve"))
       \/ UNCHANGED parent /\ Trouble /\ Become(c, At(c, "compTerminal")) /\ Keep
    /\ UNCHANGED <<meddled, hollow, pty, born, fences, crowd, overlooked, lost, asked, retries>>

FenceOldRun(c) ==
    /\ call[c].at = "fenceOld"
    /\ LET old == call[c].old
       IN  PatchRun(c, old, [runs[old] EXCEPT !.life = "continuation-pending"],
                    At(c, "drain"), At(c, "compTerminal"))
    /\ UNCHANGED <<meddled, hollow, parent, pty, born, fences, crowd, overlooked, lost, asked, retries>>

DrainOldRun(c) ==
    /\ call[c].at = "drain"
    /\ Advance(c, "fenced", "continuation-pending", At(c, "reserve"))
    /\ UNCHANGED <<meddled, hollow, parent, pty, born, fences, crowd, overlooked, lost, asked, retries>>

\* the run: the one that is journalled, the one this command created before, or a new one
ReserveRun(c) ==
    /\ call[c].at = "reserve" /\ UNCHANGED ops
    /\ LET next == Reading(At(c, "journalRun"), c)
           new == [NoRun EXCEPT !.agent = AgentOf(c), !.life = "provisioning"]
           created == runs[c].life # "none"
           journalled == "run" \in ops[c].rungs
           conflict == call[c].kind = "spawn" /\ ~journalled /\ LiveRunOf(AgentOf(c)) # None
           Create(rec) == IF created THEN Become(c, rec) /\ KeepRuns /\ UNCHANGED born
                          ELSE WriteRun(c, rec, c, new) /\ born' = Append(born, c)
       IN  \/ journalled /\ Become(c, next) /\ KeepRuns /\ UNCHANGED born /\ Smooth
           \/ /\ conflict /\ KeepRuns /\ UNCHANGED born /\ Smooth
              /\ Become(c, [At(c, "compTerminal") EXCEPT !.verdict = "refused"])
           \/ ~journalled /\ ~conflict /\ Create(next) /\ Smooth
           \/ /\ ~journalled /\ ~conflict /\ Trouble
              /\ \/ Create(At(c, "compTerminal"))
                 \/ Become(c, At(c, "compTerminal")) /\ KeepRuns /\ UNCHANGED born
    /\ UNCHANGED <<meddled, hollow, parent, pty, fences, crowd, overlooked, lost, asked, retries>>

JournalRun(c) ==
    /\ call[c].at = "journalRun"
    /\ Advance(c, "run", ops[c].state,
               At(c, IF call[c].kind = "spawn" THEN "reserveTerminal" ELSE "openTerminal"))
    /\ UNCHANGED <<meddled, hollow, parent, pty, born, fences, crowd, overlooked, lost, asked, retries>>

\* only a spawn journals terminal-reserved
ReserveTerminal(c) ==
    /\ call[c].at = "reserveTerminal"
    /\ Advance(c, "reserved", ops[c].state, At(c, "openTerminal"))
    /\ UNCHANGED <<meddled, hollow, parent, pty, born, fences, crowd, overlooked, lost, asked, retries>>

\* a session of this command that ended already is an answer; only spawn looks at its status
OpenTerminal(c) ==
    /\ call[c].at = "openTerminal"
    /\ \/ /\ pty[c] # "dead" /\ pty' = [pty EXCEPT ![c] = "live"]
          /\ Become(c, At(c, "journalTerminal")) /\ UNCHANGED hollow /\ Smooth
       \/ /\ pty[c] = "dead" /\ call[c].kind = "spawn" /\ UNCHANGED <<pty, hollow>> /\ Smooth
          /\ Become(c, At(c, "compTerminal"))
       \/ /\ pty[c] = "dead" /\ call[c].kind # "spawn" /\ UNCHANGED pty /\ Smooth
          /\ Become(c, At(c, "journalTerminal")) /\ hollow' = hollow \cup {c}
       \/ /\ Trouble /\ Become(c, At(c, "compTerminal")) /\ UNCHANGED hollow
          /\ UNCHANGED pty \/ (pty[c] = "none" /\ pty' = [pty EXCEPT ![c] = "dead"])
    /\ Keep
    /\ UNCHANGED <<meddled, parent, born, fences, crowd, overlooked, lost, asked, retries>>

JournalTerminal(c) ==
    /\ call[c].at = "journalTerminal"
    /\ Advance(c, "live", ops[c].state, At(c, "patchTerminal"))
    /\ UNCHANGED <<meddled, hollow, parent, pty, born, fences, crowd, overlooked, lost, asked, retries>>

PatchTerminal(c) ==
    /\ call[c].at = "patchTerminal"
    /\ PatchRun(c, c, [runs[c] EXCEPT !.terminal = TRUE], At(c, "furnish"), At(c, "compTerminal"))
    /\ UNCHANGED <<meddled, hollow, parent, pty, born, fences, crowd, overlooked, lost, asked, retries>>

\* endpoint, provider session, transcript, and the skills gate, whose turns write the run
Furnish(c) ==
    /\ call[c].at = "furnish"
    /\ \/ Advance(c, "furnished", ops[c].state, At(c, "ready"))
       \/ /\ Live(c) /\ pty[c] = "live" /\ "furnished" \notin ops[c].rungs
          /\ WriteRun(c, At(c, "gated"), c, runs[c]) /\ UNCHANGED ops /\ Smooth
    /\ UNCHANGED <<meddled, hollow, parent, pty, born, fences, crowd, overlooked, lost, asked, retries>>

\* confirmed: the run is read again, whatever it says by now; refused: endRun
PassGate(c) ==
    /\ call[c].at = "gated"
    /\ \/ Advance(c, "furnished", ops[c].state, Reading(At(c, "ready"), c))
       \/ PatchRun(c, c, [runs[c] EXCEPT !.life = "failed"],
                   At(c, "compTerminal"), At(c, "compTerminal"))
    /\ UNCHANGED <<meddled, hollow, parent, pty, born, fences, crowd, overlooked, lost, asked, retries>>

MakeReady(c) ==
    /\ call[c].at = "ready"
    /\ LET next == IF call[c].kind = "spawn" THEN At(c, "settle")
                   ELSE [At(c, "stopping") EXCEPT !.victim = call[c].old]
       IN  PatchRun(c, c, [runs[c] EXCEPT !.life = "ready"], next, At(c, "compTerminal"))
    /\ UNCHANGED <<meddled, hollow, parent, pty, born, fences, crowd, overlooked, lost, asked, retries>>

Settle(c) ==
    /\ call[c].at = "settle"
    /\ Advance(c, "ready", "completed", At(c, "ended"))
    /\ UNCHANGED <<meddled, hollow, parent, pty, born, fences, crowd, overlooked, lost, asked, retries>>

-----------------------------------------------------------------------------
(* closeRun, for a stop, a continuation's old run, and each agent of a tree. *)

AfterClose(c, result) ==
    CASE call[c].kind = "stop" -> At(c, IF result = "error" THEN "failed" ELSE "ended")
      [] call[c].kind = "continue" -> At(c, IF result = "error" THEN "compTerminal" ELSE "settle")
      [] OTHER -> LET a == runs[call[c].victim].agent
                  IN  [At(c, "stopEach") EXCEPT !.todo = @ \ {a}, !.victim = None,
                          !.missed = IF result = "stopped" THEN @ ELSE @ \cup {a}]

MarkStopping(c) ==
    /\ call[c].at = "stopping"
    /\ LET v == call[c].victim
           over == v \in call[c].copies /\ ~Live(v)     \* idempotent
       IN  \/ over /\ Become(c, AfterClose(c, runs[v].life)) /\ Keep /\ Smooth
           \/ ~over /\ PatchRun(c, v, [runs[v] EXCEPT !.life = "stopping"],
                                At(c, "terminate"), AfterClose(c, "error"))
    /\ UNCHANGED <<meddled, hollow, parent, pty, born, fences, crowd, overlooked, lost, asked, retries>>

\* a terminate that reports an error may have killed the process or not
Terminate(c) ==
    /\ call[c].at = "terminate" /\ Keep
    /\ LET v == call[c].victim
           killed == [pty EXCEPT ![v] = "dead"]
       IN  \/ ~runs[v].terminal /\ Become(c, At(c, "stopped")) /\ UNCHANGED pty /\ Smooth
           \/ runs[v].terminal /\ Become(c, At(c, "stopped")) /\ pty' = killed /\ Smooth
           \/ runs[v].terminal /\ Trouble /\ Become(c, At(c, "unsure")) /\ pty' \in {pty, killed}
    /\ UNCHANGED <<meddled, hollow, parent, born, fences, crowd, overlooked, lost, asked, retries>>

\* mutant: claims a clean stop
MarkUnsure_silently(c) ==
    /\ call[c].at = "unsure"
    /\ LET v == call[c].victim
       IN  PatchRun(c, v, [runs[v] EXCEPT !.life = "stopped"],
                    AfterClose(c, "stopped"), AfterClose(c, "error"))
    /\ UNCHANGED <<meddled, hollow, parent, pty, born, fences, crowd, overlooked, lost, asked, retries>>

MarkUnsure(c) ==
    /\ call[c].at = "unsure"
    /\ LET v == call[c].victim
       IN  PatchRun(c, v, [runs[v] EXCEPT !.life = "recovery-required", !.doubt = TRUE],
                    AfterClose(c, "unsure"), AfterClose(c, "error"))
    /\ UNCHANGED <<meddled, hollow, parent, pty, born, fences, crowd, overlooked, lost, asked, retries>>

MarkStopped(c) ==
    /\ call[c].at = "stopped"
    /\ LET v == call[c].victim
       IN  PatchRun(c, v, [runs[v] EXCEPT !.life = "stopped"],
                    AfterClose(c, "stopped"), AfterClose(c, "error"))
    /\ UNCHANGED <<meddled, hollow, parent, pty, born, fences, crowd, overlooked, lost, asked, retries>>

-----------------------------------------------------------------------------
(* stop-tree.                                                               *)

\* closeFence: the fence that is closing for this root already, or one of its own
CloseFence(c) ==
    /\ call[c].at = "closeFence"
    /\ LET held == Closing(call[c].target)
       IN  IF held = {} THEN Become(c, At(c, "createFence"))
           ELSE \E f \in held : Become(c, [At(c, "snapshot") EXCEPT !.fence = f])
    /\ UNCHANGED <<meddled, hollow, parent, runs, pty, born, ops, fences, crowd, overlooked, lost, asked,
                   troubles, retries>>

CreateFence(c) ==
    /\ call[c].at = "createFence"
    /\ LET created == /\ fences' = [fences EXCEPT ![c] = "closing"]
                      /\ crowd' = [crowd EXCEPT ![c] = @ \cup {d \in Calls : Admitted(d)}]
       IN  \/ created /\ Become(c, [At(c, "snapshot") EXCEPT !.fence = c]) /\ Smooth
           \/ /\ Trouble /\ Become(c, At(c, "failed"))
              /\ created \/ UNCHANGED <<fences, crowd>>
    /\ UNCHANGED <<meddled, hollow, parent, runs, pty, born, ops, overlooked, lost, asked, retries>>

\* releaseFence: refused when it is released already; a failure goes unnoticed
ReleaseFence(f) ==
    \/ fences' = [fences EXCEPT ![f] = IF @ = "closing" THEN "released" ELSE @]
       /\ UNCHANGED lost /\ Smooth
    \/ UNCHANGED fences /\ lost' = lost \cup {f} /\ Trouble

\* confirmedOrder: the tree the caller was shown, or nothing
ConfirmOrder(c) ==
    /\ call[c].at = "snapshot"
    /\ IF DescendantsOf(call[c].target) = call[c].shown
       THEN /\ Become(c, [At(c, "stopEach") EXCEPT !.todo = Tree(call[c].target)])
            /\ UNCHANGED <<fences, lost>> /\ Smooth
       ELSE Become(c, At(c, "failed")) /\ ReleaseFence(call[c].fence)
    /\ UNCHANGED <<meddled, hollow, parent, runs, pty, born, ops, crowd, overlooked, asked, retries>>

\* stopEachBottomUp: of an agent, the oldest live run
StopNext(c) ==
    /\ call[c].at = "stopEach" /\ call[c].todo # {}
    /\ \E a \in call[c].todo :
          /\ DescendantsOf(a) \cap call[c].todo = {}
          /\ asked' = asked \cup {a}
          /\ LET v == LiveRunOf(a)
             IN  IF v = None
                 THEN /\ Become(c, [call[c] EXCEPT !.todo = @ \ {a}])
                      /\ UNCHANGED overlooked
                 ELSE /\ Become(c, Reading([At(c, "stopping") EXCEPT !.victim = v], v))
                      /\ overlooked' = overlooked \cup (LiveRuns(a) \ {v})
    /\ UNCHANGED <<meddled, hollow, parent, runs, pty, born, ops, fences, crowd, lost, troubles, retries>>

\* the fence of the command, or the one the operation being repaired left closing
FenceOf(c) ==
    IF call[c].kind = "stopTree" THEN call[c].fence
    ELSE IF fences[call[c].target] = "closing" THEN call[c].target ELSE None

FinishTree(c) ==
    /\ call[c].at = "stopEach" /\ call[c].todo = {} /\ Become(c, At(c, "settleTree"))
    /\ IF call[c].missed = {} /\ FenceOf(c) # None THEN ReleaseFence(FenceOf(c))
       ELSE UNCHANGED <<fences, lost>> /\ Smooth
    /\ UNCHANGED <<meddled, hollow, parent, runs, pty, born, ops, crowd, overlooked, asked, retries>>

SettleTreeStop(c) ==
    /\ call[c].at = "settleTree"
    /\ LET o == Journal(c)
           done == (IF call[c].kind = "repair" THEN ops[o].stopped \cup call[c].shown
                    ELSE call[c].shown \cup {call[c].target}) \ call[c].missed
       IN  IF call[c].missed = {}
           THEN PatchOp(c, o, [ops[o] EXCEPT !.state = "completed", !.stopped = done],
                        At(c, "ended"), At(c, "failed"))
           ELSE PatchOp(c, o, [ops[o] EXCEPT !.state = "tree-stop-pending", !.stopped = done],
                        At(c, "failed"), At(c, "failed"))
    /\ UNCHANGED <<meddled, hollow, parent, pty, born, fences, crowd, overlooked, lost, asked, retries>>

-----------------------------------------------------------------------------
(* compensate: the journal is read again, the terminal it started stopped,  *)
(* the run it reserved marked failed, the doubt recorded.                   *)

CompensateTerminal(c) ==
    /\ call[c].at = "compTerminal" /\ Keep
    /\ LET o == Journal(c)
           killed == [pty EXCEPT ![o] = "dead"]
           next(outcome) ==
               [At(c, IF "run" \in ops[o].rungs THEN "compRun" ELSE "compOp")
                  EXCEPT !.entry = TRUE, !.outcome = outcome]
           started == "run" \in ops[o].rungs /\ {"reserved", "live"} \cap ops[o].rungs # {}
       IN  \/ ~started /\ Become(c, next("none")) /\ UNCHANGED pty /\ Smooth
           \/ started /\ "live" \in ops[o].rungs /\ Become(c, next("sure")) /\ pty' = killed /\ Smooth
           \* all that terminal-reserved names is a fingerprint, which no terminal answers to
           \/ started /\ "live" \notin ops[o].rungs /\ Become(c, next("unsure")) /\ UNCHANGED pty /\ Smooth
           \/ /\ started /\ "live" \in ops[o].rungs /\ Trouble
              /\ Become(c, next("unsure")) /\ pty' \in {pty, killed}
    /\ UNCHANGED <<meddled, hollow, parent, born, fences, crowd, overlooked, lost, asked, retries>>

\* what becomes of a call whose compensation is over, or failed
AfterCompensation(c, ok) ==
    CASE call[c].kind = "spawn" -> At(c, call[c].verdict)
      [] call[c].kind = "continue" -> At(c, "releaseOld")
      [] OTHER -> At(c, IF ok THEN "repairFence" ELSE "failed")

CompensateRun(c) ==
    /\ call[c].at = "compRun" /\ UNCHANGED ops
    /\ LET r == Journal(c)
           new == [runs[r] EXCEPT !.life = "failed", !.doubt = (call[c].outcome = "unsure")]
           bad == AfterCompensation(c, FALSE)
       IN  \/ ~Live(r) /\ Become(c, At(c, "compOp")) /\ KeepRuns /\ Smooth
           \/ Live(r) /\ WriteRun(c, At(c, "compOp"), r, new) /\ Smooth
           \/ Live(r) /\ Trouble /\ (WriteRun(c, bad, r, new) \/ (Become(c, bad) /\ KeepRuns))
    /\ UNCHANGED <<meddled, hollow, parent, pty, born, fences, crowd, overlooked, lost, asked, retries>>

CompensateOperation(c) ==
    /\ call[c].at = "compOp"
    /\ LET o == Journal(c)
           doubt == IF call[c].outcome = "none" THEN ops[o].doubt ELSE call[c].outcome = "unsure"
       IN  PatchOp(c, o, [ops[o] EXCEPT !.state = "recovery-required", !.doubt = doubt],
                   AfterCompensation(c, TRUE), AfterCompensation(c, FALSE))
    /\ UNCHANGED <<meddled, hollow, parent, pty, born, fences, crowd, overlooked, lost, asked, retries>>

\* mutant: the fenced run is given up
ReleaseFencedRun_final(c) ==
    /\ call[c].at = "releaseOld" /\ UNCHANGED ops /\ Smooth
    /\ LET r == call[c].old
       IN  IF runs[r].life # "continuation-pending"
           THEN Become(c, At(c, call[c].verdict)) /\ KeepRuns
           ELSE WriteRun(c, At(c, call[c].verdict), r, [runs[r] EXCEPT !.life = "failed"])
    /\ UNCHANGED <<meddled, hollow, parent, pty, born, fences, crowd, overlooked, lost, asked, retries>>

\* releaseFencedRun: a run that is fenced, by this continuation or by another one
ReleaseFencedRun(c) ==
    /\ call[c].at = "releaseOld" /\ UNCHANGED ops
    /\ LET r == call[c].old
           done == At(c, call[c].verdict)
           new == [runs[r] EXCEPT !.life = "recovery-required", !.doubt = TRUE]
       IN  IF runs[r].life # "continuation-pending"
           THEN Become(c, done) /\ KeepRuns /\ Smooth
           ELSE \/ WriteRun(c, done, r, new) /\ Smooth
                \/ Trouble /\ Become(c, done) /\ KeepRuns
    /\ UNCHANGED <<meddled, hollow, parent, pty, born, fences, crowd, overlooked, lost, asked, retries>>

-----------------------------------------------------------------------------
(* repair.                                                                  *)

InFlight(o) == ops[o].state \in {"running", "continuation-pending"} /\ ops[o].mine

Judge(c) ==
    /\ call[c].at = "judge"
    /\ LET o == call[c].target
           left == Tree(call[o].target) \ ops[o].stopped
           answer == CASE ops[o].state = "completed" -> At(c, "ended")
                       [] InFlight(o) -> At(c, "failed")
                       [] ops[o].state = "tree-stop-pending" ->
                              [At(c, "stopEach") EXCEPT !.entry = TRUE, !.todo = left, !.shown = left]
                       [] OTHER -> At(c, "compTerminal")
       IN  /\ Become(c, answer)
           /\ meddled' = IF Working(o) /\ answer.at \in {"compTerminal", "stopEach"}
                         THEN meddled \cup {o} ELSE meddled
    /\ UNCHANGED <<hollow, parent, runs, pty, born, ops, fences, crowd, overlooked, lost, asked,
                   troubles, retries>>

RepairFence(c) ==
    /\ call[c].at = "repairFence"
    /\ LET f == FenceOf(c)
       IN  \/ f = None /\ Become(c, At(c, "repairSettle")) /\ UNCHANGED fences /\ Smooth
           \/ /\ f # None /\ fences' = [fences EXCEPT ![f] = "released"] /\ Smooth
              /\ Become(c, At(c, "repairSettle"))
           \/ f # None /\ Trouble /\ Become(c, At(c, "failed")) /\ UNCHANGED fences
    /\ UNCHANGED <<meddled, hollow, parent, runs, pty, born, ops, crowd, overlooked, lost, asked, retries>>

RepairSettle(c) ==
    /\ call[c].at = "repairSettle"
    /\ LET o == call[c].target
       IN  IF ops[o].doubt THEN Become(c, At(c, "refused")) /\ Keep /\ Smooth
           ELSE PatchOp(c, o, [ops[o] EXCEPT !.state = "completed"], At(c, "ended"), At(c, "failed"))
    /\ UNCHANGED <<meddled, hollow, parent, pty, born, fences, crowd, overlooked, lost, asked, retries>>

-----------------------------------------------------------------------------
(* The world outside.                                                       *)

\* a provider ends by itself
Exit(r) ==
    /\ pty[r] = "live" /\ Trouble
    /\ pty' = [pty EXCEPT ![r] = "dead"]
    /\ asked' = asked \cup {runs[r].agent}
    /\ UNCHANGED <<meddled, hollow, call, parent, runs, born, ops, fences, crowd, overlooked, lost, retries>>

\* settleIfTerminalGone: Terminal reports the exit, or a query notices it
SettleGone(r) ==
    /\ Live(r) /\ runs[r].terminal /\ pty[r] = "dead"
    /\ runs' = [runs EXCEPT ![r].life = "interrupted"]
    /\ call' = [c \in Calls |-> [call[c] EXCEPT !.copies = @ \ {r}]]
    /\ UNCHANGED <<meddled, hollow, parent, pty, born, ops, fences, crowd, overlooked, lost, asked, troubles, retries>>

\* the runtime dies with its terminals and starts again: reconcileAfterRestart
Restart ==
    /\ Trouble
    /\ LET gone == {r \in Runs : Live(r)}
       IN  /\ runs' = [r \in Runs |-> IF r \in gone THEN [runs[r] EXCEPT !.life = "interrupted"]
                                      ELSE runs[r]]
           /\ asked' = asked \cup {runs[r].agent : r \in gone}
    /\ pty' = [r \in Runs |-> IF pty[r] = "live" THEN "dead" ELSE pty[r]]
    /\ ops' = [o \in Calls |->
          IF ops[o].state \in {"none", "completed", "recovery-required"}
          THEN [ops[o] EXCEPT !.mine = FALSE]
          ELSE [ops[o] EXCEPT !.mine = FALSE, !.state = "recovery-required",
                    !.doubt = @ \/ {"reserved", "live"} \cap ops[o].rungs # {}]]
    /\ call' = [c \in Calls |-> IF Working(c) THEN Tidy(At(c, "failed")) ELSE call[c]]
    /\ UNCHANGED <<meddled, hollow, parent, born, fences, crowd, overlooked, lost, retries>>

-----------------------------------------------------------------------------
Next ==
    \/ \E c \in Calls :
         \/ Send(c) \/ SendAgain(c) \/ Admit(c) \/ OpenOperation(c) \/ Identity(c)
         \/ FenceOldRun(c) \/ DrainOldRun(c) \/ ReserveRun(c) \/ JournalRun(c)
         \/ ReserveTerminal(c) \/ OpenTerminal(c) \/ JournalTerminal(c) \/ PatchTerminal(c)
         \/ Furnish(c) \/ PassGate(c) \/ MakeReady(c) \/ Settle(c)
         \/ MarkStopping(c) \/ Terminate(c) \/ MarkUnsure(c) \/ MarkStopped(c)
         \/ CloseFence(c) \/ CreateFence(c) \/ ConfirmOrder(c) \/ StopNext(c)
         \/ FinishTree(c) \/ SettleTreeStop(c)
         \/ CompensateTerminal(c) \/ CompensateRun(c) \/ CompensateOperation(c)
         \/ ReleaseFencedRun(c) \/ Judge(c) \/ RepairFence(c) \/ RepairSettle(c)
    \/ \E r \in Runs : Exit(r) \/ SettleGone(r)
    \/ Restart

Spec == Init /\ [][Next]_vars

-----------------------------------------------------------------------------
(* Properties.                                                              *)

CallRecord ==
    [kind : Kinds \cup {"none"}, target : Agents \cup {None}, old : Runs \cup {None}, at : Steps,
     copies : SUBSET Runs, entry : BOOLEAN, shown : SUBSET Agents, todo : SUBSET Agents,
     missed : SUBSET Agents, victim : Runs \cup {None}, fence : Calls \cup {None},
     outcome : {"none", "sure", "unsure"}, verdict : {"failed", "refused"}]
RunRecord == [agent : Agents \cup {None}, life : Lifecycles, terminal : BOOLEAN, doubt : BOOLEAN]
OpStates == {"none", "running", "continuation-pending", "tree-stop-pending", "recovery-required",
             "completed"}
OpRecord ==
    [state : OpStates, mine : BOOLEAN, rungs : SUBSET Rungs, doubt : BOOLEAN,
     stopped : SUBSET Agents]

\* The records have their shapes; a run that exists belongs to an agent that does, and only a
\* run that a journal or a create made has a terminal (runs.ts, journal.ts).
TypeOK ==
    /\ call \in [Calls -> CallRecord] /\ parent \in [Agents -> Agents \cup {None}]
    /\ runs \in [Runs -> RunRecord] /\ pty \in [Runs -> {"none", "live", "dead"}]
    /\ ops \in [Calls -> OpRecord]
    /\ \A r \in Runs : /\ runs[r].life = "none" <=> runs[r].agent = None
                       /\ runs[r].agent # None => Exists(runs[r].agent)
                       /\ pty[r] # "none" => runs[r].life # "none"
    /\ \A i, j \in DOMAIN born : born[i] = born[j] => i = j
    /\ fences \in [Calls -> {"none", "closing", "released"}]
    /\ crowd \in [Calls -> SUBSET Calls]
    /\ overlooked \subseteq Runs /\ lost \subseteq Calls
    /\ asked \subseteq Agents /\ meddled \subseteq Calls /\ hollow \subseteq Calls
    /\ troubles \in 0 .. MaxTroubles /\ retries \in 0 .. MaxRetries

\* another tree-stop of the same root has created a fence as well
Doubled(f) == \E g \in Calls \ {f} : fences[g] # "none" /\ call[g].target = call[f].target

Opening(c) == /\ call[c].at = "stopEach" /\ call'[c].at = "settleTree" /\ FenceOf(c) # None
              /\ fences[FenceOf(c)] = "closing" /\ fences'[FenceOf(c)] = "released"

\* A tree-stop that opens the fence it kept closed leaves no live run behind (stop-tree.ts:
\* "stops bottom-up, the fence released only on complete success").  Two kinds slip through:
\* the runs of spawns and continuations that had passed their fence check before the fence
\* closed (the check is not repeated), or while another tree-stop had opened it, or that resume
\* a spawn of the very agent the fence is for (the check looks at its parent), and a second live
\* run of one agent, for only the oldest is stopped.  A repair does not stop again what the
\* operation stopped, which may have been under another fence that opened since.
FenceOpensOnAStoppedTreeUnlessRaced ==
    [][\A c \in Calls : Opening(c) =>
         \/ UNION {LiveRuns(a) : a \in Tree(call[FenceOf(c)].target)}
              \subseteq crowd[FenceOf(c)] \cup overlooked
         \/ call[c].kind = "repair" /\ Doubled(FenceOf(c))]_vars

\* An ended run whose terminal process still runs is on record: the run says that the terminal
\* may be alive, or its journal is open for repair, which stops the terminal or refuses to close
\* the journal (closeRun, compensate, settleRepair).  The exceptions are a continuation's terminal
\* that could not be journalled, for a continuation has no terminal-reserved rung and
\* compensation knows of no terminal, and a command that is sent again next to a repair, or
\* after its journal was completed (repair.ts:82 takes the call's journal for one of a dead
\* epoch, and openOperation takes up a completed one).
NoSilentOrphanUnlessUnjournalled ==
    \A r \in Runs : runs[r].life \in Final /\ pty[r] = "live" =>
        \/ runs[r].doubt
        \/ r \in Calls /\ ops[r].state \notin {"none", "completed"}
        \/ r \in Calls /\ {"reserved", "live"} \cap ops[r].rungs = {}
        \/ r \in meddled

Established(a) == a = Root \/ (a \in Calls /\ call[a].kind = "spawn" /\ call[a].at = "ended")

\* An agent that works keeps a live run unless somebody stopped it, its provider or runtime
\* ended: a continuation fences the old run first and ends it last (continue.ts:170-174).  The
\* exceptions are a continuation that fails after it ended the old run, for its compensation
\* then ends the replacement too, a continuation that is sent again and takes up a terminal that
\* ended, which it does not look at (continue-launch.ts:83), and a command that is sent again
\* next to a repair, or after its journal was completed.
Retiring == {"stopping", "terminate", "unsure", "stopped", "settle", "ended"}
Unwound(c) == /\ call[c].kind = "continue" /\ call[c].at \notin Retiring
              /\ "furnished" \in ops[c].rungs /\ runs[call[c].old].life \in Final

AgentKeepsARunUnlessUnwound ==
    \A a \in Agents : Established(a) /\ a \notin asked =>
        \/ LiveRuns(a) # {}
        \/ \E c \in Calls : AgentOf(c) = a /\ (c \in meddled \cup hollow \/ Unwound(c))

\* A fence that is closing is the fence of a tree-stop that can still be finished or repaired
\* ("a fence outliving its operation freezes a family nobody is stopping", repair.ts:125), unless
\* its release failed, which nobody looks at (stop-tree.ts:107).  The exceptions are a command
\* that is sent again after a restart and closes its fence under a journal that a repair
\* completes, and two tree-stops that found no fence and created one each: one of them, sent
\* again, may finish with the other's fence and leave its own.
FenceHasAnOwnerUnlessDoubled ==
    \A f \in Calls : fences[f] = "closing" =>
        \/ ops[f].state \notin {"none", "completed"} \/ f \in lost
        \/ f \in meddled
        \/ Doubled(f)

\* A fence closes for one tree-stop, outlives only what may still need it, and opens on a tree
\* that has stopped.
FencesServeTheirStop == []FenceHasAnOwnerUnlessDoubled /\ FenceOpensOnAStoppedTreeUnlessRaced

\* FINAL_LIFECYCLES (contract/runs.ts:97) are not the end of a run.  No run of TLC checks this:
\* a spawn whose gate has passed reads its run again and makes it ready whatever it says by now,
\* and a continuation that is sent again takes up the run that its compensation failed.
FinalRunsStayFinal ==
    [][\A r \in Runs : runs[r].life \in Final => runs'[r].life \in Final]_vars

=============================================================================
