------------------------ MODULE RunOperationsProofs ------------------------
(***************************************************************************)
(* Proofs about RunOperations, for any number of calls.  What each action   *)
(* does to the call that takes it, to the runs and to the journals is       *)
(* stated once (SendDoes .. RestartDoes): the rest never opens an action.   *)
(***************************************************************************)
EXTENDS RunOperationsInvariants, TLAPS, WellFoundedInduction

-----------------------------------------------------------------------------
(* What a step does to the calls.                                           *)

(* The call itself: the record it was given, as far as it works on.         *)
LEMMA TidyLands ==
  ASSUME NEW rec \in CallRecord
  PROVE  /\ Tidy(rec) \in CallRecord
         /\ Tidy(rec).kind = rec.kind /\ Tidy(rec).target = rec.target
         /\ Tidy(rec).old = rec.old /\ Tidy(rec).at = rec.at /\ Tidy(rec).copies \subseteq rec.copies
         /\ rec.at \notin AtRest => Tidy(rec) = rec
BY ZenonT(60) DEF Tidy, CallRecord

LEMMA BecomeLands ==
  ASSUME TypeOK, NEW c \in Calls, NEW rec \in CallRecord, Become(c, rec)
  PROVE  call' \in [Calls -> CallRecord] /\ Others(c) /\ Lands(c, rec)
         /\ \A d \in Calls \ {c} : call'[d] = call[d]
<1>1. Tidy(rec) \in CallRecord  BY TidyLands
<1>2. call' \in [Calls -> CallRecord] /\ call'[c] = Tidy(rec) /\ \A d \in Calls \ {c} : call'[d] = call[d]
  BY <1>1 DEF Become, TypeOK
<1> QED  BY <1>2, TidyLands DEF Others, Same, Lands

LEMMA ReadingType ==
  ASSUME NEW rec \in CallRecord, NEW r \in Runs
  PROVE  /\ Reading(rec, r) \in CallRecord
         /\ Reading(rec, r).copies = rec.copies \cup {r}
         /\ Reading(rec, r).kind = rec.kind /\ Reading(rec, r).target = rec.target
         /\ Reading(rec, r).old = rec.old /\ Reading(rec, r).at = rec.at
         /\ Reading(rec, r).todo = rec.todo /\ Reading(rec, r).missed = rec.missed
         /\ Reading(rec, r).victim = rec.victim /\ Reading(rec, r).fence = rec.fence
         /\ Reading(rec, r).outcome = rec.outcome
BY DEF Reading, CallRecord

LEMMA WriteRunLands ==
  ASSUME TypeOK, NEW c \in Calls, NEW rec \in CallRecord, NEW r \in Runs, NEW new \in RunRecord,
         WriteRun(c, rec, r, new)
  PROVE  /\ call' \in [Calls -> CallRecord] /\ Others(c) /\ Lands(c, Reading(rec, r))
         /\ \A d \in Calls \ {c} : r \notin call'[d].copies
         /\ runs' \in [Runs -> RunRecord] /\ runs' = [runs EXCEPT ![r] = new]
<1> DEFINE mine == Reading(rec, r)
<1>1. mine \in CallRecord  BY ReadingType
<1>2. Tidy(mine) \in CallRecord  BY <1>1, TidyLands
<1>3. \A d \in Calls : [call[d] EXCEPT !.copies = @ \ {r}] \in CallRecord  BY DEF TypeOK, CallRecord
<1>4. /\ call' \in [Calls -> CallRecord] /\ call'[c] = Tidy(mine)
      /\ \A d \in Calls \ {c} : call'[d] = [call[d] EXCEPT !.copies = @ \ {r}]
  BY <1>2, <1>3 DEF WriteRun
<1>5. \A d \in Calls : call[d] \in CallRecord  BY DEF TypeOK
<1>6. Others(c) /\ \A d \in Calls \ {c} : r \notin call'[d].copies
  BY <1>4, <1>5 DEF Others, Same, CallRecord
<1>7. Lands(c, mine)  BY <1>1, <1>4, TidyLands DEF Lands
<1>8. runs' \in [Runs -> RunRecord] /\ runs' = [runs EXCEPT ![r] = new]  BY DEF WriteRun, TypeOK
<1> QED  BY <1>4, <1>6, <1>7, <1>8

LEMMA WriteOpLands ==
  ASSUME TypeOK, NEW c \in Calls, NEW rec \in CallRecord, NEW o \in Calls, NEW new \in OpRecord,
         WriteOp(c, rec, o, new)
  PROVE  /\ call' \in [Calls -> CallRecord] /\ Others(c) /\ Lands(c, rec)
         /\ ops' \in [Calls -> OpRecord] /\ ops' = [ops EXCEPT ![o] = new]
<1> DEFINE mine == [rec EXCEPT !.entry = TRUE]
<1>1. mine \in CallRecord /\ mine.kind = rec.kind /\ mine.target = rec.target /\ mine.old = rec.old
      /\ mine.at = rec.at /\ mine.copies = rec.copies /\ mine.todo = rec.todo /\ mine.missed = rec.missed
      /\ mine.victim = rec.victim /\ mine.fence = rec.fence /\ mine.outcome = rec.outcome
  BY DEF CallRecord
<1>2. Tidy(mine) \in CallRecord  BY <1>1, TidyLands
<1>3. \A d \in Calls : [call[d] EXCEPT !.entry = FALSE] \in CallRecord /\ call[d] \in CallRecord
  BY ZenonT(60) DEF TypeOK, CallRecord
<1>4. /\ call' \in [Calls -> CallRecord] /\ call'[c] = Tidy(mine)
      /\ \A d \in Calls \ {c} : call'[d] = call[d] \/ call'[d] = [call[d] EXCEPT !.entry = FALSE]
  BY <1>2, <1>3 DEF WriteOp
<1>6. Others(c)  BY SMTT(30), <1>4, <1>3 DEF Others, Same, CallRecord
<1>7. Lands(c, rec)  BY <1>1, <1>4, TidyLands DEF Lands
<1>8. ops' \in [Calls -> OpRecord] /\ ops' = [ops EXCEPT ![o] = new]  BY DEF WriteOp, TypeOK
<1> QED  BY <1>4, <1>6, <1>7, <1>8

LEMMA AtType ==
  ASSUME TypeOK, NEW c \in Calls, NEW step \in Steps
  PROVE  /\ At(c, step) \in CallRecord
         /\ At(c, step) = [call[c] EXCEPT !.at = step] /\ At(c, step).at = step
         /\ At(c, step).kind = call[c].kind /\ At(c, step).target = call[c].target
         /\ At(c, step).old = call[c].old /\ At(c, step).copies = call[c].copies
         /\ At(c, step).todo = call[c].todo /\ At(c, step).missed = call[c].missed
         /\ At(c, step).victim = call[c].victim /\ At(c, step).fence = call[c].fence
         /\ At(c, step).outcome = call[c].outcome
BY DEF At, CallRecord, TypeOK

LEMMA TroubleType ==
  ASSUME TypeOK, Parameters, Trouble \/ Smooth
  PROVE  troubles' \in 0 .. MaxTroubles
BY DEF TypeOK, Parameters, Trouble, Smooth
LEMMA PatchRunPatches ==
  ASSUME TypeOK, Parameters, NEW c \in Calls, NEW r, NEW new,
         r \in call[c].copies => new \in RunRecord,
         NEW then \in CallRecord, NEW otherwise \in CallRecord, PatchRun(c, r, new, then, otherwise)
  PROVE  Patched(c, r, new, then, otherwise)
<1>1. ops' = ops /\ troubles' \in 0 .. MaxTroubles  BY TroubleType DEF PatchRun
<1>2. r \in call[c].copies => r \in Runs  BY DEF TypeOK, CallRecord
<1>3. runs \in [Runs -> RunRecord]  BY DEF TypeOK
<1>4. CASE r \in call[c].copies /\ (WriteRun(c, then, r, new) \/ WriteRun(c, otherwise, r, new))
  BY <1>1, <1>2, <1>4, WriteRunLands DEF Patched
<1>5. CASE Become(c, otherwise) /\ KeepRuns  BY <1>1, <1>3, <1>5, BecomeLands DEF Patched, KeepRuns
<1> QED  BY <1>4, <1>5 DEF PatchRun
LEMMA PatchOpJournals ==
  ASSUME TypeOK, Parameters, NEW c \in Calls, NEW o \in Calls, NEW new \in OpRecord,
         NEW then \in CallRecord, NEW otherwise \in CallRecord, PatchOp(c, o, new, then, otherwise)
  PROVE  Journalled(c, o, new, then, otherwise)
<1>1. runs' = runs /\ troubles' \in 0 .. MaxTroubles  BY TroubleType DEF PatchOp, KeepRuns
<1>3. ops \in [Calls -> OpRecord]  BY DEF TypeOK
<1>4. CASE WriteOp(c, then, o, new) \/ WriteOp(c, otherwise, o, new)
  BY <1>1, <1>4, WriteOpLands DEF Journalled
<1>5. CASE Become(c, otherwise) /\ UNCHANGED ops  BY <1>1, <1>3, <1>5, BecomeLands DEF Journalled
<1> QED  BY <1>4, <1>5 DEF PatchOp
LEMMA AdvanceAdvances ==
  ASSUME TypeOK, Parameters, NEW c \in Calls, NEW rung \in Rungs,
         NEW state \in OpStates, NEW then \in CallRecord, Advance(c, rung, state, then)
  PROVE  Advanced(c, rung, state, then)
<1> DEFINE new == [ops[c] EXCEPT !.rungs = @ \cup {rung}, !.state = state]
<1> ops[c] \in OpRecord  BY DEF TypeOK
<1>1. new \in OpRecord /\ rung \in new.rungs  BY DEF OpRecord
<1>2. At(c, "compTerminal") \in CallRecord  BY AtType DEF Steps, AtRest
<1>3. CASE rung \in ops[c].rungs /\ Become(c, then) /\ Keep /\ Smooth
  <2>1. ops \in [Calls -> OpRecord] /\ runs' = runs /\ ops' = ops
    BY <1>3 DEF TypeOK, Keep, KeepRuns
  <2> QED  BY <2>1, <1>3, BecomeLands, TroubleType DEF Advanced
<1>4. CASE rung \notin ops[c].rungs /\ PatchOp(c, c, new, then, At(c, "compTerminal"))
  <2>1. Journalled(c, c, new, then, At(c, "compTerminal"))  BY <1>1, <1>2, <1>4, PatchOpJournals
  <2>2. ops' = [ops EXCEPT ![c] = new] => rung \in ops'[c].rungs  BY <1>1 DEF TypeOK
  <2> QED  BY <2>1, <2>2, <1>4 DEF Journalled, Advanced
<1> QED  BY <1>3, <1>4 DEF Advance

-----------------------------------------------------------------------------
(* What each action does, field by field.                                   *)
LEMMA AtGoes ==
  ASSUME TypeOK, NEW c \in Calls, NEW step \in Steps,
         \/ Lands(c, At(c, step))
         \/ \E r \in Runs : Lands(c, Reading(At(c, step), r))
         \/ \E r, q \in Runs : Lands(c, Reading(Reading(At(c, step), r), q))
  PROVE  Goes(c, step)
BY AtType, ReadingType DEF Goes, Lands

(* What a call remembers besides its steps does not matter here.            *)
LEMMA AsideLands ==
  ASSUME NEW c \in Calls, NEW rec \in CallRecord, NEW v \in {"failed", "refused"}
  PROVE  /\ [rec EXCEPT !.entry = TRUE] \in CallRecord
         /\ Lands(c, [rec EXCEPT !.entry = TRUE]) => Lands(c, rec)
         /\ [rec EXCEPT !.verdict = v] \in CallRecord
         /\ Lands(c, [rec EXCEPT !.verdict = v]) => Lands(c, rec)
BY DEF CallRecord, Lands

(* Who takes which step.                                                    *)
LEMMA Stepping ==
  ASSUME TypeOK, Shape, Parameters, NEW c \in Calls
  PROVE  /\ call[c].at = "new" <=> call[c].kind = "none"
         /\ call[c].at \in {"identity", "reserveTerminal"} => call[c].kind = "spawn"
         /\ call[c].at \in {"fenceOld", "drain", "releaseOld"} => call[c].kind = "continue"
         /\ call[c].at \in {"reserve"} \cup HasRun => Climber(c)
         /\ call[c].at = "open" => call[c].kind \in {"spawn", "continue", "stopTree"}
         /\ call[c].at = "admit" => call[c].kind \in {"spawn", "continue", "stop"}
         /\ call[c].at \in Undoing => Climber(c) \/ call[c].kind = "repair"
         /\ call[c].at \in Closer => call[c].kind \in {"continue", "stop", "stopTree", "repair"}
         /\ call[c].at \in {"stopEach", "settleTree"} => call[c].kind \in {"stopTree", "repair"}
         /\ call[c].at \in {"closeFence", "createFence", "snapshot"} => call[c].kind = "stopTree"
         /\ call[c].at \in {"judge", "repairFence", "repairSettle"} => call[c].kind = "repair"
<1>1. call[c].kind \in {"none", "spawn", "continue", "stop", "stopTree", "repair"}
  BY DEF TypeOK, CallRecord, Parameters
<1>2. Where(c)  BY DEF Shape
<1> USE <1>2 DEF Where, AtRest, Undoing, Closer, Loop, HasRun, Climber
<1>3. CASE call[c].kind = "none"  BY <1>3
<1>4. CASE call[c].kind = "spawn"  BY <1>4
<1>5. CASE call[c].kind = "continue"  BY <1>5
<1>6. CASE call[c].kind = "stop"  BY <1>6
<1>7. CASE call[c].kind = "stopTree"  BY <1>7
<1>8. CASE call[c].kind = "repair"  BY <1>8
<1> QED  BY ONLY <1>1, <1>3, <1>4, <1>5, <1>6, <1>7, <1>8
LEMMA AdvanceClimbs ==
  ASSUME TypeOK, Parameters, NEW c \in Calls, NEW rung \in Rungs, NEW state \in OpStates,
         NEW to \in Steps, pty' = pty, Advance(c, rung, state, At(c, to))
  PROVE  Climbs(c, call[c].at, rung, state, to)
<1>1. At(c, to) \in CallRecord  BY AtType
<1>2. Advanced(c, rung, state, At(c, to))  BY <1>1, AdvanceAdvances
<1>3. "compTerminal" \in Steps  BY DEF Steps
<1> QED  BY <1>2, <1>3, AtGoes DEF Advanced, Climbs, Acts, Goes
LEMMA PatchRunWrites ==
  ASSUME TypeOK, Parameters, NEW c \in Calls, NEW r, NEW new,
         r \in call[c].copies => new \in RunRecord, NEW to \in Steps, NEW other \in Steps,
         pty' = pty, PatchRun(c, r, new, At(c, to), At(c, other))
  PROVE  Writes(c, call[c].at, r, new, to, other)
<1>1. At(c, to) \in CallRecord /\ At(c, other) \in CallRecord  BY AtType
<1>2. Patched(c, r, new, At(c, to), At(c, other))  BY <1>1, PatchRunPatches
<1> QED  BY <1>2, AtGoes DEF Patched, Writes, Acts, Goes

LEMMA OpStateType == ASSUME TypeOK, NEW c \in Calls PROVE ops[c].state \in OpStates
BY DEF TypeOK, OpRecord

(* The rungs that leave the family alone.                                   *)
LEMMA DrainClimbs ==
  ASSUME TypeOK, Parameters, NEW c \in Calls, DrainOldRun(c)
  PROVE  Climbs(c, "drain", "fenced", "continuation-pending", "reserve") /\ Quiet
BY AdvanceClimbs DEF DrainOldRun, Quiet, Steps, Rungs, OpStates

LEMMA JournalRunClimbs ==
  ASSUME TypeOK, Parameters, NEW c \in Calls, JournalRun(c)
  PROVE  /\ Climbs(c, "journalRun", "run", ops[c].state,
                    IF call[c].kind = "spawn" THEN "reserveTerminal" ELSE "openTerminal")
         /\ Quiet
BY AdvanceClimbs, OpStateType DEF JournalRun, Quiet, Steps, Rungs

LEMMA ReserveTerminalClimbs ==
  ASSUME TypeOK, Parameters, NEW c \in Calls, ReserveTerminal(c)
  PROVE  Climbs(c, "reserveTerminal", "reserved", ops[c].state, "openTerminal") /\ Quiet
BY AdvanceClimbs, OpStateType DEF ReserveTerminal, Quiet, Steps, Rungs

LEMMA JournalTerminalClimbs ==
  ASSUME TypeOK, Parameters, NEW c \in Calls, JournalTerminal(c)
  PROVE  Climbs(c, "journalTerminal", "live", ops[c].state, "patchTerminal") /\ Quiet
BY AdvanceClimbs, OpStateType DEF JournalTerminal, Quiet, Steps, Rungs

LEMMA SettleClimbs ==
  ASSUME TypeOK, Parameters, NEW c \in Calls, Settle(c)
  PROVE  Climbs(c, "settle", "ready", "completed", "ended") /\ Quiet
BY AdvanceClimbs DEF Settle, Quiet, Steps, AtRest, Rungs, OpStates

LEMMA FenceOldRunWrites ==
  ASSUME TypeOK, Parameters, NEW c \in Calls, FenceOldRun(c)
  PROVE  /\ Writes(c, "fenceOld", call[c].old,
                    [runs[call[c].old] EXCEPT !.life = "continuation-pending"],
                    "drain", "compTerminal")
         /\ Quiet
<1> DEFINE old == call[c].old
           new == [runs[old] EXCEPT !.life = "continuation-pending"]
<1>1. old \in call[c].copies => new \in RunRecord  BY DEF TypeOK, CallRecord, RunRecord, Lifecycles
<1> QED  BY <1>1, PatchRunWrites DEF FenceOldRun, Quiet, Steps

LEMMA PatchTerminalWrites ==
  ASSUME TypeOK, Parameters, NEW c \in Calls, PatchTerminal(c)
  PROVE  /\ Writes(c, "patchTerminal", c, [runs[c] EXCEPT !.terminal = TRUE],
                    "furnish", "compTerminal")
         /\ Quiet
<1> runs[c] \in RunRecord  BY DEF TypeOK, Runs
<1>1. [runs[c] EXCEPT !.terminal = TRUE] \in RunRecord  BY DEF RunRecord
<1> QED  BY <1>1, PatchRunWrites DEF PatchTerminal, Quiet, Steps

(* A client's first request.                                                *)
LEMMA SendDoes ==
  ASSUME TypeOK, NEW c \in Calls, Send(c)
  PROVE  /\ call[c].at = "new" /\ call' \in [Calls -> CallRecord] /\ Others(c)
         /\ UNCHANGED <<runs, pty, ops, troubles>> /\ Quiet
         /\ \/ /\ call'[c].kind = "spawn" /\ call'[c].at = "admit"
               /\ call'[c].target \in Agents /\ Exists(call'[c].target)
            \/ /\ call'[c].kind \in {"continue", "stop"} /\ call'[c].at = "admit"
               /\ call'[c].old \in Runs /\ Live(call'[c].old)
               /\ call'[c].target = runs[call'[c].old].agent
            \/ /\ call'[c].kind = "stopTree" /\ call'[c].at = "open" /\ call'[c].target \in Agents
            \/ /\ call'[c].kind = "repair" /\ call'[c].at = "judge"
               /\ call'[c].target \in Calls /\ ops[call'[c].target].state # "none"
<1>1. Idle \in CallRecord  BY DEF Idle, CallRecord, Steps, AtRest
<1>2. ASSUME NEW k \in Kinds, NEW a \in Agents \cup {None}, NEW r \in Runs \cup {None},
             NEW step \in Steps
      PROVE  /\ Ask(k, a, r, step) \in CallRecord
             /\ Ask(k, a, r, step).kind = k /\ Ask(k, a, r, step).target = a
             /\ Ask(k, a, r, step).old = r /\ Ask(k, a, r, step).at = step
  BY <1>1 DEF Ask, CallRecord
<1>3. "admit" \in Steps /\ "open" \in Steps /\ "judge" \in Steps  BY DEF Steps
<1>4. PICK k \in Kinds :
         \/ /\ k = "spawn"
            /\ \E a \in Agents : Exists(a) /\ Become(c, Ask(k, a, None, "admit"))
         \/ /\ k \in {"continue", "stop"}
            /\ \E r \in Runs : Live(r) /\ Become(c, Ask(k, runs[r].agent, r, "admit"))
         \/ /\ k = "stopTree"
            /\ \E a \in Agents : Exists(a)
                 /\ Become(c, [Ask(k, a, None, "open") EXCEPT !.shown = DescendantsOf(a)])
         \/ /\ k = "repair"
            /\ \E o \in Calls : ops[o].state # "none" /\ Become(c, Ask(k, o, None, "judge"))
  BY DEF Send
<1>5. CASE k = "spawn" /\ \E a \in Agents : Exists(a) /\ Become(c, Ask(k, a, None, "admit"))
  <2> PICK a \in Agents : Exists(a) /\ Become(c, Ask(k, a, None, "admit"))  BY <1>5
  <2> QED  BY <1>2, <1>3, <1>5, BecomeLands DEF Send, Lands, Quiet
<1>6. CASE /\ k \in {"continue", "stop"}
           /\ \E r \in Runs : Live(r) /\ Become(c, Ask(k, runs[r].agent, r, "admit"))
  <2> PICK r \in Runs : Live(r) /\ Become(c, Ask(k, runs[r].agent, r, "admit"))  BY <1>6
  <2> runs[r].agent \in Agents \cup {None}  BY DEF TypeOK, RunRecord
  <2> QED  BY <1>2, <1>3, <1>6, BecomeLands DEF Send, Lands, Quiet
<1>7. CASE /\ k = "stopTree"
           /\ \E a \in Agents : Exists(a)
                 /\ Become(c, [Ask(k, a, None, "open") EXCEPT !.shown = DescendantsOf(a)])
  <2> PICK a \in Agents : Become(c, [Ask(k, a, None, "open") EXCEPT !.shown = DescendantsOf(a)])
    BY <1>7
  <2> DEFINE req == [Ask(k, a, None, "open") EXCEPT !.shown = DescendantsOf(a)]
  <2>1. DescendantsOf(a) \in SUBSET Agents  BY DEF DescendantsOf
  <2>2. req \in CallRecord /\ req.kind = k /\ req.at = "open" /\ req.target = a
    BY <1>2, <1>3, <2>1 DEF CallRecord
  <2>3. Become(c, req)  OBVIOUS
  <2> HIDE DEF req
  <2> QED  BY <1>7, <2>2, <2>3, BecomeLands DEF Send, Lands, Quiet
<1>8. CASE /\ k = "repair"
           /\ \E o \in Calls : ops[o].state # "none" /\ Become(c, Ask(k, o, None, "judge"))
  <2> PICK o \in Calls : ops[o].state # "none" /\ Become(c, Ask(k, o, None, "judge"))  BY <1>8
  <2> QED  BY <1>2, <1>3, <1>8, BecomeLands DEF Send, Lands, Quiet, Agents
<1> QED  BY <1>4, <1>5, <1>6, <1>7, <1>8

(* The same request again.                                                  *)
LEMMA SendAgainDoes ==
  ASSUME TypeOK, Parameters, NEW c \in Calls, SendAgain(c)
  PROVE  /\ call[c].at = "failed" /\ Acts(c) /\ UNCHANGED <<runs, pty, ops>>
         /\ UNCHANGED <<hollow, parent, born, fences, crowd, overlooked, lost, asked>>
         /\ retries' \in 0 .. MaxRetries
         /\ \/ call[c].kind = "stopTree" /\ Goes(c, "open")
            \/ call[c].kind = "repair" /\ Goes(c, "judge")
            \/ call[c].kind \notin {"stopTree", "repair"} /\ Goes(c, "admit")
         /\ meddled' \in {meddled, meddled \cup {c}}
         /\ (\E d \in Calls : Working(d) /\ Journal(d) = c) => c \in meddled'
         /\ ops[c].state = "completed" \/ "ready" \in ops[c].rungs => c \in meddled'
<1>1. retries' \in 0 .. MaxRetries /\ troubles' \in 0 .. MaxTroubles
  BY DEF SendAgain, TypeOK, Parameters
<1>2. PICK step \in {"open", "judge", "admit"} :
        /\ Become(c, At(c, step))
        /\ step = "open" <=> call[c].kind = "stopTree"
        /\ step = "judge" <=> call[c].kind = "repair"
  BY DEF SendAgain
<1>3. At(c, step) \in CallRecord /\ step \in Steps  BY AtType DEF Steps
<1>4. call' \in [Calls -> CallRecord] /\ Others(c) /\ Goes(c, step)
  BY <1>2, <1>3, BecomeLands, AtGoes
<1> QED  BY <1>1, <1>2, <1>4 DEF SendAgain, Acts, Goes

(* The checks before anything is written.                                   *)
LEMMA AdmitDoes ==
  ASSUME TypeOK, Shape, Parameters, NEW c \in Calls, Admit(c)
  PROVE  /\ call[c].at = "admit" /\ Acts(c) /\ UNCHANGED <<runs, pty, ops, troubles>>
         /\ UNCHANGED <<meddled, hollow, parent, born, fences, overlooked, lost, retries>>
         /\ \/ /\ Goes(c, "failed") \/ Goes(c, "refused")
               /\ UNCHANGED <<asked, crowd>>
            \/ /\ Goes(c, "open") /\ call[c].kind \in {"spawn", "continue"} /\ asked' = asked
               /\ ~InsideClosingTree(call[c].target)
               /\ call[c].kind = "continue" => Live(call[c].old)
               /\ crowd' = [f \in Calls |->
                     IF f \in Closing(AgentOf(c)) \/ fences[f] = "released"
                     THEN crowd[f] \cup {c} ELSE crowd[f]]
            \/ /\ call[c].kind = "stop" /\ call'[c].at = "stopping" /\ call'[c].victim = call[c].old
               /\ asked' = asked \cup {call[c].target} /\ crowd' = crowd
<1> DEFINE old == call[c].old
           closed == call[c].kind # "stop" /\ InsideClosingTree(call[c].target)
           gone == \/ call[c].kind = "continue" /\ ~Live(old)
                   \/ call[c].kind = "stop" /\ LiveRunOf(call[c].target) \notin {None, old}
           answer ==
             IF closed THEN At(c, "failed") ELSE IF gone THEN At(c, "refused")
             ELSE CASE call[c].kind = "spawn" -> At(c, "open")
                    [] call[c].kind = "continue" -> Reading(At(c, "open"), old)
                    [] OTHER -> Reading([At(c, "stopping") EXCEPT !.victim = old], old)
           more == [f \in Calls |->
                  IF answer.at = "open" /\ (f \in Closing(AgentOf(c)) \/ fences[f] = "released")
                  THEN crowd[f] \cup {c} ELSE crowd[f]]
<1>1. /\ call[c].at = "admit" /\ UNCHANGED <<runs, pty, ops, troubles>>
      /\ UNCHANGED <<meddled, hollow, parent, born, fences, overlooked, lost, retries>>
      /\ Become(c, answer) /\ crowd' = more
      /\ asked' = IF answer.at = "stopping" THEN asked \cup {call[c].target} ELSE asked
  BY DEF Admit
<1>2. call[c].kind \in {"spawn", "continue", "stop"}
      /\ (call[c].kind \in {"continue", "stop"} => old \in Runs)
  BY <1>1 DEF Shape, Where, Named, AtRest, Undoing, Closer, Loop, TypeOK, CallRecord, Parameters
<1>3. \A s \in {"failed", "refused", "open", "stopping"} : s \in Steps  BY DEF Steps, AtRest
<1>4. answer.at # "open" => more = crowd  BY DEF TypeOK
<1>5. troubles' \in 0 .. MaxTroubles  BY <1>1 DEF TypeOK
<1> HIDE DEF more, answer
<1>6. CASE answer = At(c, "failed") \/ answer = At(c, "refused")
  BY <1>1, <1>3, <1>4, <1>5, <1>6, AtType, BecomeLands, AtGoes DEF Acts, Goes
<1>7. CASE /\ call[c].kind \in {"spawn", "continue"} /\ ~InsideClosingTree(call[c].target)
           /\ call[c].kind = "continue" => Live(old)
           /\ answer = IF call[c].kind = "spawn" THEN At(c, "open") ELSE Reading(At(c, "open"), old)
  <2>1. answer \in CallRecord /\ answer.at = "open"  BY <1>2, <1>3, <1>7, AtType, ReadingType
  <2>2. call' \in [Calls -> CallRecord] /\ Others(c) /\ Goes(c, "open")
    BY <1>1, <1>2, <1>3, <1>7, <2>1, BecomeLands, AtGoes
  <2> QED  BY <1>1, <1>5, <1>7, <2>1, <2>2 DEF Acts, Goes, more
<1>8. CASE /\ call[c].kind = "stop"
           /\ answer = Reading([At(c, "stopping") EXCEPT !.victim = old], old)
  <2>1. /\ [At(c, "stopping") EXCEPT !.victim = old] \in CallRecord
        /\ [At(c, "stopping") EXCEPT !.victim = old].victim = old
        /\ [At(c, "stopping") EXCEPT !.victim = old].at = "stopping"
        /\ [At(c, "stopping") EXCEPT !.victim = old].kind = call[c].kind
        /\ [At(c, "stopping") EXCEPT !.victim = old].target = call[c].target
        /\ [At(c, "stopping") EXCEPT !.victim = old].old = call[c].old
    BY <1>2, <1>3, <1>8, AtType DEF CallRecord
  <2>2. answer \in CallRecord /\ answer.at = "stopping" /\ answer.victim = old
        /\ answer.kind = call[c].kind /\ answer.target = call[c].target /\ answer.old = call[c].old
    BY <1>2, <1>8, <2>1, ReadingType
  <2>3. call' \in [Calls -> CallRecord] /\ Others(c) /\ Lands(c, answer)  BY <1>1, <2>2, BecomeLands
  <2> QED  BY <1>1, <1>4, <1>5, <1>8, <2>2, <2>3 DEF Acts, Lands, AtRest
<1>9. \/ answer = At(c, "failed") \/ answer = At(c, "refused")
      \/ /\ call[c].kind \in {"spawn", "continue"} /\ ~InsideClosingTree(call[c].target)
         /\ call[c].kind = "continue" => Live(old)
         /\ answer = IF call[c].kind = "spawn" THEN At(c, "open") ELSE Reading(At(c, "open"), old)
      \/ /\ call[c].kind = "stop"
         /\ answer = Reading([At(c, "stopping") EXCEPT !.victim = old], old)
  <2>1. CASE closed \/ gone  BY <2>1 DEF answer
  <2>2. CASE ~closed /\ ~gone /\ call[c].kind = "spawn"  BY <2>2 DEF answer
  <2>3. CASE ~closed /\ ~gone /\ call[c].kind = "continue"  BY <2>3 DEF answer
  <2>4. CASE ~closed /\ ~gone /\ call[c].kind = "stop"  BY <2>4 DEF answer
  <2> QED  BY <1>2, <2>1, <2>2, <2>3, <2>4
<1> QED  BY <1>6, <1>7, <1>8, <1>9

(* A command opens its journal, or takes it up.                             *)
LEMMA OpenOperationDoes ==
  ASSUME TypeOK, Shape, Parameters, NEW c \in Calls, OpenOperation(c)
  PROVE  /\ call[c].at = "open" /\ Acts(c) /\ runs' = runs /\ pty' = pty /\ Quiet
         /\ call[c].kind \in {"spawn", "continue", "stopTree"}
         /\ ops' \in [Calls -> OpRecord]
         /\ call'[c].copies \subseteq call[c].copies
         /\ \/ ops' = ops
            \/ /\ ops[c].state = "none"
               /\ ops' = [ops EXCEPT ![c] = [NoOp EXCEPT !.state = "running", !.mine = TRUE]]
         /\ \/ Goes(c, "failed")
            \/ /\ ops'[c].state # "none"
               /\ \/ call[c].kind = "spawn" /\ Goes(c, "identity")
                  \/ call[c].kind = "continue" /\ Goes(c, "fenceOld")
                  \/ call[c].kind = "stopTree" /\ Goes(c, "closeFence")
<1> DEFINE step == CASE call[c].kind = "spawn" -> "identity"
                     [] call[c].kind = "continue" -> "fenceOld"
                     [] OTHER -> "closeFence"
           go == At(c, step)
           fresh == [NoOp EXCEPT !.state = "running", !.mine = TRUE]
           bad == At(c, "failed")
           again == [go EXCEPT !.entry = TRUE]
<1>1. call[c].at = "open" /\ call[c].kind \in {"spawn", "continue", "stopTree"}
  BY Stepping DEF OpenOperation
<1>2. /\ step \in Steps /\ "failed" \in Steps
      /\ \/ call[c].kind = "spawn" /\ step = "identity"
         \/ call[c].kind = "continue" /\ step = "fenceOld"
         \/ call[c].kind = "stopTree" /\ step = "closeFence"
  BY <1>1 DEF Steps, AtRest
<1>3. fresh \in OpRecord /\ fresh.state # "none"  BY DEF OpRecord, OpStates, NoOp
<1>4. /\ runs' = runs /\ pty' = pty /\ Quiet
      /\ \/ ops[c].state = "none" /\ (WriteOp(c, go, c, fresh) \/ WriteOp(c, bad, c, fresh))
         \/ (Become(c, bad) \/ (Become(c, again) /\ ops[c].state # "none")) /\ ops' = ops
      /\ Trouble \/ Smooth
  BY DEF OpenOperation, Quiet, KeepRuns
<1>5. troubles' \in 0 .. MaxTroubles  BY <1>4, TroubleType
<1> HIDE DEF step, fresh
<1>6. go \in CallRecord /\ bad \in CallRecord /\ go.copies = call[c].copies
      /\ bad.copies = call[c].copies
  BY <1>2, AtType
<1>7. again \in CallRecord /\ (Lands(c, again) => Lands(c, go))  BY <1>6, AsideLands
<1>8. CASE ops[c].state = "none" /\ (WriteOp(c, go, c, fresh) \/ WriteOp(c, bad, c, fresh))
  <2>1. /\ call' \in [Calls -> CallRecord] /\ Others(c) /\ (Lands(c, go) \/ Lands(c, bad))
        /\ ops' \in [Calls -> OpRecord] /\ ops' = [ops EXCEPT ![c] = fresh]
    BY <1>3, <1>6, <1>8, WriteOpLands
  <2>2. Goes(c, step) \/ Goes(c, "failed")  BY <2>1, <1>2, AtGoes
  <2>3. ops'[c].state # "none"  BY <2>1, <1>3 DEF TypeOK
  <2>4. call'[c].copies \subseteq call[c].copies  BY <2>1, <1>6 DEF Lands
  <2>5. Acts(c)  BY <1>5, <2>1, <2>2 DEF Acts, Goes
  <2>6. ops[c].state = "none" /\ ops' = [ops EXCEPT ![c] = [NoOp EXCEPT !.state = "running", !.mine = TRUE]]
    BY <1>8, <2>1 DEF fresh
  <2> QED  BY <2>1, <2>2, <2>3, <2>4, <2>5, <2>6, <1>1, <1>2, <1>4
<1>9. CASE (Become(c, bad) \/ (Become(c, again) /\ ops[c].state # "none")) /\ ops' = ops
  <2>1. /\ call' \in [Calls -> CallRecord] /\ Others(c)
        /\ (Lands(c, go) /\ ops[c].state # "none") \/ Lands(c, bad)
    BY <1>6, <1>7, <1>9, BecomeLands
  <2>2. (Goes(c, step) /\ ops[c].state # "none") \/ Goes(c, "failed")  BY <2>1, <1>2, AtGoes
  <2>4. call'[c].copies \subseteq call[c].copies  BY <2>1, <1>6 DEF Lands
  <2>5. ops' \in [Calls -> OpRecord]  BY <1>9 DEF TypeOK
  <2> QED  BY <2>1, <2>2, <2>4, <2>5, <1>1, <1>2, <1>4, <1>5, <1>9 DEF Acts, Goes
<1> QED  BY <1>4, <1>8, <1>9

(* The agent and its family edge.                                           *)
LEMMA IdentityClimbs ==
  ASSUME TypeOK, Parameters, NEW c \in Calls, Identity(c)
  PROVE  /\ Climbs(c, "identity", "identity", ops[c].state, "reserve")
         /\ UNCHANGED <<born, fences, crowd, overlooked, lost, asked, meddled, hollow, retries>>
         /\ \/ parent' = [parent EXCEPT ![c] = call[c].target]
            \/ parent' = parent /\ call'[c].at = "compTerminal"
<1>1. CASE Advance(c, "identity", ops[c].state, At(c, "reserve"))
           /\ parent' = [parent EXCEPT ![c] = call[c].target]
  BY <1>1, AdvanceClimbs, OpStateType DEF Identity, Steps, Rungs
<1>2. CASE UNCHANGED parent /\ Trouble /\ Become(c, At(c, "compTerminal")) /\ Keep
  <2>1. At(c, "compTerminal") \in CallRecord /\ "compTerminal" \in Steps  BY AtType DEF Steps
  <2>2. call' \in [Calls -> CallRecord] /\ Others(c) /\ Lands(c, At(c, "compTerminal"))
    BY <1>2, <2>1, BecomeLands
  <2>3. Goes(c, "compTerminal") /\ troubles' \in 0 .. MaxTroubles
    BY <2>1, <2>2, <1>2, AtGoes, TroubleType
  <2>4. ops' \in [Calls -> OpRecord]  BY <1>2 DEF Keep, TypeOK
  <2> QED  BY <1>2, <2>2, <2>3, <2>4 DEF Identity, Climbs, Acts, Goes, Keep, KeepRuns
<1> QED  BY <1>1, <1>2 DEF Identity

(* A run of its own.                                                        *)
LEMMA ReserveRunDoes ==
  ASSUME TypeOK, Shape, Parameters, NEW c \in Calls, ReserveRun(c)
  PROVE  /\ call[c].at = "reserve" /\ Acts(c) /\ ops' = ops /\ pty' = pty
         /\ UNCHANGED <<parent, fences, crowd, overlooked, lost, asked, meddled, hollow, retries>>
         /\ runs' \in [Runs -> RunRecord]
         /\ \/ /\ runs' = runs /\ born' = born
               /\ (Goes(c, "journalRun") /\ runs[c].life # "none") \/ Goes(c, "compTerminal")
            \/ /\ runs[c].life = "none" /\ "run" \notin ops[c].rungs
               /\ runs' = [runs EXCEPT ![c] =
                     [NoRun EXCEPT !.agent = AgentOf(c), !.life = "provisioning"]]
               /\ born' = Append(born, c)
               /\ \A d \in Calls \ {c} : c \notin call'[d].copies
               /\ Goes(c, "journalRun") \/ Goes(c, "compTerminal")
<1> DEFINE next == Reading(At(c, "journalRun"), c)
           bad == At(c, "compTerminal")
           veto == [bad EXCEPT !.verdict = "refused"]
           new == [NoRun EXCEPT !.agent = AgentOf(c), !.life = "provisioning"]
<1>1. /\ call[c].at = "reserve" /\ ops' = ops /\ pty' = pty /\ (Trouble \/ Smooth)
      /\ UNCHANGED <<parent, fences, crowd, overlooked, lost, asked, meddled, hollow, retries>>
      /\ \/ /\ runs' = runs /\ born' = born
            /\ \/ Become(c, next) /\ ("run" \in ops[c].rungs \/ runs[c].life # "none")
               \/ Become(c, bad) \/ Become(c, veto)
         \/ /\ runs[c].life = "none" /\ "run" \notin ops[c].rungs
            /\ WriteRun(c, next, c, new) \/ WriteRun(c, bad, c, new)
            /\ born' = Append(born, c)
  BY Zenon DEF ReserveRun, KeepRuns
<1>2. troubles' \in 0 .. MaxTroubles  BY <1>1, TroubleType
<1>3. c \in Runs /\ "journalRun" \in Steps /\ "compTerminal" \in Steps  BY DEF Runs, Steps
<1>4. /\ next \in CallRecord /\ bad \in CallRecord /\ veto \in CallRecord
      /\ Lands(c, veto) => Lands(c, bad)
  BY <1>3, AtType, ReadingType, AsideLands
<1>5. Climber(c) /\ AgentOf(c) \in Agents
  <2>1. call[c].at = "reserve"  BY <1>1
  <2>2. Climber(c)  BY <2>1, Stepping
  <2> QED  BY <2>2 DEF Shape, Named, Climber, AgentOf, Agents
<1>6. new \in RunRecord  BY <1>5 DEF RunRecord, NoRun, Lifecycles, Final
<1>7. "run" \in ops[c].rungs => runs[c].life # "none"  BY DEF Shape, JournalOK
<1>8. CASE runs' = runs
  <2>1. \A rec \in {next, bad, veto} : Become(c, rec) =>
           call' \in [Calls -> CallRecord] /\ Others(c) /\ Lands(c, rec)
    BY <1>4, BecomeLands
  <2>2. Lands(c, bad) => Goes(c, "compTerminal")  BY <1>3, AtGoes
  <2>3. Lands(c, next) => Goes(c, "journalRun")  BY <1>3, AtGoes
  <2>4. runs' \in [Runs -> RunRecord]  BY <1>8 DEF TypeOK
  <2>5. CASE \/ Become(c, next) /\ ("run" \in ops[c].rungs \/ runs[c].life # "none")
             \/ Become(c, bad) \/ Become(c, veto)
    <3> HIDE DEF next, bad, veto
    <3>1. /\ call' \in [Calls -> CallRecord] /\ Others(c)
          /\ (Goes(c, "journalRun") /\ runs[c].life # "none") \/ Goes(c, "compTerminal")
      BY <1>4, <1>7, <2>1, <2>2, <2>3, <2>5
    <3>2. Acts(c)  BY <1>2, <3>1 DEF Acts, Goes
    <3>3. runs' = runs /\ born' = born
      <4> HIDE DEF new
      <4>1. runs[c].life = "none" => ~(WriteRun(c, next, c, new) \/ WriteRun(c, bad, c, new))
        <5>1. SUFFICES ASSUME runs[c].life = "none", runs' = [runs EXCEPT ![c] = new] PROVE FALSE
          BY DEF WriteRun
        <5>2. new.life = "provisioning"  BY DEF new, NoRun
        <5> QED  BY <5>1, <5>2, <1>3, <1>8 DEF TypeOK
      <4> QED  BY <1>1, <1>8, <4>1
    <3> QED  BY <1>1, <2>4, <3>1, <3>2, <3>3
  <2>6. CASE runs[c].life = "none" /\ (WriteRun(c, next, c, new) \/ WriteRun(c, bad, c, new))
    <3>1. runs' = [runs EXCEPT ![c] = new] /\ new.life = "provisioning"  BY <2>6 DEF WriteRun, NoRun
    <3>2. FALSE
      <4> HIDE DEF new
      <4> QED  BY <3>1, <1>3, <1>8, <2>6 DEF TypeOK
    <3> QED  BY <3>2
  <2> QED  BY <1>1, <2>5, <2>6
<1>9. CASE /\ runs[c].life = "none" /\ "run" \notin ops[c].rungs
           /\ WriteRun(c, next, c, new) \/ WriteRun(c, bad, c, new)
           /\ born' = Append(born, c)
  <2> HIDE DEF new
  <2>1. /\ call' \in [Calls -> CallRecord] /\ Others(c)
        /\ Lands(c, Reading(next, c)) \/ Lands(c, Reading(bad, c))
        /\ \A d \in Calls \ {c} : c \notin call'[d].copies
        /\ runs' \in [Runs -> RunRecord] /\ runs' = [runs EXCEPT ![c] = new]
    BY <1>3, <1>4, <1>6, <1>9, WriteRunLands
  <2>3. Goes(c, "journalRun") \/ Goes(c, "compTerminal")  BY <2>1, <1>3, AtGoes
  <2>4. Acts(c)  BY <1>2, <2>1, <2>3 DEF Acts, Goes
  <2> QED  BY <1>1, <1>9, <2>1, <2>3, <2>4 DEF new
<1> QED  BY <1>1, <1>8, <1>9

(* A terminal: a new one, or the one that the command had already.          *)
LEMMA OpenTerminalDoes ==
  ASSUME TypeOK, Shape, Parameters, NEW c \in Calls, OpenTerminal(c)
  PROVE  /\ call[c].at = "openTerminal" /\ Acts(c) /\ runs' = runs /\ ops' = ops
         /\ UNCHANGED <<parent, born, fences, crowd, overlooked, lost, asked, meddled, retries>>
         /\ \/ /\ Goes(c, "journalTerminal") /\ pty[c] # "dead"
               /\ pty' = [pty EXCEPT ![c] = "live"] /\ hollow' = hollow
            \/ /\ Goes(c, "journalTerminal") /\ pty[c] = "dead" /\ pty' = pty
               /\ hollow' = hollow \cup {c}
            \/ /\ Goes(c, "compTerminal") /\ hollow' = hollow
               /\ pty' = pty \/ (pty[c] = "none" /\ pty' = [pty EXCEPT ![c] = "dead"])
<1>1. "journalTerminal" \in Steps /\ "compTerminal" \in Steps  BY DEF Steps
<1>2. \A s \in {"journalTerminal", "compTerminal"} : Become(c, At(c, s)) =>
         call' \in [Calls -> CallRecord] /\ Others(c) /\ Goes(c, s)
  BY <1>1, AtType, AtGoes, BecomeLands
<1>3. Trouble \/ Smooth => troubles' \in 0 .. MaxTroubles  BY TroubleType
<1> QED  BY <1>2, <1>3 DEF OpenTerminal, Acts, Goes, Keep, KeepRuns

(* The provider is set up, and the skills gate.                             *)
LEMMA FurnishDoes ==
  ASSUME TypeOK, Parameters, NEW c \in Calls, Furnish(c)
  PROVE  /\ Quiet
         /\ \/ Climbs(c, "furnish", "furnished", ops[c].state, "ready")
            \/ /\ call[c].at = "furnish" /\ Acts(c) /\ Goes(c, "gated")
               /\ UNCHANGED <<runs, ops, pty>>
<1>1. CASE Advance(c, "furnished", ops[c].state, At(c, "ready"))
  BY <1>1, AdvanceClimbs, OpStateType DEF Furnish, Quiet, Steps, Rungs
<1>2. CASE WriteRun(c, At(c, "gated"), c, runs[c]) /\ UNCHANGED ops /\ Smooth
  <2>1. c \in Runs /\ runs[c] \in RunRecord /\ "gated" \in Steps  BY DEF TypeOK, Runs, Steps
  <2>2. At(c, "gated") \in CallRecord  BY <2>1, AtType
  <2>3. /\ call' \in [Calls -> CallRecord] /\ Others(c) /\ Lands(c, Reading(At(c, "gated"), c))
        /\ runs' = [runs EXCEPT ![c] = runs[c]]
    BY <1>2, <2>1, <2>2, WriteRunLands
  <2>4. runs' = runs  BY <2>3 DEF TypeOK
  <2>5. Goes(c, "gated")  BY <2>1, <2>3, AtGoes
  <2>6. troubles' \in 0 .. MaxTroubles  BY <1>2, TroubleType
  <2> QED  BY <1>2, <2>3, <2>4, <2>5, <2>6 DEF Furnish, Quiet, Acts, Goes
<1> QED  BY <1>1, <1>2 DEF Furnish

LEMMA PassGateDoes ==
  ASSUME TypeOK, Parameters, NEW c \in Calls, PassGate(c)
  PROVE  /\ Quiet
         /\ \/ Climbs(c, "gated", "furnished", ops[c].state, "ready")
            \/ Writes(c, "gated", c, [runs[c] EXCEPT !.life = "failed"],
                      "compTerminal", "compTerminal")
<1>1. CASE Advance(c, "furnished", ops[c].state, Reading(At(c, "ready"), c))
  <2>1. "ready" \in Steps /\ "compTerminal" \in Steps /\ c \in Runs  BY DEF Steps, Runs
  <2>2. Reading(At(c, "ready"), c) \in CallRecord  BY <2>1, AtType, ReadingType
  <2>3. Advanced(c, "furnished", ops[c].state, Reading(At(c, "ready"), c))
    BY <1>1, <2>2, AdvanceAdvances, OpStateType DEF Rungs
  <2>4. call[c].at = "gated" /\ pty' = pty /\ Quiet  BY DEF PassGate, Quiet
  <2> QED  BY <2>1, <2>3, <2>4, AtGoes DEF Advanced, Climbs, Acts, Goes
<1>2. CASE PatchRun(c, c, [runs[c] EXCEPT !.life = "failed"],
                    At(c, "compTerminal"), At(c, "compTerminal"))
  <2>1. runs[c] \in RunRecord  BY DEF TypeOK, Runs
  <2>2. [runs[c] EXCEPT !.life = "failed"] \in RunRecord  BY <2>1 DEF RunRecord, Lifecycles, Final
  <2> QED  BY <1>2, <2>2, PatchRunWrites DEF PassGate, Quiet, Steps
<1> QED  BY <1>1, <1>2 DEF PassGate

LEMMA MakeReadyDoes ==
  ASSUME TypeOK, Shape, Parameters, NEW c \in Calls, MakeReady(c)
  PROVE  /\ call[c].at = "ready" /\ Acts(c) /\ ops' = ops /\ pty' = pty /\ Quiet
         /\ runs' \in [Runs -> RunRecord]
         /\ \/ runs' = runs /\ Goes(c, "compTerminal")
            \/ /\ runs' = [runs EXCEPT ![c] = [runs[c] EXCEPT !.life = "ready"]]
               /\ \A d \in Calls \ {c} : c \notin call'[d].copies
               /\ \/ Goes(c, "compTerminal")
                  \/ call[c].kind = "spawn" /\ Goes(c, "settle")
                  \/ /\ call[c].kind = "continue" /\ call'[c].at = "stopping"
                     /\ call'[c].victim = call[c].old
<1> DEFINE next == IF call[c].kind = "spawn" THEN At(c, "settle")
                   ELSE [At(c, "stopping") EXCEPT !.victim = call[c].old]
           bad == At(c, "compTerminal")
           new == [runs[c] EXCEPT !.life = "ready"]
<1>1. call[c].at = "ready" /\ pty' = pty /\ Quiet /\ PatchRun(c, c, new, next, bad)
  BY DEF MakeReady, Quiet
<1>2. c \in Runs /\ "settle" \in Steps /\ "stopping" \in Steps /\ "compTerminal" \in Steps
  BY DEF Runs, Steps
<1>3. call[c].kind \in {"spawn", "continue"}  BY <1>1, Stepping DEF HasRun, Climber
<1>4. call[c].kind = "continue" => call[c].old \in Runs  BY DEF Shape, Named
<1>5. runs[c] \in RunRecord  BY <1>2 DEF TypeOK
<1>6. new \in RunRecord  BY <1>5 DEF RunRecord, Lifecycles
<1>7. bad \in CallRecord  BY <1>2, AtType
<1>8. /\ next \in CallRecord /\ next.kind = call[c].kind /\ next.target = call[c].target
      /\ next.old = call[c].old
      /\ call[c].kind = "spawn" => next = At(c, "settle")
      /\ call[c].kind = "continue" => next.at = "stopping" /\ next.victim = call[c].old
  BY <1>2, <1>3, <1>4, AtType DEF CallRecord
<1> HIDE DEF next, new, bad
<1>9. Patched(c, c, new, next, bad)  BY <1>1, <1>6, <1>7, <1>8, PatchRunPatches
<1>10. Lands(c, bad) \/ Lands(c, Reading(bad, c)) => Goes(c, "compTerminal")
  BY <1>2, AtGoes DEF bad
<1>11. Lands(c, Reading(next, c)) =>
         \/ call[c].kind = "spawn" /\ Goes(c, "settle")
         \/ call[c].kind = "continue" /\ call'[c].at = "stopping" /\ call'[c].victim = call[c].old
            /\ call'[c].kind = call[c].kind /\ call'[c].target = call[c].target
            /\ call'[c].old = call[c].old
  <2>1. CASE call[c].kind = "spawn"  BY <1>2, <1>8, <2>1, AtGoes
  <2>2. CASE call[c].kind = "continue"  BY <1>2, <1>8, <2>2, ReadingType DEF Lands, AtRest
  <2> QED  BY <1>3, <2>1, <2>2
<1> QED  BY <1>1, <1>9, <1>10, <1>11 DEF Patched, Acts, Goes, new
LEMMA AfterCloseCloses ==
  ASSUME TypeOK, Shape, Parameters, NEW c \in Calls, call[c].at \in Closer, NEW result
  PROVE  /\ AfterClose(c, result) \in CallRecord
         /\ \/ Lands(c, AfterClose(c, result))
            \/ \E r \in Runs : Lands(c, Reading(AfterClose(c, result), r))
            => Closes(c, result)
<1> DEFINE rec == AfterClose(c, result)
           a == runs[call[c].victim].agent
<1>1. /\ call[c].kind \in {"continue", "stop", "stopTree", "repair"}
      /\ call[c].victim \in Runs /\ runs[call[c].victim].life # "none"
  BY Stepping DEF Shape, Holding
<1>2. a \in Agents  BY <1>1 DEF TypeOK, RunRecord
<1>3. \A s \in {"failed", "ended", "compTerminal", "settle", "stopEach"} : s \in Steps
  BY DEF Steps, AtRest
<1>4. /\ rec \in CallRecord
      /\ rec.kind = call[c].kind /\ rec.target = call[c].target /\ rec.old = call[c].old
      /\ call[c].kind = "stop" => rec.at \in {"failed", "ended"}
      /\ call[c].kind = "continue" => rec.at \in {"compTerminal", "settle"}
      /\ call[c].kind \in {"stopTree", "repair"} =>
           /\ rec.at = "stopEach" /\ rec.fence = call[c].fence /\ rec.todo = call[c].todo \ {a}
           /\ rec.missed = IF result = "stopped" THEN call[c].missed ELSE call[c].missed \cup {a}
  <2>1. CASE call[c].kind = "stop"
    <3>1. rec = At(c, IF result = "error" THEN "failed" ELSE "ended")  BY <2>1 DEF AfterClose
    <3> QED  BY <2>1, <3>1, <1>3, AtType
  <2>2. CASE call[c].kind = "continue"
    <3>1. rec = At(c, IF result = "error" THEN "compTerminal" ELSE "settle")  BY <2>2 DEF AfterClose
    <3> QED  BY <2>2, <3>1, <1>3, AtType
  <2>3. CASE call[c].kind \in {"stopTree", "repair"}
    <3>1. rec = [At(c, "stopEach") EXCEPT !.todo = @ \ {a}, !.victim = None,
                          !.missed = IF result = "stopped" THEN @ ELSE @ \cup {a}]
      BY <2>3 DEF AfterClose
    <3> DEFINE q == At(c, "stopEach")
    <3>2. /\ q \in CallRecord /\ q.kind = call[c].kind /\ q.target = call[c].target
          /\ q.old = call[c].old /\ q.at = "stopEach" /\ q.fence = call[c].fence
          /\ q.todo = call[c].todo /\ q.missed = call[c].missed
      BY <1>3, AtType
    <3>3. rec = [q EXCEPT !.todo = q.todo \ {a}, !.victim = None,
                          !.missed = IF result = "stopped" THEN q.missed ELSE q.missed \cup {a}]
      BY <3>1
    <3> HIDE DEF rec, a, q
    <3>4. /\ rec \in CallRecord /\ rec.todo = q.todo \ {a} /\ rec.kind = q.kind
          /\ rec.target = q.target /\ rec.old = q.old /\ rec.at = q.at /\ rec.fence = q.fence
          /\ rec.missed = IF result = "stopped" THEN q.missed ELSE q.missed \cup {a}
      BY <3>2, <3>3, <1>2 DEF CallRecord
    <3> QED  BY <2>3, <3>2, <3>4
  <2> QED  BY <1>1, <2>1, <2>2, <2>3
<1> HIDE DEF rec
<1>5. \A r \in Runs : Lands(c, Reading(rec, r)) \/ Lands(c, rec) => Closes(c, result)
  BY <1>1, <1>4, ReadingType DEF Lands, Closes, AtRest
<1> QED  BY <1>4, <1>5, <1>1 DEF rec

LEMMA MarkStoppingDoes ==
  ASSUME TypeOK, Shape, Parameters, NEW c \in Calls, MarkStopping(c)
  PROVE  /\ call[c].at = "stopping" /\ Acts(c) /\ ops' = ops /\ pty' = pty /\ Quiet
         /\ runs' \in [Runs -> RunRecord]
         /\ \/ runs' = runs /\ Closes(c, "error")
            \/ runs' = runs /\ ~Live(call[c].victim) /\ Closes(c, runs[call[c].victim].life)
            \/ /\ runs' = [runs EXCEPT ![call[c].victim] =
                              [runs[call[c].victim] EXCEPT !.life = "stopping"]]
               /\ Live(call[c].victim)
               /\ \A d \in Calls \ {c} : call[c].victim \notin call'[d].copies
               /\ Closes(c, "error")
                  \/ (Goes(c, "terminate") /\ call'[c].copies \subseteq call[c].copies)
<1> DEFINE v == call[c].victim
           new == [runs[v] EXCEPT !.life = "stopping"]
           bad == AfterClose(c, "error")
           over == v \in call[c].copies /\ ~Live(v)
<1>1. /\ call[c].at = "stopping" /\ pty' = pty /\ Quiet
      /\ \/ over /\ Become(c, AfterClose(c, runs[v].life)) /\ runs' = runs /\ ops' = ops /\ Smooth
         \/ ~over /\ PatchRun(c, v, new, At(c, "terminate"), bad)
  BY DEF MarkStopping, Quiet, Keep, KeepRuns
<1>2. v \in Runs /\ "terminate" \in Steps /\ call[c].at \in Closer
  BY <1>1 DEF Shape, Holding, Closer, Steps
<1>3. bad \in CallRecord /\ AfterClose(c, runs[v].life) \in CallRecord  BY <1>2, AfterCloseCloses
<1>4. runs[v] \in RunRecord  BY <1>2 DEF TypeOK
<1>5. new \in RunRecord  BY <1>4 DEF RunRecord, Lifecycles
<1>6. CASE over /\ Become(c, AfterClose(c, runs[v].life)) /\ runs' = runs /\ ops' = ops /\ Smooth
  <2>1. call' \in [Calls -> CallRecord] /\ Others(c) /\ Closes(c, runs[v].life)
    BY <1>2, <1>3, <1>6, BecomeLands, AfterCloseCloses
  <2>2. Acts(c)  BY <2>1, <1>6, TroubleType DEF Acts, Closes
  <2>3. runs' \in [Runs -> RunRecord]  BY <1>6 DEF TypeOK
  <2> QED  BY <1>1, <1>6, <2>1, <2>2, <2>3
<1>7. CASE ~over /\ PatchRun(c, v, new, At(c, "terminate"), bad)
  <2>1. At(c, "terminate") \in CallRecord /\ At(c, "terminate").copies = call[c].copies
    BY <1>2, AtType
  <2> HIDE DEF new, bad
  <2>2. Patched(c, v, new, At(c, "terminate"), bad)  BY <1>3, <1>5, <1>7, <2>1, PatchRunPatches
  <2>3. Lands(c, bad) \/ Lands(c, Reading(bad, v)) => Closes(c, "error")
    BY <1>2, AfterCloseCloses DEF bad
  <2>4. Lands(c, Reading(At(c, "terminate"), v)) => Goes(c, "terminate")  BY <1>2, AtGoes
  <2>5. v \in call[c].copies /\ Lands(c, Reading(At(c, "terminate"), v)) =>
           call'[c].copies \subseteq call[c].copies
    BY <1>2, <2>1, ReadingType DEF Lands
  <2>6. Closes(c, "error") \/ Goes(c, "terminate")  BY <2>2, <2>3, <2>4 DEF Patched
  <2>7. Acts(c)  BY <2>2, <2>6 DEF Acts, Closes, Goes, Patched
  <2>8. v \in call[c].copies => Live(v)  BY <1>7
  <2> HIDE DEF v
  <2> QED  BY <1>1, <2>2, <2>3, <2>4, <2>5, <2>7, <2>8 DEF Patched, new, v
<1> QED  BY <1>1, <1>6, <1>7

LEMMA TerminateDoes ==
  ASSUME TypeOK, Shape, Parameters, NEW c \in Calls, Terminate(c)
  PROVE  /\ call[c].at = "terminate" /\ Acts(c) /\ runs' = runs /\ ops' = ops /\ Quiet
         /\ call'[c].copies \subseteq call[c].copies
         /\ \/ /\ Goes(c, "stopped")
               /\ \/ ~runs[call[c].victim].terminal /\ pty' = pty
                  \/ pty' = [pty EXCEPT ![call[c].victim] = "dead"]
            \/ /\ Goes(c, "unsure")
               /\ pty' \in {pty, [pty EXCEPT ![call[c].victim] = "dead"]}
         /\ pty' = pty \/ runs[call[c].victim].terminal
<1>1. "stopped" \in Steps /\ "unsure" \in Steps  BY DEF Steps
<1>2. \A s \in {"stopped", "unsure"} : Become(c, At(c, s)) =>
         /\ call' \in [Calls -> CallRecord] /\ Others(c) /\ Goes(c, s)
         /\ call'[c].copies \subseteq call[c].copies
  <2> SUFFICES ASSUME NEW s \in {"stopped", "unsure"}, Become(c, At(c, s))
               PROVE  /\ call' \in [Calls -> CallRecord] /\ Others(c) /\ Goes(c, s)
                      /\ call'[c].copies \subseteq call[c].copies
    OBVIOUS
  <2>1. At(c, s) \in CallRecord /\ At(c, s).copies = call[c].copies  BY <1>1, AtType
  <2>2. call' \in [Calls -> CallRecord] /\ Others(c) /\ Lands(c, At(c, s))  BY <2>1, BecomeLands
  <2> QED  BY <1>1, <2>1, <2>2, AtGoes DEF Lands
<1>3. Trouble \/ Smooth => troubles' \in 0 .. MaxTroubles  BY TroubleType
<1> QED  BY <1>2, <1>3 DEF Terminate, Acts, Goes, Keep, KeepRuns, Quiet
LEMMA PatchRunMarks ==
  ASSUME TypeOK, Shape, Parameters, NEW c \in Calls, call[c].at \in Closer,
         NEW new \in RunRecord, NEW result, pty' = pty, Quiet,
         PatchRun(c, call[c].victim, new, AfterClose(c, result), AfterClose(c, "error"))
  PROVE  Marks(c, new, result)
<1> DEFINE v == call[c].victim
<1>1. v \in Runs  BY DEF Shape, Holding
<1>2. AfterClose(c, result) \in CallRecord /\ AfterClose(c, "error") \in CallRecord
  BY AfterCloseCloses
<1>3. Patched(c, v, new, AfterClose(c, result), AfterClose(c, "error"))  BY <1>2, PatchRunPatches
<1>4. /\ Lands(c, AfterClose(c, "error")) \/ Lands(c, Reading(AfterClose(c, "error"), v))
         => Closes(c, "error")
      /\ Lands(c, Reading(AfterClose(c, result), v)) => Closes(c, result)
  BY <1>1, AfterCloseCloses
<1>5. Acts(c)  BY <1>3, <1>4 DEF Patched, Acts, Closes
<1> QED  BY <1>3, <1>4, <1>5 DEF Patched, Marks

LEMMA MarkUnsureMarks ==
  ASSUME TypeOK, Shape, Parameters, NEW c \in Calls, MarkUnsure(c)
  PROVE  /\ call[c].at = "unsure"
         /\ Marks(c, [runs[call[c].victim] EXCEPT !.life = "recovery-required", !.doubt = TRUE],
                  "unsure")
<1>1. call[c].at = "unsure" /\ call[c].at \in Closer  BY DEF MarkUnsure, Closer
<1>2. runs[call[c].victim] \in RunRecord  BY <1>1 DEF Shape, Holding, TypeOK
<1>3. [runs[call[c].victim] EXCEPT !.life = "recovery-required", !.doubt = TRUE] \in RunRecord
  BY <1>2 DEF RunRecord, Lifecycles
<1> QED  BY <1>1, <1>3, PatchRunMarks DEF MarkUnsure, Quiet

LEMMA MarkStoppedMarks ==
  ASSUME TypeOK, Shape, Parameters, NEW c \in Calls, MarkStopped(c)
  PROVE  /\ call[c].at = "stopped"
         /\ Marks(c, [runs[call[c].victim] EXCEPT !.life = "stopped"], "stopped")
<1>1. call[c].at = "stopped" /\ call[c].at \in Closer  BY DEF MarkStopped, Closer
<1>2. runs[call[c].victim] \in RunRecord  BY <1>1 DEF Shape, Holding, TypeOK
<1>3. [runs[call[c].victim] EXCEPT !.life = "stopped"] \in RunRecord
  BY <1>2 DEF RunRecord, Lifecycles, Final
<1> QED  BY <1>1, <1>3, PatchRunMarks DEF MarkStopped, Quiet

-----------------------------------------------------------------------------
(* The oldest live run of an agent.                                         *)
LEMMA MinExists ==
  ASSUME NEW S \in SUBSET Nat, S # {}
  PROVE  \E x \in S : \A y \in S : x <= y
<1> DEFINE R == {ss \in Nat \X Nat : ss[1] < ss[2]}
<1>1. IsWellFoundedOn(R, Nat)  BY NatLessThanWellFounded DEF OpToRel
<1>2. PICK x \in S : \A y \in S : ~ (<<y, x>> \in R)
  <2> HIDE DEF R
  <2> QED  BY <1>1, WFMin
<1>3. ASSUME NEW y \in S PROVE x <= y
  <2>1. ~ (<<y, x>> \in {ss \in Nat \X Nat : ss[1] < ss[2]})  BY <1>2
  <2>2. ~ (y < x)  BY <2>1
  <2> QED  BY <2>2
<1> QED  BY <1>3

LEMMA AgeIs ==
  ASSUME Shape, NEW r \in Runs, runs[r].life # "none"
  PROVE  Age(r) \in 1 .. Len(born) /\ born[Age(r)] = r
<1>1. DOMAIN born = 1 .. Len(born)  BY DEF Shape, BornOK
<1>2. \E i \in 1 .. Len(born) : born[i] = r  BY <1>1 DEF Shape, BornOK
<1> QED  BY <1>2 DEF Age

LEMMA OldestIsLive ==
  ASSUME TypeOK, Shape, Parameters, NEW a
  PROVE  /\ LiveRuns(a) = {} => LiveRunOf(a) = None
         /\ LiveRuns(a) # {} => LiveRunOf(a) \in LiveRuns(a)
<1>1. CASE LiveRuns(a) = {}  BY <1>1 DEF LiveRunOf
<1>2. CASE LiveRuns(a) # {}
  <2> DEFINE Ages == {Age(r) : r \in LiveRuns(a)}
  <2>1. \A r \in LiveRuns(a) : Age(r) \in Nat
    <3> SUFFICES ASSUME NEW r \in LiveRuns(a) PROVE Age(r) \in Nat
      OBVIOUS
    <3>1. r \in Runs /\ runs[r].life # "none"  BY DEF LiveRuns, Live
    <3>2. Len(born) \in Nat  BY DEF Shape, BornOK
    <3> QED  BY <3>1, <3>2, AgeIs
  <2>2. Ages \in SUBSET Nat /\ Ages # {}  BY <1>2, <2>1
  <2>3. PICK x \in Ages : \A y \in Ages : x <= y
    <3> HIDE DEF Ages
    <3> QED  BY <2>2, MinExists
  <2>4. \E r \in LiveRuns(a) : \A q \in LiveRuns(a) : Age(r) <= Age(q)  BY <2>3
  <2> QED  BY <1>2, <2>4, Zenon DEF LiveRunOf
<1> QED  BY <1>1, <1>2

-----------------------------------------------------------------------------
(* stop-tree.                                                               *)

LEMMA CloseFenceDoes ==
  ASSUME TypeOK, Parameters, NEW c \in Calls, CloseFence(c)
  PROVE  /\ call[c].at = "closeFence" /\ Acts(c) /\ UNCHANGED <<runs, pty, ops>> /\ Quiet
         /\ \/ Goes(c, "createFence")
            \/ /\ call'[c].at = "snapshot" /\ call'[c].fence \in Closing(call[c].target)
               /\ call'[c].missed = call[c].missed
<1>1. "createFence" \in Steps /\ "snapshot" \in Steps  BY DEF Steps
<1>2. /\ call[c].at = "closeFence" /\ UNCHANGED <<runs, pty, ops, troubles>> /\ Quiet
      /\ \/ Become(c, At(c, "createFence"))
         \/ \E f \in Closing(call[c].target) : Become(c, [At(c, "snapshot") EXCEPT !.fence = f])
  BY DEF CloseFence, Quiet
<1>3. troubles' \in 0 .. MaxTroubles  BY <1>2 DEF TypeOK
<1>4. CASE Become(c, At(c, "createFence"))
  BY <1>1, <1>2, <1>3, <1>4, AtType, AtGoes, BecomeLands DEF Acts, Goes
<1>5. ASSUME NEW f \in Closing(call[c].target), Become(c, [At(c, "snapshot") EXCEPT !.fence = f])
      PROVE  /\ Acts(c) /\ call'[c].at = "snapshot" /\ call'[c].fence = f
             /\ call'[c].missed = call[c].missed
  <2> DEFINE q == At(c, "snapshot")
             rec == [q EXCEPT !.fence = f]
  <2>0. f \in Calls  BY DEF Closing
  <2>1. /\ q \in CallRecord /\ q.kind = call[c].kind /\ q.target = call[c].target
        /\ q.old = call[c].old /\ q.at = "snapshot" /\ q.missed = call[c].missed
    BY <1>1, AtType
  <2>2. Become(c, rec)  BY <1>5
  <2> HIDE DEF q
  <2>3. /\ rec \in CallRecord /\ rec.kind = q.kind /\ rec.target = q.target /\ rec.old = q.old
        /\ rec.at = q.at /\ rec.missed = q.missed /\ rec.fence = f
    BY <2>0, <2>1 DEF CallRecord
  <2> HIDE DEF rec
  <2> QED  BY <1>3, <2>1, <2>2, <2>3, BecomeLands DEF Acts, Lands, AtRest
<1> QED  BY <1>2, <1>4, <1>5

LEMMA CreateFenceDoes ==
  ASSUME TypeOK, Parameters, NEW c \in Calls, CreateFence(c)
  PROVE  /\ call[c].at = "createFence" /\ Acts(c) /\ UNCHANGED <<runs, pty, ops>>
         /\ UNCHANGED <<parent, born, overlooked, lost, asked, meddled, hollow, retries>>
         /\ \/ Goes(c, "failed") /\ UNCHANGED <<fences, crowd>>
            \/ /\ fences' = [fences EXCEPT ![c] = "closing"]
               /\ crowd' = [crowd EXCEPT ![c] = @ \cup {d \in Calls : Admitted(d)}]
               /\ \/ Goes(c, "failed")
                  \/ /\ call'[c].at = "snapshot" /\ call'[c].fence = c
                     /\ call'[c].missed = call[c].missed
<1>1. "failed" \in Steps /\ "snapshot" \in Steps  BY DEF Steps, AtRest
<1>2. /\ call[c].at = "createFence" /\ UNCHANGED <<runs, pty, ops>> /\ (Trouble \/ Smooth)
      /\ UNCHANGED <<parent, born, overlooked, lost, asked, meddled, hollow, retries>>
      /\ \/ Become(c, At(c, "failed")) /\ UNCHANGED <<fences, crowd>>
         \/ /\ fences' = [fences EXCEPT ![c] = "closing"]
            /\ crowd' = [crowd EXCEPT ![c] = @ \cup {d \in Calls : Admitted(d)}]
            /\ \/ Become(c, At(c, "failed"))
               \/ Become(c, [At(c, "snapshot") EXCEPT !.fence = c])
  BY DEF CreateFence
<1>3. troubles' \in 0 .. MaxTroubles  BY <1>2, TroubleType
<1>4. Become(c, At(c, "failed")) => Acts(c) /\ Goes(c, "failed")
  BY <1>1, <1>3, AtType, AtGoes, BecomeLands DEF Acts, Goes
<1>5. ASSUME Become(c, [At(c, "snapshot") EXCEPT !.fence = c])
      PROVE  /\ Acts(c) /\ call'[c].at = "snapshot" /\ call'[c].fence = c
             /\ call'[c].missed = call[c].missed
  <2> DEFINE q == At(c, "snapshot")
             rec == [q EXCEPT !.fence = c]
  <2>1. /\ q \in CallRecord /\ q.kind = call[c].kind /\ q.target = call[c].target
        /\ q.old = call[c].old /\ q.at = "snapshot" /\ q.missed = call[c].missed
    BY <1>1, AtType
  <2>2. Become(c, rec)  BY <1>5
  <2> HIDE DEF q
  <2>3. /\ rec \in CallRecord /\ rec.kind = q.kind /\ rec.target = q.target /\ rec.old = q.old
        /\ rec.at = q.at /\ rec.missed = q.missed /\ rec.fence = c
    BY <2>1 DEF CallRecord
  <2> HIDE DEF rec
  <2> QED  BY <1>3, <2>1, <2>2, <2>3, BecomeLands DEF Acts, Lands, AtRest
<1> QED  BY <1>2, <1>4, <1>5
LEMMA ConfirmOrderDoes ==
  ASSUME TypeOK, Shape, Parameters, NEW c \in Calls, ConfirmOrder(c)
  PROVE  /\ call[c].at = "snapshot" /\ Acts(c) /\ UNCHANGED <<runs, pty, ops>>
         /\ UNCHANGED <<parent, born, crowd, overlooked, asked, meddled, hollow, retries>>
         /\ \/ /\ call'[c].at = "stopEach" /\ call'[c].todo = Tree(call[c].target)
               /\ call'[c].missed = call[c].missed /\ call'[c].fence = call[c].fence
               /\ UNCHANGED <<fences, lost>>
            \/ Goes(c, "failed") /\ Released(call[c].fence)
<1>1. "failed" \in Steps /\ "stopEach" \in Steps  BY DEF Steps, AtRest
<1>2. /\ call[c].at = "snapshot" /\ UNCHANGED <<runs, pty, ops>> /\ (Trouble \/ Smooth)
      /\ UNCHANGED <<parent, born, crowd, overlooked, asked, meddled, hollow, retries>>
      /\ \/ Become(c, At(c, "failed")) /\ Released(call[c].fence)
         \/ /\ Become(c, [At(c, "stopEach") EXCEPT !.todo = Tree(call[c].target)])
            /\ UNCHANGED <<fences, lost>>
  BY DEF ConfirmOrder, ReleaseFence, Released
<1>3. troubles' \in 0 .. MaxTroubles  BY <1>2, TroubleType
<1>4. Become(c, At(c, "failed")) => Acts(c) /\ Goes(c, "failed")
  BY <1>1, <1>3, AtType, AtGoes, BecomeLands DEF Acts, Goes
<1>5. ASSUME Become(c, [At(c, "stopEach") EXCEPT !.todo = Tree(call[c].target)])
      PROVE  /\ Acts(c) /\ call'[c].at = "stopEach" /\ call'[c].todo = Tree(call[c].target)
             /\ call'[c].missed = call[c].missed /\ call'[c].fence = call[c].fence
  <2> DEFINE q == At(c, "stopEach")
             rec == [q EXCEPT !.todo = Tree(call[c].target)]
  <2>0. Tree(call[c].target) \in SUBSET Agents
    BY <1>2, Stepping DEF Shape, Named, Tree, DescendantsOf
  <2>1. /\ q \in CallRecord /\ q.kind = call[c].kind /\ q.target = call[c].target
        /\ q.old = call[c].old /\ q.at = "stopEach" /\ q.missed = call[c].missed
        /\ q.fence = call[c].fence
    BY <1>1, AtType
  <2>2. Become(c, rec)  BY <1>5
  <2> HIDE DEF q
  <2>3. /\ rec \in CallRecord /\ rec.kind = q.kind /\ rec.target = q.target /\ rec.old = q.old
        /\ rec.at = q.at /\ rec.missed = q.missed /\ rec.fence = q.fence
        /\ rec.todo = Tree(call[c].target)
    BY <2>0, <2>1 DEF CallRecord
  <2> HIDE DEF rec
  <2> QED  BY <1>3, <2>1, <2>2, <2>3, BecomeLands DEF Acts, Lands, AtRest
<1> QED  BY <1>2, <1>4, <1>5

LEMMA StopNextDoes ==
  ASSUME TypeOK, Shape, Parameters, NEW c \in Calls, StopNext(c)
  PROVE  /\ call[c].at = "stopEach" /\ Acts(c) /\ UNCHANGED <<runs, pty, ops>>
         /\ UNCHANGED <<parent, born, fences, crowd, lost, meddled, hollow, retries>>
         /\ call'[c].missed = call[c].missed /\ call'[c].fence = call[c].fence
         /\ \E a \in call[c].todo :
              /\ asked' = asked \cup {a}
              /\ \/ /\ LiveRuns(a) = {} /\ overlooked' = overlooked
                    /\ call'[c].at = "stopEach" /\ call'[c].todo = call[c].todo \ {a}
                 \/ /\ call'[c].at = "stopping" /\ call'[c].todo = call[c].todo
                    /\ call'[c].victim \in LiveRuns(a)
                    /\ overlooked' = overlooked \cup (LiveRuns(a) \ {call'[c].victim})
<1>1. "stopping" \in Steps  BY DEF Steps
<1>2. /\ call[c].at = "stopEach" /\ UNCHANGED <<runs, pty, ops, troubles>>
      /\ UNCHANGED <<parent, born, fences, crowd, lost, meddled, hollow, retries>>
  BY DEF StopNext
<1>3. PICK a \in call[c].todo :
          /\ asked' = asked \cup {a}
          /\ IF LiveRunOf(a) = None
             THEN Become(c, [call[c] EXCEPT !.todo = @ \ {a}]) /\ UNCHANGED overlooked
             ELSE /\ Become(c, Reading([At(c, "stopping") EXCEPT !.victim = LiveRunOf(a)], LiveRunOf(a)))
                  /\ overlooked' = overlooked \cup (LiveRuns(a) \ {LiveRunOf(a)})
  BY DEF StopNext
<1>4. troubles' \in 0 .. MaxTroubles  BY <1>2 DEF TypeOK
<1>5. LiveRuns(a) \subseteq Runs /\ None \notin Runs  BY DEF LiveRuns, Runs, Parameters
<1>6. call[c] \in CallRecord  BY DEF TypeOK
<1>7. CASE LiveRunOf(a) = None
  <2>1. LiveRuns(a) = {}  BY <1>5, <1>7, OldestIsLive
  <2> DEFINE rec == [call[c] EXCEPT !.todo = @ \ {a}]
  <2>2. Become(c, rec)  BY <1>3, <1>7
  <2>3. /\ rec \in CallRecord /\ rec.kind = call[c].kind /\ rec.target = call[c].target
        /\ rec.old = call[c].old /\ rec.at = "stopEach" /\ rec.missed = call[c].missed
        /\ rec.fence = call[c].fence /\ rec.todo = call[c].todo \ {a}
    BY <1>2, <1>6 DEF CallRecord
  <2> HIDE DEF rec
  <2>4. /\ Acts(c) /\ call'[c].at = "stopEach" /\ call'[c].todo = call[c].todo \ {a}
        /\ call'[c].missed = call[c].missed /\ call'[c].fence = call[c].fence
    BY <1>4, <2>2, <2>3, BecomeLands DEF Acts, Lands, AtRest
  <2> QED  BY <1>2, <1>3, <1>7, <2>1, <2>4
<1>8. CASE LiveRunOf(a) # None
  <2> DEFINE v == LiveRunOf(a)
             q == At(c, "stopping")
             mid == [q EXCEPT !.victim = v]
             rec == Reading(mid, v)
  <2>1. v \in LiveRuns(a) /\ v \in Runs  BY <1>5, <1>8, OldestIsLive
  <2>2. /\ q \in CallRecord /\ q.kind = call[c].kind /\ q.target = call[c].target
        /\ q.old = call[c].old /\ q.at = "stopping" /\ q.missed = call[c].missed
        /\ q.fence = call[c].fence /\ q.todo = call[c].todo
    BY <1>1, AtType
  <2>3. Become(c, rec) /\ overlooked' = overlooked \cup (LiveRuns(a) \ {v})  BY <1>3, <1>8
  <2> HIDE DEF q, v
  <2>4. /\ mid \in CallRecord /\ mid.kind = q.kind /\ mid.target = q.target /\ mid.old = q.old
        /\ mid.at = q.at /\ mid.missed = q.missed /\ mid.fence = q.fence /\ mid.todo = q.todo
        /\ mid.victim = v
    BY <2>1, <2>2 DEF CallRecord
  <2> HIDE DEF mid
  <2>5. /\ rec \in CallRecord /\ rec.kind = q.kind /\ rec.target = q.target /\ rec.old = q.old
        /\ rec.at = q.at /\ rec.missed = q.missed /\ rec.fence = q.fence /\ rec.todo = q.todo
        /\ rec.victim = v
    BY <2>1, <2>4, ReadingType
  <2> HIDE DEF rec
  <2>6. /\ Acts(c) /\ call'[c].at = "stopping" /\ call'[c].todo = call[c].todo
        /\ call'[c].missed = call[c].missed /\ call'[c].fence = call[c].fence
        /\ call'[c].victim = v
    BY <1>4, <2>2, <2>3, <2>5, BecomeLands DEF Acts, Lands, AtRest
  <2> QED  BY <1>2, <1>3, <2>1, <2>3, <2>6
<1> QED  BY <1>7, <1>8

LEMMA FinishTreeDoes ==
  ASSUME TypeOK, Parameters, NEW c \in Calls, FinishTree(c)
  PROVE  /\ call[c].at = "stopEach" /\ call[c].todo = {}
         /\ Acts(c) /\ Goes(c, "settleTree") /\ UNCHANGED <<runs, pty, ops>>
         /\ UNCHANGED <<parent, born, crowd, overlooked, asked, meddled, hollow, retries>>
         /\ IF call[c].missed = {} /\ FenceOf(c) # None THEN Released(FenceOf(c))
            ELSE UNCHANGED <<fences, lost>>
<1>1. "settleTree" \in Steps  BY DEF Steps
<1>2. /\ call[c].at = "stopEach" /\ call[c].todo = {} /\ UNCHANGED <<runs, pty, ops>>
      /\ UNCHANGED <<parent, born, crowd, overlooked, asked, meddled, hollow, retries>>
      /\ Become(c, At(c, "settleTree")) /\ (Trouble \/ Smooth)
      /\ IF call[c].missed = {} /\ FenceOf(c) # None THEN Released(FenceOf(c))
         ELSE UNCHANGED <<fences, lost>>
  BY DEF FinishTree, ReleaseFence, Released
<1> QED  BY <1>1, <1>2, TroubleType, AtType, AtGoes, BecomeLands DEF Acts, Goes
LEMMA JournalIs ==
  ASSUME Shape, NEW c \in Calls
  PROVE  /\ Journal(c) \in Calls
         /\ call[c].kind # "repair" => Journal(c) = c
         /\ call[c].kind = "repair" => Journal(c) = call[c].target
BY DEF Shape, Named, Journal

LEMMA SettleTreeStopDoes ==
  ASSUME TypeOK, Shape, Parameters, NEW c \in Calls, SettleTreeStop(c)
  PROVE  /\ call[c].at = "settleTree" /\ Acts(c) /\ runs' = runs /\ pty' = pty /\ Quiet
         /\ ops' \in [Calls -> OpRecord]
         /\ \/ /\ ops' = ops /\ Goes(c, "failed")
            \/ /\ call[c].missed = {} /\ (Goes(c, "ended") \/ Goes(c, "failed"))
               /\ ops' = [ops EXCEPT ![Journal(c)] =
                     [ops[Journal(c)] EXCEPT !.state = "completed", !.stopped = DoneBy(c)]]
            \/ /\ call[c].missed # {} /\ Goes(c, "failed")
               /\ ops' = [ops EXCEPT ![Journal(c)] =
                     [ops[Journal(c)] EXCEPT !.state = "tree-stop-pending", !.stopped = DoneBy(c)]]
<1> DEFINE o == Journal(c)
           done == DoneBy(c)
           all == [ops[o] EXCEPT !.state = "completed", !.stopped = done]
           some == [ops[o] EXCEPT !.state = "tree-stop-pending", !.stopped = done]
<1>1. /\ call[c].at = "settleTree" /\ pty' = pty /\ Quiet
      /\ IF call[c].missed = {} THEN PatchOp(c, o, all, At(c, "ended"), At(c, "failed"))
         ELSE PatchOp(c, o, some, At(c, "failed"), At(c, "failed"))
  BY DEF SettleTreeStop, DoneBy, Quiet
<1>2. o \in Calls  BY JournalIs
<1>3. ops[o] \in OpRecord /\ call[c] \in CallRecord  BY <1>2 DEF TypeOK
<1>4. done \in SUBSET Agents
  <2>1. call[c].kind \in {"stopTree", "repair"}  BY <1>1, Stepping
  <2> QED  BY <1>3, <2>1 DEF DoneBy, Shape, Named, OpRecord, CallRecord
<1> HIDE DEF o, done
<1>5. all \in OpRecord /\ some \in OpRecord  BY <1>3, <1>4 DEF OpRecord, OpStates
<1>6. "ended" \in Steps /\ "failed" \in Steps  BY DEF Steps, AtRest
<1>7. At(c, "ended") \in CallRecord /\ At(c, "failed") \in CallRecord  BY <1>6, AtType
<1> HIDE DEF all, some
<1>8. /\ call[c].missed = {} => Journalled(c, o, all, At(c, "ended"), At(c, "failed"))
      /\ call[c].missed # {} => Journalled(c, o, some, At(c, "failed"), At(c, "failed"))
  BY <1>1, <1>2, <1>5, <1>7, PatchOpJournals
<1>9. \A s \in {"ended", "failed"} : Lands(c, At(c, s)) => Goes(c, s)  BY <1>6, AtGoes
<1> QED  BY <1>1, <1>8, <1>9 DEF Journalled, Acts, Goes, all, some, o, done

-----------------------------------------------------------------------------
(* compensate.                                                              *)
LEMMA CompensateTerminalDoes ==
  ASSUME TypeOK, Shape, Parameters, NEW c \in Calls, CompensateTerminal(c)
  PROVE  /\ call[c].at = "compTerminal" /\ Acts(c) /\ runs' = runs /\ ops' = ops /\ Quiet
         /\ call'[c].at \in {"compRun", "compOp"}
         /\ call'[c].outcome \in {"none", "sure", "unsure"}
         /\ call'[c].outcome = "none" => Unmarked(Journal(c))
         /\ call'[c].outcome = "sure" => pty' = [pty EXCEPT ![Journal(c)] = "dead"]
         /\ \/ pty' = pty
            \/ /\ "live" \in ops[Journal(c)].rungs
               /\ pty' = [pty EXCEPT ![Journal(c)] = "dead"]
<1> DEFINE o == Journal(c)
           step == IF "run" \in ops[o].rungs THEN "compRun" ELSE "compOp"
           next(outcome) == [At(c, step) EXCEPT !.entry = TRUE, !.outcome = outcome]
           killed == [pty EXCEPT ![o] = "dead"]
           started == "run" \in ops[o].rungs /\ {"reserved", "live"} \cap ops[o].rungs # {}
<1>1. /\ call[c].at = "compTerminal" /\ runs' = runs /\ ops' = ops /\ Quiet /\ (Trouble \/ Smooth)
      /\ \/ ~started /\ Become(c, next("none")) /\ pty' = pty
         \/ started /\ "live" \in ops[o].rungs /\ Become(c, next("sure")) /\ pty' = killed
         \/ started /\ "live" \notin ops[o].rungs /\ Become(c, next("unsure")) /\ pty' = pty
         \/ started /\ "live" \in ops[o].rungs /\ Become(c, next("unsure")) /\ pty' \in {pty, killed}
  BY DEF CompensateTerminal, Keep, KeepRuns, Quiet
<1>2. o \in Calls  BY JournalIs
<1>3. ~started => Unmarked(o)  BY <1>2 DEF Shape, JournalOK, Unmarked
<1>4. step \in Steps /\ step \in {"compRun", "compOp"}  BY DEF Steps
<1>5. \A x \in {"none", "sure", "unsure"} : Become(c, next(x)) =>
         /\ call' \in [Calls -> CallRecord] /\ Others(c)
         /\ call'[c].kind = call[c].kind /\ call'[c].target = call[c].target
         /\ call'[c].old = call[c].old /\ call'[c].at = step /\ call'[c].outcome = x
  <2> SUFFICES ASSUME NEW x \in {"none", "sure", "unsure"}, Become(c, next(x))
               PROVE  /\ call' \in [Calls -> CallRecord] /\ Others(c)
                      /\ call'[c].kind = call[c].kind /\ call'[c].target = call[c].target
                      /\ call'[c].old = call[c].old /\ call'[c].at = step /\ call'[c].outcome = x
    OBVIOUS
  <2> DEFINE q == At(c, step)
             rec == [q EXCEPT !.entry = TRUE, !.outcome = x]
  <2>1. /\ q \in CallRecord /\ q.kind = call[c].kind /\ q.target = call[c].target
        /\ q.old = call[c].old /\ q.at = step
    BY <1>4, AtType
  <2>2. Become(c, rec)  OBVIOUS
  <2> HIDE DEF q, step
  <2>3. /\ rec \in CallRecord /\ rec.kind = q.kind /\ rec.target = q.target /\ rec.old = q.old
        /\ rec.at = q.at /\ rec.outcome = x
    BY <2>1 DEF CallRecord
  <2> HIDE DEF rec
  <2> QED  BY <1>4, <2>1, <2>2, <2>3, BecomeLands DEF Lands, AtRest
<1>6. troubles' \in 0 .. MaxTroubles  BY <1>1, TroubleType
<1> HIDE DEF next, started, killed, o, step
<1>7. PICK x \in {"none", "sure", "unsure"} :
        /\ Become(c, next(x))
        /\ x = "none" => ~started
        /\ x = "sure" => pty' = killed
        /\ pty' = pty \/ ("live" \in ops[o].rungs /\ pty' = killed)
  BY <1>1
<1>8. Acts(c)  BY <1>5, <1>6, <1>7 DEF Acts
<1> QED  BY <1>1, <1>3, <1>4, <1>5, <1>7, <1>8 DEF killed, o
LEMMA AfterCompensationEnds ==
  ASSUME TypeOK, Shape, Parameters, NEW c \in Calls, call[c].at \in Undoing,
         NEW ok \in BOOLEAN
  PROVE  /\ AfterCompensation(c, ok) \in CallRecord
         /\ \/ Lands(c, AfterCompensation(c, ok))
            \/ \E r \in Runs : Lands(c, Reading(AfterCompensation(c, ok), r))
            => Ends(c, ok)
<1>1. call[c].kind \in {"spawn", "continue", "repair"}  BY Stepping DEF Climber
<1>2. call[c].verdict \in {"failed", "refused"}  BY DEF TypeOK, CallRecord
<1>3. \A s \in {"failed", "refused", "releaseOld", "repairFence"} : s \in Steps
  BY DEF Steps, AtRest
<1>4. CASE call[c].kind = "spawn"
  <2>1. AfterCompensation(c, ok) = At(c, call[c].verdict)  BY <1>4 DEF AfterCompensation
  <2> QED  BY <1>2, <1>3, <1>4, <2>1, AtType, AtGoes DEF Ends
<1>5. CASE call[c].kind = "continue"
  <2>1. AfterCompensation(c, ok) = At(c, "releaseOld")  BY <1>5 DEF AfterCompensation
  <2> QED  BY <1>3, <1>5, <2>1, AtType, AtGoes DEF Ends
<1>6. CASE call[c].kind = "repair"
  <2>1. AfterCompensation(c, ok) = At(c, IF ok THEN "repairFence" ELSE "failed")
    BY <1>6 DEF AfterCompensation
  <2> QED  BY <1>3, <1>6, <2>1, AtType, AtGoes DEF Ends
<1> QED  BY <1>1, <1>4, <1>5, <1>6

LEMMA CompensateRunDoes ==
  ASSUME TypeOK, Shape, Parameters, NEW c \in Calls, CompensateRun(c)
  PROVE  /\ call[c].at = "compRun" /\ Acts(c) /\ ops' = ops /\ pty' = pty /\ Quiet
         /\ runs' \in [Runs -> RunRecord]
         /\ Goes(c, "compOp") \/ Ends(c, FALSE)
         /\ \/ runs' = runs
            \/ /\ Live(Journal(c))
               /\ runs' = [runs EXCEPT ![Journal(c)] =
                    [runs[Journal(c)] EXCEPT !.life = "failed", !.doubt = (call[c].outcome = "unsure")]]
               /\ \A d \in Calls \ {c} : Journal(c) \notin call'[d].copies
<1> DEFINE r == Journal(c)
           new == [runs[r] EXCEPT !.life = "failed", !.doubt = (call[c].outcome = "unsure")]
           good == At(c, "compOp")
           bad == AfterCompensation(c, FALSE)
<1>1. /\ call[c].at = "compRun" /\ ops' = ops /\ pty' = pty /\ Quiet /\ (Trouble \/ Smooth)
      /\ \/ (Become(c, good) \/ Become(c, bad)) /\ runs' = runs
         \/ Live(r) /\ (WriteRun(c, good, r, new) \/ WriteRun(c, bad, r, new))
  BY DEF CompensateRun, KeepRuns, Quiet
<1>2. r \in Runs  BY JournalIs DEF Runs
<1>3. runs[r] \in RunRecord  BY <1>2 DEF TypeOK
<1>4. new \in RunRecord  BY <1>3 DEF RunRecord, Lifecycles, Final
<1>5. "compOp" \in Steps /\ call[c].at \in Undoing  BY <1>1 DEF Steps, Undoing
<1>6. good \in CallRecord /\ bad \in CallRecord  BY <1>5, AtType, AfterCompensationEnds
<1>7. /\ Lands(c, good) \/ Lands(c, Reading(good, r)) => Goes(c, "compOp")
      /\ Lands(c, bad) \/ Lands(c, Reading(bad, r)) => Ends(c, FALSE)
  BY <1>2, <1>5, AtGoes, AfterCompensationEnds
<1>8. troubles' \in 0 .. MaxTroubles  BY <1>1, TroubleType
<1> HIDE DEF new, good, bad
<1>9. CASE (Become(c, good) \/ Become(c, bad)) /\ runs' = runs
  <2>1. call' \in [Calls -> CallRecord] /\ Others(c) /\ (Goes(c, "compOp") \/ Ends(c, FALSE))
    BY <1>6, <1>7, <1>9, BecomeLands
  <2>2. Acts(c)  BY <1>8, <2>1 DEF Acts, Goes, Ends
  <2> QED  BY <1>1, <1>9, <2>1, <2>2 DEF TypeOK
<1>10. CASE Live(r) /\ (WriteRun(c, good, r, new) \/ WriteRun(c, bad, r, new))
  <2>1. /\ call' \in [Calls -> CallRecord] /\ Others(c) /\ (Goes(c, "compOp") \/ Ends(c, FALSE))
        /\ \A d \in Calls \ {c} : r \notin call'[d].copies
        /\ runs' \in [Runs -> RunRecord] /\ runs' = [runs EXCEPT ![r] = new]
    BY <1>2, <1>4, <1>6, <1>7, <1>10, WriteRunLands
  <2>2. Acts(c)  BY <1>8, <2>1 DEF Acts, Goes, Ends
  <2> QED  BY <1>1, <1>10, <2>1, <2>2 DEF new
<1> QED  BY <1>1, <1>9, <1>10

LEMMA CompensateOperationDoes ==
  ASSUME TypeOK, Shape, Parameters, NEW c \in Calls, CompensateOperation(c)
  PROVE  /\ call[c].at = "compOp" /\ Acts(c) /\ runs' = runs /\ pty' = pty /\ Quiet
         /\ ops' \in [Calls -> OpRecord]
         /\ \/ ops' = ops /\ Ends(c, FALSE)
            \/ /\ Ends(c, TRUE)
               /\ ops' = [ops EXCEPT ![Journal(c)] =
                    [ops[Journal(c)] EXCEPT !.state = "recovery-required",
                        !.doubt = IF call[c].outcome = "none" THEN ops[Journal(c)].doubt
                                  ELSE call[c].outcome = "unsure"]]
<1> DEFINE o == Journal(c)
           doubt == IF call[c].outcome = "none" THEN ops[o].doubt ELSE call[c].outcome = "unsure"
           new == [ops[o] EXCEPT !.state = "recovery-required", !.doubt = doubt]
           good == AfterCompensation(c, TRUE)
           bad == AfterCompensation(c, FALSE)
<1>1. call[c].at = "compOp" /\ pty' = pty /\ Quiet /\ PatchOp(c, o, new, good, bad)
  BY DEF CompensateOperation, Quiet
<1>2. o \in Calls  BY JournalIs
<1>3. ops[o] \in OpRecord  BY <1>2 DEF TypeOK
<1>4. new \in OpRecord  BY <1>3 DEF OpRecord, OpStates
<1>5. call[c].at \in Undoing  BY <1>1 DEF Undoing
<1>6. good \in CallRecord /\ bad \in CallRecord  BY <1>5, AfterCompensationEnds
<1>7. (Lands(c, good) => Ends(c, TRUE)) /\ (Lands(c, bad) => Ends(c, FALSE))
  BY <1>5, AfterCompensationEnds
<1> HIDE DEF new, good, bad
<1>8. Journalled(c, o, new, good, bad)  BY <1>1, <1>2, <1>4, <1>6, PatchOpJournals
<1>9. Ends(c, FALSE) => Ends(c, TRUE)  BY DEF Ends
<1>10. Acts(c)  BY <1>7, <1>8 DEF Journalled, Acts, Ends, Goes
<1> QED  BY <1>1, <1>7, <1>8, <1>9, <1>10 DEF Journalled, new

LEMMA ReleaseFencedRunDoes ==
  ASSUME TypeOK, Shape, Parameters, NEW c \in Calls, ReleaseFencedRun(c)
  PROVE  /\ call[c].at = "releaseOld" /\ Acts(c) /\ ops' = ops /\ pty' = pty /\ Quiet
         /\ runs' \in [Runs -> RunRecord] /\ (Goes(c, "failed") \/ Goes(c, "refused"))
         /\ \/ runs' = runs
            \/ /\ runs[call[c].old].life = "continuation-pending"
               /\ runs' = [runs EXCEPT ![call[c].old] =
                     [runs[call[c].old] EXCEPT !.life = "recovery-required", !.doubt = TRUE]]
               /\ \A d \in Calls \ {c} : call[c].old \notin call'[d].copies
<1> DEFINE r == call[c].old
           done == At(c, call[c].verdict)
           new == [runs[r] EXCEPT !.life = "recovery-required", !.doubt = TRUE]
<1>1. /\ call[c].at = "releaseOld" /\ ops' = ops /\ pty' = pty /\ Quiet /\ (Trouble \/ Smooth)
      /\ \/ Become(c, done) /\ runs' = runs
         \/ runs[r].life = "continuation-pending" /\ WriteRun(c, done, r, new)
  BY DEF ReleaseFencedRun, KeepRuns, Quiet
<1>2. r \in Runs  BY <1>1, Stepping DEF Shape, Named
<1>3. runs[r] \in RunRecord  BY <1>2 DEF TypeOK
<1>4. new \in RunRecord  BY <1>3 DEF RunRecord, Lifecycles
<1>5. call[c].verdict \in {"failed", "refused"} /\ call[c].verdict \in Steps
  BY DEF TypeOK, CallRecord, Steps, AtRest
<1>6. done \in CallRecord  BY <1>5, AtType
<1>7. Lands(c, done) \/ Lands(c, Reading(done, r)) => Goes(c, "failed") \/ Goes(c, "refused")
  BY <1>2, <1>5, AtGoes
<1>8. troubles' \in 0 .. MaxTroubles  BY <1>1, TroubleType
<1> HIDE DEF new, done
<1>9. CASE Become(c, done) /\ runs' = runs
  <2>1. call' \in [Calls -> CallRecord] /\ Others(c) /\ (Goes(c, "failed") \/ Goes(c, "refused"))
    BY <1>6, <1>7, <1>9, BecomeLands
  <2>2. Acts(c)  BY <1>8, <2>1 DEF Acts, Goes
  <2> QED  BY <1>1, <1>9, <2>1, <2>2 DEF TypeOK
<1>10. CASE runs[r].life = "continuation-pending" /\ WriteRun(c, done, r, new)
  <2>1. /\ call' \in [Calls -> CallRecord] /\ Others(c) /\ (Goes(c, "failed") \/ Goes(c, "refused"))
        /\ \A d \in Calls \ {c} : r \notin call'[d].copies
        /\ runs' \in [Runs -> RunRecord] /\ runs' = [runs EXCEPT ![r] = new]
    BY <1>2, <1>4, <1>6, <1>7, <1>10, WriteRunLands
  <2>2. Acts(c)  BY <1>8, <2>1 DEF Acts, Goes
  <2> QED  BY <1>1, <1>10, <2>1, <2>2 DEF new
<1> QED  BY <1>1, <1>9, <1>10

-----------------------------------------------------------------------------
(* repair.                                                                  *)

LEMMA JudgeDoes ==
  ASSUME TypeOK, Shape, Parameters, NEW c \in Calls, Judge(c)
  PROVE  /\ call[c].at = "judge" /\ Acts(c) /\ UNCHANGED <<runs, pty, ops>>
         /\ UNCHANGED <<hollow, parent, born, fences, crowd, overlooked, lost, asked, retries>>
         /\ meddled' \in {meddled, meddled \cup {call[c].target}}
         /\ \/ Goes(c, "ended") \/ Goes(c, "failed")
            \/ /\ call'[c].at = "stopEach" /\ call'[c].missed = call[c].missed
               /\ call'[c].todo = Tree(call[call[c].target].target) \ ops[call[c].target].stopped
               /\ ops[call[c].target].state = "tree-stop-pending"
               /\ Working(call[c].target) => call[c].target \in meddled'
            \/ /\ Goes(c, "compTerminal")
               /\ ops[call[c].target].state \notin {"completed", "tree-stop-pending"}
               /\ Working(call[c].target) => call[c].target \in meddled'
<1> DEFINE o == call[c].target
           left == Tree(call[o].target) \ ops[o].stopped
           more == [At(c, "stopEach") EXCEPT !.entry = TRUE, !.todo = left, !.shown = left]
           answer == CASE ops[o].state = "completed" -> At(c, "ended")
                       [] InFlight(o) -> At(c, "failed")
                       [] ops[o].state = "tree-stop-pending" -> more
                       [] OTHER -> At(c, "compTerminal")
<1>1. /\ call[c].at = "judge" /\ UNCHANGED <<runs, pty, ops, troubles>>
      /\ UNCHANGED <<hollow, parent, born, fences, crowd, overlooked, lost, asked, retries>>
      /\ Become(c, answer)
      /\ meddled' = IF Working(o) /\ answer.at \in {"compTerminal", "stopEach"}
                    THEN meddled \cup {o} ELSE meddled
  BY DEF Judge
<1>2. o \in Calls /\ ops[o].state # "none" /\ call[c].kind = "repair"
  BY <1>1, Stepping DEF Shape, Named
<1>3. \A s \in {"ended", "failed", "stopEach", "compTerminal"} : s \in Steps  BY DEF Steps, AtRest
<1>4. \/ answer = At(c, "ended") \/ answer = At(c, "failed")
      \/ answer = more /\ ops[o].state = "tree-stop-pending"
      \/ answer = At(c, "compTerminal") /\ ops[o].state \notin {"completed", "tree-stop-pending"}
  <2>1. CASE ops[o].state = "completed"  BY <2>1 DEF InFlight
  <2>2. CASE InFlight(o)  BY <2>2 DEF InFlight
  <2>3. CASE ops[o].state = "tree-stop-pending"  BY <2>3 DEF InFlight
  <2>4. CASE ops[o].state \notin {"completed", "tree-stop-pending"} /\ ~InFlight(o)  BY <2>4
  <2> QED  BY <2>1, <2>2, <2>3, <2>4
<1>5. troubles' \in 0 .. MaxTroubles  BY <1>1 DEF TypeOK
<1> HIDE DEF answer
<1>6. CASE answer = At(c, "ended") \/ answer = At(c, "failed")
  <2>1. PICK s \in {"ended", "failed"} : answer = At(c, s)  BY <1>6
  <2>2. call' \in [Calls -> CallRecord] /\ Others(c) /\ Goes(c, s)
    BY <1>1, <1>3, <2>1, AtType, AtGoes, BecomeLands
  <2> QED  BY <1>1, <1>5, <2>1, <2>2 DEF Acts, Goes
<1>7. CASE answer = At(c, "compTerminal") /\ ops[o].state \notin {"completed", "tree-stop-pending"}
  <2>1. answer.at = "compTerminal" /\ answer \in CallRecord  BY <1>3, <1>7, AtType
  <2>2. call' \in [Calls -> CallRecord] /\ Others(c) /\ Goes(c, "compTerminal")
    BY <1>1, <1>3, <1>7, <2>1, AtGoes, BecomeLands
  <2> QED  BY <1>1, <1>5, <1>7, <2>1, <2>2 DEF Acts, Goes
<1>8. CASE answer = more /\ ops[o].state = "tree-stop-pending"
  <2> DEFINE q == At(c, "stopEach")
             rec == [q EXCEPT !.entry = TRUE, !.todo = left, !.shown = left]
  <2>0. left \in SUBSET Agents  BY <1>2, <1>8 DEF Shape, Named, JournalOK, Tree, DescendantsOf
  <2>1. /\ q \in CallRecord /\ q.kind = call[c].kind /\ q.target = call[c].target
        /\ q.old = call[c].old /\ q.at = "stopEach" /\ q.missed = call[c].missed
    BY <1>3, AtType
  <2>2. Become(c, rec) /\ answer = rec  BY <1>1, <1>8
  <2> HIDE DEF q, left
  <2>3. /\ rec \in CallRecord /\ rec.kind = q.kind /\ rec.target = q.target /\ rec.old = q.old
        /\ rec.at = q.at /\ rec.missed = q.missed /\ rec.todo = left
    BY <2>0, <2>1 DEF CallRecord
  <2> HIDE DEF rec
  <2>4. /\ call' \in [Calls -> CallRecord] /\ Others(c) /\ Lands(c, rec)  BY <2>2, <2>3, BecomeLands
  <2>5. Acts(c) /\ call'[c].at = "stopEach" /\ call'[c].missed = call[c].missed /\ call'[c].todo = left
    BY <1>5, <2>1, <2>3, <2>4 DEF Acts, Lands, AtRest
  <2> QED  BY <1>1, <1>8, <2>1, <2>2, <2>3, <2>5 DEF left
<1> QED  BY <1>4, <1>6, <1>7, <1>8

LEMMA RepairFenceDoes ==
  ASSUME TypeOK, Shape, Parameters, NEW c \in Calls, RepairFence(c)
  PROVE  /\ call[c].at = "repairFence" /\ Acts(c) /\ UNCHANGED <<runs, pty, ops>>
         /\ UNCHANGED <<hollow, meddled, parent, born, crowd, overlooked, lost, asked, retries>>
         /\ \/ Goes(c, "failed") /\ fences' = fences
            \/ /\ Goes(c, "repairSettle")
               /\ \/ fences[call[c].target] # "closing" /\ fences' = fences
                  \/ /\ fences[call[c].target] = "closing"
                     /\ fences' = [fences EXCEPT ![call[c].target] = "released"]
<1>1. "failed" \in Steps /\ "repairSettle" \in Steps  BY DEF Steps, AtRest
<1>2. call[c].at = "repairFence"  BY DEF RepairFence
<1>3. call[c].kind = "repair" /\ call[c].target \in Calls  BY <1>2, Stepping DEF Shape, Named
<1>4. FenceOf(c) = IF fences[call[c].target] = "closing" THEN call[c].target ELSE None
  BY <1>3 DEF FenceOf
<1>5. None \notin Calls  BY DEF Parameters
<1>6. /\ UNCHANGED <<runs, pty, ops>> /\ (Trouble \/ Smooth)
      /\ UNCHANGED <<hollow, meddled, parent, born, crowd, overlooked, lost, asked, retries>>
      /\ \/ Become(c, At(c, "failed")) /\ fences' = fences
         \/ /\ Become(c, At(c, "repairSettle"))
            /\ \/ FenceOf(c) = None /\ fences' = fences
               \/ FenceOf(c) # None /\ fences' = [fences EXCEPT ![FenceOf(c)] = "released"]
  BY DEF RepairFence
<1>7. troubles' \in 0 .. MaxTroubles  BY <1>6, TroubleType
<1>8. \A s \in {"failed", "repairSettle"} : Become(c, At(c, s)) => Acts(c) /\ Goes(c, s)
  BY <1>1, <1>7, AtType, AtGoes, BecomeLands DEF Acts, Goes
<1> QED  BY <1>2, <1>3, <1>4, <1>5, <1>6, <1>8

LEMMA RepairSettleDoes ==
  ASSUME TypeOK, Shape, Parameters, NEW c \in Calls, RepairSettle(c)
  PROVE  /\ call[c].at = "repairSettle" /\ Acts(c) /\ runs' = runs /\ pty' = pty /\ Quiet
         /\ ops' \in [Calls -> OpRecord]
         /\ \/ ops' = ops /\ (Goes(c, "refused") \/ Goes(c, "failed"))
            \/ /\ ~ops[call[c].target].doubt /\ (Goes(c, "ended") \/ Goes(c, "failed"))
               /\ ops' = [ops EXCEPT ![call[c].target] =
                     [ops[call[c].target] EXCEPT !.state = "completed"]]
<1> DEFINE o == call[c].target
           new == [ops[o] EXCEPT !.state = "completed"]
<1>1. \A s \in {"failed", "refused", "ended"} : s \in Steps  BY DEF Steps, AtRest
<1>2. call[c].at = "repairSettle"  BY DEF RepairSettle
<1>3. o \in Calls  BY <1>2, Stepping DEF Shape, Named
<1>4. ops[o] \in OpRecord  BY <1>3 DEF TypeOK
<1>5. new \in OpRecord  BY <1>4 DEF OpRecord, OpStates
<1>6. /\ pty' = pty /\ Quiet
      /\ \/ Become(c, At(c, "refused")) /\ runs' = runs /\ ops' = ops /\ Smooth
         \/ ~ops[o].doubt /\ PatchOp(c, o, new, At(c, "ended"), At(c, "failed"))
  BY DEF RepairSettle, Keep, KeepRuns, Quiet
<1>7. \A s \in {"failed", "refused", "ended"} : At(c, s) \in CallRecord /\ (Lands(c, At(c, s)) => Goes(c, s))
  BY <1>1, AtType, AtGoes
<1> HIDE DEF new
<1>8. CASE Become(c, At(c, "refused")) /\ runs' = runs /\ ops' = ops /\ Smooth
  <2>1. call' \in [Calls -> CallRecord] /\ Others(c) /\ Goes(c, "refused")
    BY <1>7, <1>8, BecomeLands
  <2> QED  BY <1>2, <1>6, <1>8, <2>1, TroubleType DEF Acts, Goes, TypeOK
<1>9. CASE ~ops[o].doubt /\ PatchOp(c, o, new, At(c, "ended"), At(c, "failed"))
  <2>1. Journalled(c, o, new, At(c, "ended"), At(c, "failed"))
    BY <1>3, <1>5, <1>7, <1>9, PatchOpJournals
  <2>2. Acts(c)  BY <1>7, <2>1 DEF Journalled, Acts, Goes
  <2> QED  BY <1>2, <1>6, <1>7, <1>9, <2>1, <2>2 DEF Journalled, new
<1> QED  BY <1>6, <1>8, <1>9

-----------------------------------------------------------------------------
(* The world outside.                                                       *)

LEMMA ExitDoes ==
  ASSUME TypeOK, Parameters, NEW r \in Runs, Exit(r)
  PROVE  /\ pty[r] = "live" /\ pty' = [pty EXCEPT ![r] = "dead"]
         /\ asked' = asked \cup {runs[r].agent} /\ troubles' \in 0 .. MaxTroubles
         /\ UNCHANGED <<meddled, hollow, call, parent, runs, born, ops, fences, crowd, overlooked,
                        lost, retries>>
BY TroubleType DEF Exit

LEMMA SettleGoneDoes ==
  ASSUME TypeOK, Parameters, NEW r \in Runs, SettleGone(r)
  PROVE  /\ Live(r) /\ runs[r].terminal /\ pty[r] = "dead"
         /\ runs' \in [Runs -> RunRecord]
         /\ runs' = [runs EXCEPT ![r] = [runs[r] EXCEPT !.life = "interrupted"]]
         /\ call' \in [Calls -> CallRecord]
         /\ \A c \in Calls : Same(c) /\ r \notin call'[c].copies
         /\ UNCHANGED <<meddled, hollow, parent, pty, born, ops, fences, crowd, overlooked, lost,
                        asked, troubles, retries>>
<1>1. runs[r] \in RunRecord  BY DEF TypeOK
<1>2. [runs[r] EXCEPT !.life = "interrupted"] \in RunRecord
  BY <1>1 DEF RunRecord, Lifecycles, Final
<1>3. runs' = [runs EXCEPT ![r] = [runs[r] EXCEPT !.life = "interrupted"]]
      /\ runs' \in [Runs -> RunRecord]
  BY <1>2 DEF SettleGone, TypeOK
<1>4. \A c \in Calls : call[c] \in CallRecord  BY DEF TypeOK
<1>5. \A c \in Calls : call'[c] = [call[c] EXCEPT !.copies = @ \ {r}]  BY DEF SettleGone
<1>6. \A c \in Calls : /\ [call[c] EXCEPT !.copies = @ \ {r}] \in CallRecord
                       /\ Same(c) /\ r \notin call'[c].copies
  BY <1>4, <1>5 DEF Same, CallRecord
<1>7. call' \in [Calls -> CallRecord]  BY <1>6 DEF SettleGone
<1> QED  BY <1>3, <1>6, <1>7 DEF SettleGone

LEMMA RestartDoes ==
  ASSUME TypeOK, Parameters, Restart
  PROVE  /\ troubles' \in 0 .. MaxTroubles /\ call' \in [Calls -> CallRecord]
         /\ \A c \in Calls :
              /\ ~Working(c) => call'[c] = call[c]
              /\ Working(c) => Goes(c, "failed") /\ call'[c].copies = {}
         /\ runs' \in [Runs -> RunRecord]
         /\ runs' = [r \in Runs |-> IF Live(r) THEN [runs[r] EXCEPT !.life = "interrupted"]
                                    ELSE runs[r]]
         /\ asked' = asked \cup {runs[r].agent : r \in {q \in Runs : Live(q)}}
         /\ pty' = [r \in Runs |-> IF pty[r] = "live" THEN "dead" ELSE pty[r]]
         /\ ops' \in [Calls -> OpRecord]
         /\ \A o \in Calls :
              /\ ops'[o].rungs = ops[o].rungs /\ ops'[o].stopped = ops[o].stopped
              /\ ops[o].state \in {"none", "completed", "recovery-required"} =>
                   ops'[o].state = ops[o].state /\ ops'[o].doubt = ops[o].doubt
              /\ ops[o].state \notin {"none", "completed", "recovery-required"} =>
                   /\ ops'[o].state = "recovery-required"
                   /\ ops'[o].doubt = (ops[o].doubt \/ ~Unmarked(o))
              /\ ops'[o].mine = FALSE
         /\ UNCHANGED <<meddled, hollow, parent, born, fences, crowd, overlooked, lost, retries>>
<1>1. troubles' \in 0 .. MaxTroubles  BY TroubleType DEF Restart
<1>2. \A c \in Calls : At(c, "failed") \in CallRecord /\ "failed" \in Steps
  BY AtType DEF Steps, AtRest
<1>3. \A c \in Calls : Tidy(At(c, "failed")) \in CallRecord  BY <1>2, TidyLands
<1>4. \A c \in Calls : call[c] \in CallRecord  BY DEF TypeOK
<1>5. call' = [c \in Calls |-> IF Working(c) THEN Tidy(At(c, "failed")) ELSE call[c]]
  BY DEF Restart
<1>6. call' \in [Calls -> CallRecord]  BY <1>3, <1>4, <1>5
<1>7. ASSUME NEW c \in Calls, Working(c) PROVE Goes(c, "failed") /\ call'[c].copies = {}
  <2>1. call'[c] = Tidy(At(c, "failed"))  BY <1>5, <1>7
  <2> DEFINE q == At(c, "failed")
  <2>2. /\ q \in CallRecord /\ q.at = "failed" /\ q.kind = call[c].kind
        /\ q.target = call[c].target /\ q.old = call[c].old
    BY <1>2, AtType
  <2>3. call'[c] = Tidy(q)  BY <2>1
  <2> HIDE DEF q
  <2>4. Tidy(q).copies = {}  BY <2>2 DEF Tidy, AtRest, CallRecord
  <2>5. /\ call'[c].kind = q.kind /\ call'[c].target = q.target /\ call'[c].old = q.old
        /\ call'[c].at = q.at
    BY <2>2, <2>3, TidyLands
  <2> QED  BY <2>2, <2>3, <2>4, <2>5 DEF Goes, AtRest
<1>8. \A r \in Runs : runs[r] \in RunRecord  BY DEF TypeOK
<1>9. \A r \in Runs : [runs[r] EXCEPT !.life = "interrupted"] \in RunRecord
  BY <1>8 DEF RunRecord, Lifecycles, Final
<1>10. /\ runs' = [r \in Runs |-> IF Live(r) THEN [runs[r] EXCEPT !.life = "interrupted"]
                                    ELSE runs[r]]
       /\ asked' = asked \cup {runs[r].agent : r \in {q \in Runs : Live(q)}}
       /\ pty' = [r \in Runs |-> IF pty[r] = "live" THEN "dead" ELSE pty[r]]
       /\ UNCHANGED <<meddled, hollow, parent, born, fences, crowd, overlooked, lost, retries>>
  BY DEF Restart
<1>11. runs' \in [Runs -> RunRecord]  BY <1>8, <1>9, <1>10
<1>12. \A o \in Calls : ops[o] \in OpRecord  BY DEF TypeOK
<1> DEFINE calm(o) == [ops[o] EXCEPT !.mine = FALSE]
           torn(o) == [ops[o] EXCEPT !.mine = FALSE, !.state = "recovery-required",
                              !.doubt = @ \/ {"reserved", "live"} \cap ops[o].rungs # {}]
<1>13. \A o \in Calls :
         /\ calm(o) \in OpRecord /\ calm(o).rungs = ops[o].rungs /\ calm(o).stopped = ops[o].stopped
         /\ calm(o).state = ops[o].state /\ calm(o).doubt = ops[o].doubt /\ calm(o).mine = FALSE
  BY <1>12 DEF OpRecord
<1>14. \A o \in Calls :
         /\ torn(o) \in OpRecord /\ torn(o).rungs = ops[o].rungs /\ torn(o).stopped = ops[o].stopped
         /\ torn(o).state = "recovery-required" /\ torn(o).doubt = (ops[o].doubt \/ ~Unmarked(o))
         /\ torn(o).mine = FALSE
  BY <1>12 DEF OpRecord, OpStates, Unmarked
<1>15. ops' = [o \in Calls |-> IF ops[o].state \in {"none", "completed", "recovery-required"}
                               THEN calm(o) ELSE torn(o)]
  BY DEF Restart
<1> HIDE DEF calm, torn
<1>16. ops' \in [Calls -> OpRecord]  BY <1>13, <1>14, <1>15
<1> QED  BY <1>1, <1>5, <1>6, <1>7, <1>10, <1>11, <1>13, <1>14, <1>15, <1>16

-----------------------------------------------------------------------------
(* The shape of the records is kept: what a step may do to them.            *)
LEMMA QuietHistory ==
  ASSUME TypeOK, Quiet, troubles' \in 0 .. MaxTroubles
  PROVE  HistoryOK /\ UNCHANGED <<parent, born>>
BY DEF TypeOK, Quiet, HistoryOK

LEMMA StayKeeps ==
  ASSUME TypeOK, Shape, Parameters, call' \in [Calls -> CallRecord],
         \A d \in Calls : Stays(d), UNCHANGED <<parent, born>>,
         RunsKept, PtyKept, OpsKept, HistoryOK
  PROVE  TypeOK' /\ Shape'
<1>1. \A a : Exists(a)' <=> Exists(a)  BY DEF Exists
<1>2. TypeOK'
  <2>1. \A r \in Runs : /\ runs'[r].life = "none" <=> runs'[r].agent = None
                        /\ runs'[r].agent # None => runs'[r].agent = Root \/ parent'[runs'[r].agent] # None
                        /\ pty'[r] # "none" => runs'[r].life # "none"
    BY DEF TypeOK, RunsKept, PtyKept, Exists
  <2>2. parent' \in [Agents -> Agents \cup {None}]
        /\ \A i, j \in DOMAIN born' : born'[i] = born'[j] => i = j
    BY DEF TypeOK
  <2> QED  BY <2>1, <2>2 DEF TypeOK, RunsKept, PtyKept, OpsKept, HistoryOK, Exists
<1>3. ASSUME NEW d \in Calls PROVE Named(d)' /\ Where(d)' /\ Holding(d)'
  <2>1. Named(d) /\ Where(d) /\ Holding(d) /\ Stays(d)  BY DEF Shape
  <2>2. Where(d)'
    <3>1. CASE Same(d)  BY <2>1, <3>1 DEF Where, Same
    <3> QED  BY <2>1, <3>1 DEF Stays
  <2>3. Named(d)'
    <3>1. call[d].kind = "repair" => ops'[call[d].target].state # "none"
      BY <2>1 DEF Named, OpsKept, Rewritten
    <3>2. call[d].kind \in {"continue", "stop"} => runs'[call[d].old].agent = runs[call[d].old].agent
      BY <2>1 DEF Named, RunsKept
    <3> QED  BY <1>1, <2>1, <3>1, <3>2 DEF Named, Stays
  <2>4. Holding(d)'
    <3>1. CASE Same(d)
      <4>1. ops[d].rungs \subseteq ops'[d].rungs /\ (ops[d].state # "none" => ops'[d].state # "none")
        BY DEF OpsKept, Rewritten
      <4>2. d \in Runs /\ (runs'[d].life = "none" <=> runs[d].life = "none")  BY DEF RunsKept, Runs
      <4>3. call[d].at \in Closer =>
               runs'[call[d].victim].life = "none" <=> runs[call[d].victim].life = "none"
        BY <2>1 DEF Holding, RunsKept
      <4>4. call[d].kind = "stopTree" /\ call[d].at \in {"snapshot"} \cup Loop =>
               fences'[call[d].fence] # "none" /\ call'[call[d].fence].target = call[call[d].fence].target
        BY <2>1 DEF Holding, HistoryOK, Stays
      <4>5. call[d].kind = "repair" => call'[call[d].target].kind = call[call[d].target].kind
        BY <2>1 DEF Named, Stays
      <4> HIDE DEF HistoryOK, RunsKept, OpsKept
      <4> QED  BY <2>1, <3>1, <4>1, <4>2, <4>3, <4>4, <4>5 DEF Holding, Same, Climber
    <3> QED  BY <2>1, <3>1 DEF Stays
  <2> QED  BY <2>2, <2>3, <2>4
<1>4. ASSUME NEW o \in Calls PROVE JournalOK(o)'
  <2>1. JournalOK(o) /\ call'[o].kind = call[o].kind  BY DEF Shape, Stays
  <2>2. o \in Runs /\ (runs'[o].life = "none" <=> runs[o].life = "none")  BY DEF RunsKept, Runs
  <2>3. fences'[o] # "none" => call[o].kind = "stopTree"  BY <2>1 DEF HistoryOK, JournalOK
  <2>4. CASE ops'[o] = ops[o]  BY <2>1, <2>2, <2>3, <2>4 DEF JournalOK, Climber
  <2>5. CASE Rewritten(o)  BY <2>1, <2>2, <2>3, <2>5 DEF Rewritten, JournalOK, Climber
  <2> QED  BY <2>4, <2>5 DEF OpsKept
<1>5. ASSUME NEW r \in Runs PROVE RunOK(r)'
  <2>1. RunOK(r)  BY DEF Shape
  <2>2. r \in Calls => call'[r].kind = call[r].kind /\ call'[r].target = call[r].target
    BY DEF Stays
  <2> QED  BY <2>1, <2>2 DEF RunOK, RunsKept, Climber, AgentOf
<1>6. BornOK'  BY DEF BornOK, RunsKept, Shape
<1>7. ParentOK'
  <2>1. ASSUME NEW a \in Agents, parent[a] # None
        PROVE  a \in Calls /\ call'[a].kind = "spawn" /\ parent[a] = call'[a].target
    BY <2>1 DEF ParentOK, Shape, Stays
  <2> QED  BY <2>1 DEF ParentOK
<1> QED  BY <1>2, <1>3, <1>4, <1>5, <1>6, <1>7 DEF Shape

LEMMA ActsStay ==
  ASSUME TypeOK, NEW c \in Calls, Acts(c), Where(c)', Holding(c)'
  PROVE  call' \in [Calls -> CallRecord] /\ \A d \in Calls : Stays(d)
BY DEF Acts, Others, Stays, Same

LEMMA StillRuns ==
  ASSUME TypeOK, runs' = runs
  PROVE  RunsKept
BY DEF TypeOK, RunsKept

LEMMA StillPty ==
  ASSUME TypeOK, pty' = pty
  PROVE  PtyKept
BY DEF TypeOK, PtyKept

LEMMA KilledPty ==
  ASSUME TypeOK, NEW r \in Runs, NEW x \in {"live", "dead"}, runs[r].life # "none",
         pty' = [pty EXCEPT ![r] = x]
  PROVE  PtyKept
BY DEF TypeOK, PtyKept

LEMMA StillOps ==
  ASSUME TypeOK, ops' = ops
  PROVE  OpsKept
BY DEF TypeOK, OpsKept

LEMMA OneRun ==
  ASSUME TypeOK, NEW r \in Runs, NEW new, runs' \in [Runs -> RunRecord], runs[r].life # "none",
         runs' = [runs EXCEPT ![r] = new], new.agent = runs[r].agent, new.life # "none",
         runs[r].terminal => new.terminal
  PROVE  RunsKept
BY DEF TypeOK, RunsKept

LEMMA OneJournal ==
  ASSUME TypeOK, Shape, Parameters, NEW o \in Calls, ops[o].state # "none",
         ops' \in [Calls -> OpRecord], NEW new, ops' = [ops EXCEPT ![o] = new],
         new.rungs = ops[o].rungs, new.state # "none",
         new.state = "tree-stop-pending" => call[o].kind = "stopTree"
  PROVE  OpsKept
<1>1. ops'[o] = new  BY DEF TypeOK
<1>2. Rewritten(o)  BY <1>1 DEF Rewritten, Shape, JournalOK
<1>3. \A p \in Calls \ {o} : ops'[p] = ops[p]  BY DEF TypeOK
<1> QED  BY <1>2, <1>3 DEF OpsKept

LEMMA OneRung ==
  ASSUME TypeOK, Shape, Parameters, NEW c \in Calls, Climber(c), NEW rung \in Rungs,
         NEW state \in OpStates \ {"none"}, state # "tree-stop-pending",
         ops' \in [Calls -> OpRecord],
         ops' = [ops EXCEPT ![c] = [ops[c] EXCEPT !.rungs = @ \cup {rung}, !.state = state]],
         rung \in {"identity", "fenced"} \/ runs[c].life # "none",
         rung \in {"identity", "fenced", "run"} \/ "run" \in ops[c].rungs
  PROVE  OpsKept
<1>1. ops[c] \in OpRecord  BY DEF TypeOK
<1>2. ops'[c].rungs = ops[c].rungs \cup {rung} /\ ops'[c].state = state
  BY <1>1 DEF TypeOK, OpRecord
<1>3. JournalOK(c)  BY DEF Shape
<1>4. call[c].kind \in {"spawn", "continue"}  BY DEF Climber
<1>5. \A x \in {"reserved", "live", "furnished", "ready"} :
         x \in ops'[c].rungs => "run" \in ops'[c].rungs
  BY <1>2, <1>3 DEF JournalOK
<1>6. Rewritten(c)  BY <1>2, <1>3, <1>4, <1>5 DEF Rewritten, JournalOK
<1>7. \A p \in Calls \ {c} : ops'[p] = ops[p]  BY DEF TypeOK
<1> QED  BY <1>6, <1>7 DEF OpsKept
LEMMA RestHolds ==
  ASSUME TypeOK, Shape, Parameters, NEW c \in Calls, Acts(c), Rests(c), call[c].at # "new"
  PROVE  Where(c)' /\ Holding(c)'
<1>1. call[c].kind # "none"  BY Stepping
<1>2. Where(c)'  BY <1>1 DEF Where, Acts, Rests, AtRest
<1>3. Holding(c)'  BY DEF Holding, Acts, Rests, AtRest, HasRun, HasJournal, Closer, Loop
<1> QED  BY <1>2, <1>3

LEMMA UndoHolds ==
  ASSUME TypeOK, Shape, Parameters, NEW c \in Calls, Acts(c),
         call'[c].at \in Undoing \cup {"releaseOld", "repairFence", "repairSettle"},
         \/ Climber(c) /\ ops'[c].state # "none"
         \/ call[c].kind = "repair",
         call'[c].at = "releaseOld" => call[c].kind = "continue",
         call'[c].at \in {"repairFence", "repairSettle"} => call[c].kind = "repair"
  PROVE  Where(c)' /\ Holding(c)'
<1>1. Where(c)'  BY DEF Where, Acts, Undoing, Climber
<1>2. Holding(c)'  BY DEF Holding, Acts, Undoing, HasRun, HasJournal, Closer, Loop, Climber
<1> QED  BY <1>1, <1>2

LEMMA ClimbKeeps ==
  ASSUME TypeOK, Shape, Parameters, NEW c \in Calls, NEW rung \in Rungs,
         NEW state \in OpStates \ {"none"}, NEW to \in Climbing \cup {"ended"},
         Climbs(c, call[c].at, rung, state, to), Quiet,
         call[c].at \in {"fenceOld", "drain"} \cup Climbing,
         state # "tree-stop-pending",
         rung \in {"identity", "fenced"} \/ runs[c].life # "none",
         rung \in {"identity", "fenced", "run"} \/ "run" \in ops[c].rungs,
         to = "reserve" => call[c].kind = "continue",
         to = "reserveTerminal" => call[c].kind = "spawn",
         to \in HasRun => runs[c].life # "none",
         to \in HasJournal => "run" \in ops[c].rungs \cup {rung}
  PROVE  TypeOK' /\ Shape'
<1>1. Climber(c)  BY Stepping DEF Climbing, Climber
<1>2. ops[c].state # "none" /\ call[c].at \notin AtRest
  BY <1>1 DEF Shape, Holding, Climber, Climbing, HasRun, AtRest
<1>3. OpsKept
  <2>1. CASE ops' = ops  BY <2>1, StillOps
  <2>2. CASE ops' = [ops EXCEPT ![c] = [ops[c] EXCEPT !.rungs = @ \cup {rung}, !.state = state]]
    BY <1>1, <2>2, OneRung DEF Climbs
  <2> QED  BY <2>1, <2>2 DEF Climbs
<1>4. Acts(c) /\ ops'[c].state # "none" /\ ops[c].rungs \subseteq ops'[c].rungs
  BY <1>2, <1>3 DEF Climbs, OpsKept, Rewritten
<1>5. Where(c)' /\ Holding(c)'
  <2>1. CASE Goes(c, "compTerminal")  BY <1>1, <1>4, <2>1, UndoHolds DEF Goes, Undoing
  <2>2. CASE Goes(c, to) /\ rung \in ops'[c].rungs
    <3>1. call'[c].at = to  BY <2>2 DEF Goes
    <3>2. Where(c)'
      <4>1. call'[c].kind \in {"spawn", "continue"}  BY <1>1, <1>4 DEF Climber, Acts
      <4>2. CASE call'[c].kind = "spawn"
        BY <3>1, <4>2, <1>4 DEF Where, Climbing, HasRun, AtRest, Undoing, Acts
      <4>3. CASE call'[c].kind = "continue"
        BY <3>1, <4>3, <1>4 DEF Where, Climbing, HasRun, AtRest, Undoing, Acts
      <4> QED  BY <4>1, <4>2, <4>3
    <3>3. Holding(c)'
      <4>1. to \notin Closer /\ call'[c].kind = call[c].kind /\ runs' = runs
        BY <1>4 DEF Closer, Climbing, HasRun, Acts, Climbs
      <4>2. to \in HasJournal => "run" \in ops'[c].rungs  BY <1>4, <2>2
      <4> QED  BY <1>1, <1>4, <3>1, <4>1, <4>2 DEF Holding, Climber
    <3> QED  BY <3>2, <3>3
  <2> QED  BY <2>1, <2>2 DEF Climbs
<1>6. HistoryOK /\ UNCHANGED <<parent, born>>  BY <1>4, QuietHistory DEF Acts
<1>7. RunsKept /\ PtyKept  BY StillRuns, StillPty DEF Climbs
<1> QED  BY <1>3, <1>4, <1>5, <1>6, <1>7, ActsStay, StayKeeps

LEMMA LadderKeeps ==
  ASSUME TypeOK, Shape, Parameters, NEW c \in Calls,
         DrainOldRun(c) \/ JournalRun(c) \/ ReserveTerminal(c) \/ JournalTerminal(c) \/ Settle(c)
  PROVE  TypeOK' /\ Shape'
<1>1. Where(c) /\ Holding(c) /\ JournalOK(c) /\ ops[c].state \in OpStates  BY OpStateType DEF Shape
<1>2. CASE DrainOldRun(c)
  <2>1. Climbs(c, "drain", "fenced", "continuation-pending", "reserve") /\ Quiet
    BY <1>2, DrainClimbs
  <2>2. call[c].at = "drain" /\ call[c].kind = "continue"  BY <2>1, Stepping DEF Climbs
  <2> QED  BY <2>1, <2>2, ClimbKeeps DEF Rungs, OpStates, Climbing, HasRun, HasJournal
<1>3. CASE JournalRun(c)
  <2> DEFINE to == IF call[c].kind = "spawn" THEN "reserveTerminal" ELSE "openTerminal"
  <2>1. Climbs(c, "journalRun", "run", ops[c].state, to) /\ Quiet  BY <1>3, JournalRunClimbs
  <2>2. call[c].at = "journalRun" /\ Climber(c)  BY <2>1, Stepping DEF Climbs, HasRun
  <2>3. runs[c].life # "none" /\ ops[c].state \notin {"none", "tree-stop-pending"}
    BY <1>1, <2>2 DEF Holding, JournalOK, Climber, HasRun, AtRest
  <2> QED  BY <1>1, <2>1, <2>2, <2>3, ClimbKeeps DEF Rungs, Climbing, HasRun, HasJournal
<1>4. CASE ReserveTerminal(c)
  <2>1. Climbs(c, "reserveTerminal", "reserved", ops[c].state, "openTerminal") /\ Quiet
    BY <1>4, ReserveTerminalClimbs
  <2>2. call[c].at = "reserveTerminal" /\ Climber(c)  BY <2>1, Stepping DEF Climbs, HasRun
  <2>3. /\ runs[c].life # "none" /\ ops[c].state \notin {"none", "tree-stop-pending"}
        /\ "run" \in ops[c].rungs
    BY <1>1, <2>2 DEF Holding, JournalOK, Climber, HasRun, HasJournal, AtRest
  <2> QED  BY <1>1, <2>1, <2>2, <2>3, ClimbKeeps DEF Rungs, Climbing, HasRun, HasJournal
<1>5. CASE JournalTerminal(c)
  <2>1. Climbs(c, "journalTerminal", "live", ops[c].state, "patchTerminal") /\ Quiet
    BY <1>5, JournalTerminalClimbs
  <2>2. call[c].at = "journalTerminal" /\ Climber(c)  BY <2>1, Stepping DEF Climbs, HasRun
  <2>3. /\ runs[c].life # "none" /\ ops[c].state \notin {"none", "tree-stop-pending"}
        /\ "run" \in ops[c].rungs
    BY <1>1, <2>2 DEF Holding, JournalOK, Climber, HasRun, HasJournal, AtRest
  <2> QED  BY <1>1, <2>1, <2>2, <2>3, ClimbKeeps DEF Rungs, Climbing, HasRun, HasJournal
<1>6. CASE Settle(c)
  <2>1. Climbs(c, "settle", "ready", "completed", "ended") /\ Quiet  BY <1>6, SettleClimbs
  <2>2. call[c].at = "settle" /\ Climber(c)  BY <2>1, Stepping DEF Climbs, HasRun
  <2>3. runs[c].life # "none" /\ "run" \in ops[c].rungs
    BY <1>1, <2>2 DEF Holding, Climber, HasRun, HasJournal
  <2> QED  BY <1>1, <2>1, <2>2, <2>3, ClimbKeeps DEF Rungs, OpStates, Climbing, HasRun, HasJournal
<1> QED  BY <1>2, <1>3, <1>4, <1>5, <1>6

LEMMA WriteKeeps ==
  ASSUME TypeOK, Shape, Parameters, NEW c \in Calls, NEW r, NEW new,
         NEW to, NEW other, Writes(c, call[c].at, r, new, to, other), Quiet, Climber(c),
         call[c].at \notin AtRest \cup {"admit", "open"},
         runs[r].life # "none", new.agent = runs[r].agent, new.life # "none",
         runs[r].terminal => new.terminal,
         other = "compTerminal",
         to \in {"furnish", "compTerminal"} \/ (to = "drain" /\ call[c].kind = "continue"),
         to = "furnish" => "run" \in ops[c].rungs /\ runs[c].life # "none"
  PROVE  TypeOK' /\ Shape'
<1>1. RunsKept
  <2>1. CASE runs' = runs  BY <2>1, StillRuns
  <2>2. CASE r \in Runs /\ runs' = [runs EXCEPT ![r] = new]  BY <2>2, OneRun DEF Writes
  <2> QED  BY <2>1, <2>2 DEF Writes
<1>2. OpsKept /\ PtyKept /\ Acts(c)  BY StillOps, StillPty DEF Writes
<1>3. ops'[c].state # "none"  BY DEF Writes, Shape, Holding, Climber
<1>4. Where(c)' /\ Holding(c)'
  <2>1. CASE Goes(c, "compTerminal")  BY <1>2, <1>3, <2>1, UndoHolds DEF Goes, Undoing
  <2>2. CASE Goes(c, to) /\ to = "furnish"
    <3>1. call'[c].at = "furnish" /\ call'[c].kind \in {"spawn", "continue"}
      BY <2>2 DEF Goes, Climber
    <3>2. runs'[c].life # "none" /\ "run" \in ops'[c].rungs
      BY <2>2, <1>1 DEF RunsKept, Runs, Writes
    <3> QED  BY <1>2, <1>3, <3>1, <3>2 DEF Acts, Where, Holding, Closer, Climber, Undoing, AtRest
  <2>3. CASE Goes(c, to) /\ to = "drain" /\ call[c].kind = "continue"
    <3>1. call'[c].at = "drain" /\ call'[c].kind = "continue"  BY <2>3 DEF Goes, Climber
    <3> QED  BY <1>2, <1>3, <3>1 DEF Acts, Where, Holding, Closer, Climber, AtRest, HasRun, HasJournal
  <2> QED  BY <2>1, <2>2, <2>3 DEF Writes
<1>5. HistoryOK /\ UNCHANGED <<parent, born>>  BY <1>2, QuietHistory DEF Acts
<1> QED  BY <1>1, <1>2, <1>4, <1>5, ActsStay, StayKeeps

LEMMA RunIs ==
  ASSUME TypeOK, NEW r \in Runs
  PROVE  /\ runs[r] \in RunRecord
         /\ \A x \in Lifecycles :
              /\ [runs[r] EXCEPT !.life = x].life = x
              /\ [runs[r] EXCEPT !.life = x].agent = runs[r].agent
              /\ [runs[r] EXCEPT !.life = x].terminal = runs[r].terminal
              /\ [runs[r] EXCEPT !.life = x].doubt = runs[r].doubt
BY DEF TypeOK, RunRecord

LEMMA PatchesKeep ==
  ASSUME TypeOK, Shape, Parameters, NEW c \in Calls,
         FenceOldRun(c) \/ PatchTerminal(c) \/ PassGate(c) \/ Furnish(c)
  PROVE  TypeOK' /\ Shape'
<1>1. Where(c) /\ Holding(c) /\ JournalOK(c) /\ Named(c) /\ ops[c].state \in OpStates
  BY OpStateType DEF Shape
<1>2. c \in Runs  BY DEF Runs
<1>3. CASE FenceOldRun(c)
  <2> DEFINE r == call[c].old
             new == [runs[r] EXCEPT !.life = "continuation-pending"]
  <2>1. Writes(c, "fenceOld", r, new, "drain", "compTerminal") /\ Quiet  BY <1>3, FenceOldRunWrites
  <2>2. call[c].at = "fenceOld" /\ call[c].kind = "continue"  BY <2>1, Stepping DEF Writes
  <2>3. r \in Runs /\ runs[r].agent \in Agents  BY <1>1, <2>2 DEF Named
  <2>4. runs[r].life # "none"  BY <2>3 DEF TypeOK, Parameters, Agents
  <2>5. new.agent = runs[r].agent /\ new.life # "none" /\ new.terminal = runs[r].terminal
    BY <2>3, RunIs DEF Lifecycles
  <2>6. Climber(c)  BY <2>2 DEF Climber
  <2> HIDE DEF new, r
  <2> QED  BY <2>1, <2>2, <2>4, <2>5, <2>6, WriteKeeps DEF AtRest
<1>4. CASE PatchTerminal(c)
  <2> DEFINE new == [runs[c] EXCEPT !.terminal = TRUE]
  <2>1. Writes(c, "patchTerminal", c, new, "furnish", "compTerminal") /\ Quiet
    BY <1>4, PatchTerminalWrites
  <2>2. call[c].at = "patchTerminal" /\ Climber(c)  BY <2>1, Stepping DEF Writes, HasRun
  <2>3. runs[c].life # "none" /\ "run" \in ops[c].rungs
    BY <1>1, <2>2 DEF Holding, HasRun, HasJournal
  <2>4. new.agent = runs[c].agent /\ new.life = runs[c].life /\ new.terminal
    BY <1>2, RunIs DEF RunRecord
  <2> HIDE DEF new
  <2> QED  BY <2>1, <2>2, <2>3, <2>4, WriteKeeps DEF AtRest
<1>5. ASSUME NEW from \in {"furnish", "gated"}, Climbs(c, from, "furnished", ops[c].state, "ready"),
             Quiet
      PROVE  TypeOK' /\ Shape'
  <2>1. call[c].at = from /\ Climber(c)  BY <1>5, Stepping DEF Climbs, HasRun
  <2>2. /\ runs[c].life # "none" /\ "run" \in ops[c].rungs
        /\ ops[c].state \notin {"none", "tree-stop-pending"}
    BY <1>1, <2>1 DEF Holding, JournalOK, Climber, HasRun, HasJournal, AtRest
  <2> QED  BY <1>1, <1>5, <2>1, <2>2, ClimbKeeps DEF Rungs, Climbing, HasRun, HasJournal
<1>6. CASE PassGate(c)
  <2> DEFINE new == [runs[c] EXCEPT !.life = "failed"]
  <2>1. CASE Writes(c, "gated", c, new, "compTerminal", "compTerminal") /\ Quiet
    <3>1. call[c].at = "gated" /\ Climber(c)  BY <2>1, Stepping DEF Writes, HasRun
    <3>2. runs[c].life # "none"  BY <1>1, <3>1 DEF Holding, HasRun
    <3>3. new.agent = runs[c].agent /\ new.life # "none" /\ new.terminal = runs[c].terminal
      BY <1>2, RunIs DEF Lifecycles, Final
    <3> HIDE DEF new
    <3> QED  BY <2>1, <3>1, <3>2, <3>3, WriteKeeps DEF AtRest
  <2> QED  BY <1>5, <1>6, <2>1, PassGateDoes
<1>7. CASE Furnish(c)
  <2>1. CASE /\ call[c].at = "furnish" /\ Acts(c) /\ Goes(c, "gated")
             /\ UNCHANGED <<runs, ops, pty>> /\ Quiet
    <3>1. Climber(c)  BY <2>1, Stepping DEF HasRun
    <3>2. runs[c].life # "none" /\ "run" \in ops[c].rungs /\ ops[c].state # "none"
      BY <1>1, <2>1, <3>1 DEF Holding, Climber, HasRun, HasJournal, AtRest
    <3>3. Where(c)' /\ Holding(c)'
      BY <2>1, <3>1, <3>2 DEF Where, Holding, Goes, Climber, Closer, AtRest, Undoing
    <3>4. HistoryOK /\ UNCHANGED <<parent, born>>  BY <2>1, QuietHistory DEF Acts
    <3> QED  BY <2>1, <3>3, <3>4, StillRuns, StillOps, StillPty, ActsStay, StayKeeps
  <2> QED  BY <1>5, <1>7, <2>1, FurnishDoes
<1> QED  BY <1>3, <1>4, <1>6, <1>7

LEMMA KindIs ==
  ASSUME TypeOK, Parameters, NEW c \in Calls
  PROVE  call[c].kind \in {"none", "spawn", "continue", "stop", "stopTree", "repair"}
BY DEF TypeOK, CallRecord, Parameters

LEMMA SendKeeps ==
  ASSUME TypeOK, Shape, Parameters, NEW c \in Calls, Send(c)
  PROVE  TypeOK' /\ Shape'
<1>1. /\ call[c].at = "new" /\ call' \in [Calls -> CallRecord] /\ Others(c)
      /\ UNCHANGED <<runs, pty, ops, troubles, parent, born, fences>> /\ Quiet
      /\ \/ /\ call'[c].kind = "spawn" /\ call'[c].at = "admit"
            /\ call'[c].target \in Agents /\ Exists(call'[c].target)
         \/ /\ call'[c].kind \in {"continue", "stop"} /\ call'[c].at = "admit"
            /\ call'[c].old \in Runs /\ Live(call'[c].old)
            /\ call'[c].target = runs[call'[c].old].agent
         \/ /\ call'[c].kind = "stopTree" /\ call'[c].at = "open" /\ call'[c].target \in Agents
         \/ /\ call'[c].kind = "repair" /\ call'[c].at = "judge"
            /\ call'[c].target \in Calls /\ ops[call'[c].target].state # "none"
  BY SendDoes DEF Quiet
<1>2. call[c].kind = "none"  BY <1>1, Stepping
<1>3. /\ parent[c] = None /\ runs[c].life = "none" /\ ops[c].state = "none" /\ ops[c].rungs = {}
      /\ fences[c] = "none"
  BY <1>2 DEF Shape, ParentOK, RunOK, JournalOK, Agents, Runs, Climber, NoOp
<1>4. TypeOK'
  <2>1. troubles' \in 0 .. MaxTroubles  BY <1>1 DEF TypeOK
  <2> QED  BY <1>1, <2>1, QuietHistory DEF TypeOK, HistoryOK, Exists
<1>5. \A a : Exists(a)' <=> Exists(a)  BY <1>1 DEF Exists
<1>6. ASSUME NEW d \in Calls PROVE Where(d)' /\ Named(d)' /\ Holding(d)' /\ JournalOK(d)'
  <2>1. Where(d) /\ Named(d) /\ Holding(d) /\ JournalOK(d)  BY DEF Shape
  <2>2. CASE d = c
    <3>1. Where(c)'  BY <1>1 DEF Where
    <3>2. Named(c)'
      <4>1. call'[c].kind \in {"continue", "stop"} =>
               call'[c].old # c /\ call'[c].target \in Agents
        BY <1>1, <1>3 DEF Live, TypeOK, RunRecord, Runs
      <4> QED  BY <1>1, <1>5, <4>1 DEF Named, Agents, Exists
    <3>3. Holding(c)'  BY <1>1 DEF Holding, HasRun, HasJournal, Closer, Loop, AtRest
    <3>4. JournalOK(c)'  BY <1>1, <1>3, <2>1, <2>2 DEF JournalOK, Climber
    <3> QED  BY <2>2, <3>1, <3>2, <3>3, <3>4
  <2>3. CASE d # c
    <3>1. Same(d)  BY <1>1, <2>3 DEF Others
    <3>2. Where(d)' /\ JournalOK(d)'  BY <1>1, <2>1, <3>1 DEF Where, JournalOK, Same, Climber
    <3>3. Named(d)'  BY <1>1, <1>5, <2>1, <3>1 DEF Named, Same
    <3>4. call[d].kind = "stopTree" /\ call[d].at \in {"snapshot"} \cup Loop =>
             call'[call[d].fence].target = call[call[d].fence].target
      <4>1. SUFFICES ASSUME call[d].kind = "stopTree", call[d].at \in {"snapshot"} \cup Loop
                     PROVE  call'[call[d].fence].target = call[call[d].fence].target
        OBVIOUS
      <4>2. call[d].fence \in Calls \ {c}  BY <1>3, <2>1, <4>1 DEF Holding
      <4> QED  BY <1>1, <4>2 DEF Others, Same
    <3>5. call[d].kind = "repair" => call'[call[d].target].kind = call[call[d].target].kind
      <4>1. SUFFICES ASSUME call[d].kind = "repair"
                     PROVE  call'[call[d].target].kind = call[call[d].target].kind
        OBVIOUS
      <4>2. call[d].target \in Calls \ {c}  BY <1>3, <2>1, <4>1 DEF Named
      <4> QED  BY <1>1, <4>2 DEF Others, Same
    <3>6. Holding(d)'  BY <1>1, <2>1, <3>1, <3>4, <3>5 DEF Holding, Same, Climber
    <3> QED  BY <3>2, <3>3, <3>6
  <2> QED  BY <2>2, <2>3
<1>7. ASSUME NEW r \in Runs PROVE RunOK(r)'
  <2>1. r \in Calls /\ runs[r].life # "none" => r # c /\ Same(r)  BY <1>1, <1>3 DEF Others
  <2> QED  BY <1>1, <2>1 DEF RunOK, Shape, Climber, AgentOf, Same
<1>8. BornOK'  BY <1>1 DEF BornOK, Shape
<1>9. ParentOK'
  <2>1. \A a \in Agents : parent[a] # None => a \in Calls /\ a # c  BY <1>3 DEF ParentOK, Shape
  <2> QED  BY <1>1, <2>1 DEF ParentOK, Shape, Others, Same
<1> QED  BY <1>4, <1>6, <1>7, <1>8, <1>9 DEF Shape

LEMMA SendAgainKeeps ==
  ASSUME TypeOK, Shape, Parameters, NEW c \in Calls, SendAgain(c)
  PROVE  TypeOK' /\ Shape'
<1>1. /\ call[c].at = "failed" /\ Acts(c) /\ UNCHANGED <<runs, pty, ops>>
      /\ UNCHANGED <<hollow, parent, born, fences, crowd, overlooked, lost, asked>>
      /\ retries' \in 0 .. MaxRetries
      /\ \/ call[c].kind = "stopTree" /\ Goes(c, "open")
         \/ call[c].kind = "repair" /\ Goes(c, "judge")
         \/ call[c].kind \notin {"stopTree", "repair"} /\ Goes(c, "admit")
      /\ meddled' \in {meddled, meddled \cup {c}}
  BY SendAgainDoes
<1>2. call[c].kind \in {"spawn", "continue", "stop", "stopTree", "repair"}
  BY <1>1, Stepping, KindIs
<1>3. Where(c)' /\ Holding(c)'
  BY <1>1, <1>2 DEF Where, Holding, Goes, HasRun, HasJournal, Closer, Loop, AtRest
<1>4. HistoryOK  BY <1>1 DEF HistoryOK, TypeOK, Acts
<1> QED  BY <1>1, <1>3, <1>4, StillRuns, StillOps, StillPty, ActsStay, StayKeeps

LEMMA AdmitKeeps ==
  ASSUME TypeOK, Shape, Parameters, NEW c \in Calls, Admit(c)
  PROVE  TypeOK' /\ Shape'
<1>1. /\ call[c].at = "admit" /\ Acts(c) /\ UNCHANGED <<runs, pty, ops, troubles>>
      /\ UNCHANGED <<meddled, hollow, parent, born, fences, overlooked, lost, retries>>
      /\ \/ /\ Goes(c, "failed") \/ Goes(c, "refused")
            /\ UNCHANGED <<asked, crowd>>
         \/ /\ Goes(c, "open") /\ call[c].kind \in {"spawn", "continue"} /\ asked' = asked
            /\ crowd' = [f \in Calls |->
                  IF f \in Closing(AgentOf(c)) \/ fences[f] = "released"
                  THEN crowd[f] \cup {c} ELSE crowd[f]]
         \/ /\ call[c].kind = "stop" /\ call'[c].at = "stopping" /\ call'[c].victim = call[c].old
            /\ asked' = asked \cup {call[c].target} /\ crowd' = crowd
  BY AdmitDoes
<1>2. Named(c)  BY DEF Shape
<1>3. HistoryOK
  <2>1. crowd' \in [Calls -> SUBSET Calls]  BY <1>1 DEF TypeOK
  <2>2. asked' \subseteq Agents  BY <1>1, <1>2 DEF TypeOK, Named
  <2> QED  BY <1>1, <2>1, <2>2 DEF HistoryOK, TypeOK, Acts
<1>4. CASE Goes(c, "failed") \/ Goes(c, "refused")
  <2>1. Rests(c)  BY <1>4 DEF Goes, Rests
  <2> QED  BY <1>1, <1>3, <2>1, RestHolds, StillRuns, StillOps, StillPty, ActsStay, StayKeeps
<1>5. CASE Goes(c, "open") /\ call[c].kind \in {"spawn", "continue"}
  <2>1. Where(c)' /\ Holding(c)'
    BY <1>5 DEF Where, Holding, Goes, HasRun, HasJournal, Closer, Loop, AtRest
  <2> QED  BY <1>1, <1>3, <2>1, StillRuns, StillOps, StillPty, ActsStay, StayKeeps
<1>6. CASE call[c].kind = "stop" /\ call'[c].at = "stopping" /\ call'[c].victim = call[c].old
  <2>1. call'[c].kind = "stop" /\ call'[c].old = call[c].old  BY <1>1, <1>6 DEF Acts
  <2>2. call[c].old \in Runs /\ runs[call[c].old].life # "none"
    BY <1>2, <1>6 DEF Named, TypeOK, Parameters, Agents
  <2>3. Where(c)' /\ Holding(c)'
    BY <1>1, <1>6, <2>1, <2>2 DEF Where, Holding, Closer, Climber, AtRest
  <2> QED  BY <1>1, <1>3, <2>3, StillRuns, StillOps, StillPty, ActsStay, StayKeeps
<1> QED  BY <1>1, <1>4, <1>5, <1>6

LEMMA OpenOperationKeeps ==
  ASSUME TypeOK, Shape, Parameters, NEW c \in Calls, OpenOperation(c)
  PROVE  TypeOK' /\ Shape'
<1> DEFINE new == [NoOp EXCEPT !.state = "running", !.mine = TRUE]
<1>1. /\ call[c].at = "open" /\ Acts(c) /\ runs' = runs /\ pty' = pty /\ Quiet
      /\ call[c].kind \in {"spawn", "continue", "stopTree"}
      /\ ops' \in [Calls -> OpRecord]
      /\ \/ ops' = ops
         \/ ops[c].state = "none" /\ ops' = [ops EXCEPT ![c] = new]
      /\ \/ Goes(c, "failed")
         \/ /\ ops'[c].state # "none"
            /\ \/ call[c].kind = "spawn" /\ Goes(c, "identity")
               \/ call[c].kind = "continue" /\ Goes(c, "fenceOld")
               \/ call[c].kind = "stopTree" /\ Goes(c, "closeFence")
  BY OpenOperationDoes
<1>2. new.state = "running" /\ new.rungs = {}  BY DEF NoOp
<1> HIDE DEF new
<1>3. OpsKept
  <2>1. CASE ops' = ops  BY <2>1, StillOps
  <2>2. CASE ops[c].state = "none" /\ ops' = [ops EXCEPT ![c] = new]
    <3>1. ops'[c] = new /\ \A p \in Calls \ {c} : ops'[p] = ops[p]  BY <2>2 DEF TypeOK
    <3>2. ops[c].rungs = {}  BY <2>2 DEF Shape, JournalOK, NoOp
    <3>3. Rewritten(c)  BY <1>1, <1>2, <3>1, <3>2 DEF Rewritten
    <3> QED  BY <1>1, <3>1, <3>3 DEF OpsKept
  <2> QED  BY <1>1, <2>1, <2>2
<1>4. Where(c)' /\ Holding(c)'
  BY <1>1 DEF Where, Holding, Goes, HasRun, HasJournal, Closer, Loop, AtRest
<1>5. HistoryOK /\ UNCHANGED <<parent, born>>  BY <1>1, QuietHistory DEF Acts
<1> QED  BY <1>1, <1>3, <1>4, <1>5, StillRuns, StillPty, ActsStay, StayKeeps

LEMMA OpenTerminalKeeps ==
  ASSUME TypeOK, Shape, Parameters, NEW c \in Calls, OpenTerminal(c)
  PROVE  TypeOK' /\ Shape'
<1>1. /\ call[c].at = "openTerminal" /\ Acts(c) /\ runs' = runs /\ ops' = ops
      /\ UNCHANGED <<parent, born, fences, crowd, overlooked, lost, asked, meddled, retries>>
      /\ hollow' \in {hollow, hollow \cup {c}}
      /\ pty' = pty \/ \E x \in {"live", "dead"} : pty' = [pty EXCEPT ![c] = x]
      /\ Goes(c, "journalTerminal") \/ Goes(c, "compTerminal")
  BY OpenTerminalDoes
<1>2. Climber(c)  BY <1>1, Stepping DEF HasRun
<1>3. runs[c].life # "none" /\ "run" \in ops[c].rungs /\ ops[c].state # "none"
  BY <1>1, <1>2 DEF Shape, Holding, Climber, HasRun, HasJournal, AtRest
<1>4. PtyKept  BY <1>1, <1>3, StillPty, KilledPty DEF Runs
<1>5. Where(c)' /\ Holding(c)'
  <2>1. CASE Goes(c, "compTerminal")  BY <1>1, <1>2, <1>3, <2>1, UndoHolds DEF Goes, Undoing
  <2>2. CASE Goes(c, "journalTerminal")
    BY <1>1, <1>2, <1>3, <2>2 DEF Where, Holding, Goes, Climber, Closer, AtRest, Undoing
  <2> QED  BY <1>1, <2>1, <2>2
<1>6. HistoryOK  BY <1>1 DEF HistoryOK, TypeOK, Acts
<1> QED  BY <1>1, <1>4, <1>5, <1>6, StillRuns, StillOps, ActsStay, StayKeeps

LEMMA MakeReadyKeeps ==
  ASSUME TypeOK, Shape, Parameters, NEW c \in Calls, MakeReady(c)
  PROVE  TypeOK' /\ Shape'
<1> DEFINE new == [runs[c] EXCEPT !.life = "ready"]
<1>1. /\ call[c].at = "ready" /\ Acts(c) /\ ops' = ops /\ pty' = pty /\ Quiet
      /\ runs' \in [Runs -> RunRecord]
      /\ \/ runs' = runs /\ Goes(c, "compTerminal")
         \/ /\ runs' = [runs EXCEPT ![c] = new]
            /\ \/ Goes(c, "compTerminal")
               \/ call[c].kind = "spawn" /\ Goes(c, "settle")
               \/ /\ call[c].kind = "continue" /\ call'[c].at = "stopping"
                  /\ call'[c].victim = call[c].old
  BY MakeReadyDoes
<1>2. Climber(c) /\ c \in Runs  BY <1>1, Stepping DEF HasRun, Runs
<1>3. runs[c].life # "none" /\ "run" \in ops[c].rungs /\ ops[c].state # "none"
  BY <1>1, <1>2 DEF Shape, Holding, Climber, HasRun, HasJournal, AtRest
<1>4. new.agent = runs[c].agent /\ new.life # "none" /\ new.terminal = runs[c].terminal
  BY <1>2, RunIs DEF Lifecycles
<1> HIDE DEF new
<1>5. RunsKept  BY <1>1, <1>2, <1>3, <1>4, StillRuns, OneRun
<1>6. Where(c)' /\ Holding(c)'
  <2>1. CASE Goes(c, "compTerminal")  BY <1>1, <1>2, <1>3, <2>1, UndoHolds DEF Goes, Undoing
  <2>2. CASE call[c].kind = "spawn" /\ Goes(c, "settle")
    <3>1. runs'[c].life # "none"  BY <1>2, <1>3, <1>5 DEF RunsKept
    <3> QED  BY <1>1, <1>2, <1>3, <2>2, <3>1 DEF Where, Holding, Goes, Climber, Closer, AtRest, Undoing
  <2>3. CASE call[c].kind = "continue" /\ call'[c].at = "stopping" /\ call'[c].victim = call[c].old
    <3>1. runs'[c].life # "none"  BY <1>2, <1>3, <1>5 DEF RunsKept
    <3>2. call[c].old \in Runs /\ runs[call[c].old].agent \in Agents  BY <2>3 DEF Shape, Named
    <3>3. runs[call[c].old].life # "none"  BY <3>2 DEF TypeOK, Parameters, Agents
    <3>4. runs'[call[c].old].life # "none"  BY <3>2, <3>3, <1>5 DEF RunsKept
    <3>5. call'[c].kind = "continue" /\ call'[c].old = call[c].old  BY <1>1, <2>3 DEF Acts
    <3>6. Where(c)'  BY <2>3, <3>5 DEF Where, Closer, AtRest, Undoing
    <3>7. Holding(c)'
      BY <1>1, <1>3, <2>3, <3>1, <3>2, <3>4, <3>5 DEF Holding, Closer, AtRest, HasRun, HasJournal
    <3> QED  BY <3>6, <3>7
  <2> QED  BY <1>1, <2>1, <2>2, <2>3
<1>7. HistoryOK /\ UNCHANGED <<parent, born>>  BY <1>1, QuietHistory DEF Acts
<1> QED  BY <1>1, <1>5, <1>6, <1>7, StillOps, StillPty, ActsStay, StayKeeps

LEMMA CloseHolds ==
  ASSUME TypeOK, Shape, Parameters, NEW c \in Calls, Acts(c), NEW result,
         Closes(c, result), call[c].at \in Closer, RunsKept, ops' = ops, fences' = fences
  PROVE  Where(c)' /\ Holding(c)'
<1>1. Where(c) /\ Holding(c) /\ call[c].kind \in {"continue", "stop", "stopTree", "repair"}
  BY Stepping DEF Shape
<1>2. CASE call[c].kind = "stop"
  <2>1. Rests(c) /\ call[c].at # "new"  BY <1>2 DEF Rests, Closes, Closer
  <2> QED  BY <2>1, RestHolds
<1>3. CASE call[c].kind = "continue"
  <2>1. ops[c].state # "none" /\ runs'[c].life # "none" /\ "run" \in ops[c].rungs
    BY <1>1, <1>3 DEF Holding, Climber, Closer, AtRest, RunsKept, Runs
  <2>2. CASE call'[c].at = "compTerminal"  BY <1>3, <2>1, <2>2, UndoHolds DEF Undoing, Climber
  <2>3. CASE call'[c].at = "settle"
    BY <1>3, <2>1, <2>3 DEF Where, Holding, Acts, Climber, Closer, AtRest, Undoing
  <2> QED  BY <1>3, <2>2, <2>3 DEF Closes
<1>4. CASE call[c].kind \in {"stopTree", "repair"}
  <2>1. call'[c].at = "stopEach" /\ call'[c].fence = call[c].fence /\ call'[c].kind = call[c].kind
    BY <1>4 DEF Closes
  <2>2. Where(c)'  BY <1>4, <2>1 DEF Where, Loop
  <2>3. call[c].kind = "stopTree" => /\ call[c].fence \in Calls /\ fences[call[c].fence] # "none"
                                     /\ call[call[c].fence].target = call[c].target
                                     /\ ops[c].state # "none"
    BY <1>1 DEF Holding, Loop, Closer, AtRest
  <2>6. call[c].kind = "repair" =>
           call[c].target \in Calls /\ call[call[c].target].kind = "stopTree"
    BY <1>1 DEF Holding, Named, Shape, Loop
  <2>4. \A d \in Calls : call'[d].target = call[d].target /\ call'[d].kind = call[d].kind
    BY DEF Acts, Others, Same
  <2>5. Holding(c)'
    BY <1>4, <2>1, <2>3, <2>4, <2>6 DEF Holding, Climber, Closer, HasRun, HasJournal
  <2> QED  BY <2>2, <2>5
<1> QED  BY <1>1, <1>2, <1>3, <1>4

LEMMA VictimIs ==
  ASSUME TypeOK, Shape, NEW c \in Calls, call[c].at \in Closer
  PROVE  call[c].victim \in Runs /\ runs[call[c].victim].life # "none"
BY DEF Shape, Holding

LEMMA MarksKeep ==
  ASSUME TypeOK, Shape, Parameters, NEW c \in Calls, call[c].at \in Closer,
         NEW new \in RunRecord, NEW result, Marks(c, new, result),
         new.agent = runs[call[c].victim].agent, new.life # "none",
         new.terminal = runs[call[c].victim].terminal
  PROVE  TypeOK' /\ Shape'
<1>1. RunsKept  BY VictimIs, StillRuns, OneRun DEF Marks
<1>2. HistoryOK /\ UNCHANGED <<parent, born, fences>>  BY QuietHistory DEF Marks, Acts, Quiet
<1>3. Where(c)' /\ Holding(c)'  BY <1>1, <1>2, CloseHolds DEF Marks
<1> QED  BY <1>1, <1>2, <1>3, StillOps, StillPty, ActsStay, StayKeeps DEF Marks

LEMMA CloserKeeps ==
  ASSUME TypeOK, Shape, Parameters, NEW c \in Calls,
         MarkStopping(c) \/ Terminate(c) \/ MarkUnsure(c) \/ MarkStopped(c)
  PROVE  TypeOK' /\ Shape'
<1> DEFINE v == call[c].victim
<1>1. CASE MarkStopping(c)
  <2> DEFINE new == [runs[v] EXCEPT !.life = "stopping"]
  <2>1. /\ call[c].at = "stopping" /\ Acts(c) /\ ops' = ops /\ pty' = pty /\ Quiet
        /\ runs' \in [Runs -> RunRecord]
        /\ runs' = runs \/ runs' = [runs EXCEPT ![v] = new]
        /\ (\E result : Closes(c, result)) \/ Goes(c, "terminate")
    BY <1>1, MarkStoppingDoes
  <2>2. call[c].at \in Closer  BY <2>1 DEF Closer
  <2>3. v \in Runs /\ runs[v].life # "none"  BY <2>2, VictimIs
  <2>4. new.agent = runs[v].agent /\ new.life # "none" /\ new.terminal = runs[v].terminal
    BY <2>3, RunIs DEF Lifecycles
  <2> HIDE DEF new, v
  <2>5. RunsKept
    <3>1. CASE runs' = runs  BY <3>1, StillRuns
    <3>2. CASE runs' = [runs EXCEPT ![v] = new]  BY <2>1, <2>3, <2>4, <3>2, OneRun
    <3> QED  BY <2>1, <3>1, <3>2
  <2>6. HistoryOK /\ UNCHANGED <<parent, born, fences>>  BY <2>1, QuietHistory DEF Acts, Quiet
  <2>7. Where(c)' /\ Holding(c)'
    <3>1. CASE \E result : Closes(c, result)  BY <2>1, <2>2, <2>5, <2>6, <3>1, CloseHolds
    <3>2. CASE Goes(c, "terminate")
      <4>1. Where(c) /\ Holding(c)  BY DEF Shape
      <4>2. /\ \A d \in Calls : call'[d].target = call[d].target /\ call'[d].kind = call[d].kind
            /\ call[c].kind = "repair" => call[c].target \in Calls
        BY <2>1 DEF Acts, Others, Same, Shape, Named
      <4>3. /\ call'[c].at = "terminate" /\ call'[c].kind = call[c].kind /\ call'[c].old = call[c].old
            /\ call'[c].victim = call[c].victim /\ call'[c].fence = call[c].fence
        BY <3>2 DEF Goes, AtRest
      <4>4. Where(c)'  BY <2>1, <4>1, <4>3 DEF Where, Loop, Closer, AtRest, Undoing
      <4>5. runs'[c].life # "none" <=> runs[c].life # "none"  BY <2>5 DEF RunsKept, Runs
      <4>6. runs'[v].life # "none"  BY <2>3, <2>5 DEF RunsKept
      <4>7. Holding(c)'  BY <2>1, <2>3, <2>6, <4>1, <4>2, <4>3, <4>5, <4>6
        DEF Holding, Climber, Closer, HasRun, HasJournal, Loop, AtRest, v
      <4> QED  BY <4>4, <4>7
    <3> QED  BY <2>1, <3>1, <3>2
  <2> QED  BY <2>1, <2>5, <2>6, <2>7, StillOps, StillPty, ActsStay, StayKeeps
<1>2. CASE Terminate(c)
  <2>1. /\ call[c].at = "terminate" /\ Acts(c) /\ runs' = runs /\ ops' = ops /\ Quiet
        /\ Goes(c, "stopped") \/ Goes(c, "unsure")
        /\ pty' = pty \/ pty' = [pty EXCEPT ![v] = "dead"]
    BY <1>2, TerminateDoes
  <2>2. call[c].at \in Closer  BY <2>1 DEF Closer
  <2>3. v \in Runs /\ runs[v].life # "none"  BY <2>2, VictimIs
  <2>4. PtyKept  BY <2>1, <2>3, StillPty, KilledPty
  <2>5. HistoryOK /\ UNCHANGED <<parent, born, fences>>  BY <2>1, QuietHistory DEF Acts, Quiet
  <2>6. Where(c)' /\ Holding(c)'
    <3>1. Where(c) /\ Holding(c)  BY DEF Shape
    <3>2. /\ \A d \in Calls : call'[d].target = call[d].target /\ call'[d].kind = call[d].kind
          /\ call[c].kind = "repair" => call[c].target \in Calls
      BY <2>1 DEF Acts, Others, Same, Shape, Named
    <3>3. /\ call'[c].at \in {"stopped", "unsure"} /\ call'[c].kind = call[c].kind
          /\ call'[c].old = call[c].old
          /\ call'[c].victim = call[c].victim /\ call'[c].fence = call[c].fence
      BY <2>1 DEF Goes, AtRest
    <3>4. Where(c)'  BY <2>1, <3>1, <3>3 DEF Where, Loop, Closer, AtRest, Undoing
    <3>5. Holding(c)'  BY <2>1, <2>3, <2>5, <3>1, <3>2, <3>3
      DEF Holding, Climber, Closer, HasRun, HasJournal, Loop, AtRest
    <3> QED  BY <3>4, <3>5
  <2> QED  BY <2>1, <2>4, <2>5, <2>6, StillRuns, StillOps, ActsStay, StayKeeps
<1>3. CASE MarkUnsure(c)
  <2> DEFINE new == [runs[v] EXCEPT !.life = "recovery-required", !.doubt = TRUE]
  <2>1. call[c].at = "unsure" /\ Marks(c, new, "unsure")  BY <1>3, MarkUnsureMarks
  <2>2. call[c].at \in Closer  BY <2>1 DEF Closer
  <2>3. runs[v] \in RunRecord  BY <2>2, VictimIs, RunIs
  <2>4. /\ new \in RunRecord /\ new.agent = runs[v].agent /\ new.life # "none"
        /\ new.terminal = runs[v].terminal
    BY <2>3 DEF RunRecord, Lifecycles
  <2> HIDE DEF new
  <2> QED  BY <2>1, <2>2, <2>4, MarksKeep
<1>4. CASE MarkStopped(c)
  <2> DEFINE new == [runs[v] EXCEPT !.life = "stopped"]
  <2>1. call[c].at = "stopped" /\ Marks(c, new, "stopped")  BY <1>4, MarkStoppedMarks
  <2>2. call[c].at \in Closer  BY <2>1 DEF Closer
  <2>3. runs[v] \in RunRecord  BY <2>2, VictimIs, RunIs
  <2>4. /\ new \in RunRecord /\ new.agent = runs[v].agent /\ new.life # "none"
        /\ new.terminal = runs[v].terminal
    BY <2>3 DEF RunRecord, Lifecycles, Final
  <2> HIDE DEF new
  <2> QED  BY <2>1, <2>2, <2>4, MarksKeep
<1> QED  BY <1>1, <1>2, <1>3, <1>4

(* A tree-stop goes on with its fence.                                      *)
LEMMA TreeHolds ==
  ASSUME TypeOK, Shape, Parameters, NEW c \in Calls, Acts(c), runs' = runs, ops' = ops,
         HistoryOK,
         (call[c].kind = "stopTree" /\ call[c].at \notin AtRest \cup {"open"})
           \/ call[c].kind = "repair",
         call'[c].at \in {"stopEach", "settleTree", "stopping"}
           \/ (call'[c].at \in {"createFence", "snapshot"} /\ call[c].kind = "stopTree"),
         call'[c].at = "stopping" => call'[c].victim \in Runs /\ runs[call'[c].victim].life # "none",
         call[c].kind = "stopTree" /\ call'[c].at # "createFence" =>
            /\ call'[c].fence \in Calls /\ fences'[call'[c].fence] # "none"
            /\ call[call'[c].fence].target = call[c].target,
         call[c].kind = "repair" => call[call[c].target].kind = "stopTree"
  PROVE  Where(c)' /\ Holding(c)'
<1>1. Where(c)'  BY DEF Where, Acts, Loop, Closer
<1>2. /\ \A d \in Calls : call'[d].target = call[d].target /\ call'[d].kind = call[d].kind
      /\ call[c].kind = "repair" => call[c].target \in Calls
  BY DEF Acts, Others, Same, Shape, Named
<1>3. call[c].kind = "stopTree" => ops'[c].state # "none"
  BY DEF Shape, Holding, Where, AtRest, Loop, Closer
<1>4. Holding(c)'  BY <1>2, <1>3 DEF Holding, Acts, Climber, HasRun, HasJournal, Closer, Loop
<1> QED  BY <1>1, <1>4

LEMMA ReleasedHistory ==
  ASSUME TypeOK, NEW f \in Calls, Released(f), troubles' \in 0 .. MaxTroubles,
         UNCHANGED <<crowd, overlooked, asked, meddled, hollow, retries>>
  PROVE  HistoryOK
BY DEF TypeOK, HistoryOK, Released

LEMMA CloseFenceKeeps ==
  ASSUME TypeOK, Shape, Parameters, NEW c \in Calls, CloseFence(c) \/ CreateFence(c)
  PROVE  TypeOK' /\ Shape'
<1>1. CASE CloseFence(c)
  <2>1. /\ call[c].at = "closeFence" /\ Acts(c) /\ UNCHANGED <<runs, pty, ops>> /\ Quiet
        /\ \/ Goes(c, "createFence")
           \/ call'[c].at = "snapshot" /\ call'[c].fence \in Closing(call[c].target)
    BY <1>1, CloseFenceDoes
  <2>2. call[c].kind = "stopTree"  BY <2>1, Stepping
  <2>3. HistoryOK /\ UNCHANGED <<parent, born, fences>>  BY <2>1, QuietHistory DEF Acts, Quiet
  <2>4. Where(c)' /\ Holding(c)'  BY <2>1, <2>2, <2>3, TreeHolds DEF Goes, Closing, AtRest
  <2> QED  BY <2>1, <2>3, <2>4, StillRuns, StillOps, StillPty, ActsStay, StayKeeps
<1>2. CASE CreateFence(c)
  <2>1. /\ call[c].at = "createFence" /\ Acts(c) /\ UNCHANGED <<runs, pty, ops>>
        /\ UNCHANGED <<parent, born, overlooked, lost, asked, meddled, hollow, retries>>
        /\ \/ Goes(c, "failed") /\ UNCHANGED <<fences, crowd>>
           \/ /\ fences' = [fences EXCEPT ![c] = "closing"]
              /\ crowd' = [crowd EXCEPT ![c] = @ \cup {d \in Calls : Admitted(d)}]
              /\ \/ Goes(c, "failed")
                 \/ call'[c].at = "snapshot" /\ call'[c].fence = c
    BY <1>2, CreateFenceDoes
  <2>2. call[c].kind = "stopTree"  BY <2>1, Stepping
  <2>3. HistoryOK  BY <2>1, <2>2 DEF HistoryOK, TypeOK, Acts
  <2>4. CASE Goes(c, "failed")
    <3>1. Rests(c)  BY <2>4 DEF Goes, Rests
    <3> QED  BY <2>1, <2>3, <3>1, RestHolds, StillRuns, StillOps, StillPty, ActsStay, StayKeeps
  <2>5. CASE /\ call'[c].at = "snapshot" /\ call'[c].fence = c
             /\ fences' = [fences EXCEPT ![c] = "closing"]
    <3>1. fences'[c] # "none"  BY <2>5 DEF TypeOK
    <3>2. Where(c)' /\ Holding(c)'  BY <2>1, <2>2, <2>3, <2>5, <3>1, TreeHolds DEF AtRest
    <3> QED  BY <2>1, <2>3, <3>2, StillRuns, StillOps, StillPty, ActsStay, StayKeeps
  <2> QED  BY <2>1, <2>4, <2>5
<1> QED  BY <1>1, <1>2

LEMMA StopTreeKeeps ==
  ASSUME TypeOK, Shape, Parameters, NEW c \in Calls,
         ConfirmOrder(c) \/ StopNext(c) \/ FinishTree(c) \/ SettleTreeStop(c)
  PROVE  TypeOK' /\ Shape'
<1>0. Holding(c)  BY DEF Shape
<1>1. CASE ConfirmOrder(c)
  <2>1. /\ call[c].at = "snapshot" /\ Acts(c) /\ UNCHANGED <<runs, pty, ops>>
        /\ UNCHANGED <<parent, born, crowd, overlooked, asked, meddled, hollow, retries>>
        /\ \/ /\ call'[c].at = "stopEach" /\ call'[c].fence = call[c].fence
              /\ UNCHANGED <<fences, lost>>
           \/ Goes(c, "failed") /\ Released(call[c].fence)
    BY <1>1, ConfirmOrderDoes
  <2>2. call[c].kind = "stopTree"  BY <2>1, Stepping
  <2>3. /\ call[c].fence \in Calls /\ fences[call[c].fence] # "none"
        /\ call[call[c].fence].target = call[c].target
    BY <1>0, <2>1, <2>2 DEF Holding
  <2>4. HistoryOK
    <3>1. CASE UNCHANGED <<fences, lost>>  BY <2>1, <3>1 DEF HistoryOK, TypeOK, Acts
    <3>2. CASE Released(call[c].fence)  BY <2>1, <2>3, <3>2, ReleasedHistory DEF Acts
    <3> QED  BY <2>1, <3>1, <3>2
  <2>5. CASE Goes(c, "failed")
    <3>1. Rests(c)  BY <2>5 DEF Goes, Rests
    <3> QED  BY <2>1, <2>4, <3>1, RestHolds, StillRuns, StillOps, StillPty, ActsStay, StayKeeps
  <2>6. CASE /\ call'[c].at = "stopEach" /\ call'[c].fence = call[c].fence
             /\ UNCHANGED <<fences, lost>>
    <3>1. Where(c)' /\ Holding(c)'  BY <2>1, <2>2, <2>3, <2>4, <2>6, TreeHolds DEF AtRest
    <3> QED  BY <2>1, <2>4, <3>1, StillRuns, StillOps, StillPty, ActsStay, StayKeeps
  <2> QED  BY <2>1, <2>5, <2>6
<1>2. CASE StopNext(c)
  <2>1. /\ call[c].at = "stopEach" /\ Acts(c) /\ UNCHANGED <<runs, pty, ops>>
        /\ UNCHANGED <<parent, born, fences, crowd, lost, meddled, hollow, retries>>
        /\ call'[c].fence = call[c].fence
    BY <1>2, StopNextDoes
  <2>2. PICK a \in call[c].todo :
              /\ asked' = asked \cup {a}
              /\ \/ overlooked' = overlooked /\ call'[c].at = "stopEach"
                 \/ /\ call'[c].at = "stopping" /\ call'[c].victim \in LiveRuns(a)
                    /\ overlooked' = overlooked \cup (LiveRuns(a) \ {call'[c].victim})
    BY <1>2, StopNextDoes
  <2>3. call[c].kind \in {"stopTree", "repair"}  BY <2>1, Stepping
  <2>4. a \in Agents  BY DEF TypeOK, CallRecord
  <2>5. LiveRuns(a) \subseteq Runs /\ \A r \in LiveRuns(a) : runs[r].life # "none"
    BY DEF LiveRuns, Live
  <2>6. HistoryOK  BY <2>1, <2>2, <2>4, <2>5 DEF HistoryOK, TypeOK, Acts
  <2>7. /\ call[c].kind = "stopTree" => /\ call[c].fence \in Calls /\ fences[call[c].fence] # "none"
                                        /\ call[call[c].fence].target = call[c].target
        /\ call[c].kind = "repair" => call[call[c].target].kind = "stopTree"
    BY <1>0, <2>1 DEF Holding, Loop
  <2>8. Where(c)' /\ Holding(c)'  BY <2>1, <2>2, <2>3, <2>5, <2>6, <2>7, TreeHolds DEF AtRest
  <2> QED  BY <2>1, <2>6, <2>8, StillRuns, StillOps, StillPty, ActsStay, StayKeeps
<1>3. CASE FinishTree(c)
  <2>1. /\ call[c].at = "stopEach" /\ Acts(c) /\ Goes(c, "settleTree") /\ UNCHANGED <<runs, pty, ops>>
        /\ UNCHANGED <<parent, born, crowd, overlooked, asked, meddled, hollow, retries>>
        /\ (FenceOf(c) # None /\ Released(FenceOf(c))) \/ UNCHANGED <<fences, lost>>
    BY <1>3, FinishTreeDoes
  <2>2. call[c].kind \in {"stopTree", "repair"}  BY <2>1, Stepping
  <2>3. /\ call[c].kind = "stopTree" => /\ call[c].fence \in Calls /\ fences[call[c].fence] # "none"
                                        /\ call[call[c].fence].target = call[c].target
        /\ call[c].kind = "repair" => call[call[c].target].kind = "stopTree"
    BY <1>0, <2>1 DEF Holding, Loop
  <2>4. FenceOf(c) \in Calls \cup {None}  BY <2>2, <2>3 DEF FenceOf, Shape, Named
  <2>5. HistoryOK
    <3>1. CASE UNCHANGED <<fences, lost>>  BY <2>1, <3>1 DEF HistoryOK, TypeOK, Acts
    <3>2. CASE FenceOf(c) # None /\ Released(FenceOf(c))
      BY <2>1, <2>4, <3>2, ReleasedHistory DEF Acts
    <3> QED  BY <2>1, <3>1, <3>2
  <2>6. /\ call'[c].at = "settleTree" /\ call'[c].fence = call[c].fence  BY <2>1 DEF Goes, AtRest
  <2>7. call[c].kind = "stopTree" => fences'[call[c].fence] # "none"  BY <2>3, <2>5 DEF HistoryOK
  <2>8. Where(c)' /\ Holding(c)'  BY <2>1, <2>2, <2>3, <2>5, <2>6, <2>7, TreeHolds DEF AtRest
  <2> QED  BY <2>1, <2>5, <2>8, StillRuns, StillOps, StillPty, ActsStay, StayKeeps
<1>4. CASE SettleTreeStop(c)
  <2> DEFINE o == Journal(c)
             all == [ops[o] EXCEPT !.state = "completed", !.stopped = DoneBy(c)]
             some == [ops[o] EXCEPT !.state = "tree-stop-pending", !.stopped = DoneBy(c)]
  <2>1. /\ call[c].at = "settleTree" /\ Acts(c) /\ runs' = runs /\ pty' = pty /\ Quiet
        /\ ops' \in [Calls -> OpRecord] /\ (Goes(c, "ended") \/ Goes(c, "failed"))
        /\ \/ ops' = ops
           \/ ops' = [ops EXCEPT ![o] = all]
           \/ ops' = [ops EXCEPT ![o] = some]
    BY <1>4, SettleTreeStopDoes
  <2>2. call[c].kind \in {"stopTree", "repair"}  BY <2>1, Stepping
  <2>3. o \in Calls  BY JournalIs
  <2>4. ops[o] \in OpRecord  BY <2>3 DEF TypeOK
  <2>5. /\ all.rungs = ops[o].rungs /\ all.state = "completed"
        /\ some.rungs = ops[o].rungs /\ some.state = "tree-stop-pending"
    BY <2>4 DEF OpRecord
  <2>6. ops[o].state # "none"  BY <1>0, <2>1, <2>2, JournalIs DEF Shape, Named, Holding, AtRest
  <2> HIDE DEF all, some, o
  <2>7. OpsKept
    <3>1. CASE ops' = ops  BY <3>1, StillOps
    <3>2. CASE ops' = [ops EXCEPT ![o] = all]  BY <2>1, <2>3, <2>5, <2>6, <3>2, OneJournal
    <3>3. CASE ops' = [ops EXCEPT ![o] = some]
      <4>1. call[o].kind = "stopTree"  BY <1>0, <2>1, <2>2, JournalIs DEF Holding, Loop, o
      <4> QED  BY <2>1, <2>3, <2>5, <2>6, <3>3, <4>1, OneJournal
    <3> QED  BY <2>1, <3>1, <3>2, <3>3
  <2>8. Rests(c)  BY <2>1 DEF Goes, Rests
  <2>9. HistoryOK /\ UNCHANGED <<parent, born>>  BY <2>1, QuietHistory DEF Acts
  <2> QED  BY <2>1, <2>7, <2>8, <2>9, RestHolds, StillRuns, StillPty, ActsStay, StayKeeps
<1> QED  BY <1>1, <1>2, <1>3, <1>4

LEMMA EndHolds ==
  ASSUME TypeOK, Shape, Parameters, NEW c \in Calls, Acts(c), NEW ok \in BOOLEAN,
         Ends(c, ok), call[c].at \in Undoing, OpsKept
  PROVE  Where(c)' /\ Holding(c)'
<1>1. call[c].at # "new"  BY DEF Undoing
<1>2. CASE Rests(c)  BY <1>1, <1>2, RestHolds
<1>3. CASE call[c].kind = "continue" /\ Goes(c, "releaseOld")
  <2>1. ops'[c].state # "none"  BY <1>3 DEF Shape, Holding, Undoing, AtRest, OpsKept, Rewritten
  <2> QED  BY <1>3, <2>1, UndoHolds DEF Goes, Climber
<1>4. CASE call[c].kind = "repair" /\ Goes(c, "repairFence")  BY <1>4, UndoHolds DEF Goes
<1> QED  BY <1>2, <1>3, <1>4 DEF Ends, Goes, Rests

LEMMA UndoingKeeps ==
  ASSUME TypeOK, Shape, Parameters, NEW c \in Calls,
         \/ CompensateTerminal(c) \/ CompensateRun(c) \/ CompensateOperation(c)
         \/ ReleaseFencedRun(c)
  PROVE  TypeOK' /\ Shape'
<1>0. Holding(c)  BY DEF Shape
<1> DEFINE o == Journal(c)
<1>1. o \in Calls /\ o \in Runs /\ JournalOK(o)  BY JournalIs DEF Runs, Shape
<1>2. CASE CompensateTerminal(c)
  <2>1. /\ call[c].at = "compTerminal" /\ Acts(c) /\ runs' = runs /\ ops' = ops /\ Quiet
        /\ call'[c].at \in {"compRun", "compOp"}
        /\ \/ pty' = pty
           \/ "live" \in ops[o].rungs /\ pty' = [pty EXCEPT ![o] = "dead"]
    BY <1>2, CompensateTerminalDoes
  <2>2. PtyKept
    <3>1. CASE pty' = pty  BY <3>1, StillPty
    <3>2. CASE "live" \in ops[o].rungs /\ pty' = [pty EXCEPT ![o] = "dead"]
      <4>1. runs[o].life # "none"  BY <1>1, <3>2 DEF JournalOK
      <4> QED  BY <1>1, <3>2, <4>1, KilledPty
    <3> QED  BY <2>1, <3>1, <3>2
  <2>3. Climber(c) \/ call[c].kind = "repair"  BY <2>1, Stepping DEF Undoing
  <2>4. Climber(c) => ops'[c].state # "none"  BY <1>0, <2>1 DEF Holding, Climber, AtRest
  <2>5. Where(c)' /\ Holding(c)'  BY <2>1, <2>3, <2>4, UndoHolds DEF Undoing
  <2>6. HistoryOK /\ UNCHANGED <<parent, born>>  BY <2>1, QuietHistory DEF Acts
  <2> QED  BY <2>1, <2>2, <2>5, <2>6, StillRuns, StillOps, ActsStay, StayKeeps
<1>3. CASE CompensateRun(c)
  <2> DEFINE new == [runs[o] EXCEPT !.life = "failed", !.doubt = (call[c].outcome = "unsure")]
  <2>1. /\ call[c].at = "compRun" /\ Acts(c) /\ ops' = ops /\ pty' = pty /\ Quiet
        /\ runs' \in [Runs -> RunRecord]
        /\ Goes(c, "compOp") \/ Ends(c, FALSE)
        /\ runs' = runs \/ (Live(o) /\ runs' = [runs EXCEPT ![o] = new])
    BY <1>3, CompensateRunDoes
  <2>2. runs[o] \in RunRecord  BY <1>1, RunIs
  <2>3. new.agent = runs[o].agent /\ new.life # "none" /\ new.terminal = runs[o].terminal
    BY <2>2 DEF RunRecord
  <2> HIDE DEF new, o
  <2>4. RunsKept
    <3>1. CASE runs' = runs  BY <3>1, StillRuns
    <3>2. CASE Live(o) /\ runs' = [runs EXCEPT ![o] = new]
      <4>1. runs[o].life # "none"  BY <3>2 DEF Live
      <4> QED  BY <1>1, <2>1, <2>3, <3>2, <4>1, OneRun
    <3> QED  BY <2>1, <3>1, <3>2
  <2>5. Climber(c) \/ call[c].kind = "repair"  BY <2>1, Stepping DEF Undoing
  <2>6. Climber(c) => ops'[c].state # "none"  BY <1>0, <2>1 DEF Holding, Climber, AtRest
  <2>7. OpsKept  BY <2>1, StillOps
  <2>8. Where(c)' /\ Holding(c)'  BY <2>1, <2>5, <2>6, <2>7, UndoHolds, EndHolds DEF Undoing, Goes
  <2>9. HistoryOK /\ UNCHANGED <<parent, born>>  BY <2>1, QuietHistory DEF Acts
  <2> QED  BY <2>1, <2>4, <2>7, <2>8, <2>9, StillPty, ActsStay, StayKeeps
<1>4. CASE CompensateOperation(c)
  <2> DEFINE new == [ops[o] EXCEPT !.state = "recovery-required",
                        !.doubt = IF call[c].outcome = "none" THEN ops[o].doubt
                                  ELSE call[c].outcome = "unsure"]
  <2>1. /\ call[c].at = "compOp" /\ Acts(c) /\ runs' = runs /\ pty' = pty /\ Quiet
        /\ ops' \in [Calls -> OpRecord] /\ \E ok \in BOOLEAN : Ends(c, ok)
        /\ ops' = ops \/ ops' = [ops EXCEPT ![o] = new]
    BY <1>4, CompensateOperationDoes
  <2>2. ops[o] \in OpRecord  BY <1>1 DEF TypeOK
  <2>3. new.rungs = ops[o].rungs /\ new.state = "recovery-required"  BY <2>2 DEF OpRecord
  <2>4. ops[o].state # "none"
    <3>1. Climber(c) \/ call[c].kind = "repair"  BY <2>1, Stepping DEF Undoing
    <3> QED  BY <1>0, <2>1, <3>1, JournalIs DEF Shape, Named, Holding, AtRest, Climber
  <2> HIDE DEF new, o
  <2>5. OpsKept  BY <1>1, <2>1, <2>3, <2>4, StillOps, OneJournal
  <2>6. Where(c)' /\ Holding(c)'  BY <2>1, <2>5, EndHolds DEF Undoing
  <2>7. HistoryOK /\ UNCHANGED <<parent, born>>  BY <2>1, QuietHistory DEF Acts
  <2> QED  BY <2>1, <2>5, <2>6, <2>7, StillRuns, StillPty, ActsStay, StayKeeps
<1>5. CASE ReleaseFencedRun(c)
  <2> DEFINE r == call[c].old
             new == [runs[r] EXCEPT !.life = "recovery-required", !.doubt = TRUE]
  <2>1. /\ call[c].at = "releaseOld" /\ Acts(c) /\ ops' = ops /\ pty' = pty /\ Quiet
        /\ runs' \in [Runs -> RunRecord] /\ (Goes(c, "failed") \/ Goes(c, "refused"))
        /\ \/ runs' = runs
           \/ runs[r].life = "continuation-pending" /\ runs' = [runs EXCEPT ![r] = new]
    BY <1>5, ReleaseFencedRunDoes
  <2>2. r \in Runs  BY <2>1, Stepping DEF Shape, Named
  <2>3. runs[r] \in RunRecord  BY <2>2, RunIs
  <2>4. new.agent = runs[r].agent /\ new.life # "none" /\ new.terminal = runs[r].terminal
    BY <2>3 DEF RunRecord
  <2> HIDE DEF new, r
  <2>5. RunsKept
    <3>1. CASE runs' = runs  BY <3>1, StillRuns
    <3>2. CASE runs[r].life = "continuation-pending" /\ runs' = [runs EXCEPT ![r] = new]
      BY <2>1, <2>2, <2>4, <3>2, OneRun
    <3> QED  BY <2>1, <3>1, <3>2
  <2>6. Rests(c)  BY <2>1 DEF Goes, Rests
  <2>7. HistoryOK /\ UNCHANGED <<parent, born>>  BY <2>1, QuietHistory DEF Acts
  <2> QED  BY <2>1, <2>5, <2>6, <2>7, RestHolds, StillOps, StillPty, ActsStay, StayKeeps
<1> QED  BY <1>2, <1>3, <1>4, <1>5

LEMMA RepairKeeps ==
  ASSUME TypeOK, Shape, Parameters, NEW c \in Calls,
         Judge(c) \/ RepairFence(c) \/ RepairSettle(c)
  PROVE  TypeOK' /\ Shape'
<1> DEFINE o == call[c].target
<1>1. call[c].at \in {"judge", "repairFence", "repairSettle"}
  BY DEF Judge, RepairFence, RepairSettle
<1>2. call[c].kind = "repair" /\ o \in Calls /\ ops[o].state # "none" /\ call[c].at # "new" /\ JournalOK(o)
  BY <1>1, Stepping DEF Shape, Named
<1>3. CASE Judge(c)
  <2>1. /\ Acts(c) /\ UNCHANGED <<runs, pty, ops>>
        /\ UNCHANGED <<hollow, parent, born, fences, crowd, overlooked, lost, asked, retries>>
        /\ meddled' \in {meddled, meddled \cup {o}}
        /\ \/ Goes(c, "ended") \/ Goes(c, "failed") \/ Goes(c, "compTerminal")
           \/ call'[c].at = "stopEach" /\ ops[o].state = "tree-stop-pending"
    BY <1>3, JudgeDoes
  <2>2. HistoryOK  BY <1>2, <2>1 DEF HistoryOK, TypeOK, Acts
  <2>3. Where(c)' /\ Holding(c)'
    <3>1. CASE Goes(c, "ended") \/ Goes(c, "failed")  BY <1>2, <2>1, <3>1, RestHolds DEF Rests, Goes
    <3>2. CASE Goes(c, "compTerminal")  BY <1>2, <2>1, <3>2, UndoHolds DEF Undoing, Goes
    <3>3. CASE call'[c].at = "stopEach" /\ ops[o].state = "tree-stop-pending"
      BY <1>2, <2>1, <2>2, <3>3, TreeHolds DEF JournalOK
    <3> QED  BY <2>1, <3>1, <3>2, <3>3
  <2> QED  BY <2>1, <2>2, <2>3, StillRuns, StillOps, StillPty, ActsStay, StayKeeps
<1>4. CASE RepairFence(c)
  <2>1. /\ Acts(c) /\ UNCHANGED <<runs, pty, ops>>
        /\ UNCHANGED <<hollow, meddled, parent, born, crowd, overlooked, lost, asked, retries>>
        /\ Goes(c, "failed") \/ Goes(c, "repairSettle")
        /\ \/ fences' = fences
           \/ fences[o] = "closing" /\ fences' = [fences EXCEPT ![o] = "released"]
    BY <1>4, RepairFenceDoes
  <2>2. HistoryOK  BY <1>2, <2>1 DEF HistoryOK, TypeOK, Acts
  <2>3. Where(c)' /\ Holding(c)'  BY <1>2, <2>1, RestHolds, UndoHolds DEF Rests, Goes
  <2> QED  BY <2>1, <2>2, <2>3, StillRuns, StillOps, StillPty, ActsStay, StayKeeps
<1>5. CASE RepairSettle(c)
  <2> DEFINE new == [ops[o] EXCEPT !.state = "completed"]
  <2>1. /\ Acts(c) /\ runs' = runs /\ pty' = pty /\ Quiet /\ ops' \in [Calls -> OpRecord]
        /\ Goes(c, "refused") \/ Goes(c, "failed") \/ Goes(c, "ended")
        /\ ops' = ops \/ ops' = [ops EXCEPT ![o] = new]
    BY <1>5, RepairSettleDoes
  <2>2. ops[o] \in OpRecord  BY <1>2 DEF TypeOK
  <2>3. new.rungs = ops[o].rungs /\ new.state = "completed"  BY <2>2 DEF OpRecord
  <2> HIDE DEF new, o
  <2>4. OpsKept  BY <1>2, <2>1, <2>3, StillOps, OneJournal
  <2>5. Rests(c)  BY <2>1 DEF Rests, Goes
  <2>6. HistoryOK /\ UNCHANGED <<parent, born>>  BY <2>1, QuietHistory DEF Acts
  <2> QED  BY <1>2, <2>1, <2>4, <2>5, <2>6, RestHolds, StillRuns, StillPty, ActsStay, StayKeeps
<1> QED  BY <1>3, <1>4, <1>5

LEMMA OutsideKeeps ==
  ASSUME TypeOK, Shape, Parameters,
         Restart \/ \E r \in Runs : Exit(r) \/ SettleGone(r)
  PROVE  TypeOK' /\ Shape'
<1>1. ASSUME NEW r \in Runs, Exit(r) PROVE TypeOK' /\ Shape'
  <2>1. /\ pty[r] = "live" /\ pty' = [pty EXCEPT ![r] = "dead"]
        /\ asked' = asked \cup {runs[r].agent} /\ troubles' \in 0 .. MaxTroubles
        /\ UNCHANGED <<meddled, hollow, call, parent, runs, born, ops, fences, crowd, overlooked,
                       lost, retries>>
    BY <1>1, ExitDoes
  <2>2. runs[r].life # "none"  BY <2>1 DEF TypeOK
  <2>3. PtyKept  BY <2>1, <2>2, KilledPty
  <2>4. runs[r].agent \in Agents  BY <2>2 DEF TypeOK, RunRecord
  <2>5. HistoryOK  BY <2>1, <2>4 DEF TypeOK, HistoryOK
  <2>6. call' \in [Calls -> CallRecord] /\ \A d \in Calls : Stays(d)
    BY <2>1 DEF TypeOK, Stays, Same
  <2> QED  BY <2>1, <2>3, <2>5, <2>6, StillRuns, StillOps, StayKeeps
<1>2. ASSUME NEW r \in Runs, SettleGone(r) PROVE TypeOK' /\ Shape'
  <2> DEFINE new == [runs[r] EXCEPT !.life = "interrupted"]
  <2>1. /\ Live(r) /\ runs' \in [Runs -> RunRecord] /\ runs' = [runs EXCEPT ![r] = new]
        /\ call' \in [Calls -> CallRecord] /\ \A c \in Calls : Same(c)
        /\ UNCHANGED <<meddled, hollow, parent, pty, born, ops, fences, crowd, overlooked, lost,
                        asked, troubles, retries>>
    BY <1>2, SettleGoneDoes
  <2>2. runs[r].life # "none"  BY <2>1 DEF Live
  <2>3. new.agent = runs[r].agent /\ new.life # "none" /\ new.terminal = runs[r].terminal
    BY RunIs DEF Lifecycles, Final
  <2> HIDE DEF new
  <2>4. RunsKept  BY <2>1, <2>2, <2>3, OneRun
  <2>5. HistoryOK  BY <2>1 DEF TypeOK, HistoryOK
  <2>6. \A d \in Calls : Stays(d)  BY <2>1 DEF Stays, Same
  <2> QED  BY <2>1, <2>4, <2>5, <2>6, StillPty, StillOps, StayKeeps
<1>3. ASSUME Restart PROVE TypeOK' /\ Shape'
  <2>1. /\ troubles' \in 0 .. MaxTroubles /\ call' \in [Calls -> CallRecord]
        /\ \A c \in Calls :
              /\ ~Working(c) => call'[c] = call[c]
              /\ Working(c) => Goes(c, "failed")
        /\ runs' \in [Runs -> RunRecord]
        /\ runs' = [r \in Runs |-> IF Live(r) THEN [runs[r] EXCEPT !.life = "interrupted"]
                                   ELSE runs[r]]
        /\ asked' = asked \cup {runs[r].agent : r \in {q \in Runs : Live(q)}}
        /\ pty' = [r \in Runs |-> IF pty[r] = "live" THEN "dead" ELSE pty[r]]
        /\ ops' \in [Calls -> OpRecord]
        /\ \A o \in Calls :
              /\ ops'[o].rungs = ops[o].rungs
              /\ ops[o].state \in {"none", "completed", "recovery-required"} =>
                   ops'[o].state = ops[o].state
              /\ ops[o].state \notin {"none", "completed", "recovery-required"} =>
                   ops'[o].state = "recovery-required"
        /\ UNCHANGED <<meddled, hollow, parent, born, fences, crowd, overlooked, lost, retries>>
    BY <1>3, RestartDoes
  <2>2. RunsKept
    <3>1. \A r \in Runs : Live(r) => runs[r].life # "none"  BY DEF Live
    <3>2. \A r \in Runs : /\ [runs[r] EXCEPT !.life = "interrupted"].agent = runs[r].agent
                          /\ [runs[r] EXCEPT !.life = "interrupted"].life = "interrupted"
                          /\ [runs[r] EXCEPT !.life = "interrupted"].terminal = runs[r].terminal
      BY RunIs DEF Lifecycles, Final
    <3> QED  BY <2>1, <3>1, <3>2 DEF RunsKept
  <2>3. PtyKept
    <3>1. \A r \in Runs : pty[r] \in {"none", "live", "dead"}  BY DEF TypeOK
    <3>2. \A r \in Runs : pty[r] # "none" => runs[r].life # "none"  BY DEF TypeOK
    <3> QED  BY <2>1, <3>1, <3>2 DEF PtyKept
  <2>4. HistoryOK
    <3>1. \A r \in Runs : Live(r) => runs[r].agent \in Agents  BY DEF Live, TypeOK, RunRecord
    <3> QED  BY <2>1, <3>1 DEF TypeOK, HistoryOK
  <2>5. ASSUME NEW d \in Calls PROVE Stays(d)
    <3>1. CASE ~Working(d)  BY <2>1, <3>1 DEF Stays, Same
    <3>2. CASE Working(d)
      <4>1. call[d].kind # "none"  BY <3>2, Stepping DEF Working, AtRest
      <4>2. Goes(d, "failed")  BY <2>1, <3>2
      <4>3. Where(d)'  BY <4>1, <4>2 DEF Where, Goes, AtRest
      <4>4. Holding(d)'  BY <4>2 DEF Holding, Goes, AtRest, HasRun, HasJournal, Closer, Loop
      <4> QED  BY <4>2, <4>3, <4>4 DEF Stays, Goes
    <3> QED  BY <3>1, <3>2
  <2>6. TypeOK'
    <3>1. \A r \in Runs : /\ runs'[r].life = "none" <=> runs'[r].agent = None
                          /\ runs'[r].agent # None => (runs'[r].agent = Root \/ parent'[runs'[r].agent] # None)
                          /\ pty'[r] # "none" => runs'[r].life # "none"
      BY <2>1, <2>2, <2>3 DEF TypeOK, RunsKept, PtyKept, Exists
    <3> QED  BY <2>1, <2>2, <2>3, <2>4, <3>1 DEF TypeOK, RunsKept, PtyKept, HistoryOK, Exists
  <2>7. Shape'
    <3>1. \A a : Exists(a)' <=> Exists(a)  BY <2>1 DEF Exists
    <3>2. ASSUME NEW d \in Calls PROVE Named(d)' /\ Where(d)' /\ Holding(d)' /\ JournalOK(d)'
      <4>1. Named(d) /\ Where(d) /\ Holding(d) /\ JournalOK(d) /\ Stays(d)  BY <2>5 DEF Shape
      <4>2. Where(d)'  BY <4>1 DEF Stays, Where, Same
      <4>3. call[d].kind \in {"continue", "stop"} => runs'[call[d].old].agent = runs[call[d].old].agent
        BY <2>2, <4>1 DEF Named, RunsKept
      <4>4. call[d].kind = "repair" => ops'[call[d].target].state # "none"  BY <2>1, <4>1 DEF Named
      <4>5. Named(d)'  BY <3>1, <4>1, <4>3, <4>4 DEF Named, Stays
      <4>6. Holding(d)'
        <5>1. CASE Working(d)
          <6>1. call'[d].at = "failed"  BY <2>1, <5>1 DEF Goes
          <6> QED  BY <6>1 DEF Holding, AtRest, HasRun, HasJournal, Closer, Loop
        <5>2. CASE ~Working(d)
          <6>1. call'[d].at = call[d].at /\ call[d].at \in AtRest  BY <2>1, <5>2 DEF Working
          <6> QED  BY <6>1 DEF Holding, AtRest, HasRun, HasJournal, Closer, Loop
        <5> QED  BY <5>1, <5>2
      <4>7. d \in Runs /\ (runs'[d].life = "none" <=> runs[d].life = "none")
        BY <2>2 DEF RunsKept, Runs
      <4>8. ops[d].state = "none" => ops'[d] = NoOp
        <5>1. SUFFICES ASSUME ops[d].state = "none" PROVE ops'[d] = NoOp
          OBVIOUS
        <5>2. ops[d] = NoOp  BY <4>1, <5>1 DEF JournalOK
        <5>3. ops' = [o \in Calls |->
                IF ops[o].state \in {"none", "completed", "recovery-required"}
                THEN [ops[o] EXCEPT !.mine = FALSE]
                ELSE [ops[o] EXCEPT !.mine = FALSE, !.state = "recovery-required",
                          !.doubt = @ \/ {"reserved", "live"} \cap ops[o].rungs # {}]]
          BY <1>3 DEF Restart
        <5>4. ops'[d] = [ops[d] EXCEPT !.mine = FALSE]  BY <5>1, <5>3
        <5>5. ops \in [Calls -> OpRecord]  BY DEF TypeOK
        <5>6. ops[d].mine = FALSE  BY <5>2 DEF NoOp
        <5>7. [ops[d] EXCEPT !.mine = FALSE] = ops[d]  BY <5>5, <5>6 DEF OpRecord
        <5> QED  BY <5>2, <5>4, <5>7
      <4>9. JournalOK(d)'  BY <2>1, <4>1, <4>7, <4>8 DEF JournalOK, Stays, Climber
      <4> QED  BY <4>2, <4>5, <4>6, <4>9
    <3>3. ASSUME NEW r \in Runs PROVE RunOK(r)'
      <4>1. RunOK(r)  BY DEF Shape
      <4>2. r \in Calls => call'[r].kind = call[r].kind /\ call'[r].target = call[r].target
        BY <2>5 DEF Stays
      <4> QED  BY <2>2, <4>1, <4>2 DEF RunOK, RunsKept, Climber, AgentOf
    <3>4. BornOK'  BY <2>1, <2>2 DEF BornOK, RunsKept, Shape
    <3>5. ParentOK'
      <4>1. ASSUME NEW a \in Agents, parent[a] # None
            PROVE  a \in Calls /\ call'[a].kind = "spawn" /\ parent[a] = call'[a].target
        BY <4>1, <2>5 DEF ParentOK, Shape, Stays
      <4> QED  BY <2>1, <4>1 DEF ParentOK
    <3> QED  BY <3>2, <3>3, <3>4, <3>5 DEF Shape
  <2> QED  BY <2>6, <2>7
<1> QED  BY <1>1, <1>2, <1>3

LEMMA IdentityKeeps ==
  ASSUME TypeOK, Shape, Parameters, NEW c \in Calls, Identity(c)
  PROVE  TypeOK' /\ Shape'
<1>1. /\ Climbs(c, "identity", "identity", ops[c].state, "reserve")
      /\ UNCHANGED <<born, fences, crowd, overlooked, lost, asked, meddled, hollow, retries>>
      /\ \/ parent' = [parent EXCEPT ![c] = call[c].target]
         \/ parent' = parent /\ call'[c].at = "compTerminal"
  BY IdentityClimbs
<1>2. call[c].at = "identity" /\ call[c].kind = "spawn"  BY <1>1, Stepping DEF Climbs
<1>3. call[c].target \in Agents /\ call[c].target # None
  BY <1>2 DEF Shape, Named, Agents, Parameters
<1>4. ops[c].state \in OpStates \ {"none", "tree-stop-pending"}
  BY <1>2, OpStateType DEF Shape, Holding, JournalOK, AtRest
<1>5. OpsKept
  <2>1. CASE ops' = ops  BY <2>1, StillOps
  <2>2. CASE ops' = [ops EXCEPT ![c] = [ops[c] EXCEPT !.rungs = @ \cup {"identity"}, !.state = ops[c].state]]
    BY <1>1, <1>2, <1>4, <2>2, OneRung DEF Climbs, Climber, Rungs
  <2> QED  BY <1>1, <2>1, <2>2 DEF Climbs
<1>6. /\ parent' \in [Agents -> Agents \cup {None}]
      /\ \A a \in Agents : parent'[a] # None <=> (parent[a] # None \/ (a = c /\ parent' # parent))
      /\ \A a \in Agents : parent'[a] # parent[a] => a = c /\ parent'[a] = call[c].target
  <2>1. CASE parent' = parent  BY <2>1 DEF TypeOK
  <2>2. CASE parent' = [parent EXCEPT ![c] = call[c].target]
    <3>1. c \in Agents /\ parent \in [Agents -> Agents \cup {None}]  BY DEF TypeOK, Agents
    <3>2. parent'[c] = call[c].target /\ \A a \in Agents \ {c} : parent'[a] = parent[a]
      BY <2>2, <3>1
    <3>3. parent' # parent \/ parent[c] = call[c].target  BY <3>2
    <3> QED  BY <1>3, <2>2, <3>1, <3>2, <3>3
  <2> QED  BY <1>1, <2>1, <2>2
<1>7. \A a \in Agents : Exists(a) => Exists(a)'  BY <1>6 DEF Exists
<1>8. Acts(c) /\ runs' = runs /\ pty' = pty  BY <1>1 DEF Climbs
<1>9. TypeOK'
  <2>1. \A r \in Runs : runs'[r].agent # None =>
           runs'[r].agent = Root \/ parent'[runs'[r].agent] # None
    BY <1>6, <1>8 DEF TypeOK, Exists, RunRecord
  <2> QED  BY <1>1, <1>5, <1>6, <1>8, <2>1 DEF TypeOK, OpsKept, Acts, Exists
<1>10. ASSUME NEW d \in Calls PROVE Where(d)' /\ Named(d)' /\ Holding(d)' /\ JournalOK(d)'
  <2>1. Where(d) /\ Named(d) /\ Holding(d) /\ JournalOK(d)  BY DEF Shape
  <2>2. /\ call'[d].kind = call[d].kind /\ call'[d].target = call[d].target
        /\ call'[d].old = call[d].old
    BY <1>8 DEF Acts, Others, Same
  <2>3. Named(d)'
    <3>1. call[d].kind = "repair" => ops'[call[d].target].state # "none"
      BY <2>1, <1>5 DEF Named, OpsKept, Rewritten
    <3>2. call[d].kind = "spawn" => call[d].target = Root \/ parent'[call[d].target] # None
      BY <2>1, <1>7 DEF Named, Exists
    <3> QED  BY <1>8, <2>1, <2>2, <3>1, <3>2 DEF Named, Exists
  <2>4. JournalOK(d)'
    <3>1. fences' = fences  BY <1>1
    <3>2. CASE ops'[d] = ops[d]  BY <1>8, <2>1, <2>2, <3>1, <3>2 DEF JournalOK, Climber
    <3>3. CASE Rewritten(d)  BY <1>8, <2>1, <2>2, <3>1, <3>3 DEF Rewritten, JournalOK, Climber
    <3> QED  BY <1>5, <3>2, <3>3 DEF OpsKept
  <2>5. Where(d)' /\ Holding(d)'
    <3>1. CASE d # c
      <4>1. Same(d)  BY <1>8, <3>1 DEF Acts, Others
      <4>2. Where(d)'  BY <2>1, <4>1 DEF Where, Same
      <4>3. ops[d].rungs \subseteq ops'[d].rungs /\ (ops[d].state # "none" => ops'[d].state # "none")
        BY <1>5 DEF OpsKept, Rewritten
      <4>4. /\ call[d].kind = "repair" => call'[call[d].target].kind = call[call[d].target].kind
            /\ call[d].kind = "stopTree" /\ call[d].at \in {"snapshot"} \cup Loop =>
                 call'[call[d].fence].target = call[call[d].fence].target
        BY <1>8, <2>1 DEF Named, Holding, Acts, Others, Same
      <4>5. parent[d] # None => parent'[d] # None  BY <1>6 DEF Agents
      <4>6. fences' = fences  BY <1>1
      <4>7. Holding(d)'  BY <1>8, <2>1, <4>1, <4>3, <4>4, <4>5, <4>6 DEF Holding, Same, Climber
      <4> QED  BY <4>2, <4>7
    <3>2. CASE d = c
      <4>1. ops'[c].state # "none"  BY <1>4, <1>5 DEF OpsKept, Rewritten
      <4>2. CASE Goes(c, "compTerminal")
        BY <1>2, <1>8, <3>2, <4>1, <4>2, UndoHolds DEF Goes, Undoing, Climber
      <4>3. CASE Goes(c, "reserve")
        <5>1. parent' = [parent EXCEPT ![c] = call[c].target]  BY <1>1, <4>3 DEF Goes
        <5>2. parent'[c] # None  BY <1>3, <5>1 DEF TypeOK, Agents
        <5> QED  BY <1>2, <3>2, <4>1, <4>3, <5>2
                 DEF Goes, Where, Holding, HasRun, HasJournal, Closer, Loop, AtRest
      <4> QED  BY <1>1, <4>2, <4>3 DEF Climbs
    <3> QED  BY <3>1, <3>2
  <2> QED  BY <2>3, <2>4, <2>5
<1>11. ASSUME NEW r \in Runs PROVE RunOK(r)'
  <2>1. r \in Calls => call'[r].kind = call[r].kind /\ call'[r].target = call[r].target
    BY <1>8 DEF Acts, Others, Same
  <2> QED  BY <1>8, <2>1 DEF RunOK, Shape, Climber, AgentOf
<1>12. BornOK'  BY <1>1, <1>8 DEF BornOK, Shape
<1>13. ParentOK'
  <2>1. ASSUME NEW a \in Agents, parent'[a] # None
        PROVE  a \in Calls /\ call'[a].kind = "spawn" /\ parent'[a] = call'[a].target
    <3>1. CASE parent'[a] = parent[a]
      <4>1. a \in Calls /\ call[a].kind = "spawn" /\ parent[a] = call[a].target
        BY <2>1, <3>1 DEF ParentOK, Shape
      <4> QED  BY <1>8, <3>1, <4>1 DEF Acts, Others, Same
    <3>2. CASE parent'[a] # parent[a]  BY <1>2, <1>6, <1>8, <3>2 DEF Acts
    <3> QED  BY <3>1, <3>2
  <2> QED  BY <2>1 DEF ParentOK
<1> QED  BY <1>9, <1>10, <1>11, <1>12, <1>13 DEF Shape

LEMMA BornGrows ==
  ASSUME TypeOK, Shape, NEW c \in Runs, runs[c].life = "none", born' = Append(born, c)
  PROVE  /\ born' \in Seq(Runs) /\ DOMAIN born' = 1 .. (Len(born) + 1) /\ DOMAIN born = 1 .. Len(born)
         /\ Len(born) \in Nat
         /\ born'[Len(born) + 1] = c /\ \A i \in 1 .. Len(born) : born'[i] = born[i] /\ born[i] # c
<1>1. born \in Seq(Runs)  BY DEF Shape, BornOK
<1>2. /\ born' \in Seq(Runs) /\ DOMAIN born' = 1 .. (Len(born) + 1) /\ DOMAIN born = 1 .. Len(born)
      /\ Len(born) \in Nat
      /\ born'[Len(born) + 1] = c /\ \A i \in 1 .. Len(born) : born'[i] = born[i]
  BY <1>1
<1>3. \A i \in DOMAIN born : born[i] # c  BY DEF Shape, BornOK
<1> QED  BY <1>2, <1>3

LEMMA ReserveRunKeeps ==
  ASSUME TypeOK, Shape, Parameters, NEW c \in Calls, ReserveRun(c)
  PROVE  TypeOK' /\ Shape'
<1> DEFINE new == [NoRun EXCEPT !.agent = AgentOf(c), !.life = "provisioning"]
<1>1. /\ call[c].at = "reserve" /\ Acts(c) /\ ops' = ops /\ pty' = pty
      /\ UNCHANGED <<parent, fences, crowd, overlooked, lost, asked, meddled, hollow, retries>>
      /\ runs' \in [Runs -> RunRecord]
      /\ \/ /\ runs' = runs /\ born' = born
            /\ (Goes(c, "journalRun") /\ runs[c].life # "none") \/ Goes(c, "compTerminal")
         \/ /\ runs[c].life = "none"
            /\ runs' = [runs EXCEPT ![c] = new]
            /\ born' = Append(born, c)
            /\ Goes(c, "journalRun") \/ Goes(c, "compTerminal")
  BY ReserveRunDoes
<1>2. Climber(c) /\ c \in Runs  BY <1>1, Stepping DEF Runs
<1>3. Where(c) /\ Named(c) /\ Holding(c)  BY DEF Shape
<1>4. ops[c].state # "none"  BY <1>1, <1>2, <1>3 DEF Holding, Climber, AtRest
<1>5. Goes(c, "journalRun") /\ runs'[c].life # "none" => Where(c)' /\ Holding(c)'
  BY <1>1, <1>2, <1>4 DEF Goes, Where, Holding, Climber, HasRun, HasJournal, Closer, Loop, AtRest, Undoing
<1>6. Goes(c, "compTerminal") => Where(c)' /\ Holding(c)'
  BY <1>1, <1>2, <1>4, UndoHolds DEF Goes, Undoing
<1>7. HistoryOK  BY <1>1 DEF HistoryOK, TypeOK, Acts
<1>8. CASE /\ runs' = runs /\ born' = born
           /\ (Goes(c, "journalRun") /\ runs[c].life # "none") \/ Goes(c, "compTerminal")
  BY <1>1, <1>5, <1>6, <1>7, <1>8, StillRuns, StillOps, StillPty, ActsStay, StayKeeps
<1>9. CASE /\ runs[c].life = "none"
           /\ runs' = [runs EXCEPT ![c] = new]
           /\ born' = Append(born, c)
           /\ Goes(c, "journalRun") \/ Goes(c, "compTerminal")
  <2>1. AgentOf(c) \in Agents /\ Exists(AgentOf(c))
    <3>1. CASE call[c].kind = "spawn"
      <4>1. parent[c] # None  BY <1>1, <1>3, <3>1 DEF Holding
      <4> QED  BY <3>1, <4>1 DEF AgentOf, Exists, Agents
    <3>2. CASE call[c].kind = "continue"
      <4>1. call[c].old \in Runs /\ runs[call[c].old].agent = call[c].target /\ call[c].target \in Agents
        BY <1>3, <3>2 DEF Named
      <4>2. call[c].target # None  BY <4>1 DEF Agents, Parameters
      <4> QED  BY <3>2, <4>1, <4>2 DEF AgentOf, TypeOK
    <3> QED  BY <1>2, <3>1, <3>2 DEF Climber
  <2>2. AgentOf(c) # None  BY <2>1 DEF Agents, Parameters
  <2>3. new.agent = AgentOf(c) /\ new.life = "provisioning"  BY DEF NoRun
  <2> HIDE DEF new
  <2>4. runs'[c] = new /\ \A r \in Runs \ {c} : runs'[r] = runs[r]  BY <1>2, <1>9 DEF TypeOK
  <2>5. runs'[c].life # "none"  BY <2>3, <2>4
  <2>6. Where(c)' /\ Holding(c)'  BY <1>5, <1>6, <1>9, <2>5
  <2>7. \A a : Exists(a)' <=> Exists(a)  BY <1>1 DEF Exists
  <2>8. /\ born' \in Seq(Runs) /\ DOMAIN born' = 1 .. (Len(born) + 1) /\ DOMAIN born = 1 .. Len(born)
        /\ Len(born) \in Nat
        /\ born'[Len(born) + 1] = c /\ \A i \in 1 .. Len(born) : born'[i] = born[i] /\ born[i] # c
    BY <1>2, <1>9, BornGrows
  <2>9. TypeOK'
    <3>1. ASSUME NEW r \in Runs
          PROVE  /\ runs'[r].life = "none" <=> runs'[r].agent = None
                 /\ runs'[r].agent # None => runs'[r].agent = Root \/ parent'[runs'[r].agent] # None
                 /\ pty'[r] # "none" => runs'[r].life # "none"
      <4>1. CASE r = c  BY <1>1, <2>1, <2>2, <2>3, <2>4, <4>1 DEF Exists
      <4>2. CASE r # c  BY <1>1, <2>4, <4>2 DEF TypeOK, Exists
      <4> QED  BY <4>1, <4>2
    <3>2. \A i, j \in DOMAIN born' : born'[i] = born'[j] => i = j
      <4>1. \A i, j \in 1 .. Len(born) : born[i] = born[j] => i = j  BY <2>8 DEF TypeOK
      <4> QED  BY <2>8, <4>1
    <3>3. ops' \in [Calls -> OpRecord] /\ parent' \in [Agents -> Agents \cup {None}]
          /\ pty' \in [Runs -> {"none", "live", "dead"}]
      BY <1>1 DEF TypeOK
    <3> QED  BY <1>1, <1>7, <3>1, <3>2, <3>3 DEF TypeOK, Acts, HistoryOK, Exists
  <2>10. ASSUME NEW d \in Calls PROVE Where(d)' /\ Named(d)' /\ Holding(d)' /\ JournalOK(d)'
    <3>1. Where(d) /\ Named(d) /\ Holding(d) /\ JournalOK(d)  BY DEF Shape
    <3>2. /\ call'[d].kind = call[d].kind /\ call'[d].target = call[d].target
          /\ call'[d].old = call[d].old
      BY <1>1 DEF Acts, Others, Same
    <3>3. Named(d)'
      <4>1. call[d].kind \in {"continue", "stop"} => call[d].old # c
        BY <1>9, <2>2, <3>1 DEF Named, TypeOK, Parameters, Agents
      <4> QED  BY <1>1, <2>4, <2>7, <3>1, <3>2, <4>1 DEF Named
    <3>4. JournalOK(d)'
      <4>1. runs[d].life # "none" => runs'[d].life # "none"  BY <2>4, <2>5 DEF Runs
      <4> QED  BY <1>1, <3>1, <3>2, <4>1 DEF JournalOK, Climber
    <3>5. Where(d)' /\ Holding(d)'
      <4>1. CASE d # c
        <5>1. Same(d)  BY <1>1, <4>1 DEF Acts, Others
        <5>2. Where(d)'  BY <3>1, <5>1 DEF Where, Same
        <5>3. /\ call[d].kind = "repair" => call'[call[d].target].kind = call[call[d].target].kind
              /\ call[d].kind = "stopTree" /\ call[d].at \in {"snapshot"} \cup Loop =>
                   call'[call[d].fence].target = call[call[d].fence].target
          BY <1>1, <3>1 DEF Named, Holding, Acts, Others, Same
        <5>4. runs[d].life # "none" => runs'[d].life # "none"  BY <2>4, <2>5 DEF Runs
        <5>5. call[d].at \in Closer => runs'[call[d].victim].life # "none"
          BY <2>4, <2>5, <3>1 DEF Holding
        <5>6. Holding(d)'  BY <1>1, <3>1, <5>1, <5>3, <5>4, <5>5 DEF Holding, Same, Climber
        <5> QED  BY <5>2, <5>6
      <4> QED  BY <2>6, <4>1
    <3> QED  BY <3>3, <3>4, <3>5
  <2>11. ASSUME NEW r \in Runs PROVE RunOK(r)'
    <3>1. r \in Calls => call'[r].kind = call[r].kind /\ call'[r].target = call[r].target
      BY <1>1 DEF Acts, Others, Same
    <3>2. CASE r = c
      <4>1. c # Root  BY DEF Parameters
      <4> QED  BY <1>2, <2>3, <2>4, <3>1, <3>2, <4>1 DEF RunOK, Climber, AgentOf
    <3>3. CASE r # c  BY <2>4, <3>1, <3>3 DEF RunOK, Shape, Climber, AgentOf
    <3> QED  BY <3>2, <3>3
  <2>12. BornOK'
    <3>1. ASSUME NEW r \in Runs
          PROVE  runs'[r].life # "none" <=> \E i \in DOMAIN born' : born'[i] = r
      <4>1. CASE r = c  BY <2>5, <2>8, <4>1
      <4>2. CASE r # c
        <5>1. runs'[r].life # "none" <=> \E i \in 1 .. Len(born) : born[i] = r
          BY <2>4, <2>8, <4>2 DEF Shape, BornOK
        <5>2. (\E i \in 1 .. (Len(born) + 1) : born'[i] = r) <=> \E i \in 1 .. Len(born) : born[i] = r
          BY <2>8, <4>2
        <5> QED  BY <2>8, <5>1, <5>2
      <4> QED  BY <4>1, <4>2
    <3> QED  BY <2>8, <3>1 DEF BornOK
  <2>13. ParentOK'
    <3>1. ASSUME NEW a \in Agents, parent[a] # None
          PROVE  a \in Calls /\ call'[a].kind = "spawn" /\ parent[a] = call'[a].target
      BY <3>1, <1>1 DEF ParentOK, Shape, Acts, Others, Same
    <3> QED  BY <1>1, <3>1 DEF ParentOK
  <2> QED  BY <2>9, <2>10, <2>11, <2>12, <2>13 DEF Shape
<1> QED  BY <1>1, <1>8, <1>9

LEMMA InitShape ==
  ASSUME Parameters, Init
  PROVE  TypeOK /\ Shape
<1>1. Idle \in CallRecord /\ Idle.kind = "none" /\ Idle.at = "new"
  BY DEF Idle, CallRecord, Steps, AtRest
<1>2. NoOp \in OpRecord /\ NoOp.state = "none" /\ NoOp.rungs = {}  BY DEF NoOp, OpRecord, OpStates
<1>3. NoRun \in RunRecord /\ NoRun.life = "none" /\ NoRun.agent = None
  BY DEF NoRun, RunRecord, Lifecycles, Final
<1> DEFINE mine == [agent |-> Root, life |-> "ready", terminal |-> TRUE, doubt |-> FALSE]
<1>4. mine \in RunRecord /\ mine.agent = Root /\ mine.life = "ready" /\ mine.terminal
  BY DEF RunRecord, Lifecycles, Agents
<1> HIDE DEF mine
<1>5. /\ \A c \in Calls : call[c] = Idle /\ ops[c] = NoOp /\ fences[c] = "none" /\ c # Root
      /\ \A a \in Agents : parent[a] = None
      /\ \A r \in Runs : runs[r] = (IF r = Root THEN mine ELSE NoRun)
      /\ \A r \in Runs : pty[r] = (IF r = Root THEN "live" ELSE "none")
      /\ born = <<Root>> /\ Root \in Runs /\ Root # None
  BY DEF Init, mine, Runs, Parameters
<1>6. TypeOK
  <2>1. /\ call \in [Calls -> CallRecord] /\ ops \in [Calls -> OpRecord] /\ runs \in [Runs -> RunRecord]
        /\ parent \in [Agents -> Agents \cup {None}] /\ pty \in [Runs -> {"none", "live", "dead"}]
    BY <1>1, <1>2, <1>3, <1>4 DEF Init, mine
  <2>2. \A r \in Runs : /\ runs[r].life = "none" <=> runs[r].agent = None
                        /\ runs[r].agent # None => Exists(runs[r].agent)
                        /\ pty[r] # "none" => runs[r].life # "none"
    BY <1>3, <1>4, <1>5 DEF Exists
  <2>3. \A i, j \in DOMAIN born : born[i] = born[j] => i = j  BY <1>5
  <2>4. /\ fences \in [Calls -> {"none", "closing", "released"}]
        /\ crowd \in [Calls -> SUBSET Calls] /\ overlooked \subseteq Runs /\ lost \subseteq Calls
        /\ asked \subseteq Agents /\ meddled \subseteq Calls /\ hollow \subseteq Calls
    BY DEF Init
  <2>5. troubles \in 0 .. MaxTroubles /\ retries \in 0 .. MaxRetries
    BY DEF Init, Parameters
  <2> QED  BY <2>1, <2>2, <2>3, <2>4, <2>5 DEF TypeOK
<1>7. ASSUME NEW c \in Calls PROVE Where(c) /\ Named(c) /\ Holding(c) /\ JournalOK(c)
  BY <1>1, <1>2, <1>5
  DEF Where, Named, Holding, JournalOK, Climber, HasRun, HasJournal, Closer, Loop, AtRest
<1>8. \A r \in Runs : RunOK(r)  BY <1>3, <1>4, <1>5 DEF RunOK
<1>9. BornOK
  <2>1. born \in Seq(Runs) /\ DOMAIN born = {1} /\ born[1] = Root  BY <1>5
  <2> QED  BY <1>3, <1>4, <1>5, <2>1 DEF BornOK
<1>10. ParentOK  BY <1>5 DEF ParentOK
<1> QED  BY <1>6, <1>7, <1>8, <1>9, <1>10 DEF Shape

LEMMA NextShape ==
  ASSUME TypeOK, Shape, Parameters, [Next]_vars
  PROVE  TypeOK' /\ Shape'
<1>1. CASE UNCHANGED vars
  <2>1. TypeOK'  BY <1>1 DEF vars, TypeOK, Exists
  <2>2. \A c \in Calls : Where(c)' /\ Named(c)' /\ Holding(c)' /\ JournalOK(c)'
    BY <1>1 DEF vars, Shape, Where, Named, Holding, JournalOK, Climber, Exists
  <2>3. (\A r \in Runs : RunOK(r)') /\ BornOK' /\ ParentOK'
    BY <1>1 DEF vars, Shape, RunOK, BornOK, ParentOK, Climber, AgentOf
  <2> QED  BY <2>1, <2>2, <2>3 DEF Shape
<1>2. CASE Next
  BY <1>2, SendKeeps, SendAgainKeeps, AdmitKeeps, OpenOperationKeeps, IdentityKeeps, PatchesKeep,
     LadderKeeps, ReserveRunKeeps, OpenTerminalKeeps, MakeReadyKeeps, CloserKeeps, CloseFenceKeeps,
     StopTreeKeeps, UndoingKeeps, RepairKeeps, OutsideKeeps
  DEF Next
<1> QED  BY <1>1, <1>2

\* The records have their shapes, a run that exists belongs to an agent that does, and a terminal
\* process to a run that exists, whatever calls are sent, sent again, compensated and repaired
\* next to each other, and whatever fails (runs.ts, journal.ts).
THEOREM TypeCorrect == Spec => []TypeOK
<1>1. Init => TypeOK /\ Shape  BY InitShape, Parameters
<1>2. (TypeOK /\ Shape) /\ [Next]_vars => (TypeOK /\ Shape)'  BY NextShape, Parameters
<1> QED  BY <1>1, <1>2, PTL DEF Spec

-----------------------------------------------------------------------------
(* What no step takes back.                                                 *)
LEMMA ActsGrow ==
  ASSUME NEW c \in Calls, Acts(c)
  PROVE  CallsGrow
BY DEF Acts, Others, Same, CallsGrow

LEMMA QuietGrows ==
  ASSUME Quiet
  PROVE  HistoryGrows
BY DEF Quiet, HistoryGrows

LEMMA StillGrow ==
         /\ runs' = runs => RunsGrow
         /\ pty' = pty => PtyGrows
         /\ ops' = ops => OpsGrow
BY DEF RunsGrow, PtyGrows, OpsGrow

\* one run is rewritten, or one terminal killed, or a journal
LEMMA RunGrows ==
  ASSUME TypeOK, NEW r \in Runs, NEW new, runs' = [runs EXCEPT ![r] = new],
         new.agent = runs[r].agent, new.life # "none", new.terminal = runs[r].terminal \/ new.terminal
  PROVE  RunsGrow
BY DEF RunsGrow, TypeOK

LEMMA RecordGrows ==
  ASSUME TypeOK, NEW r \in Runs, NEW life \in Lifecycles \ {"none"}, NEW doubt \in BOOLEAN,
         \/ runs' = [runs EXCEPT ![r] = [runs[r] EXCEPT !.life = life]]
         \/ runs' = [runs EXCEPT ![r] = [runs[r] EXCEPT !.life = life, !.doubt = doubt]]
  PROVE  RunsGrow
<1>1. runs \in [Runs -> RunRecord]  BY DEF TypeOK
<1> DEFINE one == [runs[r] EXCEPT !.life = life]
           two == [runs[r] EXCEPT !.life = life, !.doubt = doubt]
<1>2. /\ one.agent = runs[r].agent /\ one.life = life /\ one.terminal = runs[r].terminal
      /\ two.agent = runs[r].agent /\ two.life = life /\ two.terminal = runs[r].terminal
  BY <1>1 DEF RunRecord
<1>3. runs' = [runs EXCEPT ![r] = one] \/ runs' = [runs EXCEPT ![r] = two]
  OBVIOUS
<1> HIDE DEF one, two
<1> QED  BY <1>2, <1>3, RunGrows

LEMMA KillGrows ==
  ASSUME TypeOK, NEW r \in Runs, pty' = [pty EXCEPT ![r] = "dead"]
  PROVE  PtyGrows
BY DEF PtyGrows, TypeOK

LEMMA JournalGrows ==
  ASSUME TypeOK, NEW o \in Calls, NEW new, ops' = [ops EXCEPT ![o] = new],
         ops[o].rungs \subseteq new.rungs
  PROVE  OpsGrow
BY DEF OpsGrow, TypeOK

LEMMA StateGrows ==
  ASSUME TypeOK, NEW o \in Calls, NEW state, NEW doubt, NEW stopped,
         \/ ops' = [ops EXCEPT ![o] = [ops[o] EXCEPT !.state = state]]
         \/ ops' = [ops EXCEPT ![o] = [ops[o] EXCEPT !.state = state, !.doubt = doubt]]
         \/ ops' = [ops EXCEPT ![o] = [ops[o] EXCEPT !.state = state, !.stopped = stopped]]
  PROVE  OpsGrow
<1>1. ops \in [Calls -> OpRecord]  BY DEF TypeOK
<1> QED  BY <1>1 DEF OpsGrow, OpRecord

LEMMA ClimbGrows ==
  ASSUME TypeOK, NEW c \in Calls, NEW from, NEW rung, NEW state, NEW to,
         Climbs(c, from, rung, state, to)
  PROVE  RunsGrow /\ PtyGrows /\ OpsGrow /\ CallsGrow
<1>1. ops \in [Calls -> OpRecord]  BY DEF TypeOK
<1>2. ops[c].rungs \subseteq [ops[c] EXCEPT !.rungs = @ \cup {rung}, !.state = state].rungs
  BY <1>1 DEF OpRecord
<1>3. OpsGrow  BY <1>2, StillGrow, JournalGrows DEF Climbs
<1> QED  BY <1>3, StillGrow, ActsGrow DEF Climbs

LEMMA LadderGrows ==
  ASSUME TypeOK, Shape, Parameters, NEW c \in Calls,
         \/ Identity(c) \/ DrainOldRun(c) \/ JournalRun(c) \/ ReserveTerminal(c)
         \/ JournalTerminal(c) \/ Furnish(c) \/ Settle(c)
  PROVE  Grows
<1>1. CASE DrainOldRun(c)  BY <1>1, DrainClimbs, ClimbGrows, QuietGrows DEF Grows
<1>2. CASE JournalRun(c)  BY <1>2, JournalRunClimbs, ClimbGrows, QuietGrows DEF Grows
<1>3. CASE ReserveTerminal(c)  BY <1>3, ReserveTerminalClimbs, ClimbGrows, QuietGrows DEF Grows
<1>4. CASE JournalTerminal(c)  BY <1>4, JournalTerminalClimbs, ClimbGrows, QuietGrows DEF Grows
<1>5. CASE Settle(c)  BY <1>5, SettleClimbs, ClimbGrows, QuietGrows DEF Grows
<1>6. CASE Furnish(c)
  <2>1. CASE Climbs(c, "furnish", "furnished", ops[c].state, "ready")
    BY <1>6, <2>1, FurnishDoes, ClimbGrows, QuietGrows DEF Grows
  <2>2. CASE UNCHANGED <<runs, ops, pty>> /\ Acts(c)
    BY <1>6, <2>2, FurnishDoes, StillGrow, ActsGrow, QuietGrows DEF Grows
  <2> QED  BY <1>6, <2>1, <2>2, FurnishDoes
<1>7. CASE Identity(c)
  <2>1. /\ Climbs(c, "identity", "identity", ops[c].state, "reserve")
        /\ UNCHANGED <<born, fences, crowd, overlooked, lost, asked, meddled, hollow, retries>>
        /\ \/ parent' = [parent EXCEPT ![c] = call[c].target]
           \/ parent' = parent /\ call'[c].at = "compTerminal"
    BY <1>7, IdentityClimbs
  <2>2. call[c].kind = "spawn"  BY <2>1, Stepping DEF Climbs
  <2>3. \A a \in Agents : parent[a] # None => parent'[a] = parent[a]
    BY <2>1, <2>2 DEF Shape, ParentOK, TypeOK
  <2>4. HistoryGrows  BY <2>1, <2>3 DEF HistoryGrows
  <2> QED  BY <2>1, <2>4, ClimbGrows DEF Grows
<1> QED  BY <1>1, <1>2, <1>3, <1>4, <1>5, <1>6, <1>7

LEMMA RequestGrows ==
  ASSUME TypeOK, Shape, Parameters, NEW c \in Calls,
         Send(c) \/ SendAgain(c) \/ Admit(c) \/ OpenOperation(c)
  PROVE  Grows
<1>1. CASE Send(c)
  <2>1. /\ call[c].at = "new" /\ Others(c) /\ UNCHANGED <<runs, pty, ops>> /\ Quiet
    BY <1>1, SendDoes
  <2>2. CallsGrow  BY <2>1, Stepping DEF Others, Same, CallsGrow
  <2> QED  BY <2>1, <2>2, StillGrow, QuietGrows DEF Grows
<1>2. CASE SendAgain(c)
  <2>1. /\ Acts(c) /\ UNCHANGED <<runs, pty, ops>>
        /\ UNCHANGED <<hollow, parent, born, fences, crowd, overlooked, lost, asked>>
        /\ meddled' \in {meddled, meddled \cup {c}}
    BY <1>2, SendAgainDoes
  <2>2. HistoryGrows  BY <2>1 DEF HistoryGrows
  <2> QED  BY <2>1, <2>2, StillGrow, ActsGrow DEF Grows
<1>3. CASE Admit(c)
  <2>1. /\ Acts(c) /\ UNCHANGED <<runs, pty, ops>>
        /\ UNCHANGED <<meddled, hollow, parent, born, fences, overlooked, lost, retries>>
        /\ asked \subseteq asked'
        /\ \/ crowd' = crowd
           \/ crowd' = [f \in Calls |->
                     IF f \in Closing(AgentOf(c)) \/ fences[f] = "released"
                     THEN crowd[f] \cup {c} ELSE crowd[f]]
    BY <1>3, AdmitDoes
  <2>2. HistoryGrows  BY <2>1 DEF HistoryGrows
  <2> QED  BY <2>1, <2>2, StillGrow, ActsGrow DEF Grows
<1>4. CASE OpenOperation(c)
  <2>1. /\ Acts(c) /\ runs' = runs /\ pty' = pty /\ Quiet
        /\ \/ ops' = ops
           \/ /\ ops[c].state = "none"
              /\ ops' = [ops EXCEPT ![c] = [NoOp EXCEPT !.state = "running", !.mine = TRUE]]
    BY <1>4, OpenOperationDoes
  <2>2. ops[c].state = "none" => ops[c].rungs = {}  BY DEF Shape, JournalOK, NoOp
  <2>3. OpsGrow  BY <2>1, <2>2 DEF OpsGrow, TypeOK
  <2> QED  BY <2>1, <2>3, StillGrow, ActsGrow, QuietGrows DEF Grows
<1> QED  BY <1>1, <1>2, <1>3, <1>4

LEMMA RunActionsGrow ==
  ASSUME TypeOK, Shape, Parameters, NEW c \in Calls,
         \/ FenceOldRun(c) \/ ReserveRun(c) \/ OpenTerminal(c) \/ PatchTerminal(c)
         \/ PassGate(c) \/ MakeReady(c)
  PROVE  Grows
<1>1. CASE FenceOldRun(c)
  <2>1. /\ Acts(c) /\ ops' = ops /\ pty' = pty /\ Quiet
        /\ \/ runs' = runs
           \/ /\ call[c].old \in Runs
              /\ runs' = [runs EXCEPT ![call[c].old] =
                             [runs[call[c].old] EXCEPT !.life = "continuation-pending"]]
    BY <1>1, FenceOldRunWrites DEF Writes
  <2>2. "continuation-pending" \in Lifecycles \ {"none"}  BY DEF Lifecycles
  <2>3. RunsGrow  BY <2>1, <2>2, StillGrow, RecordGrows
  <2> QED  BY <2>1, <2>3, StillGrow, ActsGrow, QuietGrows DEF Grows
<1>2. CASE ReserveRun(c)
  <2>1. /\ Acts(c) /\ ops' = ops /\ pty' = pty
        /\ UNCHANGED <<parent, fences, crowd, overlooked, lost, asked, meddled, hollow, retries>>
        /\ \/ runs' = runs
           \/ /\ runs[c].life = "none"
              /\ runs' = [runs EXCEPT ![c] =
                     [NoRun EXCEPT !.agent = AgentOf(c), !.life = "provisioning"]]
    BY <1>2, ReserveRunDoes
  <2>2. RunsGrow  BY <2>1 DEF RunsGrow, TypeOK
  <2>3. HistoryGrows  BY <2>1 DEF HistoryGrows
  <2> QED  BY <2>1, <2>2, <2>3, StillGrow, ActsGrow DEF Grows
<1>3. CASE OpenTerminal(c)
  <2>1. /\ Acts(c) /\ runs' = runs /\ ops' = ops
        /\ UNCHANGED <<parent, born, fences, crowd, overlooked, lost, asked, meddled, retries>>
        /\ hollow \subseteq hollow'
        /\ \/ pty[c] # "dead" /\ pty' = [pty EXCEPT ![c] = "live"]
           \/ pty' = pty
           \/ pty' = [pty EXCEPT ![c] = "dead"]
    BY <1>3, OpenTerminalDoes
  <2>2. PtyGrows  BY <2>1 DEF PtyGrows, TypeOK
  <2>3. HistoryGrows  BY <2>1 DEF HistoryGrows
  <2> QED  BY <2>1, <2>2, <2>3, StillGrow, ActsGrow DEF Grows
<1>4. CASE PatchTerminal(c)
  <2>1. /\ call[c].at = "patchTerminal" /\ Acts(c) /\ ops' = ops /\ pty' = pty /\ Quiet
        /\ runs' = runs \/ runs' = [runs EXCEPT ![c] = [runs[c] EXCEPT !.terminal = TRUE]]
    BY <1>4, PatchTerminalWrites DEF Writes
  <2>2. c \in Runs /\ runs[c] \in RunRecord  BY DEF Runs, TypeOK
  <2>3. RunsGrow  BY <2>1, <2>2 DEF RunsGrow, RunRecord, TypeOK
  <2> QED  BY <2>1, <2>3, StillGrow, ActsGrow, QuietGrows DEF Grows
<1>5. CASE PassGate(c)
  <2>1. Quiet  BY <1>5, PassGateDoes
  <2>2. CASE Climbs(c, "gated", "furnished", ops[c].state, "ready")
    BY <2>1, <2>2, ClimbGrows, QuietGrows DEF Grows
  <2>3. CASE Writes(c, "gated", c, [runs[c] EXCEPT !.life = "failed"],
                    "compTerminal", "compTerminal")
    <3>1. /\ Acts(c) /\ ops' = ops /\ pty' = pty
          /\ runs' = runs \/ runs' = [runs EXCEPT ![c] = [runs[c] EXCEPT !.life = "failed"]]
      BY <2>3 DEF Writes
    <3>2. "failed" \in Lifecycles \ {"none"} /\ c \in Runs  BY DEF Lifecycles, Final, Runs
    <3>3. RunsGrow  BY <3>1, <3>2, StillGrow, RecordGrows
    <3> QED  BY <2>1, <3>1, <3>3, StillGrow, ActsGrow, QuietGrows DEF Grows
  <2> QED  BY <1>5, <2>2, <2>3, PassGateDoes
<1>6. CASE MakeReady(c)
  <2>1. /\ Acts(c) /\ ops' = ops /\ pty' = pty /\ Quiet
        /\ runs' = runs \/ runs' = [runs EXCEPT ![c] = [runs[c] EXCEPT !.life = "ready"]]
    BY <1>6, MakeReadyDoes
  <2>2. "ready" \in Lifecycles \ {"none"} /\ c \in Runs  BY DEF Lifecycles, Runs
  <2>3. RunsGrow  BY <2>1, <2>2, StillGrow, RecordGrows
  <2> QED  BY <2>1, <2>3, StillGrow, ActsGrow, QuietGrows DEF Grows
<1> QED  BY <1>1, <1>2, <1>3, <1>4, <1>5, <1>6

LEMMA CloserGrows ==
  ASSUME TypeOK, Shape, Parameters, NEW c \in Calls,
         MarkStopping(c) \/ Terminate(c) \/ MarkUnsure(c) \/ MarkStopped(c)
  PROVE  Grows
<1> DEFINE v == call[c].victim
<1>1. CASE MarkStopping(c)
  <2>1. /\ call[c].at = "stopping" /\ Acts(c) /\ ops' = ops /\ pty' = pty /\ Quiet
        /\ runs' = runs \/ runs' = [runs EXCEPT ![v] = [runs[v] EXCEPT !.life = "stopping"]]
    BY <1>1, MarkStoppingDoes
  <2>2. "stopping" \in Lifecycles \ {"none"} /\ v \in Runs  BY <2>1, VictimIs DEF Lifecycles, Closer
  <2>3. RunsGrow  BY <2>1, <2>2, StillGrow, RecordGrows
  <2> QED  BY <2>1, <2>3, StillGrow, ActsGrow, QuietGrows DEF Grows
<1>2. CASE Terminate(c)
  <2>1. /\ call[c].at = "terminate" /\ Acts(c) /\ runs' = runs /\ ops' = ops /\ Quiet
        /\ pty' = pty \/ pty' = [pty EXCEPT ![v] = "dead"]
    BY <1>2, TerminateDoes
  <2>2. v \in Runs  BY <2>1, VictimIs DEF Closer
  <2>3. PtyGrows  BY <2>1, <2>2, StillGrow, KillGrows
  <2> QED  BY <2>1, <2>3, StillGrow, ActsGrow, QuietGrows DEF Grows
<1>3. CASE MarkUnsure(c)
  <2>1. /\ call[c].at = "unsure" /\ Acts(c) /\ ops' = ops /\ pty' = pty /\ Quiet
        /\ \/ runs' = runs
           \/ runs' = [runs EXCEPT ![v] =
                          [runs[v] EXCEPT !.life = "recovery-required", !.doubt = TRUE]]
    BY <1>3, MarkUnsureMarks DEF Marks
  <2>2. "recovery-required" \in Lifecycles \ {"none"} /\ v \in Runs
    BY <2>1, VictimIs DEF Lifecycles, Closer
  <2>3. RunsGrow  BY <2>1, <2>2, StillGrow, RecordGrows
  <2> QED  BY <2>1, <2>3, StillGrow, ActsGrow, QuietGrows DEF Grows
<1>4. CASE MarkStopped(c)
  <2>1. /\ call[c].at = "stopped" /\ Acts(c) /\ ops' = ops /\ pty' = pty /\ Quiet
        /\ runs' = runs \/ runs' = [runs EXCEPT ![v] = [runs[v] EXCEPT !.life = "stopped"]]
    BY <1>4, MarkStoppedMarks DEF Marks
  <2>2. "stopped" \in Lifecycles \ {"none"} /\ v \in Runs
    BY <2>1, VictimIs DEF Lifecycles, Closer, Final
  <2>3. RunsGrow  BY <2>1, <2>2, StillGrow, RecordGrows
  <2> QED  BY <2>1, <2>3, StillGrow, ActsGrow, QuietGrows DEF Grows
<1> QED  BY <1>1, <1>2, <1>3, <1>4

LEMMA TreeGrows ==
  ASSUME TypeOK, Shape, Parameters, NEW c \in Calls,
         \/ CloseFence(c) \/ CreateFence(c) \/ ConfirmOrder(c) \/ StopNext(c) \/ FinishTree(c)
         \/ SettleTreeStop(c)
  PROVE  Grows
<1>1. CASE CloseFence(c)  BY <1>1, CloseFenceDoes, StillGrow, ActsGrow, QuietGrows DEF Grows
<1>2. CASE CreateFence(c)
  <2>1. /\ Acts(c) /\ UNCHANGED <<runs, pty, ops>>
        /\ UNCHANGED <<parent, born, overlooked, lost, asked, meddled, hollow, retries>>
        /\ \/ crowd' = crowd
           \/ crowd' = [crowd EXCEPT ![c] = @ \cup {d \in Calls : Admitted(d)}]
    BY <1>2, CreateFenceDoes
  <2>2. \A f \in Calls : crowd[f] \subseteq crowd'[f]  BY <2>1 DEF TypeOK
  <2>3. HistoryGrows  BY <2>1, <2>2 DEF HistoryGrows
  <2> QED  BY <2>1, <2>3, StillGrow, ActsGrow DEF Grows
<1>3. CASE ConfirmOrder(c)
  <2>1. /\ Acts(c) /\ UNCHANGED <<runs, pty, ops>>
        /\ UNCHANGED <<parent, born, crowd, overlooked, asked, meddled, hollow, retries>>
        /\ lost \subseteq lost'
    BY <1>3, ConfirmOrderDoes DEF Released
  <2>2. HistoryGrows  BY <2>1 DEF HistoryGrows
  <2> QED  BY <2>1, <2>2, StillGrow, ActsGrow DEF Grows
<1>4. CASE StopNext(c)
  <2>1. /\ Acts(c) /\ UNCHANGED <<runs, pty, ops>>
        /\ UNCHANGED <<parent, born, fences, crowd, lost, meddled, hollow, retries>>
        /\ asked \subseteq asked' /\ overlooked \subseteq overlooked'
    BY <1>4, StopNextDoes
  <2>2. HistoryGrows  BY <2>1 DEF HistoryGrows
  <2> QED  BY <2>1, <2>2, StillGrow, ActsGrow DEF Grows
<1>5. CASE FinishTree(c)
  <2>1. /\ Acts(c) /\ UNCHANGED <<runs, pty, ops>>
        /\ UNCHANGED <<parent, born, crowd, overlooked, asked, meddled, hollow, retries>>
        /\ lost \subseteq lost'
    BY <1>5, FinishTreeDoes DEF Released
  <2>2. HistoryGrows  BY <2>1 DEF HistoryGrows
  <2> QED  BY <2>1, <2>2, StillGrow, ActsGrow DEF Grows
<1>6. CASE SettleTreeStop(c)
  <2>1. /\ Acts(c) /\ runs' = runs /\ pty' = pty /\ Quiet
        /\ \/ ops' = ops
           \/ \E s \in OpStates : \E D : ops' = [ops EXCEPT ![Journal(c)] =
                     [ops[Journal(c)] EXCEPT !.state = s, !.stopped = D]]
    BY <1>6, SettleTreeStopDoes DEF OpStates
  <2>2. OpsGrow  BY <2>1, StillGrow, StateGrows, JournalIs
  <2> QED  BY <2>1, <2>2, StillGrow, ActsGrow, QuietGrows DEF Grows
<1> QED  BY <1>1, <1>2, <1>3, <1>4, <1>5, <1>6

LEMMA UndoGrows ==
  ASSUME TypeOK, Shape, Parameters, NEW c \in Calls,
         \/ CompensateTerminal(c) \/ CompensateRun(c) \/ CompensateOperation(c) \/ ReleaseFencedRun(c)
  PROVE  Grows
<1> DEFINE o == Journal(c)
<1>1. CASE CompensateTerminal(c)
  <2>1. /\ Acts(c) /\ runs' = runs /\ ops' = ops /\ Quiet
        /\ pty' = pty \/ pty' = [pty EXCEPT ![o] = "dead"]
    BY <1>1, CompensateTerminalDoes
  <2>2. o \in Runs  BY JournalIs DEF Runs
  <2>3. PtyGrows  BY <2>1, <2>2, StillGrow, KillGrows
  <2> QED  BY <2>1, <2>3, StillGrow, ActsGrow, QuietGrows DEF Grows
<1>2. CASE CompensateRun(c)
  <2>1. /\ Acts(c) /\ ops' = ops /\ pty' = pty /\ Quiet
        /\ \/ runs' = runs
           \/ runs' = [runs EXCEPT ![o] =
                    [runs[o] EXCEPT !.life = "failed", !.doubt = (call[c].outcome = "unsure")]]
    BY <1>2, CompensateRunDoes
  <2>2. /\ o \in Runs /\ "failed" \in Lifecycles \ {"none"}
        /\ (call[c].outcome = "unsure") \in BOOLEAN
    BY JournalIs DEF Runs, Lifecycles, Final
  <2>3. RunsGrow  BY <2>1, <2>2, StillGrow, RecordGrows
  <2> QED  BY <2>1, <2>3, StillGrow, ActsGrow, QuietGrows DEF Grows
<1>3. CASE CompensateOperation(c)
  <2> DEFINE doubt == IF call[c].outcome = "none" THEN ops[o].doubt ELSE call[c].outcome = "unsure"
  <2>1. /\ Acts(c) /\ runs' = runs /\ pty' = pty /\ Quiet
        /\ \/ ops' = ops
           \/ ops' = [ops EXCEPT ![o] = [ops[o] EXCEPT !.state = "recovery-required", !.doubt = doubt]]
    BY <1>3, CompensateOperationDoes
  <2>2. OpsGrow
    <3> HIDE DEF doubt
    <3> QED  BY <2>1, StillGrow, StateGrows, JournalIs
  <2> QED  BY <2>1, <2>2, StillGrow, ActsGrow, QuietGrows DEF Grows
<1>4. CASE ReleaseFencedRun(c)
  <2>1. /\ call[c].at = "releaseOld" /\ Acts(c) /\ ops' = ops /\ pty' = pty /\ Quiet
        /\ \/ runs' = runs
           \/ runs' = [runs EXCEPT ![call[c].old] =
                     [runs[call[c].old] EXCEPT !.life = "recovery-required", !.doubt = TRUE]]
    BY <1>4, ReleaseFencedRunDoes
  <2>2. call[c].old \in Runs /\ "recovery-required" \in Lifecycles \ {"none"}
    BY <2>1, Stepping DEF Lifecycles, Shape, Named
  <2>3. RunsGrow  BY <2>1, <2>2, StillGrow, RecordGrows
  <2> QED  BY <2>1, <2>3, StillGrow, ActsGrow, QuietGrows DEF Grows
<1> QED  BY <1>1, <1>2, <1>3, <1>4

LEMMA RepairGrows ==
  ASSUME TypeOK, Shape, Parameters, NEW c \in Calls,
         Judge(c) \/ RepairFence(c) \/ RepairSettle(c)
  PROVE  Grows
<1>1. CASE Judge(c)
  <2>1. /\ Acts(c) /\ UNCHANGED <<runs, pty, ops>>
        /\ UNCHANGED <<hollow, parent, born, fences, crowd, overlooked, lost, asked, retries>>
        /\ meddled \subseteq meddled'
    BY <1>1, JudgeDoes
  <2>2. HistoryGrows  BY <2>1 DEF HistoryGrows
  <2> QED  BY <2>1, <2>2, StillGrow, ActsGrow DEF Grows
<1>2. CASE RepairFence(c)
  <2>1. /\ Acts(c) /\ UNCHANGED <<runs, pty, ops>>
        /\ UNCHANGED <<hollow, meddled, parent, born, crowd, overlooked, lost, asked, retries>>
    BY <1>2, RepairFenceDoes
  <2>2. HistoryGrows  BY <2>1 DEF HistoryGrows
  <2> QED  BY <2>1, <2>2, StillGrow, ActsGrow DEF Grows
<1>3. CASE RepairSettle(c)
  <2>1. /\ call[c].at = "repairSettle" /\ Acts(c) /\ runs' = runs /\ pty' = pty /\ Quiet
        /\ \/ ops' = ops
           \/ ops' = [ops EXCEPT ![call[c].target] =
                     [ops[call[c].target] EXCEPT !.state = "completed"]]
    BY <1>3, RepairSettleDoes
  <2>2. call[c].target \in Calls  BY <2>1, Stepping DEF Shape, Named
  <2>3. OpsGrow  BY <2>1, <2>2, StillGrow, StateGrows
  <2> QED  BY <2>1, <2>3, StillGrow, ActsGrow, QuietGrows DEF Grows
<1> QED  BY <1>1, <1>2, <1>3

LEMMA OutsideGrows ==
  ASSUME TypeOK, Shape, Parameters,
         (\E r \in Runs : Exit(r) \/ SettleGone(r)) \/ Restart
  PROVE  Grows
<1>1. CASE \E r \in Runs : Exit(r)
  <2>1. PICK r \in Runs : Exit(r)  BY <1>1
  <2>2. /\ pty' = [pty EXCEPT ![r] = "dead"] /\ asked' = asked \cup {runs[r].agent}
        /\ UNCHANGED <<meddled, hollow, call, parent, runs, born, ops, fences, crowd, overlooked,
                        lost, retries>>
    BY <2>1, ExitDoes
  <2>3. HistoryGrows /\ CallsGrow  BY <2>2 DEF HistoryGrows, CallsGrow
  <2> QED  BY <2>2, <2>3, StillGrow, KillGrows DEF Grows
<1>2. CASE \E r \in Runs : SettleGone(r)
  <2>1. PICK r \in Runs : SettleGone(r)  BY <1>2
  <2>2. /\ runs' = [runs EXCEPT ![r] = [runs[r] EXCEPT !.life = "interrupted"]]
        /\ \A c \in Calls : Same(c)
        /\ UNCHANGED <<meddled, hollow, parent, pty, born, ops, fences, crowd, overlooked, lost,
                       asked, troubles, retries>>
    BY <2>1, SettleGoneDoes
  <2>3. HistoryGrows /\ CallsGrow  BY <2>2 DEF HistoryGrows, CallsGrow, Same
  <2>4. "interrupted" \in Lifecycles \ {"none"}  BY DEF Lifecycles, Final
  <2>5. RunsGrow  BY <2>2, <2>4, RecordGrows
  <2> QED  BY <2>2, <2>3, <2>5, StillGrow DEF Grows
<1>3. CASE Restart
  <2>1. /\ \A c \in Calls : Goes(c, "failed") \/ call'[c] = call[c]
        /\ runs' = [r \in Runs |-> IF Live(r) THEN [runs[r] EXCEPT !.life = "interrupted"]
                                    ELSE runs[r]]
        /\ asked \subseteq asked'
        /\ pty' = [r \in Runs |-> IF pty[r] = "live" THEN "dead" ELSE pty[r]]
        /\ \A o \in Calls : ops'[o].rungs = ops[o].rungs
        /\ UNCHANGED <<meddled, hollow, parent, born, fences, crowd, overlooked, lost, retries>>
    BY <1>3, RestartDoes
  <2>2. HistoryGrows /\ CallsGrow  BY <2>1 DEF HistoryGrows, CallsGrow, Goes
  <2>3. \A r \in Runs : runs[r] \in RunRecord  BY DEF TypeOK
  <2>4. RunsGrow  BY <2>1, <2>3 DEF RunsGrow, RunRecord
  <2>5. PtyGrows /\ OpsGrow  BY <2>1 DEF PtyGrows, OpsGrow
  <2> QED  BY <2>2, <2>4, <2>5 DEF Grows
<1> QED  BY <1>1, <1>2, <1>3

LEMMA NextGrows ==
  ASSUME TypeOK, Shape, Parameters, Next
  PROVE  Grows
BY RequestGrows, LadderGrows, RunActionsGrow, CloserGrows, TreeGrows, UndoGrows, RepairGrows,
   OutsideGrows
DEF Next

-----------------------------------------------------------------------------
(* A journal has one worker: the call that it is of, or the repairs of it.  *)
LEMMA GuardedFrame ==
  ASSUME TypeOK, Shape, Guarded, NEW c \in Calls, Acts(c), Working(c),
         meddled' = meddled,
         call[c].at = "judge" => call'[c].at \in AtRest /\ ops' = ops,
         \A o \in Calls \ {Journal(c)} : ops'[o] = ops[o],
         c \notin meddled => Unready(c)'
  PROVE  Guarded'
<1> SUFFICES ASSUME NEW o \in Calls, o \notin meddled PROVE Alone(o)' /\ Unready(o)'  BY DEF Guarded
<1>1. Alone(o) /\ Unready(o)  BY DEF Guarded
<1>2. \A d \in Calls : Repairing(d, o)' => Repairing(d, o)
  BY DEF Repairing, Acts, Others, Same, Working
<1>3. (Working(o) \/ call[o].at = "ended")' => Working(o) \/ call[o].at = "ended"
  BY DEF Acts, Others, Same, Working
<1>4. Alone(o)'  BY <1>1, <1>2, <1>3 DEF Alone
<1>5. Unready(o)'
  <2>1. CASE o = c  BY <2>1
  <2>2. CASE o # c /\ o # Journal(c)
    <3>1. Same(o) /\ ops'[o] = ops[o]  BY <2>2 DEF Acts, Others
    <3> QED  BY <3>1, <1>1 DEF Unready, Ascends, Owns, Working, Same
  <2>3. CASE o # c /\ o = Journal(c)
    <3>1. Same(o)  BY <2>3 DEF Acts, Others
    <3>2. CASE call[c].at = "judge"  BY <3>1, <3>2, <1>1 DEF Unready, Ascends, Owns, Working, Same
    <3>3. CASE call[c].at # "judge"
      <4>1. Repairing(c, o)  BY <2>3, <3>3 DEF Journal, Repairing
      <4>2. ~Working(o) /\ call[o].at # "ended"  BY <4>1, <1>1 DEF Alone
      <4> QED  BY <3>1, <4>2 DEF Unready, Ascends, Working, Same
    <3> QED  BY <3>2, <3>3
  <2> QED  BY <2>1, <2>2, <2>3
<1> QED  BY <1>4, <1>5

\* a call goes on, under a journal that goes on
LEMMA StillUnready ==
  ASSUME TypeOK, Shape, Guarded, NEW c \in Calls, Acts(c), c \notin meddled, Working(c),
         \/ /\ Ascends(c) /\ ops'[c].state # "completed" /\ "ready" \notin ops'[c].rungs
            /\ call'[c].at # "ended"
         \/ ops'[c] = ops[c] /\ Ascends(c) /\ call'[c].at # "ended"
         \/ call'[c].at \in Undoing \cup {"releaseOld", "failed", "refused"}
         \/ ~Owns(c)
  PROVE  Unready(c)'
<1>1. Unready(c)  BY DEF Guarded
<1>2. Owns(c)' <=> Owns(c)  BY DEF Acts, Owns
<1> QED  BY <1>1, <1>2 DEF Unready, Ascends, Working, AtRest, Undoing

LEMMA ClimbGuards ==
  ASSUME TypeOK, Shape, Guarded, Parameters, NEW c \in Calls, NEW from, NEW rung,
         NEW to \in Steps \ (Undoing \cup AtRest), NEW state,
         Climbs(c, from, rung, state, to), Climber(c), rung # "ready", meddled' = meddled,
         from \notin Undoing \cup AtRest \cup {"judge", "releaseOld"},
         state \in {ops[c].state, "continuation-pending"}
  PROVE  Guarded'
<1>1. Working(c) /\ Journal(c) = c /\ Ascends(c)
  BY DEF Climbs, Climber, Working, Journal, Ascends, Owns
<1>2. \A o \in Calls \ {Journal(c)} : ops'[o] = ops[o]  BY <1>1 DEF Climbs, TypeOK
<1>3. c \notin meddled => ops'[c].state # "completed" /\ "ready" \notin ops'[c].rungs
  <2>1. SUFFICES ASSUME c \notin meddled
                 PROVE  ops'[c].state # "completed" /\ "ready" \notin ops'[c].rungs
    OBVIOUS
  <2>2. ops[c].state # "completed" /\ "ready" \notin ops[c].rungs
    BY <1>1, <2>1 DEF Guarded, Unready
  <2>3. ops \in [Calls -> OpRecord] /\ ops[c] \in OpRecord  BY DEF TypeOK
  <2>4. CASE ops' = ops  BY <2>2, <2>4
  <2>5. CASE ops' = [ops EXCEPT ![c] = [ops[c] EXCEPT !.rungs = @ \cup {rung}, !.state = state]]
    <3>1. /\ ops'[c].state = state /\ ops'[c].rungs = ops[c].rungs \cup {rung}
      BY <2>3, <2>5 DEF OpRecord
    <3> QED  BY <2>2, <3>1
  <2> QED  BY <2>4, <2>5 DEF Climbs
<1>4. call'[c].at # "ended" /\ Acts(c)  BY DEF Climbs, Goes, AtRest
<1>5. c \notin meddled => Unready(c)'  BY <1>1, <1>3, <1>4, StillUnready
<1> QED  BY <1>1, <1>2, <1>4, <1>5, GuardedFrame DEF Climbs

\* a step that leaves the journals alone
LEMMA StepGuards ==
  ASSUME TypeOK, Shape, Guarded, NEW c \in Calls, Acts(c), Working(c), ops' = ops,
         meddled' = meddled, call[c].at = "judge" => call'[c].at \in AtRest,
         \/ Ascends(c) /\ call'[c].at # "ended"
         \/ call'[c].at \in Undoing \cup {"releaseOld", "failed", "refused"}
         \/ ~Owns(c)
  PROVE  Guarded'
<1>1. c \notin meddled => Unready(c)'  BY StillUnready
<1> QED  BY <1>1, GuardedFrame

LEMMA LadderGuards ==
  ASSUME TypeOK, Shape, Guarded, Parameters, NEW c \in Calls,
         \/ Identity(c) \/ DrainOldRun(c) \/ JournalRun(c) \/ ReserveTerminal(c)
         \/ JournalTerminal(c) \/ Furnish(c)
  PROVE  Guarded'
<1> USE DEF Undoing, AtRest, Steps, HasRun
<1>1. CASE Identity(c)
  <2>1. Climbs(c, "identity", "identity", ops[c].state, "reserve") /\ meddled' = meddled
    BY <1>1, IdentityClimbs
  <2>2. Climber(c)  BY <2>1, Stepping DEF Climbs, Climber
  <2> QED  BY <2>1, <2>2, ClimbGuards
<1>2. CASE DrainOldRun(c)
  <2>1. Climbs(c, "drain", "fenced", "continuation-pending", "reserve") /\ Quiet
    BY <1>2, DrainClimbs
  <2>2. Climber(c)  BY <2>1, Stepping DEF Climbs, Climber
  <2> QED  BY <2>1, <2>2, ClimbGuards DEF Quiet
<1>3. CASE JournalRun(c)
  <2> DEFINE to == IF call[c].kind = "spawn" THEN "reserveTerminal" ELSE "openTerminal"
  <2>1. Climbs(c, "journalRun", "run", ops[c].state, to) /\ Quiet  BY <1>3, JournalRunClimbs
  <2>2. Climber(c)  BY <2>1, Stepping DEF Climbs
  <2> QED  BY <2>1, <2>2, ClimbGuards DEF Quiet
<1>4. CASE ReserveTerminal(c)
  <2>1. Climbs(c, "reserveTerminal", "reserved", ops[c].state, "openTerminal") /\ Quiet
    BY <1>4, ReserveTerminalClimbs
  <2>2. Climber(c)  BY <2>1, Stepping DEF Climbs
  <2> QED  BY <2>1, <2>2, ClimbGuards DEF Quiet
<1>5. CASE JournalTerminal(c)
  <2>1. Climbs(c, "journalTerminal", "live", ops[c].state, "patchTerminal") /\ Quiet
    BY <1>5, JournalTerminalClimbs
  <2>2. Climber(c)  BY <2>1, Stepping DEF Climbs
  <2> QED  BY <2>1, <2>2, ClimbGuards DEF Quiet
<1>6. CASE Furnish(c)
  <2>1. Quiet  BY <1>6, FurnishDoes
  <2>2. CASE Climbs(c, "furnish", "furnished", ops[c].state, "ready")
    <3>1. Climber(c)  BY <2>2, Stepping DEF Climbs
    <3> QED  BY <2>1, <2>2, <3>1, ClimbGuards DEF Quiet
  <2>3. CASE /\ call[c].at = "furnish" /\ Acts(c) /\ Goes(c, "gated")
             /\ UNCHANGED <<runs, ops, pty>>
    <3>1. Climber(c)  BY <2>3, Stepping
    <3> QED  BY <2>1, <2>3, <3>1, StepGuards DEF Quiet, Ascends, Owns, Climber, Working, Goes
  <2> QED  BY <1>6, <2>2, <2>3, FurnishDoes
<1> QED  BY <1>1, <1>2, <1>3, <1>4, <1>5, <1>6

LEMMA SettleGuards ==
  ASSUME TypeOK, Shape, Guarded, Parameters, NEW c \in Calls, Settle(c)
  PROVE  Guarded'
<1>1. Climbs(c, "settle", "ready", "completed", "ended") /\ Quiet  BY SettleClimbs
<1>2. Climber(c)  BY <1>1, Stepping DEF Climbs, HasRun
<1>3. Working(c) /\ Ascends(c) /\ Journal(c) = c /\ Acts(c)
  BY <1>1, <1>2 DEF Climbs, Working, AtRest, Ascends, Owns, Climber, Undoing, Journal
<1>4. \A o \in Calls \ {Journal(c)} : ops'[o] = ops[o]  BY <1>1, <1>3 DEF Climbs, TypeOK
<1>5. c \notin meddled => Unready(c)'
  <2>1. CASE Goes(c, "compTerminal")  BY <1>3, <2>1, StillUnready DEF Goes, Undoing
  <2>2. CASE Goes(c, "ended") /\ "ready" \in ops'[c].rungs
    <3>1. SUFFICES ASSUME c \notin meddled PROVE Unready(c)'  OBVIOUS
    <3>2. "ready" \notin ops[c].rungs  BY <1>3, <3>1 DEF Guarded, Unready
    <3>3. ops' = [ops EXCEPT ![c] = [ops[c] EXCEPT !.rungs = @ \cup {"ready"}, !.state = "completed"]]
      BY <1>1, <2>2, <3>2 DEF Climbs
    <3>4. ops[c] \in OpRecord /\ ops \in [Calls -> OpRecord]  BY DEF TypeOK
    <3>5. ops'[c].state = "completed"  BY <3>3, <3>4 DEF OpRecord
    <3>6. call'[c].at = "ended"  BY <2>2 DEF Goes
    <3> QED  BY <3>5, <3>6 DEF Unready, Ascends, Working, AtRest
  <2> QED  BY <1>1, <2>1, <2>2 DEF Climbs
<1>6. call[c].at # "judge" /\ meddled' = meddled  BY <1>1 DEF Climbs, Quiet
<1> QED  BY <1>3, <1>4, <1>5, <1>6, GuardedFrame

LEMMA RunGuards ==
  ASSUME TypeOK, Shape, Guarded, Parameters, NEW c \in Calls,
         \/ FenceOldRun(c) \/ ReserveRun(c) \/ OpenTerminal(c) \/ PatchTerminal(c)
         \/ PassGate(c) \/ MakeReady(c)
  PROVE  Guarded'
<1> USE DEF Undoing, AtRest, Steps, HasRun
<1>1. CASE FenceOldRun(c)
  <2>1. /\ call[c].at = "fenceOld" /\ Acts(c) /\ ops' = ops /\ meddled' = meddled
        /\ call'[c].at \in {"drain", "compTerminal"}
    BY <1>1, FenceOldRunWrites DEF Writes, Goes, Quiet
  <2>2. Ascends(c) /\ Working(c)  BY <2>1, Stepping DEF Ascends, Owns, Working
  <2> QED  BY <2>1, <2>2, StepGuards
<1>2. CASE ReserveRun(c)
  <2>1. /\ call[c].at = "reserve" /\ Acts(c) /\ ops' = ops /\ meddled' = meddled
        /\ call'[c].at \in {"journalRun", "compTerminal"}
    BY <1>2, ReserveRunDoes DEF Goes
  <2>2. Ascends(c) /\ Working(c)  BY <2>1, Stepping DEF Ascends, Owns, Working, Climber
  <2> QED  BY <2>1, <2>2, StepGuards
<1>3. CASE OpenTerminal(c)
  <2>1. /\ call[c].at = "openTerminal" /\ Acts(c) /\ ops' = ops /\ meddled' = meddled
        /\ call'[c].at \in {"journalTerminal", "compTerminal"}
    BY <1>3, OpenTerminalDoes DEF Goes
  <2>2. Ascends(c) /\ Working(c)  BY <2>1, Stepping DEF Ascends, Owns, Working, Climber
  <2> QED  BY <2>1, <2>2, StepGuards
<1>4. CASE PatchTerminal(c)
  <2>1. /\ call[c].at = "patchTerminal" /\ Acts(c) /\ ops' = ops /\ meddled' = meddled
        /\ call'[c].at \in {"furnish", "compTerminal"}
    BY <1>4, PatchTerminalWrites DEF Writes, Goes, Quiet
  <2>2. Ascends(c) /\ Working(c)  BY <2>1, Stepping DEF Ascends, Owns, Working, Climber
  <2> QED  BY <2>1, <2>2, StepGuards
<1>5. CASE PassGate(c)
  <2>1. Quiet  BY <1>5, PassGateDoes
  <2>2. CASE Climbs(c, "gated", "furnished", ops[c].state, "ready")
    <3>1. Climber(c)  BY <2>2, Stepping DEF Climbs
    <3> QED  BY <2>1, <2>2, <3>1, ClimbGuards DEF Quiet
  <2>3. CASE Writes(c, "gated", c, [runs[c] EXCEPT !.life = "failed"],
                    "compTerminal", "compTerminal")
    <3>1. /\ call[c].at = "gated" /\ Acts(c) /\ ops' = ops /\ meddled' = meddled
          /\ call'[c].at = "compTerminal"
      BY <2>1, <2>3 DEF Writes, Goes, Quiet
    <3>2. Working(c)  BY <3>1 DEF Working
    <3> QED  BY <3>1, <3>2, StepGuards
  <2> QED  BY <1>5, <2>2, <2>3, PassGateDoes
<1>6. CASE MakeReady(c)
  <2>1. /\ call[c].at = "ready" /\ Acts(c) /\ ops' = ops /\ meddled' = meddled
        /\ call'[c].at \in {"settle", "stopping", "compTerminal"}
    BY <1>6, MakeReadyDoes DEF Goes, Quiet
  <2>2. Ascends(c) /\ Working(c)  BY <2>1, Stepping DEF Ascends, Owns, Working, Climber
  <2> QED  BY <2>1, <2>2, StepGuards
<1> QED  BY <1>1, <1>2, <1>3, <1>4, <1>5, <1>6

LEMMA CloserGuards ==
  ASSUME TypeOK, Shape, Guarded, Parameters, NEW c \in Calls,
         MarkStopping(c) \/ Terminate(c) \/ MarkUnsure(c) \/ MarkStopped(c)
  PROVE  Guarded'
<1>1. /\ call[c].at \in Closer /\ Acts(c) /\ ops' = ops /\ meddled' = meddled
      /\ \/ \E result : Closes(c, result)
         \/ call'[c].at \in Closer
  BY MarkStoppingDoes, TerminateDoes, MarkUnsureMarks, MarkStoppedMarks DEF Marks, Closer, Goes, Quiet
<1>2. call[c].kind \in {"continue", "stop", "stopTree", "repair"}  BY <1>1, Stepping
<1>3. Working(c) /\ (Owns(c) => Ascends(c)) /\ call[c].at # "judge"
  BY <1>1 DEF Working, Closer, AtRest, Ascends, Undoing
<1>4. \/ Ascends(c) /\ call'[c].at # "ended"
      \/ call'[c].at \in Undoing
      \/ ~Owns(c)
  BY <1>1, <1>2, <1>3 DEF Closes, Owns, Closer, Undoing
<1> QED  BY <1>1, <1>3, <1>4, StepGuards

LEMMA TreeGuards ==
  ASSUME TypeOK, Shape, Guarded, Parameters, NEW c \in Calls,
         \/ CloseFence(c) \/ CreateFence(c) \/ ConfirmOrder(c) \/ StopNext(c) \/ FinishTree(c)
  PROVE  Guarded'
<1>1. /\ call[c].at \in {"closeFence", "createFence", "snapshot", "stopEach"}
      /\ Acts(c) /\ ops' = ops /\ meddled' = meddled
      /\ call'[c].at \in {"createFence", "snapshot", "stopEach", "settleTree", "stopping", "failed"}
  BY CloseFenceDoes, CreateFenceDoes, ConfirmOrderDoes, StopNextDoes, FinishTreeDoes DEF Goes, Quiet
<1>2. Working(c) /\ (Owns(c) => Ascends(c)) /\ call[c].at # "judge"
  BY <1>1 DEF Working, AtRest, Ascends, Undoing
<1> QED  BY <1>1, <1>2, StepGuards

LEMMA UndoGuards ==
  ASSUME TypeOK, Shape, Guarded, Parameters, NEW c \in Calls,
         CompensateTerminal(c) \/ CompensateRun(c) \/ ReleaseFencedRun(c) \/ RepairFence(c)
  PROVE  Guarded'
<1>1. /\ call[c].at \in Undoing \cup {"releaseOld", "repairFence"}
      /\ Acts(c) /\ ops' = ops /\ meddled' = meddled
      /\ \/ call'[c].at \in {"compRun", "compOp", "failed", "refused", "releaseOld"}
         \/ call[c].kind = "repair"
  BY CompensateTerminalDoes, CompensateRunDoes, ReleaseFencedRunDoes, RepairFenceDoes, Stepping
  DEF Goes, Quiet, Ends, Undoing
<1>2. Working(c) /\ call[c].at # "judge" /\ (call[c].kind = "repair" => ~Owns(c))
  BY <1>1 DEF Working, AtRest, Undoing, Owns
<1> QED  BY SMTT(30), <1>1, <1>2, StepGuards DEF Undoing

LEMMA RequestGuards ==
  ASSUME TypeOK, Shape, Guarded, Parameters, NEW c \in Calls,
         Send(c) \/ SendAgain(c) \/ Admit(c) \/ OpenOperation(c)
  PROVE  Guarded'
<1>1. CASE Send(c)
  <2>1. /\ call[c].at = "new" /\ Others(c) /\ ops' = ops /\ meddled' = meddled
        /\ call'[c].at \in {"admit", "open", "judge"}
    BY <1>1, SendDoes DEF Quiet
  <2>2. call[c].kind = "none"  BY <2>1, Stepping
  <2>3. ops[c] = NoOp  BY <2>2 DEF Shape, JournalOK
  <2> SUFFICES ASSUME NEW o \in Calls, o \notin meddled PROVE Alone(o)' /\ Unready(o)'
    BY <2>1 DEF Guarded
  <2>4. Alone(o) /\ Unready(o)  BY DEF Guarded
  <2>5. \A d \in Calls : Repairing(d, o)' => Repairing(d, o)
    <3> SUFFICES ASSUME NEW d \in Calls, Repairing(d, o)' PROVE Repairing(d, o)
      OBVIOUS
    <3>1. d # c \/ call'[c].at = "judge"
      <4>1. CASE d = c
        <5>1. call[c].at = "new"  BY <2>1
        <5>2. call'[c].kind = "repair"  BY <4>1 DEF Repairing
        <5>3. call'[c].at = "judge"  BY <1>1, <5>2, SendDoes
        <5> QED  BY <5>3
      <4> QED  BY <4>1
    <3>2. d # c  BY <3>1 DEF Repairing
    <3> QED  BY <2>1, <3>2 DEF Others, Same, Repairing, Working
  <2>6. CASE o = c
    <3>1. \A d \in Calls : ~Repairing(d, c)
      <4> SUFFICES ASSUME NEW d \in Calls, Repairing(d, c) PROVE FALSE  OBVIOUS
      <4>1. ops[c].state # "none"  BY DEF Repairing, Shape, Named
      <4> QED  BY <2>3, <4>1 DEF NoOp
    <3>2. Alone(o)'  BY <2>5, <2>6, <3>1 DEF Alone
    <3>3. Unready(o)'  BY <2>1, <2>3, <2>6 DEF Unready, NoOp
    <3> QED  BY <3>2, <3>3
  <2>7. CASE o # c
    <3>1. Same(o)  BY <2>1, <2>7 DEF Others
    <3> QED  BY <2>1, <2>4, <2>5, <3>1 DEF Same, Alone, Unready, Ascends, Owns, Working
  <2> QED  BY <2>6, <2>7
<1>2. CASE SendAgain(c)
  <2>1. /\ call[c].at = "failed" /\ Acts(c) /\ ops' = ops /\ meddled \subseteq meddled'
        /\ call'[c].at \in {"open", "judge", "admit"}
        /\ call[c].kind = "repair" => call'[c].at = "judge"
        /\ (\E d \in Calls : Working(d) /\ Journal(d) = c) => c \in meddled'
        /\ ops[c].state = "completed" \/ "ready" \in ops[c].rungs => c \in meddled'
    BY <1>2, SendAgainDoes DEF Goes
  <2> SUFFICES ASSUME NEW o \in Calls, o \notin meddled' PROVE Alone(o)' /\ Unready(o)'
    BY DEF Guarded
  <2>2. Alone(o) /\ Unready(o)  BY <2>1 DEF Guarded
  <2>3. \A d \in Calls : Repairing(d, o)' => Repairing(d, o)
    BY <2>1 DEF Repairing, Acts, Others, Same, Working
  <2>4. CASE o = c
    <3>1. \A d \in Calls : ~Repairing(d, c)  BY <2>1, <2>4 DEF Repairing, Journal
    <3>2. Alone(o)'  BY <2>3, <2>4, <3>1 DEF Alone
    <3>3. Unready(o)'  BY <2>1, <2>4 DEF Unready
    <3> QED  BY <3>2, <3>3
  <2>5. CASE o # c
    <3>1. Same(o)  BY <2>1, <2>5 DEF Acts, Others
    <3> QED  BY <2>1, <2>2, <2>3, <3>1 DEF Same, Alone, Unready, Ascends, Owns, Working
  <2> QED  BY <2>4, <2>5
<1>3. CASE Admit(c)
  <2>1. /\ call[c].at = "admit" /\ Acts(c) /\ ops' = ops /\ meddled' = meddled
        /\ \/ call'[c].at \in {"failed", "refused", "open"}
           \/ call[c].kind = "stop"
    BY <1>3, AdmitDoes DEF Goes
  <2>2. Working(c) /\ (Owns(c) => Ascends(c)) /\ call[c].at # "judge"
    BY <2>1 DEF Working, AtRest, Ascends, Undoing
  <2>3. call[c].kind = "stop" => ~Owns(c)  BY DEF Owns
  <2> QED  BY <2>1, <2>2, <2>3, StepGuards
<1>4. CASE OpenOperation(c)
  <2>1. /\ call[c].at = "open" /\ Acts(c) /\ meddled' = meddled
        /\ call'[c].at \in {"failed", "identity", "fenceOld", "closeFence"}
        /\ \/ ops' = ops
           \/ ops' = [ops EXCEPT ![c] = [NoOp EXCEPT !.state = "running", !.mine = TRUE]]
    BY <1>4, OpenOperationDoes DEF Goes, Quiet
  <2>2. Ascends(c) /\ Working(c) /\ Journal(c) = c /\ call[c].at # "judge"
    BY <2>1, Stepping DEF Ascends, Owns, Working, AtRest, Undoing, Journal
  <2>3. CASE ops' = ops  BY <2>1, <2>2, <2>3, StepGuards
  <2>4. CASE ops' = [ops EXCEPT ![c] = [NoOp EXCEPT !.state = "running", !.mine = TRUE]]
    <3>1. ops'[c].state = "running" /\ ops'[c].rungs = {}  BY <2>4 DEF TypeOK, NoOp
    <3>2. c \notin meddled => Unready(c)'  BY <2>1, <2>2, <3>1, StillUnready
    <3>3. \A o \in Calls \ {Journal(c)} : ops'[o] = ops[o]  BY <2>2, <2>4 DEF TypeOK
    <3> QED  BY <2>1, <2>2, <3>2, <3>3, GuardedFrame
  <2> QED  BY <2>1, <2>3, <2>4
<1> QED  BY <1>1, <1>2, <1>3, <1>4

\* a journal is written by its call, or by a repair
LEMMA WriteGuards ==
  ASSUME TypeOK, Shape, Guarded, Parameters, NEW c \in Calls,
         SettleTreeStop(c) \/ CompensateOperation(c) \/ RepairSettle(c)
  PROVE  Guarded'
<1>1. Journal(c) \in Calls /\ ops \in [Calls -> OpRecord]  BY JournalIs DEF TypeOK
<1>2. CASE SettleTreeStop(c)
  <2>1. /\ call[c].at = "settleTree" /\ Acts(c) /\ meddled' = meddled
        /\ \/ ops' = ops /\ Goes(c, "failed")
           \/ /\ Goes(c, "ended") \/ Goes(c, "failed")
              /\ \E D : ops' = [ops EXCEPT ![Journal(c)] =
                     [ops[Journal(c)] EXCEPT !.state = "completed", !.stopped = D]]
           \/ /\ Goes(c, "failed")
              /\ \E D : ops' = [ops EXCEPT ![Journal(c)] =
                     [ops[Journal(c)] EXCEPT !.state = "tree-stop-pending", !.stopped = D]]
    BY <1>2, SettleTreeStopDoes DEF Quiet
  <2>2. Working(c) /\ call[c].at # "judge" /\ call[c].kind \in {"stopTree", "repair"}
    BY <2>1, Stepping DEF Working, AtRest
  <2>3. \A o \in Calls \ {Journal(c)} : ops'[o] = ops[o]  BY <1>1, <2>1
  <2>4. ASSUME c \notin meddled PROVE Unready(c)'
    <3>1. CASE call[c].kind = "repair"  BY <2>1, <2>2, <2>4, <3>1, StillUnready DEF Owns
    <3>2. CASE Goes(c, "failed")  BY <2>1, <2>2, <2>4, <3>2, StillUnready DEF Goes
    <3>3. CASE call[c].kind = "stopTree" /\ Goes(c, "ended")
      <4>1. Journal(c) = c  BY <3>3 DEF Journal
      <4>2. call'[c].at # "failed"  BY <3>3 DEF Goes
      <4>3. ~Goes(c, "failed")  BY <4>2 DEF Goes
      <4>4. PICK D : ops' = [ops EXCEPT ![c] = [ops[c] EXCEPT !.state = "completed", !.stopped = D]]
        BY <2>1, <4>1, <4>3
      <4>5. ops'[c].state = "completed"  BY <1>1, <4>4 DEF OpRecord
      <4> QED  BY <3>3, <4>5 DEF Unready, Ascends, Working, AtRest, Goes
    <3> QED  BY <2>1, <2>2, <3>1, <3>2, <3>3
  <2> QED  BY <2>1, <2>2, <2>3, <2>4, GuardedFrame
<1>3. CASE CompensateOperation(c)
  <2>1. /\ call[c].at = "compOp" /\ Acts(c) /\ meddled' = meddled
        /\ Ends(c, FALSE) \/ Ends(c, TRUE)
        /\ ops' = ops \/ \E new : ops' = [ops EXCEPT ![Journal(c)] = new]
    BY <1>3, CompensateOperationDoes DEF Quiet
  <2>2. Working(c) /\ call[c].at # "judge"  BY <2>1 DEF Working, AtRest
  <2>3. call'[c].at \in {"failed", "refused", "releaseOld"} \/ ~Owns(c)
    BY <2>1 DEF Ends, Goes, Owns
  <2>4. c \notin meddled => Unready(c)'  BY <2>1, <2>2, <2>3, StillUnready
  <2>5. \A o \in Calls \ {Journal(c)} : ops'[o] = ops[o]  BY <1>1, <2>1
  <2> QED  BY <2>1, <2>2, <2>4, <2>5, GuardedFrame
<1>4. CASE RepairSettle(c)
  <2>1. call[c].at = "repairSettle" /\ Acts(c) /\ meddled' = meddled
    BY <1>4, RepairSettleDoes DEF Quiet
  <2>2. Working(c) /\ call[c].at # "judge" /\ call[c].kind = "repair" /\ ~Owns(c)
    BY <2>1, Stepping DEF Working, AtRest, Owns
  <2>3. \A o \in Calls \ {Journal(c)} : ops'[o] = ops[o]
    <3>1. ops' = ops \/ \E new : ops' = [ops EXCEPT ![call[c].target] = new]
      BY <1>4, RepairSettleDoes
    <3>2. Journal(c) = call[c].target  BY <2>2, JournalIs
    <3> QED  BY <1>1, <3>1, <3>2
  <2>4. c \notin meddled => Unready(c)'  BY <2>1, <2>2, StillUnready
  <2> QED  BY <2>1, <2>2, <2>3, <2>4, GuardedFrame
<1> QED  BY <1>2, <1>3, <1>4

\* a repair goes to work on a journal that no other call works on
LEMMA JudgeGuards ==
  ASSUME TypeOK, Shape, Guarded, Parameters, NEW c \in Calls, Judge(c)
  PROVE  Guarded'
<1> DEFINE t == call[c].target
<1>1. /\ call[c].at = "judge" /\ Acts(c) /\ ops' = ops /\ meddled \subseteq meddled'
      /\ \/ call'[c].at \in {"ended", "failed"}
         \/ ops[t].state # "completed" /\ (Working(t) => t \in meddled')
  BY JudgeDoes DEF Goes
<1>2. call[c].kind = "repair" /\ t \in Calls /\ ops[t].state # "none"
  BY <1>1, Stepping DEF Shape, Named
<1>3. Owns(t) /\ t # c  BY <1>2 DEF Owns, Shape, JournalOK
<1> SUFFICES ASSUME NEW o \in Calls, o \notin meddled' PROVE Alone(o)' /\ Unready(o)'
  BY DEF Guarded
<1>4. Alone(o) /\ Unready(o)  BY <1>1 DEF Guarded
<1>5. Unready(o)'
  <2>1. CASE o = c  BY <1>1, <1>2, <2>1 DEF Unready, Owns, Ascends, Acts
  <2>2. CASE o # c
    <3>1. Same(o)  BY <1>1, <2>2 DEF Acts, Others
    <3> QED  BY <1>1, <1>4, <3>1 DEF Same, Unready, Ascends, Owns, Working
  <2> QED  BY <2>1, <2>2
<1>6. CASE o # t
  <2>1. \A d \in Calls : Repairing(d, o)' => Repairing(d, o)
    BY <1>1, <1>6 DEF Repairing, Acts, Others, Same, Working
  <2>2. (Working(o) \/ call[o].at = "ended")' => Working(o) \/ call[o].at = "ended"
    BY <1>1 DEF Acts, Others, Same, Working, AtRest
  <2> QED  BY <1>4, <1>5, <2>1, <2>2 DEF Alone
<1>7. CASE o = t
  <2>1. Same(o)  BY <1>1, <1>3, <1>7 DEF Acts, Others
  <2>2. CASE call'[c].at \in {"ended", "failed"}
    <3>1. \A d \in Calls : Repairing(d, o)' => Repairing(d, o)
      BY <1>1, <2>2 DEF Repairing, Acts, Others, Same, Working, AtRest
    <3> QED  BY <1>4, <1>5, <2>1, <3>1 DEF Alone, Same, Working
  <2>3. CASE ops[t].state # "completed" /\ (Working(t) => t \in meddled')
    <3>1. ~Working(o) /\ call[o].at # "ended"  BY <1>3, <1>4, <1>7, <2>3 DEF Unready
    <3> QED  BY <1>5, <2>1, <3>1 DEF Alone, Same, Working
  <2> QED  BY <1>1, <2>2, <2>3
<1> QED  BY <1>6, <1>7

LEMMA OutsideGuards ==
  ASSUME TypeOK, Shape, Guarded, Parameters,
         (\E r \in Runs : Exit(r) \/ SettleGone(r)) \/ Restart
  PROVE  Guarded'
<1>1. CASE \E r \in Runs : Exit(r) \/ SettleGone(r)
  <2>1. /\ \A c \in Calls : Same(c)
        /\ ops' = ops /\ meddled' = meddled
    BY <1>1, ExitDoes, SettleGoneDoes DEF Same
  <2> QED  BY <2>1 DEF Guarded, Alone, Unready, Repairing, Ascends, Owns, Working, Same
<1>2. CASE Restart
  <2>1. /\ \A c \in Calls : /\ ~Working(c) => call'[c] = call[c]
                            /\ Working(c) => call'[c].at = "failed"
                            /\ ops[c].state = "completed" => ops'[c].state = "completed"
        /\ meddled' = meddled
    BY <1>2, RestartDoes DEF Goes
  <2>2. \A c \in Calls : ~Working(c)'  BY <2>1 DEF Working, AtRest
  <2>3. \A c \in Calls : call'[c].at = "ended" => call'[c] = call[c]  BY <2>1
  <2> QED  BY <2>1, <2>2, <2>3 DEF Guarded, Alone, Unready, Repairing, Ascends, Owns
<1> QED  BY <1>1, <1>2

LEMMA NextGuards ==
  ASSUME TypeOK, Shape, Guarded, Parameters, Next
  PROVE  Guarded'
BY RequestGuards, LadderGuards, SettleGuards, RunGuards, CloserGuards, TreeGuards, UndoGuards,
   WriteGuards, JudgeGuards, OutsideGuards
DEF Next

-----------------------------------------------------------------------------
(* A run that is as good as ready has its terminal, a run that is to be     *)
(* marked stopped has none that lives.                                      *)
LEMMA FittedFrame ==
  ASSUME TypeOK, Shape, Fitted, Grows, NEW c \in Calls, Others(c),
         \A r \in Runs : runs'[r].terminal =>
             runs[r].terminal \/ \A d \in Calls \ {c} : r \notin call'[d].copies,
         Attached(c)', Killed(c)'
  PROVE  Fitted'
<1> SUFFICES ASSUME NEW d \in Calls, d # c PROVE Attached(d)' /\ Killed(d)'  BY DEF Fitted
<1>1. Same(d) /\ Attached(d) /\ Killed(d)  BY DEF Others, Fitted
<1>2. Attached(d)'  BY <1>1 DEF Same, Attached, Climber, Grows, RunsGrow, Runs
<1>3. Killed(d)'
  <2> SUFFICES ASSUME call[d].at = "stopped", call[d].victim \in call'[d].copies
               PROVE  pty'[call[d].victim] = "dead" \/ ~runs'[call[d].victim].terminal
    BY <1>1 DEF Killed, Same
  <2>1. call[d].victim \in Runs  BY VictimIs DEF Closer
  <2>2. pty[call[d].victim] = "dead" \/ ~runs[call[d].victim].terminal  BY <1>1 DEF Killed, Same
  <2> QED  BY <2>1, <2>2 DEF Grows, PtyGrows
<1> QED  BY <1>2, <1>3

LEMMA StepFits ==
  ASSUME TypeOK, Shape, Fitted, Grows, NEW c \in Calls, Acts(c),
         \A r \in Runs : runs'[r].terminal => runs[r].terminal,
         call'[c].at # "stopped", call'[c].at \in Fit /\ Climber(c) => call[c].at \in Fit
  PROVE  Fitted'
<1>1. Attached(c)  BY DEF Fitted
<1>2. Attached(c)'  BY <1>1 DEF Attached, Acts, Climber, Grows, RunsGrow, Runs
<1>3. Killed(c)'  BY DEF Killed
<1> QED  BY <1>2, <1>3, FittedFrame DEF Acts

LEMMA SameTerminals ==
  ASSUME TypeOK, NEW r \in Runs, NEW life \in Lifecycles, NEW doubt \in BOOLEAN,
         \/ runs' = runs
         \/ runs' = [runs EXCEPT ![r] = [runs[r] EXCEPT !.life = life]]
         \/ runs' = [runs EXCEPT ![r] = [runs[r] EXCEPT !.life = life, !.doubt = doubt]]
  PROVE  \A q \in Runs : runs'[q].terminal => runs[q].terminal
<1>1. runs \in [Runs -> RunRecord]  BY DEF TypeOK
<1> QED  BY <1>1 DEF RunRecord

LEMMA LadderFits ==
  ASSUME TypeOK, Shape, Fitted, Grows, Parameters, NEW c \in Calls,
         \/ Identity(c) \/ DrainOldRun(c) \/ JournalRun(c) \/ ReserveTerminal(c)
         \/ JournalTerminal(c) \/ Furnish(c) \/ Settle(c)
  PROVE  Fitted'
<1>1. /\ Acts(c) /\ runs' = runs
      /\ \/ call'[c].at \in {"reserve", "reserveTerminal", "openTerminal", "patchTerminal",
                             "compTerminal"}
         \/ call[c].at \in {"furnish", "settle"} /\ call'[c].at \in Fit \ {"stopped"}
  BY IdentityClimbs, DrainClimbs, JournalRunClimbs, ReserveTerminalClimbs, JournalTerminalClimbs,
     FurnishDoes, SettleClimbs
  DEF Climbs, Goes, Fit, Retiring
<1> QED  BY <1>1, StepFits DEF Fit, Retiring

LEMMA RunFits ==
  ASSUME TypeOK, Shape, Fitted, Grows, Parameters, NEW c \in Calls,
         \/ FenceOldRun(c) \/ ReserveRun(c) \/ OpenTerminal(c) \/ PassGate(c) \/ MakeReady(c)
  PROVE  Fitted'
<1>0. c \in Runs  BY DEF Runs
<1>1. CASE FenceOldRun(c)
  <2>1. /\ Acts(c) /\ call'[c].at \in {"drain", "compTerminal"}
        /\ \/ runs' = runs
           \/ /\ call[c].old \in Runs
              /\ runs' = [runs EXCEPT ![call[c].old] =
                             [runs[call[c].old] EXCEPT !.life = "continuation-pending"]]
    BY <1>1, FenceOldRunWrites DEF Writes, Goes
  <2>2. \A r \in Runs : runs'[r].terminal => runs[r].terminal  BY <2>1, SameTerminals DEF Lifecycles, Final
  <2> QED  BY <2>1, <2>2, StepFits DEF Fit, Retiring
<1>2. CASE ReserveRun(c)
  <2>1. /\ Acts(c) /\ call'[c].at \in {"journalRun", "compTerminal"}
        /\ \/ runs' = runs
           \/ runs' = [runs EXCEPT ![c] =
                     [NoRun EXCEPT !.agent = AgentOf(c), !.life = "provisioning"]]
    BY <1>2, ReserveRunDoes DEF Goes
  <2>2. ~[NoRun EXCEPT !.agent = AgentOf(c), !.life = "provisioning"].terminal  BY DEF NoRun
  <2>3. \A r \in Runs : runs'[r].terminal => runs[r].terminal  BY <2>1, <2>2 DEF TypeOK
  <2> QED  BY SMTT(30), <2>1, <2>3, StepFits DEF Fit, Retiring
<1>3. CASE OpenTerminal(c)
  <2>1. /\ Acts(c) /\ call'[c].at \in {"journalTerminal", "compTerminal"} /\ runs' = runs
    BY <1>3, OpenTerminalDoes DEF Goes
  <2> QED  BY <2>1, StepFits DEF Fit, Retiring
<1>4. CASE PassGate(c)
  <2>1. /\ Acts(c) /\ call'[c].at \in {"ready", "compTerminal"} /\ call[c].at = "gated"
        /\ \/ runs' = runs
           \/ runs' = [runs EXCEPT ![c] = [runs[c] EXCEPT !.life = "failed"]]
    BY <1>4, PassGateDoes DEF Climbs, Writes, Goes
  <2>2. \A r \in Runs : runs'[r].terminal => runs[r].terminal  BY <1>0, <2>1, SameTerminals DEF Lifecycles, Final
  <2> QED  BY <2>1, <2>2, StepFits DEF Fit, Retiring
<1>5. CASE MakeReady(c)
  <2>1. /\ Acts(c) /\ call'[c].at \in {"stopping", "settle", "compTerminal"} /\ call[c].at = "ready"
        /\ \/ runs' = runs
           \/ runs' = [runs EXCEPT ![c] = [runs[c] EXCEPT !.life = "ready"]]
    BY SMTT(30), <1>5, MakeReadyDoes DEF Goes
  <2>2. \A r \in Runs : runs'[r].terminal => runs[r].terminal  BY <1>0, <2>1, SameTerminals DEF Lifecycles, Final
  <2> QED  BY <2>1, <2>2, StepFits DEF Fit, Retiring
<1> QED  BY <1>1, <1>2, <1>3, <1>4, <1>5

LEMMA PatchTerminalFits ==
  ASSUME TypeOK, Shape, Fitted, Grows, Parameters, NEW c \in Calls, PatchTerminal(c)
  PROVE  Fitted'
<1>0. c \in Runs /\ runs \in [Runs -> RunRecord]  BY DEF Runs, TypeOK
<1>1. /\ Acts(c) /\ call[c].at = "patchTerminal"
      /\ \/ runs' = runs /\ call'[c].at = "compTerminal"
         \/ /\ runs' = [runs EXCEPT ![c] = [runs[c] EXCEPT !.terminal = TRUE]]
            /\ call'[c].at \in {"furnish", "compTerminal"}
            /\ \A d \in Calls \ {c} : c \notin call'[d].copies
  BY PatchTerminalWrites DEF Writes, Goes
<1>2. CASE runs' = runs /\ call'[c].at = "compTerminal"  BY <1>1, <1>2, StepFits DEF Fit, Retiring
<1>3. CASE runs' = [runs EXCEPT ![c] = [runs[c] EXCEPT !.terminal = TRUE]]
           /\ call'[c].at \in {"furnish", "compTerminal"}
           /\ \A d \in Calls \ {c} : c \notin call'[d].copies
  <2>1. \A r \in Runs : runs'[r].terminal => runs[r].terminal \/ r = c  BY <1>0, <1>3
  <2>2. runs'[c].terminal  BY <1>0, <1>3 DEF RunRecord
  <2>3. runs[c].life # "none"  BY <1>1, Stepping DEF Shape, Holding, HasRun
  <2>4. runs'[c].life # "none"  BY <1>0, <2>3 DEF Grows, RunsGrow
  <2>5. Attached(c)' /\ Killed(c)'  BY <1>3, <2>2, <2>4 DEF Attached, Killed
  <2> QED  BY <1>1, <1>3, <2>1, <2>5, FittedFrame DEF Acts
<1> QED  BY <1>1, <1>2, <1>3

LEMMA CloserFits ==
  ASSUME TypeOK, Shape, Fitted, Grows, Parameters, NEW c \in Calls,
         MarkStopping(c) \/ Terminate(c) \/ MarkUnsure(c) \/ MarkStopped(c)
  PROVE  Fitted'
<1> DEFINE v == call[c].victim
<1>1. call[c].at \in Closer /\ Acts(c)
  BY MarkStoppingDoes, TerminateDoes, MarkUnsureMarks, MarkStoppedMarks DEF Marks, Closer
<1>2. v \in Runs  BY <1>1, VictimIs
<1>3. call[c].kind \in {"continue", "stop", "stopTree", "repair"}  BY <1>1, Stepping
<1>4. CASE MarkStopping(c)
  <2>1. /\ \/ runs' = runs
           \/ runs' = [runs EXCEPT ![v] = [runs[v] EXCEPT !.life = "stopping"]]
        /\ (\E result : Closes(c, result)) \/ call'[c].at = "terminate"
    BY <1>4, MarkStoppingDoes DEF Goes
  <2>2. call'[c].at \in Fit /\ Climber(c) => call[c].at \in Fit
    BY <1>1, <2>1 DEF Closer, Fit, Retiring
  <2>3. call'[c].at # "stopped"  BY SMTT(30), <1>3, <2>1 DEF Closes
  <2>4. \A r \in Runs : runs'[r].terminal => runs[r].terminal  BY <1>2, <2>1, SameTerminals DEF Lifecycles, Final
  <2> QED  BY <1>1, <2>2, <2>3, <2>4, StepFits
<1>5. CASE MarkUnsure(c) \/ MarkStopped(c)
  <2>1. \/ runs' = runs
        \/ runs' = [runs EXCEPT ![v] = [runs[v] EXCEPT !.life = "stopped"]]
        \/ runs' = [runs EXCEPT ![v] = [runs[v] EXCEPT !.life = "recovery-required", !.doubt = TRUE]]
    BY <1>5, MarkUnsureMarks, MarkStoppedMarks DEF Marks
  <2>2. \E result : Closes(c, result)  BY <1>5, MarkUnsureMarks, MarkStoppedMarks DEF Marks
  <2>3. call'[c].at \in Fit /\ Climber(c) => call[c].at \in Fit  BY <1>1 DEF Closer, Fit, Retiring
  <2>4. call'[c].at # "stopped"  BY SMTT(30), <1>3, <2>2 DEF Closes
  <2>5. \A r \in Runs : runs'[r].terminal => runs[r].terminal  BY <1>2, <2>1, SameTerminals DEF Lifecycles, Final
  <2> QED  BY <1>1, <2>3, <2>4, <2>5, StepFits
<1>6. CASE Terminate(c)
  <2>1. /\ call[c].at = "terminate" /\ runs' = runs
        /\ \/ call'[c].at = "stopped" /\ call'[c].victim = v
              /\ (~runs[v].terminal \/ pty' = [pty EXCEPT ![v] = "dead"])
           \/ call'[c].at = "unsure"
    BY <1>6, TerminateDoes DEF Goes, AtRest
  <2>2. Killed(c)'  BY <1>2, <2>1 DEF Killed, TypeOK
  <2>3. Attached(c)  BY DEF Fitted
  <2>4. Attached(c)'  BY <1>1, <2>1, <2>3 DEF Attached, Acts, Climber, Fit, Retiring
  <2> QED  BY <1>1, <2>1, <2>2, <2>4, FittedFrame DEF Acts
<1> QED  BY <1>4, <1>5, <1>6

LEMMA OtherFits ==
  ASSUME TypeOK, Shape, Fitted, Grows, Parameters, NEW c \in Calls,
         \/ SendAgain(c) \/ Admit(c) \/ OpenOperation(c)
         \/ CloseFence(c) \/ CreateFence(c) \/ ConfirmOrder(c) \/ StopNext(c) \/ FinishTree(c)
         \/ SettleTreeStop(c) \/ CompensateTerminal(c) \/ CompensateOperation(c)
         \/ Judge(c) \/ RepairFence(c) \/ RepairSettle(c)
  PROVE  Fitted'
<1> USE DEF Fit, Retiring, Climber
<1>1. CASE SendAgain(c) \/ Admit(c) \/ OpenOperation(c)
  <2>1. /\ Acts(c) /\ runs' = runs
        /\ \/ call'[c].at \in {"open", "judge", "admit", "failed", "refused", "identity", "fenceOld",
                               "closeFence"}
           \/ call[c].kind = "stop" /\ call'[c].at = "stopping"
    BY <1>1, SendAgainDoes, AdmitDoes, OpenOperationDoes DEF Goes
  <2> QED  BY <2>1, StepFits
<1>2. CASE \/ CloseFence(c) \/ CreateFence(c) \/ ConfirmOrder(c) \/ StopNext(c) \/ FinishTree(c)
           \/ SettleTreeStop(c)
  <2>1. /\ Acts(c) /\ runs' = runs
        /\ call[c].at \in {"closeFence", "createFence", "snapshot", "stopEach", "settleTree"}
        /\ call'[c].at # "stopped"
    BY <1>2, CloseFenceDoes, CreateFenceDoes, ConfirmOrderDoes, StopNextDoes, FinishTreeDoes,
       SettleTreeStopDoes DEF Goes
  <2>2. call[c].kind \in {"stopTree", "repair"}  BY <2>1, Stepping
  <2> QED  BY SMTT(30), <2>1, <2>2, StepFits
<1>3. CASE CompensateTerminal(c) \/ CompensateOperation(c)
  <2>1. /\ Acts(c) /\ runs' = runs
        /\ call'[c].at \in {"compRun", "compOp", "failed", "refused", "releaseOld", "repairFence"}
    BY <1>3, CompensateTerminalDoes, CompensateOperationDoes DEF Goes, Ends
  <2> QED  BY <2>1, StepFits
<1>4. CASE Judge(c) \/ RepairFence(c) \/ RepairSettle(c)
  <2>1. /\ Acts(c) /\ runs' = runs /\ call[c].at \in {"judge", "repairFence", "repairSettle"}
        /\ call'[c].at # "stopped"
    BY <1>4, JudgeDoes, RepairFenceDoes, RepairSettleDoes DEF Goes
  <2>2. call[c].kind = "repair"  BY <2>1, Stepping
  <2> QED  BY <2>1, <2>2, StepFits
<1> QED  BY <1>1, <1>2, <1>3, <1>4

LEMMA UndoFits ==
  ASSUME TypeOK, Shape, Fitted, Grows, Parameters, NEW c \in Calls,
         CompensateRun(c) \/ ReleaseFencedRun(c)
  PROVE  Fitted'
<1>1. CASE CompensateRun(c)
  <2>1. /\ Acts(c)
        /\ call'[c].at \in {"compOp", "failed", "refused", "releaseOld", "repairFence"}
        /\ \/ runs' = runs
           \/ runs' = [runs EXCEPT ![Journal(c)] =
                 [runs[Journal(c)] EXCEPT !.life = "failed", !.doubt = (call[c].outcome = "unsure")]]
    BY <1>1, CompensateRunDoes DEF Goes, Ends
  <2>2. /\ Journal(c) \in Runs /\ "failed" \in Lifecycles
        /\ (call[c].outcome = "unsure") \in BOOLEAN
    BY JournalIs DEF Runs, Lifecycles, Final
  <2>3. \A r \in Runs : runs'[r].terminal => runs[r].terminal  BY <2>1, <2>2, SameTerminals DEF Lifecycles, Final
  <2> QED  BY <2>1, <2>3, StepFits DEF Fit, Retiring
<1>2. CASE ReleaseFencedRun(c)
  <2>1. /\ Acts(c) /\ call[c].at = "releaseOld" /\ call'[c].at \in {"failed", "refused"}
        /\ \/ runs' = runs
           \/ runs' = [runs EXCEPT ![call[c].old] =
                 [runs[call[c].old] EXCEPT !.life = "recovery-required", !.doubt = TRUE]]
    BY <1>2, ReleaseFencedRunDoes DEF Goes
  <2>2. call[c].old \in Runs /\ "recovery-required" \in Lifecycles
    BY SMTT(30), <2>1, Stepping DEF Shape, Named, Lifecycles
  <2>3. \A r \in Runs : runs'[r].terminal => runs[r].terminal  BY <2>1, <2>2, SameTerminals DEF Lifecycles, Final
  <2> QED  BY <2>1, <2>3, StepFits DEF Fit, Retiring
<1> QED  BY <1>1, <1>2

LEMMA OutsideFits ==
  ASSUME TypeOK, Shape, Fitted, Grows, Parameters,
         (\E r \in Runs : Exit(r) \/ SettleGone(r)) \/ Restart
  PROVE  Fitted'
<1> SUFFICES ASSUME NEW c \in Calls PROVE Attached(c)' /\ Killed(c)'  BY DEF Fitted
<1>1. Attached(c) /\ Killed(c)  BY DEF Fitted
<1>2. CASE \E r \in Runs : Exit(r) \/ SettleGone(r)
  <2>1. /\ Same(c)
        /\ \/ runs' = runs
           \/ \E r \in Runs : runs' = [runs EXCEPT ![r] = [runs[r] EXCEPT !.life = "interrupted"]]
    BY SMTT(30), <1>2, ExitDoes, SettleGoneDoes DEF Same
  <2>2. \A r \in Runs : runs'[r].terminal => runs[r].terminal  BY <2>1, SameTerminals DEF Lifecycles, Final
  <2>3. Attached(c)'  BY <1>1, <2>1 DEF Same, Attached, Climber, Grows, RunsGrow, Runs
  <2>4. call[c].at = "stopped" => call[c].victim \in Runs  BY VictimIs DEF Closer
  <2>5. Killed(c)'  BY <1>1, <2>1, <2>2, <2>4 DEF Same, Killed, Grows, PtyGrows
  <2> QED  BY <2>3, <2>5
<1>3. CASE Restart
  <2>1. /\ ~Working(c) => call'[c] = call[c]
        /\ Working(c) => call'[c].at = "failed"
    BY <1>3, RestartDoes DEF Goes
  <2>2. call'[c].at # "stopped"  BY <2>1 DEF Working, AtRest
  <2>3. Attached(c)'  BY <1>1, <2>1 DEF Attached, Climber, Grows, RunsGrow, Runs, Fit, Retiring
  <2> QED  BY <2>2, <2>3 DEF Killed
<1> QED  BY <1>2, <1>3

LEMMA SendFits ==
  ASSUME TypeOK, Shape, Fitted, Grows, Parameters, NEW c \in Calls, Send(c)
  PROVE  Fitted'
<1>1. /\ Others(c) /\ runs' = runs /\ call'[c].at \in {"admit", "open", "judge"}  BY SendDoes
<1>2. Attached(c)' /\ Killed(c)'  BY <1>1 DEF Attached, Killed, Fit, Retiring
<1> QED  BY <1>1, <1>2, FittedFrame

LEMMA NextFits ==
  ASSUME TypeOK, Shape, Fitted, Parameters, Next
  PROVE  Fitted'
<1>1. Grows  BY NextGrows
<1> QED  BY <1>1, SendFits, LadderFits, RunFits, PatchTerminalFits, CloserFits, OtherFits, UndoFits,
     OutsideFits
  DEF Next

-----------------------------------------------------------------------------
(* What a compensation found out stays true as long as it is at work.       *)
LEMMA MendedFrame ==
  ASSUME TypeOK, Shape, Guarded, Mended, Grows, NEW c \in Calls, Others(c),
         Working(c) \/ (ops' = ops /\ pty' = pty),
         \A o \in Calls \ {c} :
            /\ ops'[o].rungs = ops[o].rungs
            /\ pty'[o] = "live" => pty[o] = "live"
            /\ ops[o].doubt /\ pty'[o] = "live" /\ o \notin meddled => ops'[o].doubt \/ Unmarked(o),
         Journal(c)' \notin meddled' => Undone(c)'
  PROVE  Mended'
<1> SUFFICES ASSUME NEW d \in Calls, d # c, Journal(d)' \notin meddled' PROVE Undone(d)'
  BY DEF Mended
<1> DEFINE o == Journal(d)
<1>1. Same(d) /\ o' = o /\ o \notin meddled  BY DEF Others, Same, Journal, Grows, HistoryGrows
<1>2. Undone(d) /\ o \in Calls  BY <1>1, JournalIs DEF Mended
<1> SUFFICES ASSUME call[d].at \in Mends PROVE Undone(d)'  BY <1>1 DEF Mends, Undone, Same
<1>3. CASE ops' = ops /\ pty' = pty  BY <1>1, <1>2, <1>3 DEF Undone, Same, Unmarked, Mends
<1>4. CASE Working(c)
  <2>1. o # c
    <3> SUFFICES ASSUME o = c PROVE FALSE  OBVIOUS
    <3>1. Repairing(d, c)  BY DEF Journal, Repairing, Working, AtRest, Mends
    <3> QED  BY <1>1, <1>4, <3>1 DEF Guarded, Alone
  <2>2. /\ ops'[o].rungs = ops[o].rungs
        /\ pty'[o] = "live" => pty[o] = "live"
        /\ ops[o].doubt /\ pty'[o] = "live" => ops'[o].doubt \/ Unmarked(o)
    BY <1>1, <1>2, <2>1
  <2>3. Unmarked(o)' <=> Unmarked(o)  BY <1>1, <2>2 DEF Unmarked
  <2>4. pty[o] = "dead" => pty'[o] = "dead"  BY <1>2 DEF Grows, PtyGrows, Runs
  <2> QED  BY <1>1, <1>2, <2>2, <2>3, <2>4 DEF Undone, Same
<1> QED  BY <1>3, <1>4

LEMMA StepMends ==
  ASSUME TypeOK, Shape, Guarded, Mended, Grows, NEW c \in Calls, Others(c),
         Working(c) \/ (ops' = ops /\ pty' = pty),
         \A o \in Calls \ {c} :
            /\ ops'[o].rungs = ops[o].rungs /\ ops'[o].doubt = ops[o].doubt
            /\ pty'[o] = "live" => pty[o] = "live",
         call'[c].at \notin Mends
  PROVE  Mended'
<1>1. Undone(c)'  BY DEF Undone, Mends
<1> QED  BY <1>1, MendedFrame

LEMMA ClimbMends ==
  ASSUME TypeOK, Shape, Guarded, Mended, Grows, Parameters, NEW c \in Calls,
         \/ Identity(c) \/ DrainOldRun(c) \/ JournalRun(c) \/ ReserveTerminal(c)
         \/ JournalTerminal(c) \/ Furnish(c) \/ Settle(c) \/ PassGate(c)
  PROVE  Mended'
<1> DEFINE Rung == /\ Acts(c) /\ pty' = pty
                   /\ call[c].at \notin AtRest /\ call'[c].at \notin Mends
                   /\ ops' = ops \/ \E new : ops' = [ops EXCEPT ![c] = new]
<1>0. ASSUME NEW from, NEW rung, NEW state, NEW to, Climbs(c, from, rung, state, to),
             from \notin AtRest, to \notin Mends
      PROVE  Rung
  <2>1. call'[c].at \in {to, "compTerminal"}  BY <1>0 DEF Climbs, Goes
  <2> QED  BY <1>0, <2>1 DEF Climbs, Mends
<1>1. Rung
  <2> USE DEF AtRest, Mends
  <2>1. CASE Identity(c)  BY <1>0, <2>1, IdentityClimbs
  <2>2. CASE DrainOldRun(c)  BY <1>0, <2>2, DrainClimbs
  <2>3. CASE JournalRun(c)  BY <1>0, <2>3, JournalRunClimbs
  <2>4. CASE ReserveTerminal(c)  BY <1>0, <2>4, ReserveTerminalClimbs
  <2>5. CASE JournalTerminal(c)  BY <1>0, <2>5, JournalTerminalClimbs
  <2>6. CASE Settle(c)  BY <1>0, <2>6, SettleClimbs
  <2>7. CASE Furnish(c)
    <3>1. CASE Climbs(c, "furnish", "furnished", ops[c].state, "ready")  BY <1>0, <3>1
    <3>2. CASE call[c].at = "furnish" /\ Acts(c) /\ Goes(c, "gated") /\ UNCHANGED <<runs, ops, pty>>
      BY <3>2 DEF Goes
    <3> QED  BY <2>7, <3>1, <3>2, FurnishDoes
  <2>8. CASE PassGate(c)
    <3>1. CASE Climbs(c, "gated", "furnished", ops[c].state, "ready")  BY <1>0, <3>1
    <3>2. CASE Writes(c, "gated", c, [runs[c] EXCEPT !.life = "failed"],
                    "compTerminal", "compTerminal")
      BY <3>2 DEF Writes, Goes
    <3> QED  BY <2>8, <3>1, <3>2, PassGateDoes
  <2> QED  BY <2>1, <2>2, <2>3, <2>4, <2>5, <2>6, <2>7, <2>8
<1>2. \A o \in Calls \ {c} : ops'[o] = ops[o]  BY <1>1 DEF TypeOK
<1>3. Working(c)  BY <1>1 DEF Working
<1> QED  BY <1>1, <1>2, <1>3, StepMends DEF Acts

LEMMA RunMends ==
  ASSUME TypeOK, Shape, Guarded, Mended, Grows, Parameters, NEW c \in Calls,
         \/ FenceOldRun(c) \/ ReserveRun(c) \/ PatchTerminal(c) \/ OpenTerminal(c) \/ MakeReady(c)
  PROVE  Mended'
<1>1. CASE FenceOldRun(c) \/ ReserveRun(c) \/ PatchTerminal(c) \/ MakeReady(c)
  <2>1. /\ Acts(c) /\ ops' = ops /\ pty' = pty
        /\ call'[c].at \in {"drain", "journalRun", "furnish", "settle", "stopping", "compTerminal"}
    BY <1>1, FenceOldRunWrites, ReserveRunDoes, PatchTerminalWrites, MakeReadyDoes DEF Writes, Goes
  <2> QED  BY SMTT(30), <2>1, StepMends DEF Mends, Acts
<1>2. CASE OpenTerminal(c)
  <2>1. /\ call[c].at = "openTerminal" /\ Acts(c) /\ ops' = ops
        /\ call'[c].at \in {"journalTerminal", "compTerminal"}
        /\ pty' = pty \/ \E x : pty' = [pty EXCEPT ![c] = x]
    BY <1>2, OpenTerminalDoes DEF Goes
  <2>2. \A o \in Calls \ {c} : pty'[o] = pty[o]  BY <2>1 DEF TypeOK, Runs
  <2>3. Working(c)  BY <2>1 DEF Working, AtRest
  <2> QED  BY <2>1, <2>2, <2>3, StepMends DEF Mends, Acts
<1> QED  BY <1>1, <1>2

LEMMA RequestMends ==
  ASSUME TypeOK, Shape, Guarded, Mended, Grows, Parameters, NEW c \in Calls,
         Send(c) \/ SendAgain(c) \/ Admit(c) \/ OpenOperation(c)
  PROVE  Mended'
<1>1. CASE Send(c) \/ SendAgain(c) \/ Admit(c)
  <2>1. /\ Others(c) /\ ops' = ops /\ pty' = pty
        /\ call'[c].at \in {"admit", "open", "judge", "failed", "refused", "stopping"}
    BY <1>1, SendDoes, SendAgainDoes, AdmitDoes DEF Goes, Acts
  <2> QED  BY <2>1, StepMends DEF Mends
<1>2. CASE OpenOperation(c)
  <2>1. /\ call[c].at = "open" /\ Acts(c) /\ pty' = pty
        /\ call'[c].at \in {"failed", "identity", "fenceOld", "closeFence"}
        /\ ops' = ops \/ \E new : ops' = [ops EXCEPT ![c] = new]
    BY <1>2, OpenOperationDoes DEF Goes
  <2>2. \A o \in Calls \ {c} : ops'[o] = ops[o]  BY <2>1 DEF TypeOK
  <2>3. Working(c)  BY <2>1 DEF Working, AtRest
  <2> QED  BY <2>1, <2>2, <2>3, StepMends DEF Mends, Acts
<1> QED  BY <1>1, <1>2

LEMMA CloserMends ==
  ASSUME TypeOK, Shape, Guarded, Mended, Grows, Parameters, NEW c \in Calls,
         MarkStopping(c) \/ Terminate(c) \/ MarkUnsure(c) \/ MarkStopped(c)
  PROVE  Mended'
<1> DEFINE v == call[c].victim
<1>1. /\ call[c].at \in Closer /\ Acts(c) /\ ops' = ops
      /\ pty' = pty \/ pty' = [pty EXCEPT ![v] = "dead"]
      /\ (\E result : Closes(c, result)) \/ call'[c].at \in {"terminate", "stopped", "unsure"}
  BY MarkStoppingDoes, TerminateDoes, MarkUnsureMarks, MarkStoppedMarks DEF Marks, Closer, Goes
<1>2. \A o \in Calls : pty'[o] = "live" => pty[o] = "live"  BY <1>1 DEF TypeOK, Runs
<1>3. call'[c].at \notin Mends
  <2>1. call[c].kind \in {"continue", "stop", "stopTree", "repair"}  BY <1>1, Stepping
  <2> QED  BY <1>1, <2>1 DEF Closes, Mends
<1>4. Working(c)  BY <1>1 DEF Working, AtRest, Closer
<1> QED  BY <1>1, <1>2, <1>3, <1>4, StepMends DEF Acts

LEMMA TreeMends ==
  ASSUME TypeOK, Shape, Guarded, Mended, Grows, Parameters, NEW c \in Calls,
         \/ CloseFence(c) \/ CreateFence(c) \/ ConfirmOrder(c) \/ StopNext(c) \/ FinishTree(c)
         \/ SettleTreeStop(c)
  PROVE  Mended'
<1>1. CASE CloseFence(c) \/ CreateFence(c) \/ ConfirmOrder(c) \/ StopNext(c) \/ FinishTree(c)
  <2>1. /\ Acts(c) /\ ops' = ops /\ pty' = pty
        /\ call'[c].at \in {"createFence", "snapshot", "stopEach", "stopping", "settleTree", "failed"}
    BY <1>1, CloseFenceDoes, CreateFenceDoes, ConfirmOrderDoes, StopNextDoes, FinishTreeDoes DEF Goes
  <2> QED  BY <2>1, StepMends DEF Mends, Acts
<1>2. CASE SettleTreeStop(c)
  <2>1. call[c].at = "settleTree" /\ Acts(c) /\ pty' = pty /\ call'[c].at \in {"ended", "failed"}
    BY <1>2, SettleTreeStopDoes DEF Goes
  <2>2. Journal(c) \in Calls /\ ops \in [Calls -> OpRecord]  BY JournalIs DEF TypeOK
  <2>3. \A o \in Calls : ops'[o].rungs = ops[o].rungs /\ ops'[o].doubt = ops[o].doubt
    <3>1. \/ ops' = ops
          \/ \E s \in OpStates : \E D : ops' = [ops EXCEPT ![Journal(c)] =
                     [ops[Journal(c)] EXCEPT !.state = s, !.stopped = D]]
      BY <1>2, SettleTreeStopDoes DEF OpStates
    <3>2. CASE ops' = ops  BY <3>2
    <3>3. ASSUME NEW s \in OpStates, NEW D, ops' = [ops EXCEPT ![Journal(c)] =
                     [ops[Journal(c)] EXCEPT !.state = s, !.stopped = D]]
          PROVE  \A o \in Calls : ops'[o].rungs = ops[o].rungs /\ ops'[o].doubt = ops[o].doubt
      BY <2>2, <3>3 DEF OpRecord
    <3> QED  BY <3>1, <3>2, <3>3
  <2>4. Working(c)  BY <2>1 DEF Working, AtRest
  <2> QED  BY SMTT(30), <2>1, <2>3, <2>4, StepMends DEF Mends, Acts
<1> QED  BY <1>1, <1>2

LEMMA UndoMends ==
  ASSUME TypeOK, Shape, Guarded, Mended, Grows, Parameters, NEW c \in Calls,
         CompensateTerminal(c) \/ CompensateRun(c) \/ ReleaseFencedRun(c)
  PROVE  Mended'
<1> DEFINE o == Journal(c)
<1>0. o \in Calls /\ ops \in [Calls -> OpRecord] /\ pty \in [Runs -> {"none", "live", "dead"}]
      /\ Calls \subseteq Runs
  BY JournalIs DEF TypeOK, Runs
<1>1. CASE CompensateTerminal(c)
  <2>1. /\ call[c].at = "compTerminal" /\ Acts(c) /\ ops' = ops
        /\ call'[c].at \in {"compRun", "compOp"}
        /\ call'[c].outcome = "none" => Unmarked(o)
        /\ call'[c].outcome = "sure" => pty' = [pty EXCEPT ![o] = "dead"]
        /\ pty' = pty \/ pty' = [pty EXCEPT ![o] = "dead"]
    BY <1>1, CompensateTerminalDoes
  <2>2. Working(c) /\ o' = o  BY <2>1 DEF Working, AtRest, Acts, Journal
  <2>3. \A x \in Calls : pty'[x] = "live" => pty[x] = "live"  BY <1>0, <2>1
  <2>4. Unmarked(o)' <=> Unmarked(o)  BY <2>1, <2>2 DEF Unmarked
  <2>5. Undone(c)'  BY <1>0, <2>1, <2>2, <2>4 DEF Undone
  <2> QED  BY <2>1, <2>2, <2>3, <2>5, MendedFrame DEF Acts
<1>2. CASE CompensateRun(c)
  <2>1. /\ call[c].at = "compRun" /\ Acts(c) /\ ops' = ops /\ pty' = pty
        /\ \/ call'[c].at = "compOp" /\ call'[c].outcome = call[c].outcome
           \/ call'[c].at \in {"failed", "refused", "releaseOld"}
    BY <1>2, CompensateRunDoes DEF Goes, Ends, AtRest
  <2>2. o' = o  BY <2>1 DEF Acts, Journal
  <2>3. o \notin meddled => Undone(c)'  BY <2>1, <2>2 DEF Undone, Mended, Unmarked
  <2>4. o' \notin meddled' => Undone(c)'  BY <2>2, <2>3 DEF Grows, HistoryGrows
  <2> QED  BY SMTT(30), <2>1, <2>4, MendedFrame DEF Acts
<1>3. CASE ReleaseFencedRun(c)
  <2>1. Acts(c) /\ ops' = ops /\ pty' = pty /\ call'[c].at \in {"failed", "refused"}
    BY <1>3, ReleaseFencedRunDoes DEF Goes
  <2> QED  BY <2>1, StepMends DEF Mends, Acts
<1> QED  BY <1>1, <1>2, <1>3

LEMMA CompensateOperationMends ==
  ASSUME TypeOK, Shape, Guarded, Mended, Grows, Parameters, NEW c \in Calls,
         CompensateOperation(c)
  PROVE  Mended'
<1> DEFINE o == Journal(c)
           doubt == IF call[c].outcome = "none" THEN ops[o].doubt ELSE call[c].outcome = "unsure"
<1>1. o \in Calls /\ ops \in [Calls -> OpRecord] /\ o' = o
      /\ call[c].outcome \in {"none", "sure", "unsure"}
  BY JournalIs, CompensateOperationDoes DEF TypeOK, CallRecord, Acts, Journal
<1>2. /\ call[c].at = "compOp" /\ Acts(c) /\ pty' = pty
      /\ \/ ops' = ops /\ call'[c].at \in {"failed", "refused", "releaseOld"}
         \/ ops' = [ops EXCEPT ![o] = [ops[o] EXCEPT !.state = "recovery-required", !.doubt = doubt]]
            /\ call'[c].at \in {"failed", "refused", "releaseOld", "repairFence"}
  BY CompensateOperationDoes DEF Goes, Ends
<1>3. Working(c)  BY <1>2 DEF Working, AtRest
<1>4. CASE ops' = ops /\ call'[c].at \in {"failed", "refused", "releaseOld"}
  BY <1>2, <1>4, StepMends DEF Mends, Acts
<1>5. CASE ops' = [ops EXCEPT ![o] = [ops[o] EXCEPT !.state = "recovery-required", !.doubt = doubt]]
           /\ call'[c].at \in {"failed", "refused", "releaseOld", "repairFence"}
  <2>1. /\ \A x \in Calls : ops'[x].rungs = ops[x].rungs
        /\ \A x \in Calls \ {o} : ops'[x].doubt = ops[x].doubt
        /\ ops'[o].doubt = doubt
    BY <1>1, <1>5 DEF OpRecord
  <2>2. o \notin meddled /\ pty[o] = "live" => doubt \/ Unmarked(o)
    BY <1>1, <1>2 DEF Mended, Undone
  <2>3. o \notin meddled /\ pty[o] = "live" => ops'[o].doubt \/ Unmarked(o)  BY <2>1, <2>2
  <2>4. o' \notin meddled' => Undone(c)'
    <3>1. Unmarked(o)' <=> Unmarked(o)  BY <1>1, <2>1 DEF Unmarked
    <3> QED  BY <1>1, <1>2, <1>5, <2>3, <3>1 DEF Undone, Grows, HistoryGrows
  <2>5. \A x \in Calls \ {c} :
            /\ ops'[x].rungs = ops[x].rungs
            /\ pty'[x] = "live" => pty[x] = "live"
            /\ ops[x].doubt /\ pty'[x] = "live" /\ x \notin meddled => ops'[x].doubt \/ Unmarked(x)
    BY <1>2, <2>1, <2>3
  <2> QED  BY <1>2, <1>3, <2>4, <2>5, MendedFrame DEF Acts
<1> QED  BY <1>2, <1>4, <1>5

LEMMA RepairMends ==
  ASSUME TypeOK, Shape, Guarded, Mended, Grows, Parameters, NEW c \in Calls,
         Judge(c) \/ RepairFence(c) \/ RepairSettle(c)
  PROVE  Mended'
<1>1. CASE Judge(c)
  <2>1. /\ Acts(c) /\ ops' = ops /\ pty' = pty
        /\ call'[c].at \in {"ended", "failed", "stopEach", "compTerminal"}
    BY <1>1, JudgeDoes DEF Goes
  <2> QED  BY <2>1, StepMends DEF Mends, Acts
<1>2. CASE RepairFence(c)
  <2>1. /\ call[c].at = "repairFence" /\ Acts(c) /\ ops' = ops /\ pty' = pty
        /\ call'[c].at \in {"failed", "repairSettle"}
    BY <1>2, RepairFenceDoes DEF Goes
  <2>2. Journal(c)' = Journal(c)  BY <2>1 DEF Acts, Journal
  <2>3. Journal(c) \notin meddled => Undone(c)'  BY <2>1, <2>2 DEF Undone, Mended, Unmarked
  <2>4. Journal(c)' \notin meddled' => Undone(c)'  BY <2>2, <2>3 DEF Grows, HistoryGrows
  <2> QED  BY <2>1, <2>4, MendedFrame DEF Acts
<1>3. CASE RepairSettle(c)
  <2>1. /\ call[c].at = "repairSettle" /\ Acts(c) /\ pty' = pty
        /\ call'[c].at \in {"refused", "ended", "failed"}
        /\ \/ ops' = ops
           \/ ops' = [ops EXCEPT ![call[c].target] =
                     [ops[call[c].target] EXCEPT !.state = "completed"]]
    BY <1>3, RepairSettleDoes DEF Goes
  <2>2. call[c].target \in Calls /\ ops \in [Calls -> OpRecord] /\ Working(c)
    BY <2>1, Stepping DEF Shape, Named, TypeOK, Working, AtRest
  <2>3. \A o \in Calls : ops'[o].rungs = ops[o].rungs /\ ops'[o].doubt = ops[o].doubt
    BY <2>1, <2>2 DEF OpRecord
  <2> QED  BY <2>1, <2>2, <2>3, StepMends DEF Mends, Acts
<1> QED  BY <1>1, <1>2, <1>3

LEMMA OutsideMends ==
  ASSUME TypeOK, Shape, Guarded, Mended, Grows, Parameters,
         (\E r \in Runs : Exit(r) \/ SettleGone(r)) \/ Restart
  PROVE  Mended'
<1> SUFFICES ASSUME NEW c \in Calls, Journal(c)' \notin meddled' PROVE Undone(c)'  BY DEF Mended
<1>1. CASE \E r \in Runs : Exit(r) \/ SettleGone(r)
  <2>1. /\ Same(c) /\ ops' = ops /\ meddled' = meddled
        /\ pty' = pty \/ \E r \in Runs : pty' = [pty EXCEPT ![r] = "dead"]
    BY <1>1, ExitDoes, SettleGoneDoes DEF Same
  <2>2. Journal(c) \in Runs /\ Journal(c)' = Journal(c)  BY <2>1, JournalIs DEF Runs, Same, Journal
  <2>3. pty'[Journal(c)] = "live" => pty[Journal(c)] = "live"  BY <2>1, <2>2 DEF TypeOK
  <2>4. pty[Journal(c)] = "dead" => pty'[Journal(c)] = "dead"  BY <2>2 DEF Grows, PtyGrows
  <2>5. Undone(c)  BY <2>1, <2>2 DEF Mended
  <2> QED  BY <2>1, <2>2, <2>3, <2>4, <2>5 DEF Undone, Same, Unmarked
<1>2. CASE Restart
  <2>1. (~Working(c) => call'[c] = call[c]) /\ (Working(c) => call'[c].at = "failed")
    BY <1>2, RestartDoes DEF Goes
  <2> QED  BY <2>1 DEF Undone, Working, AtRest
<1> QED  BY <1>1, <1>2

LEMMA NextMends ==
  ASSUME TypeOK, Shape, Guarded, Mended, Parameters, Next
  PROVE  Mended'
<1>1. Grows  BY NextGrows
<1> QED  BY <1>1, RequestMends, ClimbMends, RunMends, CloserMends, TreeMends, UndoMends,
     CompensateOperationMends, RepairMends, OutsideMends
  DEF Next

-----------------------------------------------------------------------------
(* An ended run whose terminal lives is on record.                          *)
LEMMA RecordedFrame ==
  ASSUME TypeOK, Shape, Grows, NEW r \in Runs, Recorded(r), Lingers(r),
         pty'[r] = "live" =>
            /\ pty[r] = "live"
            /\ runs'[r].life \in Final => runs[r].life \in Final /\ (runs[r].doubt => runs'[r].doubt)
            /\ r \in Calls /\ ops'[r].state = "completed" =>
                 ops[r].state = "completed" /\ ops'[r].rungs = ops[r].rungs
  PROVE  Recorded(r)'
<1> SUFFICES ASSUME pty'[r] = "live" PROVE Recorded(r)'  BY DEF Recorded
<1>1. pty[r] = "live" /\ runs[r].life # "none"  BY DEF TypeOK
<1>2. runs[r].terminal => runs'[r].terminal  BY <1>1 DEF Grows, RunsGrow
<1>3. r \in Calls /\ ops'[r].state = "completed" =>
        ops[r].state = "completed" /\ (Unmarked(r)' <=> Unmarked(r))
  BY DEF Unmarked
<1> QED  BY <1>1, <1>2, <1>3 DEF Recorded, Lingers

LEMMA OthersLinger ==
  ASSUME NEW c \in Calls, Others(c), NEW r, r # c \/ Lingers(c)
  PROVE  Lingers(r)
BY DEF Others, Same, Lingers, Climber

\* a step that leaves the journals alone, ends no run and opens no terminal
LEMMA StepRecords ==
  ASSUME TypeOK, Shape, AllRecorded, Grows, NEW c \in Calls, Others(c), Lingers(c), ops' = ops,
         \A r \in Runs :
            /\ pty'[r] = "live" => pty[r] = "live"
            /\ runs'[r].life \in Final =>
                 runs[r].life \in Final /\ (runs[r].doubt => runs'[r].doubt)
  PROVE  AllRecorded'
<1> SUFFICES ASSUME NEW r \in Runs, r \notin meddled' PROVE Recorded(r)'  BY DEF AllRecorded
<1>1. Recorded(r) /\ Lingers(r)  BY OthersLinger DEF AllRecorded, Grows, HistoryGrows
<1> QED  BY <1>1, RecordedFrame

\* what the write of a run makes of the others
LEMMA LifeChanges ==
  ASSUME TypeOK, NEW r \in Runs, NEW life \in Lifecycles, NEW doubt \in BOOLEAN,
         \/ runs' = runs
         \/ runs' = [runs EXCEPT ![r] = [runs[r] EXCEPT !.life = life]]
         \/ runs' = [runs EXCEPT ![r] = [runs[r] EXCEPT !.life = life, !.doubt = doubt]]
  PROVE  /\ \A q \in Runs \ {r} : runs'[q] = runs[q]
         /\ life \notin Final => \A q \in Runs : runs'[q].life \in Final =>
               runs[q].life \in Final /\ runs'[q].doubt = runs[q].doubt
         /\ runs' # runs => runs'[r].life = life
<1>1. runs \in [Runs -> RunRecord]  BY DEF TypeOK
<1> QED  BY <1>1 DEF RunRecord

LEMMA ClimbRecords ==
  ASSUME TypeOK, Shape, Guarded, AllRecorded, Grows, Parameters, NEW c \in Calls,
         NEW from, NEW rung, NEW to, NEW state \in {ops[c].state, "continuation-pending"},
         Climbs(c, from, rung, state, to), Climber(c), to \notin Retiring,
         from \notin Undoing \cup AtRest \cup {"releaseOld"}
  PROVE  AllRecorded'
<1> SUFFICES ASSUME NEW r \in Runs, r \notin meddled' PROVE Recorded(r)'  BY DEF AllRecorded
<1>1. Recorded(r) /\ r \notin meddled  BY DEF AllRecorded, Grows, HistoryGrows
<1>2. call'[c].at \in {to, "compTerminal"}  BY DEF Climbs, Goes
<1>3. Lingers(c)  BY <1>2 DEF Lingers, Retiring
<1>4. Lingers(r)  BY <1>3, OthersLinger DEF Climbs, Acts
<1>5. r \in Calls => ops'[r] = ops[r] \/ ops'[r].state # "completed"
  <2>1. CASE r = c
    <3>1. Ascends(c)  BY DEF Climbs, Ascends, Owns, Climber, Working
    <3>2. ops[c].state # "completed"  BY <1>1, <2>1, <3>1 DEF Guarded, Unready
    <3>3. ops \in [Calls -> OpRecord]  BY DEF TypeOK
    <3>4. CASE ops' = ops  BY <3>4
    <3>5. CASE ops' = [ops EXCEPT ![c] = [ops[c] EXCEPT !.rungs = @ \cup {rung}, !.state = state]]
      <4>1. ops'[c].state = state  BY <3>3, <3>5 DEF OpRecord
      <4> QED  BY <2>1, <3>2, <4>1
    <3> QED  BY <3>4, <3>5 DEF Climbs
  <2>2. CASE r # c  BY <2>2 DEF Climbs, TypeOK
  <2> QED  BY <2>1, <2>2
<1> QED  BY <1>1, <1>4, <1>5, RecordedFrame DEF Climbs

LEMMA LadderRecords ==
  ASSUME TypeOK, Shape, Guarded, AllRecorded, Grows, Parameters, NEW c \in Calls,
         \/ Identity(c) \/ DrainOldRun(c) \/ JournalRun(c) \/ ReserveTerminal(c)
         \/ JournalTerminal(c) \/ Furnish(c)
  PROVE  AllRecorded'
<1> USE DEF Undoing, AtRest, Retiring, HasRun
<1>1. CASE Identity(c)
  <2>1. Climbs(c, "identity", "identity", ops[c].state, "reserve")  BY <1>1, IdentityClimbs
  <2>2. Climber(c)  BY <2>1, Stepping DEF Climbs, Climber
  <2> QED  BY <2>1, <2>2, ClimbRecords
<1>2. CASE DrainOldRun(c)
  <2>1. Climbs(c, "drain", "fenced", "continuation-pending", "reserve")  BY <1>2, DrainClimbs
  <2>2. Climber(c)  BY <2>1, Stepping DEF Climbs, Climber
  <2> QED  BY <2>1, <2>2, ClimbRecords
<1>3. CASE JournalRun(c)
  <2> DEFINE to == IF call[c].kind = "spawn" THEN "reserveTerminal" ELSE "openTerminal"
  <2>1. Climbs(c, "journalRun", "run", ops[c].state, to)  BY <1>3, JournalRunClimbs
  <2>2. Climber(c)  BY <2>1, Stepping DEF Climbs
  <2> QED  BY <2>1, <2>2, ClimbRecords
<1>4. CASE ReserveTerminal(c)
  <2>1. Climbs(c, "reserveTerminal", "reserved", ops[c].state, "openTerminal")
    BY <1>4, ReserveTerminalClimbs
  <2>2. Climber(c)  BY <2>1, Stepping DEF Climbs
  <2> QED  BY <2>1, <2>2, ClimbRecords
<1>5. CASE JournalTerminal(c)
  <2>1. Climbs(c, "journalTerminal", "live", ops[c].state, "patchTerminal")
    BY <1>5, JournalTerminalClimbs
  <2>2. Climber(c)  BY <2>1, Stepping DEF Climbs
  <2> QED  BY <2>1, <2>2, ClimbRecords
<1>6. CASE Furnish(c)
  <2>1. CASE Climbs(c, "furnish", "furnished", ops[c].state, "ready")
    <3>1. Climber(c)  BY <2>1, Stepping DEF Climbs
    <3> QED  BY <2>1, <3>1, ClimbRecords
  <2>2. CASE /\ call[c].at = "furnish" /\ Acts(c) /\ Goes(c, "gated")
             /\ UNCHANGED <<runs, ops, pty>>
    <3>1. Lingers(c)  BY <2>2 DEF Lingers, Goes
    <3> QED  BY <2>2, <3>1, StepRecords DEF Acts
  <2> QED  BY <1>6, <2>1, <2>2, FurnishDoes
<1> QED  BY <1>1, <1>2, <1>3, <1>4, <1>5, <1>6

LEMMA SettleRecords ==
  ASSUME TypeOK, Shape, Guarded, Fitted, AllRecorded, Grows, Parameters,
         NEW c \in Calls, Settle(c)
  PROVE  AllRecorded'
<1> SUFFICES ASSUME NEW r \in Runs, r \notin meddled' PROVE Recorded(r)'  BY DEF AllRecorded
<1>1. Recorded(r) /\ r \notin meddled  BY DEF AllRecorded, Grows, HistoryGrows
<1>2. Climbs(c, "settle", "ready", "completed", "ended")  BY SettleClimbs
<1>3. Climber(c) /\ call[c].at \in Retiring  BY <1>2, Stepping DEF Climbs, HasRun, Retiring
<1>4. Lingers(r)  BY <1>2, <1>3, OthersLinger DEF Climbs, Acts, Lingers
<1>5. CASE r # c
  <2>1. r \in Calls => ops'[r] = ops[r]  BY <1>2, <1>5 DEF Climbs, TypeOK
  <2> QED  BY <1>1, <1>2, <1>4, <2>1, RecordedFrame DEF Climbs
<1>6. CASE r = c
  <2>1. runs[c].terminal  BY <1>3 DEF Fitted, Attached, Fit
  <2>2. runs[c].life \in Final /\ pty[c] = "live" => runs[c].doubt  BY <1>1, <1>3, <1>6 DEF Recorded
  <2> QED  BY <1>2, <1>6, <2>1, <2>2 DEF Recorded, Climbs
<1> QED  BY <1>5, <1>6

LEMMA RunRecords ==
  ASSUME TypeOK, Shape, Guarded, Fitted, AllRecorded, Grows, Parameters,
         NEW c \in Calls, FenceOldRun(c) \/ ReserveRun(c) \/ PatchTerminal(c)
  PROVE  AllRecorded'
<1>1. CASE FenceOldRun(c)
  <2>1. /\ Acts(c) /\ call'[c].at \in {"drain", "compTerminal"} /\ ops' = ops /\ pty' = pty
        /\ \/ runs' = runs
           \/ /\ call[c].old \in Runs
              /\ runs' = [runs EXCEPT ![call[c].old] =
                             [runs[call[c].old] EXCEPT !.life = "continuation-pending"]]
    BY <1>1, FenceOldRunWrites DEF Writes, Goes
  <2>2. "continuation-pending" \in Lifecycles \ Final  BY DEF Lifecycles, Final
  <2>3. \A r \in Runs : runs'[r].life \in Final =>
             runs[r].life \in Final /\ (runs[r].doubt => runs'[r].doubt)
    BY <2>1, <2>2, LifeChanges
  <2>4. Lingers(c)  BY <2>1 DEF Lingers, Retiring
  <2> QED  BY <2>1, <2>3, <2>4, StepRecords DEF Acts
<1>2. CASE ReserveRun(c)
  <2>1. /\ Acts(c) /\ call'[c].at \in {"journalRun", "compTerminal"} /\ ops' = ops /\ pty' = pty
        /\ \/ runs' = runs
           \/ runs' = [runs EXCEPT ![c] =
                     [NoRun EXCEPT !.agent = AgentOf(c), !.life = "provisioning"]]
    BY <1>2, ReserveRunDoes DEF Goes
  <2>2. [NoRun EXCEPT !.agent = AgentOf(c), !.life = "provisioning"].life \notin Final
    BY DEF NoRun, Final
  <2>3. \A r \in Runs : runs'[r].life \in Final => runs'[r] = runs[r]  BY <2>1, <2>2 DEF TypeOK
  <2>4. Lingers(c)  BY <2>1 DEF Lingers, Retiring
  <2> QED  BY SMTT(30), <2>1, <2>3, <2>4, StepRecords DEF Acts
<1>3. CASE PatchTerminal(c)
  <2>1. /\ Acts(c) /\ call'[c].at \in {"furnish", "compTerminal"} /\ ops' = ops /\ pty' = pty
        /\ runs' = runs \/ runs' = [runs EXCEPT ![c] = [runs[c] EXCEPT !.terminal = TRUE]]
    BY <1>3, PatchTerminalWrites DEF Writes, Goes
  <2>2. runs \in [Runs -> RunRecord]  BY DEF TypeOK
  <2>3. \A r \in Runs : runs'[r].life = runs[r].life /\ runs'[r].doubt = runs[r].doubt
    BY <2>1, <2>2 DEF RunRecord
  <2>4. Lingers(c)  BY <2>1 DEF Lingers, Retiring
  <2> QED  BY <2>1, <2>3, <2>4, StepRecords DEF Acts
<1> QED  BY <1>1, <1>2, <1>3

\* a call at work has a journal that is not completed, whatever becomes of its run
LEMMA WorkRecords ==
  ASSUME TypeOK, Shape, Guarded, AllRecorded, Grows, Parameters,
         NEW c \in Calls, Acts(c), Ascends(c), Lingers(c), call'[c].at \notin Retiring, ops' = ops,
         \A r \in Runs \ {c} : runs'[r] = runs[r] /\ (pty'[r] = "live" => pty[r] = "live")
  PROVE  AllRecorded'
<1> SUFFICES ASSUME NEW r \in Runs, r \notin meddled' PROVE Recorded(r)'  BY DEF AllRecorded
<1>1. Recorded(r) /\ r \notin meddled  BY DEF AllRecorded, Grows, HistoryGrows
<1>2. CASE r # c
  <2>1. Lingers(r)  BY <1>2, OthersLinger DEF Acts
  <2> QED  BY <1>1, <1>2, <2>1, RecordedFrame
<1>3. CASE r = c
  <2>1. ops[c].state # "completed"  BY <1>1, <1>3 DEF Guarded, Unready
  <2> QED  BY <1>3, <2>1 DEF Recorded
<1> QED  BY <1>2, <1>3

LEMMA WorkingRecords ==
  ASSUME TypeOK, Shape, Guarded, Fitted, AllRecorded, Grows, Parameters,
         NEW c \in Calls, OpenTerminal(c) \/ PassGate(c) \/ MakeReady(c)
  PROVE  AllRecorded'
<1>0. c \in Runs  BY DEF Runs
<1>1. CASE OpenTerminal(c)
  <2>1. /\ call[c].at = "openTerminal" /\ Acts(c) /\ runs' = runs /\ ops' = ops
        /\ call'[c].at \in {"journalTerminal", "compTerminal"}
        /\ pty' = pty \/ \E x : pty' = [pty EXCEPT ![c] = x]
    BY <1>1, OpenTerminalDoes DEF Goes
  <2>2. Ascends(c) /\ Lingers(c) /\ call'[c].at \notin Retiring  BY <2>1, Stepping
    DEF Ascends, Owns, Working, AtRest, Undoing, HasRun, Climber, Lingers, Retiring
  <2>3. \A r \in Runs \ {c} : pty'[r] = pty[r]  BY <2>1 DEF TypeOK
  <2> QED  BY <2>1, <2>2, <2>3, WorkRecords
<1>2. CASE PassGate(c)
  <2>1. CASE Climbs(c, "gated", "furnished", ops[c].state, "ready")
    <3>1. Climber(c)  BY <2>1, Stepping DEF Climbs, HasRun
    <3> QED  BY <2>1, <3>1, ClimbRecords DEF Retiring, Undoing, AtRest
  <2>2. CASE Writes(c, "gated", c, [runs[c] EXCEPT !.life = "failed"],
                    "compTerminal", "compTerminal")
    <3>1. /\ Acts(c) /\ call[c].at = "gated" /\ call'[c].at = "compTerminal" /\ ops' = ops /\ pty' = pty
          /\ runs' = runs \/ runs' = [runs EXCEPT ![c] = [runs[c] EXCEPT !.life = "failed"]]
      BY <2>2 DEF Writes, Goes
    <3>2. Ascends(c) /\ Lingers(c) /\ call'[c].at \notin Retiring  BY <3>1, Stepping
      DEF Ascends, Owns, Working, AtRest, Undoing, HasRun, Climber, Lingers, Retiring
    <3>3. \A r \in Runs \ {c} : runs'[r] = runs[r]  BY <3>1 DEF TypeOK
    <3> QED  BY <3>1, <3>2, <3>3, WorkRecords
  <2> QED  BY <1>2, <2>1, <2>2, PassGateDoes
<1>3. CASE MakeReady(c)
  <2>1. /\ Acts(c) /\ ops' = ops /\ pty' = pty
        /\ \/ runs' = runs /\ call'[c].at = "compTerminal"
           \/ runs' = [runs EXCEPT ![c] = [runs[c] EXCEPT !.life = "ready"]]
    BY <1>3, MakeReadyDoes DEF Goes
  <2>2. CASE runs' = runs /\ call'[c].at = "compTerminal"
    <3>1. Lingers(c)  BY <2>2 DEF Lingers, Retiring
    <3> QED  BY <2>1, <2>2, <3>1, StepRecords DEF Acts
  <2>3. CASE runs' = [runs EXCEPT ![c] = [runs[c] EXCEPT !.life = "ready"]]
    <3> SUFFICES ASSUME NEW r \in Runs, r \notin meddled' PROVE Recorded(r)'  BY DEF AllRecorded
    <3>1. Recorded(r)  BY DEF AllRecorded, Grows, HistoryGrows
    <3>2. runs \in [Runs -> RunRecord]  BY DEF TypeOK
    <3>3. CASE r # c
      <4>1. Lingers(r)  BY <2>1, <3>3, OthersLinger DEF Acts
      <4> QED  BY <2>1, <2>3, <3>1, <3>2, <3>3, <4>1, RecordedFrame
    <3>4. CASE r = c
      <4>1. runs'[c].life = "ready" /\ runs'[c].terminal = runs[c].terminal
        BY <1>0, <2>3, <3>2 DEF RunRecord
      <4>2. runs'[c].life \notin Final  BY <4>1 DEF Final
      <4> QED  BY <2>1, <3>1, <3>4, <4>1, <4>2 DEF Recorded, Unmarked
    <3> QED  BY <3>3, <3>4
  <2> QED  BY <2>1, <2>2, <2>3
<1> QED  BY <1>1, <1>2, <1>3

LEMMA QuietRecords ==
  ASSUME TypeOK, Shape, AllRecorded, Grows, Parameters, NEW c \in Calls,
         \/ Send(c) \/ SendAgain(c) \/ Admit(c)
         \/ CloseFence(c) \/ CreateFence(c) \/ ConfirmOrder(c) \/ StopNext(c) \/ FinishTree(c)
         \/ Judge(c) \/ RepairFence(c)
  PROVE  AllRecorded'
<1> USE DEF Lingers, Retiring, Climber
<1>1. CASE Send(c)
  <2>1. Others(c) /\ UNCHANGED <<runs, pty, ops>> /\ call'[c].at \in {"admit", "open", "judge"}
    BY <1>1, SendDoes
  <2>2. Lingers(c)  BY <2>1
  <2> QED  BY <2>1, <2>2, StepRecords
<1>2. CASE SendAgain(c) \/ Admit(c)
  <2>1. /\ Acts(c) /\ UNCHANGED <<runs, pty, ops>>
        /\ \/ call'[c].at \in {"open", "judge", "admit", "failed", "refused"}
           \/ call[c].kind = "stop"
    BY <1>2, SendAgainDoes, AdmitDoes DEF Goes
  <2>2. Lingers(c)  BY <2>1 DEF Acts
  <2> QED  BY <2>1, <2>2, StepRecords DEF Acts
<1>3. CASE CloseFence(c) \/ CreateFence(c) \/ ConfirmOrder(c) \/ StopNext(c) \/ FinishTree(c)
  <2>1. /\ Acts(c) /\ UNCHANGED <<runs, pty, ops>>
        /\ call[c].at \in {"closeFence", "createFence", "snapshot", "stopEach"}
    BY <1>3, CloseFenceDoes, CreateFenceDoes, ConfirmOrderDoes, StopNextDoes, FinishTreeDoes
  <2>2. Lingers(c)  BY <2>1, Stepping DEF Acts
  <2> QED  BY <2>1, <2>2, StepRecords DEF Acts
<1>4. CASE Judge(c) \/ RepairFence(c)
  <2>1. /\ Acts(c) /\ UNCHANGED <<runs, pty, ops>> /\ call[c].at \in {"judge", "repairFence"}
    BY <1>4, JudgeDoes, RepairFenceDoes
  <2>2. Lingers(c)  BY <2>1, Stepping DEF Acts
  <2> QED  BY <2>1, <2>2, StepRecords DEF Acts
<1> QED  BY <1>1, <1>2, <1>3, <1>4

LEMMA OpenOperationRecords ==
  ASSUME TypeOK, Shape, AllRecorded, Grows, Parameters, NEW c \in Calls, OpenOperation(c)
  PROVE  AllRecorded'
<1>1. /\ Acts(c) /\ runs' = runs /\ pty' = pty
      /\ call'[c].at \in {"failed", "identity", "fenceOld", "closeFence"}
      /\ \/ ops' = ops
         \/ ops' = [ops EXCEPT ![c] = [NoOp EXCEPT !.state = "running", !.mine = TRUE]]
  BY OpenOperationDoes DEF Goes
<1>2. Lingers(c)  BY <1>1 DEF Lingers, Retiring
<1>3. CASE ops' = ops  BY <1>1, <1>2, <1>3, StepRecords DEF Acts
<1>4. CASE ops' = [ops EXCEPT ![c] = [NoOp EXCEPT !.state = "running", !.mine = TRUE]]
  <2> SUFFICES ASSUME NEW r \in Runs, r \notin meddled' PROVE Recorded(r)'  BY DEF AllRecorded
  <2>1. Recorded(r) /\ Lingers(r)
    BY <1>1, <1>2, OthersLinger DEF AllRecorded, Acts, Grows, HistoryGrows
  <2>2. [NoOp EXCEPT !.state = "running", !.mine = TRUE].state = "running"  BY DEF NoOp
  <2>3. r \in Calls => ops'[r] = ops[r] \/ ops'[r].state # "completed"  BY <1>4, <2>2 DEF TypeOK
  <2> QED  BY <1>1, <2>1, <2>3, RecordedFrame
<1> QED  BY <1>1, <1>3, <1>4

LEMMA CloserRecords ==
  ASSUME TypeOK, Shape, AllRecorded, Fitted, Grows, Parameters, NEW c \in Calls,
         MarkStopping(c) \/ Terminate(c) \/ MarkUnsure(c) \/ MarkStopped(c)
  PROVE  AllRecorded'
<1> DEFINE v == call[c].victim
<1>1. call[c].at \in Closer /\ Acts(c) /\ ops' = ops
  BY MarkStoppingDoes, TerminateDoes, MarkUnsureMarks, MarkStoppedMarks DEF Marks, Closer
<1>2. v \in Runs  BY <1>1, VictimIs
<1>3. Lingers(c)  BY <1>1 DEF Lingers, Closer, Retiring, Acts, Climber
<1>4. CASE MarkStopping(c) \/ MarkUnsure(c)
  <2>1. /\ pty' = pty
        /\ \/ runs' = runs
           \/ runs' = [runs EXCEPT ![v] = [runs[v] EXCEPT !.life = "stopping"]]
           \/ runs' = [runs EXCEPT ![v] =
                          [runs[v] EXCEPT !.life = "recovery-required", !.doubt = TRUE]]
    BY <1>4, MarkStoppingDoes, MarkUnsureMarks DEF Marks
  <2>2. {"stopping", "recovery-required"} \subseteq Lifecycles \ Final  BY DEF Lifecycles, Final
  <2>3. \A r \in Runs : runs'[r].life \in Final =>
             runs[r].life \in Final /\ (runs[r].doubt => runs'[r].doubt)
    BY <1>2, <2>1, <2>2, LifeChanges
  <2> QED  BY <1>1, <1>3, <2>1, <2>3, StepRecords DEF Acts
<1>5. CASE Terminate(c)
  <2>1. runs' = runs /\ (pty' = pty \/ pty' = [pty EXCEPT ![v] = "dead"])  BY <1>5, TerminateDoes
  <2>2. \A r \in Runs : pty'[r] = "live" => pty[r] = "live"  BY <2>1 DEF TypeOK
  <2> QED  BY <1>1, <1>3, <2>1, <2>2, StepRecords DEF Acts
<1>6. CASE MarkStopped(c)
  <2>1. /\ call[c].at = "stopped" /\ pty' = pty
        /\ \/ runs' = runs
           \/ /\ v \in call[c].copies
              /\ runs' = [runs EXCEPT ![v] = [runs[v] EXCEPT !.life = "stopped"]]
    BY <1>6, MarkStoppedMarks DEF Marks
  <2>2. CASE runs' = runs  BY <1>1, <1>3, <2>1, <2>2, StepRecords DEF Acts
  <2>3. CASE v \in call[c].copies /\ runs' = [runs EXCEPT ![v] = [runs[v] EXCEPT !.life = "stopped"]]
    <3> SUFFICES ASSUME NEW r \in Runs, r \notin meddled' PROVE Recorded(r)'  BY DEF AllRecorded
    <3>1. Recorded(r) /\ Lingers(r)
      BY <1>1, <1>3, OthersLinger DEF AllRecorded, Acts, Grows, HistoryGrows
    <3>2. runs \in [Runs -> RunRecord]  BY DEF TypeOK
    <3>3. pty[v] = "dead" \/ ~runs[v].terminal  BY <2>1, <2>3 DEF Fitted, Killed
    <3>4. CASE r # v \/ pty[r] # "live"  BY <1>1, <2>1, <2>3, <3>1, <3>2, <3>4, RecordedFrame
    <3>5. CASE r = v /\ pty[r] = "live"
      <4>1. ~runs[r].terminal /\ r \in Calls  BY <3>3, <3>5 DEF Shape, RunOK, Runs
      <4>2. ops[r].state = "completed" => Unmarked(r)  BY <3>1, <3>5, <4>1 DEF Recorded
      <4>3. Unmarked(r)' <=> Unmarked(r)  BY <1>1 DEF Unmarked
      <4>4. ~(Climber(r)' /\ call'[r].at \in Retiring)
        BY <3>1, <4>1 DEF Lingers, Fitted, Attached, Fit
      <4> QED  BY <1>1, <4>1, <4>2, <4>3, <4>4 DEF Recorded
    <3> QED  BY <3>4, <3>5
  <2> QED  BY <2>1, <2>2, <2>3
<1> QED  BY <1>4, <1>5, <1>6

LEMMA SettleTreeRecords ==
  ASSUME TypeOK, Shape, AllRecorded, Grows, Parameters, NEW c \in Calls,
         SettleTreeStop(c)
  PROVE  AllRecorded'
<1> DEFINE o == Journal(c)
<1> SUFFICES ASSUME NEW r \in Runs, r \notin meddled' PROVE Recorded(r)'  BY DEF AllRecorded
<1>1. call[c].at = "settleTree" /\ Acts(c) /\ pty' = pty /\ runs' = runs
      /\ (ops' = ops \/ \E new : ops' = [ops EXCEPT ![o] = new])
  BY SettleTreeStopDoes
<1>2. o \in Calls /\ call[o].kind = "stopTree" /\ call[c].kind \in {"stopTree", "repair"}
  BY <1>1, JournalIs, Stepping DEF Shape, Holding, Loop
<1>3. Lingers(c)  BY <1>1, <1>2 DEF Lingers, Climber, Acts
<1>4. Recorded(r) /\ Lingers(r)
  BY <1>1, <1>3, OthersLinger DEF AllRecorded, Acts, Grows, HistoryGrows
<1>5. r # o /\ r \in Calls => ops'[r] = ops[r]  BY <1>1 DEF TypeOK
<1>6. r = o => pty[r] # "live"  BY <1>2 DEF Shape, RunOK, Climber, TypeOK
<1> QED  BY <1>1, <1>4, <1>5, <1>6, RecordedFrame

LEMMA UndoRecords ==
  ASSUME TypeOK, Shape, Guarded, Mended, AllRecorded, Grows, Parameters,
         NEW c \in Calls, CompensateTerminal(c) \/ CompensateRun(c) \/ ReleaseFencedRun(c)
  PROVE  AllRecorded'
<1> DEFINE o == Journal(c)
<1>0. o \in Calls /\ o \in Runs /\ runs \in [Runs -> RunRecord]  BY JournalIs DEF TypeOK, Runs
<1>1. CASE CompensateTerminal(c)
  <2>1. /\ Acts(c) /\ ops' = ops /\ runs' = runs /\ call'[c].at \in {"compRun", "compOp"}
        /\ pty' = pty \/ pty' = [pty EXCEPT ![o] = "dead"]
    BY <1>1, CompensateTerminalDoes
  <2>2. \A r \in Runs : pty'[r] = "live" => pty[r] = "live"  BY <2>1 DEF TypeOK
  <2>3. Lingers(c)  BY <2>1 DEF Lingers, Retiring
  <2> QED  BY <2>1, <2>2, <2>3, StepRecords DEF Acts
<1>2. CASE CompensateRun(c)
  <2> DEFINE new == [runs[o] EXCEPT !.life = "failed", !.doubt = (call[c].outcome = "unsure")]
  <2>1. /\ call[c].at = "compRun" /\ Acts(c) /\ ops' = ops /\ pty' = pty
        /\ call'[c].at \in {"compOp", "failed", "refused", "releaseOld", "repairFence"}
        /\ runs' = runs \/ runs' = [runs EXCEPT ![o] = new]
    BY <1>2, CompensateRunDoes DEF Goes, Ends
  <2>2. Lingers(c)  BY <2>1 DEF Lingers, Retiring
  <2>3. CASE runs' = runs  BY <2>1, <2>2, <2>3, StepRecords DEF Acts
  <2>4. CASE runs' = [runs EXCEPT ![o] = new]
    <3> SUFFICES ASSUME NEW r \in Runs, r \notin meddled' PROVE Recorded(r)'  BY DEF AllRecorded
    <3>1. Recorded(r) /\ Lingers(r) /\ r \notin meddled
      BY <2>1, <2>2, OthersLinger DEF AllRecorded, Acts, Grows, HistoryGrows
    <3>2. CASE r # o \/ pty[r] # "live"  BY <1>0, <2>1, <2>4, <3>1, <3>2, RecordedFrame
    <3>3. CASE r = o /\ pty[r] = "live"
      <4>1. runs'[o].doubt = (call[c].outcome = "unsure") /\ runs'[o].terminal = runs[o].terminal
        BY <1>0, <2>4 DEF RunRecord
      <4>2. call[c].outcome = "unsure" \/ Unmarked(o)
        BY <2>1, <3>1, <3>3 DEF Mended, Undone, TypeOK, CallRecord
      <4>3. Unmarked(r)' <=> Unmarked(r)  BY <2>1 DEF Unmarked
      <4>4. ~(Climber(r)' /\ call'[r].at \in Retiring)
        <5>1. CASE r = c  BY <2>1, <5>1 DEF Retiring
        <5>2. CASE r # c
          <6>1. Repairing(c, r)  BY <2>1, <3>3, <5>2 DEF Journal, Repairing, Working, AtRest
          <6>2. ~Working(r) /\ call[r].at # "ended"  BY <1>0, <3>1, <3>3, <6>1 DEF Guarded, Alone
          <6>3. call[r].at \notin Retiring  BY <6>2 DEF Working, AtRest, Retiring
          <6> QED  BY <1>0, <3>1, <3>3, <6>3 DEF Lingers
        <5> QED  BY <5>1, <5>2
      <4> QED  BY <1>0, <2>1, <3>1, <3>3, <4>1, <4>2, <4>3, <4>4 DEF Recorded
    <3> QED  BY <3>2, <3>3
  <2> QED  BY SMTT(30), <2>1, <2>3, <2>4
<1>3. CASE ReleaseFencedRun(c)
  <2>1. /\ call[c].at = "releaseOld" /\ Acts(c) /\ ops' = ops /\ pty' = pty
        /\ call'[c].at \in {"failed", "refused"}
        /\ \/ runs' = runs
           \/ runs' = [runs EXCEPT ![call[c].old] =
                 [runs[call[c].old] EXCEPT !.life = "recovery-required", !.doubt = TRUE]]
    BY <1>3, ReleaseFencedRunDoes DEF Goes
  <2>2. call[c].old \in Runs /\ "recovery-required" \in Lifecycles \ Final
    BY <2>1, Stepping DEF Shape, Named, Lifecycles, Final
  <2>3. \A r \in Runs : runs'[r].life \in Final =>
             runs[r].life \in Final /\ (runs[r].doubt => runs'[r].doubt)
    BY <2>1, <2>2, LifeChanges
  <2>4. Lingers(c)  BY <2>1 DEF Lingers, Retiring
  <2> QED  BY <2>1, <2>3, <2>4, StepRecords DEF Acts
<1> QED  BY <1>1, <1>2, <1>3

LEMMA WriteRecords ==
  ASSUME TypeOK, Shape, Guarded, Mended, AllRecorded, Grows, Parameters,
         NEW c \in Calls, CompensateOperation(c) \/ RepairSettle(c)
  PROVE  AllRecorded'
<1> SUFFICES ASSUME NEW r \in Runs, r \notin meddled' PROVE Recorded(r)'  BY DEF AllRecorded
<1> DEFINE o == Journal(c)
<1>0. o \in Calls /\ ops \in [Calls -> OpRecord]  BY JournalIs DEF TypeOK
<1>1. CASE CompensateOperation(c)
  <2> DEFINE doubt == IF call[c].outcome = "none" THEN ops[o].doubt ELSE call[c].outcome = "unsure"
  <2>1. /\ Acts(c) /\ runs' = runs /\ pty' = pty
        /\ call'[c].at \in {"failed", "refused", "releaseOld", "repairFence"}
        /\ \/ ops' = ops
           \/ ops' = [ops EXCEPT ![o] = [ops[o] EXCEPT !.state = "recovery-required", !.doubt = doubt]]
    BY <1>1, CompensateOperationDoes DEF Goes, Ends
  <2>2. Lingers(c)  BY <2>1 DEF Lingers, Retiring
  <2>3. Recorded(r) /\ Lingers(r)
    BY <2>1, <2>2, OthersLinger DEF AllRecorded, Acts, Grows, HistoryGrows
  <2>4. r \in Calls => ops'[r] = ops[r] \/ ops'[r].state # "completed"  BY ZenonT(60), <1>0, <2>1 DEF OpRecord
  <2> QED  BY SMTT(30), <2>1, <2>3, <2>4, RecordedFrame
<1>2. CASE RepairSettle(c)
  <2>1. /\ call[c].at = "repairSettle" /\ Acts(c) /\ runs' = runs /\ pty' = pty
        /\ \/ ops' = ops
           \/ /\ ~ops[call[c].target].doubt
              /\ ops' = [ops EXCEPT ![call[c].target] =
                            [ops[call[c].target] EXCEPT !.state = "completed"]]
    BY <1>2, RepairSettleDoes
  <2>2. call[c].kind = "repair" /\ o = call[c].target  BY <2>1, Stepping, JournalIs
  <2>3. Lingers(c)  BY <2>1, <2>2 DEF Lingers, Climber, Acts
  <2>4. Recorded(r) /\ Lingers(r) /\ r \notin meddled
    BY <2>1, <2>3, OthersLinger DEF AllRecorded, Acts, Grows, HistoryGrows
  <2>5. CASE ops' = ops \/ r # o
    <3>1. r \in Calls => ops'[r] = ops[r]  BY <1>0, <2>1, <2>2, <2>5
    <3> QED  BY <2>1, <2>4, <3>1, RecordedFrame
  <2>6. CASE r = o /\ ~ops[o].doubt
             /\ ops' = [ops EXCEPT ![o] = [ops[o] EXCEPT !.state = "completed"]]
    <3>1. pty[r] = "live" => Unmarked(r)  BY <2>1, <2>4, <2>6 DEF Mended, Undone
    <3>2. r \in Calls /\ ops'[r].rungs = ops[r].rungs  BY <1>0, <2>6 DEF OpRecord
    <3>3. pty[r] = "live" => Unmarked(r)'  BY <3>1, <3>2 DEF Unmarked
    <3> QED  BY <2>1, <2>4, <3>3 DEF Recorded, Lingers
  <2> QED  BY <2>1, <2>2, <2>5, <2>6
<1> QED  BY <1>1, <1>2

LEMMA OutsideRecords ==
  ASSUME TypeOK, Shape, AllRecorded, Grows, Parameters,
         (\E r \in Runs : Exit(r) \/ SettleGone(r)) \/ Restart
  PROVE  AllRecorded'
<1> SUFFICES ASSUME NEW r \in Runs, r \notin meddled' PROVE Recorded(r)'  BY DEF AllRecorded
<1>1. Recorded(r)  BY DEF AllRecorded, Grows, HistoryGrows
<1>2. CASE \E q \in Runs : Exit(q)
  <2>1. /\ \A c \in Calls : Same(c)
        /\ UNCHANGED <<runs, ops>> /\ \E q \in Runs : pty' = [pty EXCEPT ![q] = "dead"]
    BY <1>2, ExitDoes DEF Same
  <2>2. Lingers(r)  BY <2>1 DEF Lingers, Same, Climber
  <2>3. pty'[r] = "live" => pty[r] = "live"  BY <2>1 DEF TypeOK
  <2> QED  BY <1>1, <2>1, <2>2, <2>3, RecordedFrame
<1>3. CASE \E q \in Runs : SettleGone(q)
  <2>1. PICK q \in Runs : SettleGone(q)  BY <1>3
  <2>2. /\ \A c \in Calls : Same(c)
        /\ UNCHANGED <<pty, ops>> /\ pty[q] = "dead"
        /\ runs' = [runs EXCEPT ![q] = [runs[q] EXCEPT !.life = "interrupted"]]
    BY <2>1, SettleGoneDoes
  <2>3. Lingers(r)  BY <2>2 DEF Lingers, Same, Climber
  <2>4. r # q => runs'[r] = runs[r]  BY <2>2 DEF TypeOK
  <2> QED  BY <1>1, <2>2, <2>3, <2>4, RecordedFrame
<1>4. CASE Restart
  <2>1. pty' = [q \in Runs |-> IF pty[q] = "live" THEN "dead" ELSE pty[q]]  BY <1>4, RestartDoes
  <2>2. pty'[r] # "live"  BY <2>1
  <2> QED  BY <2>2 DEF Recorded
<1> QED  BY <1>2, <1>3, <1>4

LEMMA NextRecords ==
  ASSUME TypeOK, Shape, Guarded, Fitted, Mended, AllRecorded, Parameters, Next
  PROVE  AllRecorded'
<1>1. Grows  BY NextGrows
<1> QED  BY <1>1, QuietRecords, OpenOperationRecords, LadderRecords, SettleRecords, RunRecords,
     WorkingRecords, CloserRecords, SettleTreeRecords, UndoRecords, WriteRecords, OutsideRecords
  DEF Next

-----------------------------------------------------------------------------
LEMMA InitOrphans ==
  ASSUME Init, Parameters
  PROVE  OrphanInv
<1>1. /\ \A c \in Calls : call[c] = Idle /\ ops[c] = NoOp /\ c # Root
      /\ \A r \in Runs : runs[r] = (IF r = Root
            THEN [agent |-> Root, life |-> "ready", terminal |-> TRUE, doubt |-> FALSE] ELSE NoRun)
  BY DEF Init, Runs, Parameters
<1>2. Idle.kind = "none" /\ Idle.at = "new" /\ Idle.outcome = "none"  BY DEF Idle
<1>3. \A r \in Runs : runs[r].life \notin Final  BY <1>1 DEF NoRun, Final
<1>4. NoOp.state = "none"  BY DEF NoOp
<1>5. Guarded  BY <1>1, <1>2 DEF Guarded, Alone, Unready, Ascends, Owns, Working, AtRest, Repairing
<1>6. Fitted  BY <1>1, <1>2 DEF Fitted, Attached, Killed, Fit, Retiring
<1>7. Mended  BY <1>1, <1>2 DEF Mended, Undone
<1>8. AllRecorded  BY <1>1, <1>2, <1>3, <1>4 DEF AllRecorded, Recorded
<1> QED  BY <1>5, <1>6, <1>7, <1>8 DEF OrphanInv

LEMMA NextOrphans ==
  ASSUME TypeOK, Shape, OrphanInv, Parameters, [Next]_vars
  PROVE  OrphanInv'
<1>1. CASE Next  BY <1>1, NextGuards, NextFits, NextMends, NextRecords DEF OrphanInv
<1>2. CASE UNCHANGED vars
  <2>1. UNCHANGED <<call, runs, pty, ops, meddled>>  BY <1>2 DEF vars
  <2>2. Guarded'  BY <2>1 DEF OrphanInv, Guarded, Alone, Unready, Ascends, Owns, Working, Repairing
  <2>3. Fitted'  BY <2>1 DEF OrphanInv, Fitted, Attached, Killed, Climber
  <2>4. Mended'  BY <2>1 DEF OrphanInv, Mended, Undone, Journal, Unmarked
  <2>5. AllRecorded'  BY <2>1 DEF OrphanInv, AllRecorded, Recorded, Climber, Unmarked
  <2> QED  BY <2>2, <2>3, <2>4, <2>5 DEF OrphanInv
<1> QED  BY <1>1, <1>2

LEMMA RecordedOrphans ==
  ASSUME Shape, OrphanInv, Parameters
  PROVE  NoSilentOrphanUnlessUnjournalled
<1> SUFFICES ASSUME NEW r \in Runs, runs[r].life \in Final, pty[r] = "live",
                    ~runs[r].doubt, r \notin meddled
             PROVE  /\ r \in Calls
                    /\ \/ ops[r].state \notin {"none", "completed"}
                       \/ {"reserved", "live"} \cap ops[r].rungs = {}
  BY DEF NoSilentOrphanUnlessUnjournalled
<1>1. r \in Calls /\ (ops[r].state # "completed" \/ Unmarked(r))
  BY DEF OrphanInv, AllRecorded, Recorded
<1>2. ops[r].state = "none" => ops[r].rungs = {}  BY <1>1 DEF Shape, JournalOK, NoOp
<1> QED  BY <1>1, <1>2 DEF Unmarked

\* An ended run whose terminal process still runs is on record, however stops, repairs,
\* compensations, exits and restarts interleave: closeRun marks a run stopped only after its
\* terminal is dead and in doubt otherwise (lifecycle.ts), compensate keeps the journal open and
\* its doubt true (journal.ts), and settleRepair refuses to close a doubtful one (repair.ts).
THEOREM OrphansAreOnRecord == Spec => []NoSilentOrphanUnlessUnjournalled
<1>1. Init => TypeOK /\ Shape /\ OrphanInv  BY InitShape, InitOrphans, Parameters
<1>2. (TypeOK /\ Shape /\ OrphanInv) /\ [Next]_vars => (TypeOK /\ Shape /\ OrphanInv)'
  BY NextShape, NextOrphans, Parameters
<1>3. TypeOK /\ Shape /\ OrphanInv => NoSilentOrphanUnlessUnjournalled
  BY RecordedOrphans, Parameters
<1> QED  BY <1>1, <1>2, <1>3, PTL DEF Spec

-----------------------------------------------------------------------------
(* An agent that works keeps a run: a run that worked lives, or a younger    *)
(* one has taken its place.                                                 *)
LEMMA PrecedesStays ==
  ASSUME TypeOK, Shape, BornAfter, NEW r, NEW q, Precedes(r, q)
  PROVE  Precedes(r, q)'
<1>1. CASE born' = born  BY <1>1 DEF Precedes
<1>2. CASE \E p \in Runs : runs[p].life = "none" /\ born' = Append(born, p)
  <2>1. /\ DOMAIN born' = 1 .. (Len(born) + 1) /\ DOMAIN born = 1 .. Len(born) /\ Len(born) \in Nat
        /\ \A i \in 1 .. Len(born) : born'[i] = born[i]
    BY <1>2, BornGrows
  <2>2. PICK i \in DOMAIN born, j \in DOMAIN born : i < j /\ born[i] = r /\ born[j] = q
    BY DEF Precedes
  <2>3. i \in DOMAIN born' /\ j \in DOMAIN born' /\ born'[i] = r /\ born'[j] = q  BY <2>1, <2>2
  <2> QED  BY <2>2, <2>3 DEF Precedes
<1> QED  BY <1>1, <1>2 DEF BornAfter

LEMMA StartedExists ==
  ASSUME TypeOK, Shape, Fitted, Parameters, NEW r \in Runs, Started(r)
  PROVE  runs[r].life # "none"
<1>1. CASE r = Root  BY <1>1 DEF Shape, RunOK, TypeOK, Parameters
<1>2. CASE r \in Calls /\ Climber(r) /\ call[r].at \in Retiring  BY <1>2 DEF Fitted, Attached, Fit
<1>3. CASE r \in Calls /\ Climber(r) /\ call[r].at \in Opened
  BY <1>3 DEF Shape, Holding, Opened, HasRun
<1> QED  BY <1>1, <1>2, <1>3 DEF Started, Seasoned

LEMMA ExcuseStays ==
  ASSUME TypeOK, Shape, AllInformed, Grows, NEW r \in Runs, runs[r].life # "none",
         Excused(runs[r].agent)
  PROVE  Excused(runs[r].agent)'
<1>1. runs'[r].agent = runs[r].agent  BY DEF Grows, RunsGrow
<1>2. CASE runs[r].agent \in asked  BY <1>1, <1>2 DEF Excused, Grows, HistoryGrows
<1>3. CASE \E c \in meddled \cup hollow : AgentOf(c) = runs[r].agent
  <2>1. PICK c \in meddled \cup hollow : AgentOf(c) = runs[r].agent  BY <1>3
  <2>2. c \in Calls /\ call[c].kind # "none"  BY DEF TypeOK, AllInformed, Informed
  <2>3. AgentOf(c)' = AgentOf(c)  BY <2>2 DEF AgentOf, Grows, CallsGrow
  <2>4. c \in meddled' \cup hollow'  BY <2>1 DEF Grows, HistoryGrows
  <2> QED  BY <1>1, <2>1, <2>3, <2>4 DEF Excused
<1> QED  BY <1>2, <1>3 DEF Excused

LEMMA ReplacedStays ==
  ASSUME Grows, NEW r, Replaced(r)
  PROVE  Replaced(r)'
<1>1. PICK d \in Calls : /\ call[d].kind = "continue" /\ call[d].old = r
                         /\ "furnished" \in ops[d].rungs
  BY DEF Replaced
<1>2. /\ call'[d].kind = "continue" /\ call'[d].old = r
      /\ "furnished" \in ops'[d].rungs
  BY <1>1 DEF Grows, CallsGrow, OpsGrow
<1> QED  BY <1>2 DEF Replaced

LEMMA KeptFrame ==
  ASSUME TypeOK, Shape, Fitted, AllInformed, AllKept, Grows, Parameters, NEW r \in Runs,
         \/ Excused(runs[r].agent)'
         \/ /\ Seasoned(r)' /\ ~Live(r)' => (Seasoned(r) /\ ~Live(r)) \/ Replaced(r)'
            /\ Started(r)' /\ pty'[r] = "dead" => (Started(r) /\ pty[r] = "dead") \/ Replaced(r)'
  PROVE  Kept(r)'
<1> SUFFICES ASSUME ~Excused(runs[r].agent)'
             PROVE  /\ Seasoned(r)' => Live(r)' \/ Replaced(r)'
                    /\ Started(r)' /\ pty'[r] = "dead" => Replaced(r)'
  BY DEF Kept
<1>1. Seasoned(r) => Started(r)  BY DEF Started
<1>2. Started(r) => ~Excused(runs[r].agent)  BY StartedExists, ExcuseStays
<1>3. Replaced(r) => Replaced(r)'  BY ReplacedStays
<1>4. Kept(r)  BY DEF AllKept
<1> QED  BY <1>1, <1>2, <1>3, <1>4 DEF Kept

LEMMA InformedFrame ==
  ASSUME TypeOK, Shape, AllInformed, Grows, BornAfter, Parameters, NEW d \in Calls,
         call[d].kind # "none",
         call'[d].at \in Closer /\ call[d].kind # "continue" =>
            \/ call[d].at \in Closer /\ call'[d].victim = call[d].victim
            \/ runs'[call'[d].victim].agent \in asked',
         Climber(d) /\ call'[d].at \in Proven => call[d].at \in Proven \/ "furnished" \in ops'[d].rungs,
         call[d].kind = "continue" /\ runs'[d].life # "none" =>
            runs[d].life # "none" \/ Precedes(call[d].old, d)'
  PROVE  Informed(d)'
<1>1. call'[d].kind = call[d].kind /\ call'[d].old = call[d].old /\ Climber(d)' = Climber(d)
  BY DEF Grows, CallsGrow, Climber
<1>2. Informed(d)  BY DEF AllInformed
<1>3. call'[d].at \in Closer /\ call[d].kind # "continue" => runs'[call'[d].victim].agent \in asked'
  <2> SUFFICES ASSUME call[d].at \in Closer, call'[d].victim = call[d].victim,
                      call[d].kind # "continue"
               PROVE  runs'[call'[d].victim].agent \in asked'
    OBVIOUS
  <2>1. call[d].victim \in Runs /\ runs[call[d].victim].life # "none"  BY DEF Shape, Holding
  <2>2. runs[call[d].victim].agent \in asked  BY <1>2 DEF Informed
  <2> QED  BY <2>1, <2>2 DEF Grows, RunsGrow, HistoryGrows
<1>4. Climber(d) /\ call'[d].at \in Proven => "furnished" \in ops'[d].rungs
  BY <1>2 DEF Informed, Grows, OpsGrow
<1>5. call[d].kind = "continue" /\ runs'[d].life # "none" => Precedes(call[d].old, d)'
  <2>1. PICK o : o = call[d].old  OBVIOUS
  <2>2. Precedes(o, d) => Precedes(o, d)'  BY PrecedesStays
  <2>3. Precedes(o, d)' <=> Precedes(call[d].old, d)'  BY <1>1, <2>1
  <2> QED  BY <1>2, <2>1, <2>2, <2>3 DEF Informed
<1> QED  BY <1>1, <1>3, <1>4, <1>5 DEF Informed
LEMMA OthersInformed ==
  ASSUME TypeOK, Shape, AllInformed, Grows, BornAfter, Parameters, NEW c \in Calls,
         Others(c), Informed(c)',
         \A d \in Calls \ {c} : /\ runs'[d].life # "none" => runs[d].life # "none"
                                /\ d \in meddled' \cup hollow' =>
                                     d \in meddled \cup hollow \/ call[d].kind # "none"
  PROVE  AllInformed'
<1> SUFFICES ASSUME NEW d \in Calls, d # c PROVE Informed(d)'  BY DEF AllInformed
<1>1. Same(d)  BY DEF Others
<1>2. CASE call[d].kind # "none"  BY <1>1, <1>2, InformedFrame DEF Same
<1>3. CASE call[d].kind = "none"
  <2>1. call'[d].kind = "none" /\ call'[d].at = "new"  BY <1>1, <1>3, Stepping DEF Same
  <2>2. d \notin meddled' \cup hollow'  BY <1>3 DEF AllInformed, Informed
  <2> QED  BY <2>1, <2>2 DEF Informed, Climber, Closer
<1> QED  BY <1>2, <1>3

LEMMA SeasonedFrame ==
  ASSUME NEW c \in Calls, Acts(c), NEW r, r # c \/ Lags(c)
  PROVE  (Seasoned(r)' => Seasoned(r)) /\ (Started(r)' => Started(r))
BY DEF Seasoned, Started, Acts, Others, Same, Lags, Climber

\* a step that moves its call no further towards a run that works, ends none and kills no terminal
LEMMA StepKeeps ==
  ASSUME TypeOK, Shape, Fitted, AllInformed, AllKept, Grows, BornAfter, Parameters,
         NEW c \in Calls, Acts(c), call[c].kind # "none", Lags(c), Attends(c),
         \A d \in Calls : d \in meddled' \cup hollow' =>
                              d \in meddled \cup hollow \/ call[d].kind # "none",
         \A r \in Runs : /\ pty'[r] = "dead" => pty[r] = "dead"
                         /\ Live(r) => Live(r)'
                         /\ runs'[r].life # "none" => runs[r].life # "none"
  PROVE  AllInformed' /\ AllKept'
<1>0. Calls \subseteq Runs  BY DEF Runs
<1>1. Informed(c)'  BY <1>0, InformedFrame DEF Lags, Attends
<1>2. AllInformed'  BY <1>0, <1>1, OthersInformed DEF Acts
<1>3. AllKept'
  <2> SUFFICES ASSUME NEW r \in Runs PROVE Kept(r)'  BY DEF AllKept
  <2>1. (Seasoned(r)' => Seasoned(r)) /\ (Started(r)' => Started(r))  BY SeasonedFrame
  <2> QED  BY <2>1, KeptFrame
<1> QED  BY <1>2, <1>3

\* what the write of a run makes of the runs that live
LEMMA LifeKeeps ==
  ASSUME TypeOK, NEW r \in Runs, NEW life \in Lifecycles \ (Final \cup {"none"}), NEW doubt \in BOOLEAN,
         runs[r].life # "none",
         \/ runs' = runs
         \/ runs' = [runs EXCEPT ![r] = [runs[r] EXCEPT !.life = life]]
         \/ runs' = [runs EXCEPT ![r] = [runs[r] EXCEPT !.life = life, !.doubt = doubt]]
  PROVE  \A q \in Runs : (Live(q) => Live(q)') /\ (runs'[q].life # "none" => runs[q].life # "none")
<1>1. runs \in [Runs -> RunRecord]  BY DEF TypeOK
<1>2. \A q \in Runs : runs'[q] = runs[q] \/ (q = r /\ runs'[q].life = life)  BY <1>1 DEF RunRecord
<1> QED  BY <1>2 DEF Live

LEMMA StillKeeps ==
  ASSUME TypeOK, Shape, Fitted, AllInformed, AllKept, Grows, Parameters,
         NEW c \in Calls, Acts(c), call[c].kind # "none", Lags(c), Attends(c),
         runs' = runs, pty' = pty, born' = born, meddled' = meddled, hollow' = hollow
  PROVE  AllInformed' /\ AllKept'
<1>1. \A r \in Runs : Live(r) => Live(r)'  BY DEF Live
<1> QED  BY <1>1, StepKeeps DEF BornAfter

LEMMA ClimbKeepsRuns ==
  ASSUME TypeOK, Shape, Fitted, AllInformed, AllKept, Grows, Parameters,
         NEW c \in Calls, NEW from, NEW rung, NEW state, NEW to,
         Climbs(c, from, rung, state, to), Climber(c), to \notin Closer,
         to \in Retiring => from \in Retiring,
         to \in Proven => from \in Proven \/ rung = "furnished",
         to \in Opened \cup Retiring => from \in Opened \cup Retiring,
         born' = born, meddled' = meddled, hollow' = hollow
  PROVE  AllInformed' /\ AllKept'
<1>1. /\ call[c].at = from /\ Acts(c) /\ runs' = runs /\ pty' = pty
      /\ (call'[c].at = to /\ rung \in ops'[c].rungs) \/ call'[c].at = "compTerminal"
  BY DEF Climbs, Goes
<1>2. Lags(c)  BY <1>1 DEF Lags, Retiring, Proven, Opened
<1>3. Attends(c)  BY <1>1 DEF Attends, Closer
<1>4. call[c].kind # "none"  BY DEF Climber
<1> QED  BY <1>1, <1>2, <1>3, <1>4, StillKeeps

LEMMA LadderKeepsRuns ==
  ASSUME TypeOK, Shape, Fitted, AllInformed, AllKept, Grows, Parameters, NEW c \in Calls,
         \/ Identity(c) \/ DrainOldRun(c) \/ JournalRun(c) \/ ReserveTerminal(c)
         \/ JournalTerminal(c) \/ Furnish(c) \/ Settle(c)
  PROVE  AllInformed' /\ AllKept'
<1> USE DEF Retiring, Proven, Opened, Closer, HasRun, Quiet
<1>1. CASE Identity(c)
  <2>1. Climbs(c, "identity", "identity", ops[c].state, "reserve")
        /\ UNCHANGED <<born, meddled, hollow>>
    BY <1>1, IdentityClimbs
  <2>2. Climber(c)  BY <2>1, Stepping DEF Climbs, Climber
  <2> QED  BY <2>1, <2>2, ClimbKeepsRuns
<1>2. CASE DrainOldRun(c)
  <2>1. Climbs(c, "drain", "fenced", "continuation-pending", "reserve") /\ Quiet
    BY <1>2, DrainClimbs
  <2>2. Climber(c)  BY <2>1, Stepping DEF Climbs, Climber
  <2> QED  BY <2>1, <2>2, ClimbKeepsRuns
<1>3. CASE JournalRun(c)
  <2> DEFINE to == IF call[c].kind = "spawn" THEN "reserveTerminal" ELSE "openTerminal"
  <2>1. Climbs(c, "journalRun", "run", ops[c].state, to) /\ Quiet  BY <1>3, JournalRunClimbs
  <2>2. Climber(c)  BY <2>1, Stepping DEF Climbs
  <2> QED  BY <2>1, <2>2, ClimbKeepsRuns
<1>4. CASE ReserveTerminal(c)
  <2>1. Climbs(c, "reserveTerminal", "reserved", ops[c].state, "openTerminal") /\ Quiet
    BY <1>4, ReserveTerminalClimbs
  <2>2. Climber(c)  BY <2>1, Stepping DEF Climbs
  <2> QED  BY <2>1, <2>2, ClimbKeepsRuns
<1>5. CASE JournalTerminal(c)
  <2>1. Climbs(c, "journalTerminal", "live", ops[c].state, "patchTerminal") /\ Quiet
    BY <1>5, JournalTerminalClimbs
  <2>2. Climber(c)  BY <2>1, Stepping DEF Climbs
  <2> QED  BY <2>1, <2>2, ClimbKeepsRuns
<1>6. CASE Settle(c)
  <2>1. Climbs(c, "settle", "ready", "completed", "ended") /\ Quiet  BY <1>6, SettleClimbs
  <2>2. Climber(c)  BY <2>1, Stepping DEF Climbs
  <2> QED  BY <2>1, <2>2, ClimbKeepsRuns
<1>7. CASE Furnish(c)
  <2>1. CASE Climbs(c, "furnish", "furnished", ops[c].state, "ready")
    <3>1. Climber(c)  BY <2>1, Stepping DEF Climbs
    <3>2. Quiet  BY <1>7, FurnishDoes
    <3> QED  BY <2>1, <3>1, <3>2, ClimbKeepsRuns
  <2>2. CASE /\ call[c].at = "furnish" /\ Acts(c) /\ Goes(c, "gated")
             /\ UNCHANGED <<runs, ops, pty>>
    <3>1. Climber(c)  BY <2>2, Stepping
    <3>2. Quiet /\ call[c].kind # "none"  BY <1>7, <3>1, FurnishDoes DEF Climber
    <3>3. Lags(c) /\ Attends(c)  BY <2>2 DEF Lags, Attends, Goes
    <3> QED  BY <2>2, <3>2, <3>3, StillKeeps
  <2> QED  BY <1>7, <2>1, <2>2, FurnishDoes
<1> QED  BY <1>1, <1>2, <1>3, <1>4, <1>5, <1>6, <1>7

\* requests, and the steps of a tree-stop and of a repair that write no run
LEMMA QuietKeepsRuns ==
  ASSUME TypeOK, Shape, Fitted, AllInformed, AllKept, Grows, Parameters, NEW c \in Calls,
         \/ OpenOperation(c) \/ CloseFence(c) \/ CreateFence(c) \/ ConfirmOrder(c) \/ FinishTree(c)
         \/ SettleTreeStop(c) \/ CompensateOperation(c) \/ RepairFence(c) \/ RepairSettle(c)
  PROVE  AllInformed' /\ AllKept'
<1>1. /\ Acts(c) /\ runs' = runs /\ pty' = pty /\ UNCHANGED <<born, meddled, hollow>>
      /\ call[c].at \in {"open", "closeFence", "createFence", "snapshot", "stopEach", "settleTree",
                        "compOp", "repairFence", "repairSettle"}
  BY OpenOperationDoes, CloseFenceDoes, CreateFenceDoes, ConfirmOrderDoes, FinishTreeDoes,
     SettleTreeStopDoes, CompensateOperationDoes, RepairFenceDoes, RepairSettleDoes DEF Quiet
<1>2. call[c].kind # "none"  BY <1>1, Stepping
<1>3. call'[c].at \notin Closer /\ (Climber(c) => call'[c].at \notin Opened \cup Retiring)
  <2> USE DEF Goes, Climber, Closer, Opened, Retiring
  <2>1. CASE OpenOperation(c)  BY <2>1, OpenOperationDoes
  <2>2. CASE CloseFence(c) \/ CreateFence(c)  BY <2>2, CloseFenceDoes, CreateFenceDoes
  <2>3. CASE ConfirmOrder(c) \/ FinishTree(c)  BY SMTT(30), <2>3, ConfirmOrderDoes, FinishTreeDoes
  <2>4. CASE SettleTreeStop(c)
    <3>1. ~Climber(c)  BY <2>4, SettleTreeStopDoes, Stepping
    <3> QED  BY <2>4, <3>1, SettleTreeStopDoes
  <2>5. CASE CompensateOperation(c)  BY <2>5, CompensateOperationDoes DEF Ends
  <2>6. CASE RepairFence(c) \/ RepairSettle(c)
    <3>1. ~Climber(c)  BY <2>6, RepairFenceDoes, RepairSettleDoes, Stepping
    <3> QED  BY <2>6, <3>1, RepairFenceDoes, RepairSettleDoes
  <2> QED  BY <2>1, <2>2, <2>3, <2>4, <2>5, <2>6
<1>4. Lags(c) /\ Attends(c)  BY <1>3 DEF Lags, Attends, Proven, Opened
<1> QED  BY SMTT(30), <1>1, <1>2, <1>4, StillKeeps

LEMMA SendKeepsRuns ==
  ASSUME TypeOK, Shape, Fitted, AllInformed, AllKept, Grows, Parameters, NEW c \in Calls,
         Send(c)
  PROVE  AllInformed' /\ AllKept'
<1>1. /\ call[c].at = "new" /\ Others(c) /\ UNCHANGED <<runs, pty>>
      /\ UNCHANGED <<born, meddled, hollow, asked>>
      /\ call'[c].at \in {"admit", "open", "judge"}
  BY SendDoes DEF Quiet
<1>2. call[c].kind = "none" /\ c \in Runs  BY <1>1, Stepping DEF Runs
<1>3. runs[c].life = "none"  BY <1>2 DEF Shape, RunOK, Climber
<1>4. c \notin meddled' \cup hollow'  BY <1>1, <1>2 DEF AllInformed, Informed
<1>5. Informed(c)'  BY <1>1, <1>3, <1>4 DEF Informed, Closer, Proven, Retiring
<1>6. AllInformed'  BY <1>1, <1>5, OthersInformed DEF BornAfter
<1>7. AllKept'
  <2> SUFFICES ASSUME NEW r \in Runs PROVE Kept(r)'  BY DEF AllKept
  <2>1. (Seasoned(r)' => Seasoned(r)) /\ (Started(r)' => Started(r))
    BY <1>1 DEF Seasoned, Started, Others, Same, Climber, Retiring, Opened
  <2>2. Live(r)' <=> Live(r)  BY <1>1 DEF Live
  <2> QED  BY <1>1, <2>1, <2>2, KeptFrame
<1> QED  BY <1>6, <1>7

LEMMA RequestKeepsRuns ==
  ASSUME TypeOK, Shape, Fitted, AllInformed, AllKept, Grows, Parameters, NEW c \in Calls,
         SendAgain(c) \/ Admit(c) \/ Judge(c) \/ StopNext(c)
  PROVE  AllInformed' /\ AllKept'
<1>1. /\ Acts(c) /\ UNCHANGED <<runs, pty>> /\ UNCHANGED <<born, hollow>>
      /\ call[c].at \in {"failed", "admit", "judge", "stopEach"}
  BY SendAgainDoes, AdmitDoes, JudgeDoes, StopNextDoes
<1>2. call[c].kind # "none"  BY <1>1, Stepping
<1>3. \A d \in Calls : d \in meddled' \cup hollow' =>
                           d \in meddled \cup hollow \/ call[d].kind # "none"
  <2>1. CASE SendAgain(c)  BY <1>1, <1>2, <2>1, SendAgainDoes
  <2>2. CASE Judge(c)
    <3>1. call[c].kind = "repair"  BY <2>2, JudgeDoes, Stepping
    <3>2. call[c].target \in Calls /\ call[call[c].target].kind # "none"
      BY <3>1 DEF Shape, Named, JournalOK
    <3> QED  BY <1>1, <2>2, <3>2, JudgeDoes
  <2>3. CASE Admit(c) \/ StopNext(c)  BY <1>1, <2>3, AdmitDoes, StopNextDoes
  <2> QED  BY <2>1, <2>2, <2>3
<1>4. Climber(c) => call'[c].at \notin Opened \cup Retiring
  <2> USE DEF Climber, Opened, Retiring, Goes
  <2>1. CASE SendAgain(c)  BY <2>1, SendAgainDoes
  <2>2. CASE Admit(c)  BY <2>2, AdmitDoes
  <2>3. CASE Judge(c) \/ StopNext(c)  BY <2>3, JudgeDoes, StopNextDoes, Stepping
  <2> QED  BY <2>1, <2>2, <2>3
<1>5. Lags(c)  BY <1>4 DEF Lags, Proven, Opened, Retiring
<1>6. call'[c].at \in Closer => runs'[call'[c].victim].agent \in asked'
  <2>1. CASE SendAgain(c)  BY <2>1, SendAgainDoes DEF Goes, Closer
  <2>2. CASE Judge(c)  BY <2>2, JudgeDoes DEF Goes, Closer
  <2>3. CASE Admit(c)
    <3> SUFFICES ASSUME call'[c].at \in Closer PROVE runs'[call'[c].victim].agent \in asked'
      OBVIOUS
    <3>1. /\ call[c].kind = "stop" /\ call'[c].victim = call[c].old
          /\ asked' = asked \cup {call[c].target}
      BY <2>3, AdmitDoes DEF Goes, Closer
    <3>2. runs[call[c].old].agent = call[c].target  BY <3>1 DEF Shape, Named
    <3> QED  BY <1>1, <3>1, <3>2
  <2>4. CASE StopNext(c)  BY <1>1, <2>4, StopNextDoes DEF LiveRuns, Closer
  <2> QED  BY <2>1, <2>2, <2>3, <2>4
<1>7. c \in Runs /\ BornAfter  BY <1>1 DEF Runs, BornAfter
<1>8. Informed(c)'
  <2>1. Climber(c) /\ call'[c].at \in Proven => call[c].at \in Proven \/ "furnished" \in ops'[c].rungs
    BY <1>5 DEF Lags
  <2> QED  BY <1>1, <1>2, <1>6, <1>7, <2>1, InformedFrame
<1>9. AllInformed'  BY <1>1, <1>3, <1>7, <1>8, OthersInformed DEF Acts, Runs
<1>10. AllKept'
  <2> SUFFICES ASSUME NEW r \in Runs PROVE Kept(r)'  BY DEF AllKept
  <2>1. (Seasoned(r)' => Seasoned(r)) /\ (Started(r)' => Started(r))  BY <1>1, <1>5, SeasonedFrame
  <2>2. Live(r)' <=> Live(r)  BY <1>1 DEF Live
  <2> QED  BY <1>1, <2>1, <2>2, KeptFrame
<1> QED  BY <1>9, <1>10

\* a run is written, and stays live
LEMMA WriteKeepsRuns ==
  ASSUME TypeOK, Shape, Fitted, AllInformed, AllKept, Grows, Parameters, NEW c \in Calls,
         \/ FenceOldRun(c) \/ PatchTerminal(c) \/ ReleaseFencedRun(c)
         \/ MarkStopping(c) \/ MarkUnsure(c)
  PROVE  AllInformed' /\ AllKept'
<1>1. /\ Acts(c) /\ pty' = pty /\ UNCHANGED <<born, meddled, hollow>>
      /\ call[c].at \in {"fenceOld", "patchTerminal", "releaseOld", "stopping", "unsure"}
  BY FenceOldRunWrites, PatchTerminalWrites, ReleaseFencedRunDoes, MarkStoppingDoes, MarkUnsureMarks
  DEF Writes, Quiet, Marks
<1>2. call[c].kind # "none"  BY <1>1, Stepping
<1>3. Lags(c)
  <2> USE DEF Goes, Lags, Proven, Opened, Retiring
  <2>1. CASE FenceOldRun(c)  BY <2>1, FenceOldRunWrites DEF Writes
  <2>2. CASE PatchTerminal(c)  BY <2>2, PatchTerminalWrites DEF Writes
  <2>3. CASE ReleaseFencedRun(c)  BY <2>3, ReleaseFencedRunDoes
  <2>4. CASE MarkStopping(c) \/ MarkUnsure(c)
    <3>1. call[c].at \in Retiring  BY <2>4, MarkStoppingDoes, MarkUnsureMarks
    <3>2. Climber(c) => "furnished" \in ops[c].rungs  BY <3>1 DEF AllInformed, Informed
    <3> QED  BY <3>1, <3>2
  <2> QED  BY <2>1, <2>2, <2>3, <2>4
<1>4. Attends(c)
  <2> USE DEF Goes, Attends, Closer
  <2>1. CASE FenceOldRun(c)  BY <2>1, FenceOldRunWrites DEF Writes
  <2>2. CASE PatchTerminal(c)  BY <2>2, PatchTerminalWrites DEF Writes
  <2>3. CASE ReleaseFencedRun(c)  BY <2>3, ReleaseFencedRunDoes
  <2>4. CASE MarkStopping(c) \/ MarkUnsure(c)
    <3>1. call[c].kind \in {"continue", "stop", "stopTree", "repair"} /\ call[c].at \in Closer
      BY <2>4, Stepping, MarkStoppingDoes, MarkUnsureMarks
    <3>2. CASE MarkStopping(c)
      <4>1. Goes(c, "terminate") \/ \E result : Closes(c, result)
        BY <3>2, MarkStoppingDoes DEF Goes
      <4> QED  BY <3>1, <4>1 DEF Closes, AtRest
    <3>3. CASE MarkUnsure(c)  BY <3>1, <3>3, MarkUnsureMarks DEF Marks, Closes
    <3> QED  BY <2>4, <3>2, <3>3
  <2> QED  BY <2>1, <2>2, <2>3, <2>4
<1>5. \A r \in Runs : (Live(r) => Live(r)') /\ (runs'[r].life # "none" => runs[r].life # "none")
  <2>0. {"continuation-pending", "recovery-required", "stopping"} \subseteq Lifecycles \ (Final \cup {"none"})
    BY DEF Lifecycles, Final
  <2>1. CASE FenceOldRun(c)
    <3>1. call[c].old \in Runs /\ runs[call[c].old].life # "none"
      <4>1. call[c].kind = "continue"  BY <2>1, Stepping, FenceOldRunWrites DEF Writes
      <4>2. call[c].old \in Runs /\ runs[call[c].old].agent \in Agents  BY <4>1 DEF Shape, Named
      <4> QED  BY <4>2 DEF TypeOK, Agents, Parameters
    <3> QED  BY <2>0, <2>1, <3>1, FenceOldRunWrites, LifeKeeps DEF Writes
  <2>2. CASE PatchTerminal(c)
    <3>1. runs \in [Runs -> RunRecord]  BY DEF TypeOK
    <3>2. runs' = runs \/ runs' = [runs EXCEPT ![c] = [runs[c] EXCEPT !.terminal = TRUE]]
      BY <2>2, PatchTerminalWrites DEF Writes
    <3>3. \A r \in Runs : runs'[r].life = runs[r].life  BY <3>1, <3>2 DEF RunRecord
    <3> QED  BY <3>3 DEF Live
  <2>3. CASE ReleaseFencedRun(c)
    <3>1. call[c].old \in Runs  BY <2>3, Stepping, ReleaseFencedRunDoes DEF Shape, Named
    <3>2. CASE runs' = runs  BY <3>2 DEF Live
    <3>3. CASE runs[call[c].old].life = "continuation-pending"
      BY <2>0, <2>3, <3>1, <3>3, ReleaseFencedRunDoes, LifeKeeps
    <3> QED  BY <2>3, <3>2, <3>3, ReleaseFencedRunDoes
  <2>4. CASE MarkStopping(c) \/ MarkUnsure(c)
    <3>1. call[c].at \in Closer  BY <2>4, MarkStoppingDoes, MarkUnsureMarks DEF Closer
    <3>2. call[c].victim \in Runs /\ runs[call[c].victim].life # "none"  BY <3>1 DEF Shape, Holding
    <3> QED  BY <2>0, <2>4, <3>2, MarkStoppingDoes, MarkUnsureMarks, LifeKeeps DEF Marks
  <2> QED  BY <2>1, <2>2, <2>3, <2>4
<1> QED  BY <1>1, <1>2, <1>3, <1>4, <1>5, StepKeeps DEF BornAfter

\* a step of a call on its own run
LEMMA OwnKeeps ==
  ASSUME TypeOK, Shape, Fitted, AllInformed, AllKept, Grows, BornAfter, Parameters,
         NEW c \in Calls, Acts(c), Informed(c)', Kept(c)',
         \A d \in Calls : d \in meddled' \cup hollow' =>
                              d \in meddled \cup hollow \/ call[d].kind # "none",
         \A r \in Runs \ {c} : pty'[r] = pty[r] /\ runs'[r] = runs[r]
  PROVE  AllInformed' /\ AllKept'
<1>1. AllInformed'  BY OthersInformed DEF Acts, Runs
<1>2. AllKept'
  <2> SUFFICES ASSUME NEW r \in Runs, r # c PROVE Kept(r)'  BY DEF AllKept
  <2>1. (Seasoned(r)' => Seasoned(r)) /\ (Started(r)' => Started(r))  BY SeasonedFrame
  <2>2. Live(r)' <=> Live(r)  BY DEF Live
  <2> QED  BY <2>1, <2>2, KeptFrame
<1> QED  BY <1>1, <1>2

\* a step that ends a run or kills its terminal
LEMMA EndKeeps ==
  ASSUME TypeOK, Shape, Fitted, AllInformed, AllKept, Grows, Parameters,
         NEW c \in Calls, Acts(c), call[c].kind # "none", Lags(c), Attends(c),
         born' = born, meddled' = meddled, hollow' = hollow,
         NEW v \in Runs, Replaced(v) \/ Excused(runs[v].agent) \/ ~Started(v)',
         runs'[v].life # "none" => runs[v].life # "none",
         \A r \in Runs \ {v} : pty'[r] = pty[r] /\ runs'[r] = runs[r]
  PROVE  AllInformed' /\ AllKept'
<1>0. BornAfter /\ c \in Runs  BY DEF BornAfter, Runs
<1>1. Informed(c)'  BY <1>0, InformedFrame DEF Lags, Attends
<1>2. AllInformed'  BY <1>0, <1>1, OthersInformed DEF Acts, Runs
<1>3. AllKept'
  <2> SUFFICES ASSUME NEW r \in Runs PROVE Kept(r)'  BY DEF AllKept
  <2>1. (Seasoned(r)' => Seasoned(r)) /\ (Started(r)' => Started(r))  BY SeasonedFrame
  <2>2. CASE r # v
    <3>1. Live(r)' <=> Live(r)  BY <2>2 DEF Live
    <3> QED  BY <2>1, <2>2, <3>1, KeptFrame
  <2>3. CASE r = v /\ Started(v)'
    <3>1. runs[r].life # "none"  BY <2>1, <2>3, StartedExists
    <3>2. Replaced(r) => Replaced(r)'  BY ReplacedStays
    <3>3. Excused(runs[r].agent) => Excused(runs[r].agent)'  BY <3>1, ExcuseStays
    <3> QED  BY <2>3, <3>2, <3>3, KeptFrame
  <2>4. CASE r = v /\ ~Started(v)'
    <3>1. Seasoned(r)' => Started(r)'  BY DEF Started
    <3> QED  BY <2>4, <3>1 DEF Kept
  <2> QED  BY <2>2, <2>3, <2>4
<1> QED  BY <1>2, <1>3

LEMMA OwnRun ==
  ASSUME TypeOK, Shape, Parameters, NEW c \in Calls
  PROVE  /\ c \in Runs /\ c # Root
         /\ runs[c].life # "none" => Climber(c) /\ runs[c].agent = AgentOf(c)
BY DEF Runs, Parameters, Shape, RunOK

LEMMA ReserveKeepsRuns ==
  ASSUME TypeOK, Shape, Fitted, AllInformed, AllKept, Grows, Parameters, NEW c \in Calls,
         ReserveRun(c)
  PROVE  AllInformed' /\ AllKept'
<1>1. /\ call[c].at = "reserve" /\ Acts(c) /\ pty' = pty /\ UNCHANGED <<meddled, hollow>>
      /\ call'[c].at \in {"journalRun", "compTerminal"}
      /\ \/ runs' = runs /\ born' = born
         \/ /\ runs[c].life = "none" /\ born' = Append(born, c)
            /\ runs' = [runs EXCEPT ![c] =
                  [NoRun EXCEPT !.agent = AgentOf(c), !.life = "provisioning"]]
  BY ReserveRunDoes DEF Goes
<1>2. Climber(c) /\ c \in Runs /\ c # Root /\ call[c].kind # "none"
  BY <1>1, Stepping, OwnRun DEF Climber
<1>3. BornAfter /\ \A r \in Runs \ {c} : runs'[r] = runs[r]  BY <1>1, <1>2 DEF BornAfter, TypeOK
<1>4. call[c].kind = "continue" /\ runs'[c].life # "none" =>
        runs[c].life # "none" \/ Precedes(call[c].old, c)'
  <2> SUFFICES ASSUME call[c].kind = "continue", runs[c].life = "none", born' = Append(born, c)
               PROVE  Precedes(call[c].old, c)'
    BY <1>1
  <2>1. call[c].old \in Runs /\ runs[call[c].old].agent \in Agents  BY DEF Shape, Named
  <2>2. runs[call[c].old].life # "none"  BY <2>1 DEF TypeOK, Agents, Parameters
  <2>3. PICK i \in DOMAIN born : born[i] = call[c].old  BY <2>1, <2>2 DEF Shape, BornOK
  <2>4. /\ DOMAIN born' = 1 .. (Len(born) + 1) /\ DOMAIN born = 1 .. Len(born) /\ Len(born) \in Nat
        /\ born'[Len(born) + 1] = c /\ \A k \in 1 .. Len(born) : born'[k] = born[k]
    BY <1>2, BornGrows
  <2>5. i \in DOMAIN born' /\ Len(born) + 1 \in DOMAIN born' /\ i < Len(born) + 1  BY <2>3, <2>4
  <2>6. born'[i] = call'[c].old /\ born'[Len(born) + 1] = c
    <3>1. call'[c].old = call[c].old  BY <1>1 DEF Acts
    <3> QED  BY <2>3, <2>4, <3>1
  <2> QED  BY <2>5, <2>6 DEF Precedes
<1>5. Informed(c)'  BY <1>1, <1>2, <1>3, <1>4, InformedFrame DEF Closer, Proven, Retiring
<1>6. Kept(c)'
  <2>1. ~Started(c)' /\ ~Seasoned(c)'  BY <1>1, <1>2 DEF Started, Seasoned, Opened, Retiring
  <2> QED  BY <2>1 DEF Kept
<1> QED  BY SMTT(30), <1>1, <1>3, <1>5, <1>6, OwnKeeps

LEMMA OpenTerminalKeepsRuns ==
  ASSUME TypeOK, Shape, Fitted, AllInformed, AllKept, Grows, Parameters, NEW c \in Calls,
         OpenTerminal(c)
  PROVE  AllInformed' /\ AllKept'
<1>1. /\ call[c].at = "openTerminal" /\ Acts(c) /\ runs' = runs /\ UNCHANGED <<born, meddled>>
      /\ call'[c].at \in {"journalTerminal", "compTerminal"}
      /\ hollow' \subseteq hollow \cup {c}
      /\ \A r \in Runs \ {c} : pty'[r] = pty[r]
      /\ call'[c].at = "journalTerminal" => pty'[c] = "live" \/ c \in hollow'
  BY OwnRun, OpenTerminalDoes DEF Goes, TypeOK
<1>2. Climber(c) /\ c \in Runs /\ c # Root /\ call[c].kind # "none"
  BY <1>1, Stepping, OwnRun DEF Climber, HasRun
<1>3. BornAfter  BY <1>1 DEF BornAfter
<1>4. Informed(c)'  BY <1>1, <1>2, <1>3, InformedFrame DEF Closer, Proven, Retiring
<1>5. Kept(c)'
  <2>1. ~Seasoned(c)'  BY <1>1, <1>2 DEF Seasoned, Retiring
  <2>2. CASE call'[c].at = "compTerminal"
    <3>1. ~Started(c)'  BY <2>1, <2>2 DEF Started, Opened
    <3> QED  BY <2>1, <3>1 DEF Kept
  <2>3. CASE pty'[c] = "live"  BY <2>1, <2>3 DEF Kept
  <2>4. CASE c \in hollow'
    <3>1. runs[c].life # "none"  BY <1>1, <1>2 DEF Shape, Holding, HasRun
    <3>2. runs'[c].agent = AgentOf(c)  BY <1>1, <3>1, OwnRun
    <3>3. AgentOf(c)' = AgentOf(c)  BY <1>1 DEF Acts, AgentOf
    <3> QED  BY <2>4, <3>2, <3>3 DEF Kept, Excused
  <2> QED  BY <1>1, <2>2, <2>3, <2>4
<1> QED  BY <1>1, <1>2, <1>3, <1>4, <1>5, OwnKeeps

LEMMA MakeReadyKeepsRuns ==
  ASSUME TypeOK, Shape, Fitted, AllInformed, AllKept, Grows, Parameters, NEW c \in Calls,
         MakeReady(c)
  PROVE  AllInformed' /\ AllKept'
<1>1. /\ call[c].at = "ready" /\ Acts(c) /\ pty' = pty /\ UNCHANGED <<born, meddled, hollow>>
      /\ \/ runs' = runs /\ call'[c].at = "compTerminal"
         \/ runs' = [runs EXCEPT ![c] = [runs[c] EXCEPT !.life = "ready"]]
      /\ call'[c].at \in Closer => call[c].kind = "continue"
  BY MakeReadyDoes DEF Goes, Quiet, Closer
<1>2. Climber(c) /\ c \in Runs /\ c # Root /\ call[c].kind # "none"
  BY <1>1, Stepping, OwnRun DEF Climber, HasRun
<1>3. CASE runs' = runs /\ call'[c].at = "compTerminal"
  <2>1. Lags(c) /\ Attends(c)  BY <1>3 DEF Lags, Attends, Retiring, Proven, Opened, Closer
  <2> QED  BY <1>1, <1>2, <1>3, <2>1, StillKeeps
<1>4. CASE runs' = [runs EXCEPT ![c] = [runs[c] EXCEPT !.life = "ready"]]
  <2>1. BornAfter  BY <1>1 DEF BornAfter
  <2>2. runs'[c].life = "ready" /\ \A r \in Runs \ {c} : runs'[r] = runs[r]
    BY <1>2, <1>4 DEF TypeOK, RunRecord
  <2>3. runs[c].life # "none"  BY <1>1, <1>2 DEF Shape, Holding, HasRun
  <2>4. Informed(c)'  BY <1>1, <1>2, <2>1, <2>3, InformedFrame DEF Proven
  <2>5. Live(c)'  BY <2>2 DEF Live, Final
  <2>6. Started(c)  BY <1>1, <1>2 DEF Started, Opened
  <2>7. Kept(c)'  BY <1>1, <1>2, <2>5, <2>6, KeptFrame
  <2> QED  BY <1>1, <2>1, <2>2, <2>4, <2>7, OwnKeeps
<1> QED  BY <1>1, <1>3, <1>4

LEMMA PassGateKeepsRuns ==
  ASSUME TypeOK, Shape, Fitted, AllInformed, AllKept, Grows, Parameters, NEW c \in Calls,
         PassGate(c)
  PROVE  AllInformed' /\ AllKept'
<1>1. UNCHANGED <<born, meddled, hollow>>  BY PassGateDoes DEF Quiet
<1>2. CASE Climbs(c, "gated", "furnished", ops[c].state, "ready")
  <2>1. Climber(c)  BY <1>2, Stepping DEF Climbs, HasRun
  <2> QED  BY <1>1, <1>2, <2>1, ClimbKeepsRuns DEF Retiring, Proven, Opened, Closer
<1>3. CASE Writes(c, "gated", c, [runs[c] EXCEPT !.life = "failed"], "compTerminal", "compTerminal")
  <2>1. /\ call[c].at = "gated" /\ Acts(c) /\ call'[c].at = "compTerminal" /\ pty' = pty
        /\ runs' = runs \/ runs' = [runs EXCEPT ![c] = [runs[c] EXCEPT !.life = "failed"]]
    BY <1>3 DEF Writes, Goes
  <2>2. Climber(c) /\ c \in Runs /\ c # Root /\ call[c].kind # "none"
    BY <2>1, Stepping, OwnRun DEF Climber, HasRun
  <2>3. runs[c].life # "none"  BY <2>1, <2>2 DEF Shape, Holding, HasRun
  <2>4. Lags(c) /\ Attends(c)  BY <2>1 DEF Lags, Attends, Retiring, Proven, Opened, Closer
  <2>5. ~Started(c)'  BY <2>1, <2>2 DEF Started, Seasoned, Retiring, Opened
  <2>6. \A r \in Runs \ {c} : runs'[r] = runs[r]  BY <2>1 DEF TypeOK
  <2> QED  BY <1>1, <2>1, <2>2, <2>3, <2>4, <2>5, <2>6, EndKeeps
<1> QED  BY <1>2, <1>3, PassGateDoes

\* whoever is at closing a run was asked to, or has replaced it
LEMMA ClosingIsExcused ==
  ASSUME TypeOK, Shape, AllInformed, Parameters, NEW c \in Calls, call[c].at \in Closer
  PROVE  Replaced(call[c].victim) \/ Excused(runs[call[c].victim].agent)
<1>1. Informed(c)  BY DEF AllInformed
<1>2. CASE call[c].kind = "continue"
  <2>1. call[c].victim = call[c].old  BY <1>2 DEF Shape, Holding
  <2>2. "furnished" \in ops[c].rungs  BY <1>1, <1>2 DEF Informed, Climber, Proven, Retiring, Closer
  <2> QED  BY <1>2, <2>1, <2>2 DEF Replaced
<1>3. CASE call[c].kind # "continue"  BY <1>1, <1>3 DEF Informed, Excused
<1> QED  BY <1>2, <1>3

LEMMA CloserKeepsRuns ==
  ASSUME TypeOK, Shape, Fitted, AllInformed, AllKept, Grows, Parameters, NEW c \in Calls,
         Terminate(c) \/ MarkStopped(c)
  PROVE  AllInformed' /\ AllKept'
<1> DEFINE v == call[c].victim
<1>1. /\ Acts(c) /\ call[c].at \in {"terminate", "stopped"} /\ UNCHANGED <<born, meddled, hollow>>
      /\ \/ runs' = runs /\ (pty' = pty \/ pty' = [pty EXCEPT ![v] = "dead"])
         \/ pty' = pty /\ runs' = [runs EXCEPT ![v] = [runs[v] EXCEPT !.life = "stopped"]]
  <2>1. CASE Terminate(c)  BY <2>1, TerminateDoes DEF Quiet
  <2>2. CASE MarkStopped(c)  BY <2>2, MarkStoppedMarks DEF Marks, Quiet
  <2> QED  BY <2>1, <2>2
<1>2. call[c].at \in Closer /\ call[c].kind \in {"continue", "stop", "stopTree", "repair"}
  BY <1>1, Stepping DEF Closer
<1>3. v \in Runs /\ runs[v].life # "none"  BY <1>2 DEF Shape, Holding
<1>4. Lags(c)
  <2>1. call[c].at \in Retiring  BY <1>1 DEF Retiring
  <2>2. Climber(c) => "furnished" \in ops'[c].rungs
    BY <2>1 DEF AllInformed, Informed, Proven, Grows, OpsGrow
  <2> QED  BY <2>1, <2>2 DEF Lags
<1>5. Attends(c)
  <2>1. CASE Terminate(c)  BY <1>2, <2>1, TerminateDoes DEF Attends, Goes, AtRest
  <2>2. CASE MarkStopped(c)
    <3>1. \E result : Closes(c, result)  BY <2>2, MarkStoppedMarks DEF Marks
    <3> QED  BY <1>2, <3>1 DEF Closes, Attends, Closer
  <2> QED  BY <2>1, <2>2
<1>6. Replaced(v) \/ Excused(runs[v].agent)  BY <1>2, ClosingIsExcused
<1>7. PICK w \in Runs : w = v  BY <1>3
<1>8. \A r \in Runs \ {w} : pty'[r] = pty[r] /\ runs'[r] = runs[r]  BY <1>1, <1>7 DEF TypeOK
<1>9. (Replaced(w) \/ Excused(runs[w].agent)) /\ (runs'[w].life # "none" => runs[w].life # "none")
  BY <1>3, <1>6, <1>7
<1> HIDE DEF v
<1> QED  BY <1>1, <1>2, <1>4, <1>5, <1>8, <1>9, EndKeeps

\* a run that a repair compensates does no work that anybody counts on
LEMMA RepairedRun ==
  ASSUME TypeOK, Shape, Guarded, Fitted, AllInformed, Parameters, NEW c \in Calls,
         call[c].at \in Undoing, Acts(c), call'[c].at \notin Opened \cup Retiring,
         NEW o, o = Journal(c)
  PROVE  /\ o \in Runs
         /\ Excused(runs[o].agent) \/ ~Started(o)'
<1>1. o \in Calls /\ o \in Runs /\ o # Root  BY JournalIs, OwnRun
<1>2. CASE o = c  BY <1>1, <1>2 DEF Started, Seasoned
<1>3. CASE o # c
  <2>1. call[c].kind = "repair" /\ o = call[c].target  BY <1>3 DEF Journal
  <2>2. Repairing(c, o)  BY <2>1 DEF Repairing, Working, Undoing, AtRest
  <2>3. Started(o)' => Started(o)  BY <1>1, <1>3 DEF Started, Seasoned, Acts, Others, Same, Climber
  <2>4. CASE o \in meddled
    <3>1. Started(o) => runs[o].agent = AgentOf(o)  BY <1>1, StartedExists, OwnRun
    <3> QED  BY <1>1, <2>3, <2>4, <3>1 DEF Excused
  <2>5. CASE o \notin meddled
    <3>1. ~Working(o) /\ call[o].at # "ended"  BY <1>1, <2>2, <2>5 DEF Guarded, Alone
    <3>2. ~Started(o)  BY <1>1, <3>1 DEF Started, Seasoned, Working, AtRest, Opened, Retiring
    <3> QED  BY <1>1, <2>3, <3>2
  <2> QED  BY <2>4, <2>5
<1> QED  BY <1>2, <1>3

LEMMA UndoKeepsRuns ==
  ASSUME TypeOK, Shape, Guarded, Fitted, AllInformed, AllKept, Grows, Parameters,
         NEW c \in Calls, CompensateTerminal(c) \/ CompensateRun(c)
  PROVE  AllInformed' /\ AllKept'
<1>0. PICK o \in Runs : o = Journal(c)  BY JournalIs DEF Runs
<1>1. /\ Acts(c) /\ call[c].at \in Undoing /\ UNCHANGED <<born, meddled, hollow>>
      /\ call'[c].at \in {"compRun", "compOp", "failed", "refused", "releaseOld", "repairFence"}
      /\ \A r \in Runs \ {o} : pty'[r] = pty[r] /\ runs'[r] = runs[r]
      /\ runs'[o].life # "none" => runs[o].life # "none"
  <2>1. CASE CompensateTerminal(c)  BY <1>0, <2>1, CompensateTerminalDoes DEF Quiet, Undoing, TypeOK
  <2>2. CASE CompensateRun(c)
    <3>1. runs' = runs \/ (Live(o) /\ \E new : runs' = [runs EXCEPT ![o] = new])
      BY <1>0, <2>2, CompensateRunDoes
    <3>2. /\ \A r \in Runs \ {o} : runs'[r] = runs[r]
          /\ runs'[o].life # "none" => runs[o].life # "none"
      BY SMTT(30), <3>1 DEF TypeOK, Live
    <3>3. /\ Acts(c) /\ call[c].at \in Undoing /\ UNCHANGED <<born, meddled, hollow>> /\ pty' = pty
          /\ call'[c].at \in {"compRun", "compOp", "failed", "refused", "releaseOld", "repairFence"}
      BY <2>2, CompensateRunDoes DEF Quiet, Undoing, Goes, Ends
    <3> QED  BY <3>2, <3>3
  <2> QED  BY <2>1, <2>2
<1>2. call[c].kind # "none"  BY <1>1, Stepping DEF Undoing
<1>3. call'[c].at \notin Opened \cup Retiring \cup Closer  BY <1>1 DEF Opened, Retiring, Closer
<1>4. Lags(c) /\ Attends(c)  BY <1>3 DEF Lags, Attends, Proven, Opened
<1>5. Excused(runs[o].agent) \/ ~Started(o)'  BY <1>0, <1>1, <1>3, RepairedRun
<1> QED  BY <1>1, <1>2, <1>4, <1>5, EndKeeps

LEMMA ExitKeepsRuns ==
  ASSUME TypeOK, Shape, Fitted, AllInformed, AllKept, Grows, Parameters, NEW q \in Runs,
         Exit(q) \/ SettleGone(q)
  PROVE  AllInformed' /\ AllKept'
<1>1. /\ UNCHANGED <<born, ops, meddled, hollow>> /\ \A d \in Calls : Same(d)
      /\ \A r \in Runs \ {q} : pty'[r] = pty[r] /\ runs'[r] = runs[r]
      /\ runs'[q].life # "none" => runs[q].life # "none"
  BY ExitDoes, SettleGoneDoes DEF Same, TypeOK, Live
<1>2. AllInformed'
  <2> SUFFICES ASSUME NEW c \in Calls PROVE Informed(c)'  BY DEF AllInformed
  <2>1. Informed(c)'
    <3>1. CASE call[c].kind = "none"
      <4>1. call'[c].kind = "none" /\ call'[c].at = "new"  BY <1>1, <3>1, Stepping DEF Same
      <4>2. c \notin meddled' \cup hollow'  BY <1>1, <3>1 DEF AllInformed, Informed
      <4> QED  BY <4>1, <4>2 DEF Informed, Climber, Closer
    <3>2. CASE call[c].kind # "none"
      <4>1. BornAfter /\ c \in Runs /\ Same(c)  BY <1>1 DEF BornAfter, Runs
      <4>2. runs'[c].life # "none" => runs[c].life # "none"  BY <1>1, <4>1
      <4> QED  BY <3>2, <4>1, <4>2, InformedFrame DEF Same
    <3> QED  BY <3>1, <3>2
  <2> QED  BY <2>1
<1>3. AllKept'
  <2> SUFFICES ASSUME NEW r \in Runs PROVE Kept(r)'  BY DEF AllKept
  <2>1. (Seasoned(r)' <=> Seasoned(r)) /\ (Started(r)' <=> Started(r))
    BY <1>1 DEF Seasoned, Started, Same, Climber
  <2>2. CASE r # q
    <3>1. Live(r)' <=> Live(r)  BY <1>1, <2>2 DEF Live
    <3> QED  BY <1>1, <2>1, <2>2, <3>1, KeptFrame
  <2>3. CASE r = q /\ Exit(q)
    <3>1. Excused(runs[r].agent)'  BY <2>3, ExitDoes DEF Excused
    <3> QED  BY <3>1, KeptFrame
  <2>4. CASE r = q /\ SettleGone(q)
    <3>1. pty[q] = "dead" /\ pty' = pty  BY <2>4, SettleGoneDoes
    <3>2. CASE Excused(runs[r].agent) \/ ~Started(r)
      <4>1. Started(r) => runs[r].life # "none"  BY StartedExists
      <4>2. Started(r) => Excused(runs[r].agent)'  BY <3>2, <4>1, ExcuseStays
      <4>3. Seasoned(r) => Started(r)  BY DEF Started
      <4> QED  BY <2>1, <4>2, <4>3, KeptFrame
    <3>3. CASE ~Excused(runs[r].agent) /\ Started(r)
      <4>1. Replaced(r)  BY <2>4, <3>1, <3>3 DEF AllKept, Kept
      <4>2. Replaced(r)'  BY <4>1, ReplacedStays
      <4> QED  BY <4>2, KeptFrame
    <3> QED  BY <3>2, <3>3
  <2> QED  BY <2>2, <2>3, <2>4
<1> QED  BY <1>2, <1>3

LEMMA RestartKeepsRuns ==
  ASSUME TypeOK, Shape, Fitted, AllInformed, AllKept, Grows, Parameters, Restart
  PROVE  AllInformed' /\ AllKept'
<1>1. /\ UNCHANGED <<born, meddled, hollow>>
      /\ \A c \in Calls : /\ call'[c].kind = call[c].kind
                          /\ (~Working(c) /\ call'[c] = call[c]) \/ call'[c].at = "failed"
      /\ \A r \in Runs : /\ Live(r) => runs'[r].agent \in asked'
                         /\ ~Live(r) => runs'[r] = runs[r]
                         /\ pty'[r] = "dead" => pty[r] \in {"live", "dead"}
  <2>1. \A r \in Runs : Live(r) => runs'[r].agent = runs[r].agent  BY DEF Grows, RunsGrow, Live
  <2>2. \A r \in Runs : /\ Live(r) => runs[r].agent \in asked'
                        /\ ~Live(r) => runs'[r] = runs[r]
                        /\ pty'[r] = "dead" => pty[r] \in {"live", "dead"}
    <3> SUFFICES ASSUME NEW r \in Runs
                 PROVE  /\ Live(r) => runs[r].agent \in asked'
                        /\ ~Live(r) => runs'[r] = runs[r]
                        /\ pty'[r] = "dead" => pty[r] \in {"live", "dead"}
      OBVIOUS
    <3>1. pty' = [q \in Runs |-> IF pty[q] = "live" THEN "dead" ELSE pty[q]]  BY RestartDoes
    <3>2. runs' = [q \in Runs |-> IF Live(q) THEN [runs[q] EXCEPT !.life = "interrupted"]
                                   ELSE runs[q]]
      BY RestartDoes
    <3>3. asked' = asked \cup {runs[p].agent : p \in {q \in Runs : Live(q)}}  BY RestartDoes
    <3>4. ~Live(r) => runs'[r] = runs[r]  BY <3>2
    <3>5. Live(r) => runs[r].agent \in asked'  BY <3>3
    <3>6. pty'[r] = "dead" => pty[r] \in {"live", "dead"}  BY <3>1
    <3> QED  BY <3>4, <3>5, <3>6
  <2>3. /\ UNCHANGED <<born, meddled, hollow>>
        /\ \A c \in Calls : /\ call'[c].kind = call[c].kind
                            /\ (~Working(c) /\ call'[c] = call[c]) \/ call'[c].at = "failed"
    BY RestartDoes DEF Goes
  <2> QED  BY <2>1, <2>2, <2>3
<1>2. \A c \in Calls : call'[c].at \notin Closer  BY <1>1 DEF Working, AtRest, Closer
<1>3. \A c \in Calls : call'[c].at \in Proven \cup Opened => call'[c].at = "ended" /\ call[c].at = "ended"
  BY <1>1 DEF Working, AtRest, Proven, Opened, Retiring
<1>4. AllInformed'
  <2> SUFFICES ASSUME NEW c \in Calls PROVE Informed(c)'  BY DEF AllInformed
  <2>0. c \in Runs /\ BornAfter  BY <1>1 DEF Runs, BornAfter
  <2>1. CASE call[c].kind = "none"
    <3>1. c \notin meddled' \cup hollow'  BY <1>1, <2>1 DEF AllInformed, Informed
    <3> QED  BY <1>1, <1>2, <2>1, <3>1 DEF Informed, Climber
  <2>2. CASE call[c].kind # "none"
    <3>1. runs'[c].life # "none" => runs[c].life # "none"  BY <1>1, <2>0 DEF Live
    <3>2. call'[c].at \in Proven => call[c].at \in Proven  BY <1>3 DEF Proven, Retiring
    <3> QED  BY <1>2, <2>0, <2>2, <3>1, <3>2, InformedFrame
  <2> QED  BY <2>1, <2>2
<1>5. AllKept'
  <2> SUFFICES ASSUME NEW r \in Runs PROVE Kept(r)'  BY DEF AllKept
  <2>1. CASE Live(r)
    <3>1. Excused(runs[r].agent)'  BY <1>1, <2>1 DEF Excused
    <3> QED  BY <3>1, KeptFrame
  <2>2. CASE ~Live(r)
    <3>1. Started(r)' => Seasoned(r)  BY <1>1, <1>3 DEF Started, Seasoned, Proven, Retiring, Climber
    <3>2. Seasoned(r)' => Started(r)'  BY DEF Started
    <3>3. Seasoned(r) => Replaced(r) \/ Excused(runs[r].agent)  BY <2>2 DEF AllKept, Kept
    <3>4. Replaced(r) => Replaced(r)'  BY ReplacedStays
    <3>5. Seasoned(r) => runs[r].life # "none"  BY StartedExists DEF Started
    <3>6. Seasoned(r) /\ Excused(runs[r].agent) => Excused(runs[r].agent)'  BY <3>5, ExcuseStays
    <3> QED  BY <3>1, <3>2, <3>3, <3>4, <3>6, KeptFrame
  <2> QED  BY <2>1, <2>2
<1> QED  BY <1>4, <1>5
LEMMA InitKeeps ==
  ASSUME Init, Parameters
  PROVE  AllInformed /\ AllKept
<1>1. \A c \in Calls : /\ call[c].kind = "none" /\ call[c].at = "new"
                       /\ c \notin meddled \cup hollow
  BY DEF Init, Idle
<1>2. AllInformed  BY <1>1 DEF AllInformed, Informed, Climber, Closer
<1>3. \A r \in Runs : Started(r) => r = Root  BY <1>1 DEF Started, Seasoned, Climber
<1>4. pty[Root] = "live" /\ runs[Root].life = "ready"  BY DEF Init, Runs
<1>5. AllKept
  <2> SUFFICES ASSUME NEW r \in Runs PROVE Kept(r)  BY DEF AllKept
  <2>1. CASE r = Root  BY <1>4, <2>1 DEF Kept, Live, Final
  <2>2. CASE r # Root  BY <1>3, <2>2 DEF Kept, Started
  <2> QED  BY <2>1, <2>2
<1> QED  BY <1>2, <1>5

LEMMA NextKeeps ==
  ASSUME TypeOK, Shape, KeepInv, Parameters, [Next]_vars
  PROVE  KeepInv'
<1>1. OrphanInv'  BY NextOrphans DEF KeepInv
<1>2. CASE UNCHANGED vars
  BY <1>1, <1>2 DEF KeepInv, vars, AllInformed, Informed, AllKept, Kept, Excused, AgentOf, Seasoned,
     Started, Replaced, Precedes, Climber, Live
<1>3. CASE Next
  <2>1. Grows  BY <1>3, NextGrows
  <2> USE <2>1 DEF KeepInv, OrphanInv
  <2>2. ASSUME NEW c \in Calls PROVE
          /\ (\/ Identity(c) \/ DrainOldRun(c) \/ JournalRun(c) \/ ReserveTerminal(c)
              \/ JournalTerminal(c) \/ Furnish(c) \/ Settle(c)) => AllInformed' /\ AllKept'
          /\ (\/ OpenOperation(c) \/ CloseFence(c) \/ CreateFence(c) \/ ConfirmOrder(c)
              \/ FinishTree(c) \/ SettleTreeStop(c) \/ CompensateOperation(c) \/ RepairFence(c)
              \/ RepairSettle(c)) => AllInformed' /\ AllKept'
          /\ Send(c) => AllInformed' /\ AllKept'
          /\ SendAgain(c) \/ Admit(c) \/ Judge(c) \/ StopNext(c) => AllInformed' /\ AllKept'
          /\ (\/ FenceOldRun(c) \/ PatchTerminal(c) \/ ReleaseFencedRun(c) \/ MarkStopping(c)
              \/ MarkUnsure(c)) => AllInformed' /\ AllKept'
          /\ ReserveRun(c) \/ OpenTerminal(c) \/ MakeReady(c) \/ PassGate(c) => AllInformed' /\ AllKept'
          /\ Terminate(c) \/ MarkStopped(c) => AllInformed' /\ AllKept'
          /\ CompensateTerminal(c) \/ CompensateRun(c) => AllInformed' /\ AllKept'
    BY <2>2, LadderKeepsRuns, QuietKeepsRuns, SendKeepsRuns, RequestKeepsRuns, WriteKeepsRuns,
       ReserveKeepsRuns, OpenTerminalKeepsRuns, MakeReadyKeepsRuns, PassGateKeepsRuns,
       CloserKeepsRuns, UndoKeepsRuns
  <2>3. CASE \E r \in Runs : Exit(r) \/ SettleGone(r)  BY <1>1, <2>3, ExitKeepsRuns
  <2>4. CASE Restart  BY <1>1, <2>4, RestartKeepsRuns
  <2>5. CASE ~Restart /\ ~\E r \in Runs : Exit(r) \/ SettleGone(r)
    <3>1. AllInformed' /\ AllKept'  BY <1>3, <2>2, <2>5 DEF Next
    <3> QED  BY <1>1, <3>1
  <2> QED  BY <2>3, <2>4, <2>5
<1> QED  BY <1>2, <1>3

\* of finitely many runs that were created, one is the youngest
LEMMA YoungestExists ==
  ASSUME TypeOK, Shape, NEW S \in SUBSET Runs, NEW q \in S, runs[q].life # "none"
  PROVE  \E i \in DOMAIN born : born[i] \in S /\ \A j \in DOMAIN born : born[j] \in S => j <= i
<1> DEFINE T == {Len(born) - i : i \in {k \in DOMAIN born : born[k] \in S}}
<1>1. DOMAIN born = 1 .. Len(born) /\ Len(born) \in Nat  BY DEF Shape, BornOK
<1>2. \E i \in DOMAIN born : born[i] = q  BY DEF Shape, BornOK
<1>3. T \in SUBSET Nat /\ T # {}  BY <1>1, <1>2
<1>4. PICK x \in T : \A y \in T : x <= y
  <2> HIDE DEF T
  <2> QED  BY <1>3, MinExists
<1>5. PICK i \in DOMAIN born : born[i] \in S /\ x = Len(born) - i  BY <1>4
<1>6. \A j \in DOMAIN born : born[j] \in S => j <= i
  <2> SUFFICES ASSUME NEW j \in DOMAIN born, born[j] \in S PROVE j <= i
    OBVIOUS
  <2>1. Len(born) - i <= Len(born) - j  BY <1>4, <1>5
  <2> QED  BY <1>1, <2>1
<1> QED  BY <1>5, <1>6

LEMMA KeptRuns ==
  ASSUME TypeOK, Shape, KeepInv, Parameters
  PROVE  AgentKeepsARunUnlessUnwound
<1> SUFFICES ASSUME NEW a \in Agents, Established(a), a \notin asked,
                    ~\E c \in Calls : AgentOf(c) = a /\ (c \in meddled \cup hollow \/ Unwound(c))
             PROVE  LiveRuns(a) # {}
  BY DEF AgentKeepsARunUnlessUnwound
<1>1. ~Excused(a)  BY DEF Excused, TypeOK
<1> DEFINE S == {r \in Runs : Seasoned(r) /\ runs[r].agent = a}
<1>2. a \in S
  <2>1. CASE a = Root  BY <2>1 DEF Shape, RunOK, Seasoned, Runs
  <2>2. CASE a \in Calls /\ call[a].kind = "spawn" /\ call[a].at = "ended"
    <3>1. Seasoned(a) /\ a \in Runs  BY <2>2 DEF Seasoned, Climber, Retiring, Runs
    <3>2. runs[a].life # "none"  BY <3>1, StartedExists DEF Started, KeepInv, OrphanInv
    <3>3. runs[a].agent = a  BY <2>2, <3>2, OwnRun DEF AgentOf
    <3> QED  BY <3>1, <3>3
  <2> QED  BY <2>1, <2>2 DEF Established
<1>3. runs[a].life # "none"  BY <1>2, StartedExists DEF Started, KeepInv, OrphanInv
<1>4. PICK i \in DOMAIN born : born[i] \in S /\ \A j \in DOMAIN born : born[j] \in S => j <= i
  <2>1. S \in SUBSET Runs  OBVIOUS
  <2> HIDE DEF S
  <2> QED  BY <1>2, <1>3, <2>1, YoungestExists
<1>5. PICK r \in S : r = born[i]  BY <1>4
<1>6. r \in Runs /\ Seasoned(r) /\ runs[r].agent = a  BY <1>5
<1>7. ASSUME ~Live(r) PROVE FALSE
  <2>1. Replaced(r)  BY <1>1, <1>6, <1>7 DEF KeepInv, AllKept, Kept
  <2>2. PICK d \in Calls : call[d].kind = "continue" /\ call[d].old = r /\ "furnished" \in ops[d].rungs
    BY <2>1 DEF Replaced
  <2>3. runs[d].life # "none" /\ d \in Runs  BY <2>2 DEF Shape, JournalOK, Runs
  <2>4. AgentOf(d) = a /\ runs[d].agent = a
    <3>1. call[d].target = a  BY <1>6, <2>2 DEF Shape, Named
    <3> QED  BY <2>2, <2>3, <3>1, OwnRun DEF AgentOf
  <2>5. ~Seasoned(d)
    <3> SUFFICES ASSUME Seasoned(d) PROVE FALSE
      OBVIOUS
    <3>1. PICK k \in DOMAIN born, j \in DOMAIN born : k < j /\ born[k] = r /\ born[j] = d
      BY <2>2, <2>3 DEF KeepInv, AllInformed, Informed, Precedes
    <3>2. k = i  BY <1>5, <3>1 DEF TypeOK
    <3>3. j <= i  BY <1>4, <2>3, <2>4, <3>1
    <3>4. i \in Int /\ j \in Int  BY DEF Shape, BornOK
    <3> QED  BY <3>1, <3>2, <3>3, <3>4
  <2>6. call[d].at \notin Retiring  BY <2>2, <2>5 DEF Seasoned, Climber
  <2>7. runs[r].life \in Final
    <3>1. runs[r].life # "none"  BY <1>6, StartedExists DEF Started, KeepInv, OrphanInv
    <3> QED  BY <1>7, <3>1 DEF Live
  <2>8. Unwound(d)  BY <2>2, <2>6, <2>7 DEF Unwound
  <2> QED  BY <2>4, <2>8
<1> QED  BY <1>6, <1>7 DEF LiveRuns

\* An agent that works keeps a live run unless somebody stopped it or its provider or runtime
\* ended: a continuation's old run is ended last, and only when the replacement is ready
\* (continue.ts:170-174), whatever other commands, repairs and failures come between.
THEOREM AgentsKeepARun == Spec => []AgentKeepsARunUnlessUnwound
<1>1. Init => TypeOK /\ Shape /\ KeepInv
  BY InitShape, InitOrphans, InitKeeps, Parameters DEF KeepInv
<1>2. (TypeOK /\ Shape /\ KeepInv) /\ [Next]_vars => (TypeOK /\ Shape /\ KeepInv)'
  BY NextShape, NextKeeps, Parameters
<1>3. TypeOK /\ Shape /\ KeepInv => AgentKeepsARunUnlessUnwound
  BY KeptRuns, Parameters
<1> QED  BY <1>1, <1>2, <1>3, PTL DEF Spec

-----------------------------------------------------------------------------
(* A fence that is closing belongs to a journal that is open.                *)
LEMMA DoubledStays ==
  ASSUME TypeOK, Shape, Grows, NEW f \in Calls, call[f].kind # "none", Doubled(f),
         \A g \in Calls : fences[g] # "none" => fences'[g] # "none"
  PROVE  Doubled(f)'
<1>1. PICK g \in Calls \ {f} : fences[g] # "none" /\ call[g].target = call[f].target  BY DEF Doubled
<1>2. call[g].kind = "stopTree"  BY <1>1 DEF Shape, JournalOK
<1>3. call'[g].target = call'[f].target  BY <1>1, <1>2 DEF Grows, CallsGrow
<1> QED  BY <1>1, <1>3 DEF Doubled

LEMMA LooseStays ==
  ASSUME TypeOK, Shape, Grows, NEW f \in Calls, Loose(f), fences'[f] = "closing" => fences[f] = "closing",
         \A g \in Calls : fences[g] # "none" => fences'[g] # "none"
  PROVE  Loose(f)'
<1>1. CASE f \in meddled \cup lost  BY <1>1 DEF Loose, Grows, HistoryGrows
<1>2. CASE fences'[f] # "closing"  BY <1>2 DEF Loose
<1>3. CASE fences[f] = "closing" /\ Doubled(f)
  <2>1. call[f].kind = "stopTree"  BY <1>3 DEF Shape, JournalOK
  <2> QED  BY <1>3, <2>1, DoubledStays DEF Loose
<1> QED  BY <1>1, <1>2, <1>3 DEF Loose

\* a step that closes no fence
LEMMA OwnerFrame ==
  ASSUME TypeOK, Shape, Grows, OwnerInv, JournalsGoOn, FencesOpen,
         \A d \in Calls : Same(d) \/ Settles(d)'
  PROVE  OwnerInv'
<1> SUFFICES ASSUME NEW f \in Calls
             PROVE  /\ Fenced(f)' /\ Settles(f)'
                    /\ ops'[f].state = "completed" => Loose(f)'
  BY DEF OwnerInv
<1>1. \A g \in Calls : Loose(g) => Loose(g)'  BY LooseStays DEF FencesOpen
<1>2. Fenced(f)'  BY DEF OwnerInv, Fenced, JournalsGoOn, FencesOpen
<1>3. ops'[f].state = "completed" => Loose(f)'
  <2>1. fences'[f] # "closing" => Loose(f)'  BY DEF Loose
  <2> QED  BY <1>1, <2>1 DEF OwnerInv, JournalsGoOn
<1>4. ASSUME Same(f) PROVE Settles(f)'
  <2>1. SUFFICES ASSUME \/ call'[f].at = "settleTree" /\ call'[f].missed = {}
                        \/ call'[f].at = "repairSettle"
                 PROVE  Loose(Journal(f))'
    BY DEF Settles
  <2>2. PICK o \in Calls : o = Journal(f)  BY JournalIs
  <2>3. Loose(o)  BY <1>4, <2>1, <2>2 DEF OwnerInv, Settles, Same
  <2>4. Journal(f)' = o  BY <1>4, <2>2 DEF Journal, Same
  <2>5. Loose(o)'  BY <1>1, <2>3
  <2> QED  BY <2>4, <2>5 DEF Loose, Doubled
<1> QED  BY <1>2, <1>3, <1>4

\* one call acts, and does not come to settle a tree-stop or a repair
LEMMA Unsettled ==
  ASSUME NEW c \in Calls, Others(c), call'[c].at \notin {"settleTree", "repairSettle"}
  PROVE  \A d \in Calls : Same(d) \/ Settles(d)'
BY DEF Settles, Others

LEMMA SameJournals ==
  ASSUME ops' = ops
  PROVE  JournalsGoOn
BY DEF JournalsGoOn

LEMMA SameFences ==
  ASSUME fences' = fences
  PROVE  FencesOpen
BY DEF FencesOpen

LEMMA ClimbOwns ==
  ASSUME TypeOK, Shape, Grows, OwnerInv, Parameters, NEW c \in Calls, NEW from, NEW rung,
         NEW state \in OpStates \ {"none"}, NEW to \in Steps \ {"settleTree", "repairSettle"},
         Climbs(c, from, rung, state, to), Climber(c), fences' = fences
  PROVE  OwnerInv'
<1>1. Others(c) /\ call'[c].at \notin {"settleTree", "repairSettle"}  BY DEF Climbs, Goes, Acts
<1>2. fences[c] = "none"  BY DEF Shape, JournalOK, Climber, TypeOK
<1>3. JournalsGoOn
  <2>1. CASE ops' = ops  BY <2>1, SameJournals
  <2>2. CASE ops' = [ops EXCEPT ![c] = [ops[c] EXCEPT !.rungs = @ \cup {rung}, !.state = state]]
    <3>1. ops[c] \in OpRecord /\ ops \in [Calls -> OpRecord]  BY DEF TypeOK
    <3>2. ops'[c].state = state  BY <2>2, <3>1 DEF OpRecord
    <3>3. \A o \in Calls \ {c} : ops'[o] = ops[o]  BY <2>2, <3>1
    <3> QED  BY <1>2, <3>2, <3>3 DEF JournalsGoOn
  <2> QED  BY <2>1, <2>2 DEF Climbs
<1> QED  BY <1>1, <1>3, Unsettled, SameFences, OwnerFrame

LEMMA LadderOwns ==
  ASSUME TypeOK, Shape, Grows, OwnerInv, Parameters, NEW c \in Calls,
         \/ Identity(c) \/ DrainOldRun(c) \/ JournalRun(c) \/ ReserveTerminal(c)
         \/ JournalTerminal(c) \/ Furnish(c) \/ PassGate(c) \/ Settle(c)
  PROVE  OwnerInv'
<1>1. ops[c].state \in OpStates  BY SMTT(30), OpStateType
<1>2. call[c].at \in {"identity", "drain", "journalRun", "reserveTerminal", "journalTerminal",
                      "furnish", "gated", "settle"}
  BY IdentityClimbs, DrainClimbs, JournalRunClimbs, ReserveTerminalClimbs, JournalTerminalClimbs,
     FurnishDoes, PassGateDoes, SettleClimbs DEF Climbs, Writes
<1>3. Climber(c)  BY <1>2, Stepping DEF Climber, HasRun
<1>4. ops[c].state # "none"  BY <1>2, <1>3 DEF Shape, Holding, Climber, AtRest
<1> USE <1>1, <1>3, <1>4 DEF Quiet
<1>5. \A to \in {"reserve", "reserveTerminal", "openTerminal", "patchTerminal", "ready", "ended"} :
         to \in Steps \ {"settleTree", "repairSettle"}
  BY DEF Steps, AtRest
<1>6. {"completed", "continuation-pending"} \subseteq OpStates  BY DEF OpStates
<1>7. CASE Identity(c)  BY <1>5, <1>7, IdentityClimbs, ClimbOwns
<1>8. CASE DrainOldRun(c)  BY <1>5, <1>6, <1>8, DrainClimbs, ClimbOwns
<1>9. CASE JournalRun(c)
  <2> DEFINE to == IF call[c].kind = "spawn" THEN "reserveTerminal" ELSE "openTerminal"
  <2>1. to \in Steps \ {"settleTree", "repairSettle"}  BY <1>5
  <2>2. Climbs(c, "journalRun", "run", ops[c].state, to) /\ Quiet  BY <1>9, JournalRunClimbs
  <2> HIDE DEF to
  <2> QED  BY <2>1, <2>2, ClimbOwns
<1>10. CASE ReserveTerminal(c)  BY <1>5, <1>10, ReserveTerminalClimbs, ClimbOwns
<1>11. CASE JournalTerminal(c)  BY <1>5, <1>11, JournalTerminalClimbs, ClimbOwns
<1>12. CASE Settle(c)  BY <1>5, <1>6, <1>12, SettleClimbs, ClimbOwns
<1>13. CASE Furnish(c) \/ PassGate(c)
  <2>1. CASE \E from : Climbs(c, from, "furnished", ops[c].state, "ready") /\ Quiet
    BY <1>5, <2>1, ClimbOwns
  <2>2. CASE Acts(c) /\ ops' = ops /\ Quiet /\ call'[c].at \in {"gated", "compTerminal"}
    BY <2>2, Unsettled, SameJournals, SameFences, OwnerFrame DEF Acts
  <2> QED  BY <1>13, <2>1, <2>2, FurnishDoes, PassGateDoes DEF Writes, Goes
<1> QED  BY <1>7, <1>8, <1>9, <1>10, <1>11, <1>12, <1>13

\* a step that leaves the journals and the fences alone
LEMMA StepOwns ==
  ASSUME TypeOK, Shape, Grows, OwnerInv, Parameters, NEW c \in Calls,
         \/ FenceOldRun(c) \/ ReserveRun(c) \/ OpenTerminal(c) \/ PatchTerminal(c) \/ MakeReady(c)
         \/ MarkStopping(c) \/ Terminate(c) \/ MarkUnsure(c) \/ MarkStopped(c)
         \/ CloseFence(c) \/ StopNext(c)
         \/ CompensateTerminal(c) \/ CompensateRun(c) \/ ReleaseFencedRun(c)
         \/ Send(c) \/ SendAgain(c) \/ Admit(c) \/ Judge(c)
  PROVE  OwnerInv'
<1>1. ops' = ops /\ fences' = fences /\ Others(c) /\ call'[c].at \notin {"settleTree", "repairSettle"}
  <2> USE DEF Acts, Quiet, Goes, Ends
  <2>1. CASE FenceOldRun(c) \/ PatchTerminal(c)
    BY <2>1, FenceOldRunWrites, PatchTerminalWrites DEF Writes
  <2>2. CASE ReserveRun(c) \/ OpenTerminal(c)  BY <2>2, ReserveRunDoes, OpenTerminalDoes
  <2>3. CASE MakeReady(c)  BY <2>3, MakeReadyDoes
  <2>4. CASE MarkStopping(c) \/ Terminate(c) \/ MarkUnsure(c) \/ MarkStopped(c)
    <3>1. /\ call[c].at \in Closer /\ ops' = ops /\ fences' = fences /\ Others(c)
          /\ (\E result : Closes(c, result)) \/ call'[c].at \in Closer
      BY <2>4, MarkStoppingDoes, TerminateDoes, MarkUnsureMarks, MarkStoppedMarks DEF Marks, Closer
    <3>2. call[c].kind \in {"continue", "stop", "stopTree", "repair"}  BY <3>1, Stepping
    <3> QED  BY <3>1, <3>2 DEF Closer, Closes
  <2>5. CASE CloseFence(c)  BY <2>5, CloseFenceDoes
  <2>6. CASE StopNext(c)  BY <2>6, StopNextDoes
  <2>7. CASE CompensateTerminal(c)  BY <2>7, CompensateTerminalDoes
  <2>8. CASE CompensateRun(c)  BY <2>8, CompensateRunDoes
  <2>9. CASE ReleaseFencedRun(c)  BY <2>9, ReleaseFencedRunDoes
  <2>10. CASE Send(c)  BY <2>10, SendDoes
  <2>11. CASE SendAgain(c)  BY <2>11, SendAgainDoes
  <2>12. CASE Admit(c)  BY <2>12, AdmitDoes
  <2>13. CASE Judge(c)  BY <2>13, JudgeDoes
  <2> QED  BY <2>1, <2>2, <2>3, <2>4, <2>5, <2>6, <2>7, <2>8, <2>9, <2>10, <2>11, <2>12, <2>13
<1> QED  BY <1>1, Unsettled, SameJournals, SameFences, OwnerFrame

LEMMA OpenOwns ==
  ASSUME TypeOK, Shape, Grows, OwnerInv, Parameters, NEW c \in Calls,
         OpenOperation(c) \/ CompensateOperation(c)
  PROVE  OwnerInv'
<1>1. ops \in [Calls -> OpRecord] /\ Journal(c) \in Calls /\ ops[Journal(c)] \in OpRecord
  BY JournalIs DEF TypeOK
<1>2. CASE OpenOperation(c)
  <2>1. /\ Acts(c) /\ fences' = fences
        /\ \/ ops' = ops
           \/ ops' = [ops EXCEPT ![c] = [NoOp EXCEPT !.state = "running", !.mine = TRUE]]
        /\ call'[c].at \in {"failed", "identity", "fenceOld", "closeFence"}
    BY <1>2, OpenOperationDoes DEF Quiet, Goes
  <2>2. JournalsGoOn
    <3>1. CASE ops' = ops  BY <3>1, SameJournals
    <3>2. CASE ops' = [ops EXCEPT ![c] = [NoOp EXCEPT !.state = "running", !.mine = TRUE]]
      <4>1. ops'[c].state = "running" /\ \A o \in Calls \ {c} : ops'[o] = ops[o]
        BY <1>1, <3>2 DEF NoOp
      <4> QED  BY <4>1 DEF JournalsGoOn
    <3> QED  BY <2>1, <3>1, <3>2
  <2> QED  BY <2>1, <2>2, Unsettled, SameFences, OwnerFrame DEF Acts
<1>3. CASE CompensateOperation(c)
  <2>1. /\ Acts(c) /\ fences' = fences /\ (Ends(c, FALSE) \/ Ends(c, TRUE))
        /\ \/ ops' = ops
           \/ \E doubt : ops' = [ops EXCEPT ![Journal(c)] =
                    [ops[Journal(c)] EXCEPT !.state = "recovery-required", !.doubt = doubt]]
    BY <1>3, CompensateOperationDoes DEF Quiet
  <2>2. JournalsGoOn
    <3>1. CASE ops' = ops  BY <3>1, SameJournals
    <3>2. ASSUME NEW doubt, ops' = [ops EXCEPT ![Journal(c)] =
                    [ops[Journal(c)] EXCEPT !.state = "recovery-required", !.doubt = doubt]]
          PROVE  JournalsGoOn
      <4>1. /\ ops'[Journal(c)].state = "recovery-required"
            /\ \A o \in Calls \ {Journal(c)} : ops'[o] = ops[o]
        BY <1>1, <3>2 DEF OpRecord
      <4> QED  BY <4>1 DEF JournalsGoOn
    <3> QED  BY <2>1, <3>1, <3>2
  <2>3. call'[c].at \notin {"settleTree", "repairSettle"}  BY <2>1 DEF Ends, Goes
  <2> QED  BY <2>1, <2>2, <2>3, Unsettled, SameFences, OwnerFrame DEF Acts
<1> QED  BY <1>2, <1>3

\* a fence closes under a journal that is open, and that no repair works on
LEMMA CreateFenceOwns ==
  ASSUME TypeOK, Shape, Guarded, Grows, OwnerInv, Parameters, NEW c \in Calls,
         CreateFence(c)
  PROVE  OwnerInv'
<1>1. /\ call[c].at = "createFence" /\ Acts(c) /\ ops' = ops /\ meddled' = meddled /\ lost' = lost
      /\ fences' = fences \/ fences' = [fences EXCEPT ![c] = "closing"]
      /\ call'[c].at \in {"failed", "snapshot"}
  BY CreateFenceDoes DEF Goes
<1>2. call[c].kind = "stopTree"  BY <1>1, Stepping
<1>3. Others(c) /\ \A d \in Calls : Same(d) \/ Settles(d)'  BY <1>1, Unsettled DEF Acts
<1>4. CASE fences' = fences  BY <1>1, <1>3, <1>4, SameJournals, SameFences, OwnerFrame
<1>5. CASE fences' = [fences EXCEPT ![c] = "closing"]
  <2>1. fences'[c] = "closing" /\ \A f \in Calls \ {c} : fences'[f] = fences[f]  BY <1>5 DEF TypeOK
  <2>2. \A f \in Calls \ {c} : Loose(f) => Loose(f)'  BY <2>1, LooseStays
  <2>3. ops[c].state # "none"  BY <1>1, <1>2 DEF Shape, Holding, AtRest
  <2>4. c \notin meddled => ops[c].state # "completed" /\ \A d \in Calls : ~Repairing(d, c)
    BY <1>1, <1>2 DEF Guarded, Alone, Unready, Ascends, Owns, Working, AtRest, Undoing
  <2> SUFFICES ASSUME NEW f \in Calls
               PROVE  /\ Fenced(f)' /\ Settles(f)'
                      /\ ops'[f].state = "completed" => Loose(f)'
    BY DEF OwnerInv
  <2>5. Fenced(f)'  BY <1>1, <2>1, <2>3 DEF Fenced, OwnerInv
  <2>6. ops'[f].state = "completed" => Loose(f)'
    <3>1. CASE f = c  BY <1>1, <2>4, <3>1 DEF Loose
    <3>2. CASE f # c  BY <1>1, <2>2, <3>2 DEF OwnerInv
    <3> QED  BY <3>1, <3>2
  <2>7. Settles(f)'
    <3>1. SUFFICES ASSUME f # c, Same(f), \/ call'[f].at = "settleTree" /\ call'[f].missed = {}
                                          \/ call'[f].at = "repairSettle"
                   PROVE  Loose(Journal(f))'
      BY <1>1, <1>3 DEF Settles, Others
    <3>2. PICK o \in Calls : o = Journal(f)  BY JournalIs
    <3>3. Loose(o)  BY <3>1, <3>2 DEF OwnerInv, Settles, Same
    <3>4. Journal(f)' = o  BY <3>1, <3>2 DEF Journal, Same
    <3>5. Loose(o)'
      <4>1. CASE o # c  BY <2>2, <3>3, <4>1
      <4>2. CASE o = c
        <5>1. call[f].kind = "repair" /\ call[f].target = c  BY <3>1, <3>2, <4>2 DEF Journal
        <5>2. Repairing(f, c)  BY <3>1, <5>1 DEF Repairing, Same, Working, AtRest
        <5>3. c \in meddled'  BY <1>1, <2>4, <5>2
        <5> QED  BY <4>2, <5>3 DEF Loose
      <4> QED  BY <4>1, <4>2
    <3> QED  BY <3>4, <3>5 DEF Loose, Doubled
  <2> QED  BY <2>5, <2>6, <2>7
<1> QED  BY <1>1, <1>4, <1>5

LEMMA ReleasedOpens ==
  ASSUME TypeOK, NEW f \in Calls, Released(f)
  PROVE  FencesOpen /\ (fences'[f] # "closing" \/ f \in lost')
BY DEF Released, FencesOpen, TypeOK

\* a fence is released, or known to be lost, or another tree-stop created it
LEMMA FinishOwns ==
  ASSUME TypeOK, Shape, Grows, OwnerInv, Parameters, NEW c \in Calls,
         ConfirmOrder(c) \/ FinishTree(c)
  PROVE  OwnerInv'
<1>1. CASE ConfirmOrder(c)
  <2>1. /\ call[c].at = "snapshot" /\ Acts(c) /\ ops' = ops
        /\ call'[c].at \in {"stopEach", "failed"}
        /\ fences' = fences \/ Released(call[c].fence)
    BY <1>1, ConfirmOrderDoes DEF Goes
  <2>2. call[c].fence \in Calls
    <3>1. call[c].kind = "stopTree"  BY <2>1, Stepping
    <3> QED  BY <2>1, <3>1 DEF Shape, Holding
  <2>3. FencesOpen  BY <2>1, <2>2, ReleasedOpens, SameFences
  <2> QED  BY <2>1, <2>3, Unsettled, SameJournals, OwnerFrame DEF Acts
<1>2. CASE FinishTree(c)
  <2>1. /\ call[c].at = "stopEach" /\ Acts(c) /\ ops' = ops /\ call'[c].at = "settleTree"
        /\ call'[c].missed = call[c].missed
        /\ IF call[c].missed = {} /\ FenceOf(c) # None THEN Released(FenceOf(c))
           ELSE UNCHANGED <<fences, lost>>
    BY <1>2, FinishTreeDoes DEF Goes, AtRest
  <2>2. call[c].kind \in {"stopTree", "repair"}  BY <2>1, Stepping
  <2>3. PICK o \in Calls : o = Journal(c) /\ Journal(c)' = o  BY <2>1, JournalIs DEF Journal, Acts
  <2>4. None \notin Calls  BY DEF Parameters
  <2>5. /\ FenceOf(c) # None => FenceOf(c) \in Calls
        /\ call[c].kind = "stopTree" =>
              /\ FenceOf(c) = call[c].fence /\ call[c].fence \in Calls
              /\ fences[call[c].fence] # "none"
              /\ call[call[c].fence].target = call[c].target
        /\ call[c].kind = "repair" =>
              FenceOf(c) = IF fences[o] = "closing" THEN o ELSE None
    BY <2>1, <2>2, <2>3, <2>4, JournalIs DEF Shape, Holding, Loop, FenceOf
  <2>6. FencesOpen  BY <2>1, <2>5, ReleasedOpens, SameFences
  <2>7. Settles(c)'
    <3>1. SUFFICES ASSUME call[c].missed = {} PROVE Loose(o)'
      BY <2>1, <2>3 DEF Settles, Loose, Doubled
    <3>2. FenceOf(c) = o => Loose(o)'  BY <2>1, <2>4, <3>1, ReleasedOpens DEF Loose
    <3>3. CASE call[c].kind = "repair"  BY <2>1, <2>4, <2>5, <3>1, <3>2, <3>3 DEF Loose
    <3>4. CASE call[c].kind = "stopTree" /\ call[c].fence # o
      <4>1. o = c  BY <2>3, <3>4, JournalIs
      <4>2. call[c].fence \in Calls \ {o}  BY <2>5, <3>4
      <4>3. fences'[call[c].fence] # "none"  BY <2>5, <2>6, <3>4, <4>2 DEF FencesOpen
      <4>4. call'[call[c].fence].target = call'[o].target
        BY <2>1, <2>5, <3>4, <4>1, <4>2 DEF Acts, Others, Same
      <4> QED  BY <4>2, <4>3, <4>4 DEF Loose, Doubled
    <3> QED  BY <2>2, <2>5, <3>2, <3>3, <3>4
  <2>8. \A d \in Calls : Same(d) \/ Settles(d)'  BY <2>1, <2>7 DEF Acts, Others
  <2> QED  BY <2>1, <2>6, <2>8, SameJournals, OwnerFrame
<1> QED  BY <1>1, <1>2

LEMMA SettleOwns ==
  ASSUME TypeOK, Shape, Grows, OwnerInv, Parameters, NEW c \in Calls,
         SettleTreeStop(c) \/ RepairFence(c) \/ RepairSettle(c)
  PROVE  OwnerInv'
<1>0. /\ ops \in [Calls -> OpRecord] /\ Journal(c) \in Calls /\ ops[Journal(c)] \in OpRecord
      /\ Settles(c)
  BY JournalIs DEF TypeOK, OwnerInv
<1>1. CASE SettleTreeStop(c) \/ RepairSettle(c)
  <2>1. /\ Acts(c) /\ fences' = fences /\ call'[c].at \in AtRest
        /\ \/ ops' = ops
           \/ /\ \E D : ops' = [ops EXCEPT ![Journal(c)] =
                     [ops[Journal(c)] EXCEPT !.state = "completed", !.stopped = D]]
              /\ call[c].at = "settleTree" /\ call[c].missed = {}
           \/ /\ ops' = [ops EXCEPT ![Journal(c)] = [ops[Journal(c)] EXCEPT !.state = "completed"]]
              /\ call[c].at = "repairSettle"
           \/ \E D : ops' = [ops EXCEPT ![Journal(c)] =
                     [ops[Journal(c)] EXCEPT !.state = "tree-stop-pending", !.stopped = D]]
    <3>1. CASE SettleTreeStop(c)  BY <3>1, SettleTreeStopDoes DEF Goes, Quiet, AtRest
    <3>2. CASE RepairSettle(c)
      <4>1. call[c].at = "repairSettle"  BY <3>2, RepairSettleDoes
      <4>2. Journal(c) = call[c].target  BY <4>1, Stepping, JournalIs
      <4> QED  BY <3>2, <4>2, RepairSettleDoes DEF Goes, Quiet, AtRest
    <3> QED  BY <1>1, <3>1, <3>2
  <2>2. PICK o \in Calls : o = Journal(c) /\ ops[o] \in OpRecord  BY <1>0
  <2>3. /\ \A p \in Calls \ {o} : ops'[p] = ops[p]
        /\ \/ ops' = ops
           \/ ops'[o].state = "completed" /\ Loose(o)
           \/ ops'[o].state = "tree-stop-pending"
    <3>1. Settles(c) /\ ops \in [Calls -> OpRecord]  BY <1>0
    <3>2. /\ call[c].at = "settleTree" /\ call[c].missed = {} => Loose(o)
          /\ call[c].at = "repairSettle" => Loose(o)
      BY <2>2, <3>1 DEF Settles
    <3>3. CASE ops' = ops  BY <3>3
    <3>4. ASSUME NEW D, ops' = [ops EXCEPT ![o] = [ops[o] EXCEPT !.state = "completed", !.stopped = D]]
          PROVE  ops'[o].state = "completed" /\ \A p \in Calls \ {o} : ops'[p] = ops[p]
      BY <2>2, <3>1, <3>4 DEF OpRecord
    <3>5. ASSUME ops' = [ops EXCEPT ![o] = [ops[o] EXCEPT !.state = "completed"]]
          PROVE  ops'[o].state = "completed" /\ \A p \in Calls \ {o} : ops'[p] = ops[p]
      BY <2>2, <3>1, <3>5 DEF OpRecord
    <3>6. ASSUME NEW D,
                 ops' = [ops EXCEPT ![o] = [ops[o] EXCEPT !.state = "tree-stop-pending", !.stopped = D]]
          PROVE  ops'[o].state = "tree-stop-pending" /\ \A p \in Calls \ {o} : ops'[p] = ops[p]
      BY <2>2, <3>1, <3>6 DEF OpRecord
    <3> QED  BY <2>1, <2>2, <3>2, <3>3, <3>4, <3>5, <3>6
  <2>4. JournalsGoOn  BY <2>3 DEF JournalsGoOn
  <2>5. call'[c].at \notin {"settleTree", "repairSettle"}  BY <2>1 DEF AtRest
  <2> QED  BY <2>1, <2>4, <2>5, Unsettled, SameFences, OwnerFrame DEF Acts
<1>2. CASE RepairFence(c)
  <2>1. /\ call[c].at = "repairFence" /\ Acts(c) /\ ops' = ops /\ FencesOpen
        /\ call'[c].at = "failed" \/ fences'[call[c].target] # "closing"
        /\ call'[c].at \in {"failed", "repairSettle"}
    <3>1. call[c].at = "repairFence"  BY <1>2, RepairFenceDoes
    <3>2. call[c].target \in Calls  BY <3>1, Stepping DEF Shape, Named
    <3> QED  BY <1>2, <3>2, RepairFenceDoes DEF Goes, FencesOpen, TypeOK
  <2>2. Journal(c)' = call[c].target  BY <2>1, Stepping DEF Journal, Acts
  <2>3. Settles(c)'  BY <2>1, <2>2 DEF Settles, Loose, Doubled
  <2>4. \A d \in Calls : Same(d) \/ Settles(d)'  BY <2>1, <2>3 DEF Acts, Others
  <2> QED  BY <2>1, <2>4, SameJournals, OwnerFrame
<1> QED  BY <1>1, <1>2

LEMMA OutsideOwns ==
  ASSUME TypeOK, Shape, Grows, OwnerInv, Parameters,
         (\E r \in Runs : Exit(r) \/ SettleGone(r)) \/ Restart
  PROVE  OwnerInv'
<1>1. CASE \E r \in Runs : Exit(r) \/ SettleGone(r)
  <2>1. (\A c \in Calls : Same(c)) /\ ops' = ops /\ fences' = fences
    BY <1>1, ExitDoes, SettleGoneDoes DEF Same
  <2> QED  BY <2>1, SameJournals, SameFences, OwnerFrame
<1>2. CASE Restart
  <2>1. fences' = fences /\ \A c \in Calls : call'[c] = call[c] \/ call'[c].at = "failed"
    BY <1>2, RestartDoes DEF Goes
  <2>2. \A c \in Calls : Same(c) \/ Settles(c)'  BY <2>1 DEF Same, Settles
  <2>3. JournalsGoOn  BY <1>2, RestartDoes DEF JournalsGoOn
  <2> QED  BY <2>1, <2>2, <2>3, SameFences, OwnerFrame
<1> QED  BY <1>1, <1>2

LEMMA NextOwns ==
  ASSUME TypeOK, Shape, Guarded, OwnerInv, Parameters, [Next]_vars
  PROVE  OwnerInv'
<1>1. CASE UNCHANGED vars  BY <1>1 DEF vars, OwnerInv, Fenced, Settles, Loose, Doubled, Journal
<1>2. CASE Next
  <2>1. Grows  BY <1>2, NextGrows
  <2> QED
    BY <1>2, <2>1, LadderOwns, StepOwns, OpenOwns, CreateFenceOwns, FinishOwns, SettleOwns, OutsideOwns
    DEF Next
<1> QED  BY <1>1, <1>2

LEMMA OwnedFences ==
  ASSUME TypeOK, OwnerInv
  PROVE  FenceHasAnOwnerUnlessDoubled
BY DEF FenceHasAnOwnerUnlessDoubled, OwnerInv, Fenced, Loose

\* A fence that is closing belongs to a tree-stop that can still be finished or repaired, whatever
\* other tree-stops of the same root, repairs, failures and restarts come between: a tree-stop
\* and a repair settle the journal last (stop-tree.ts, repair.ts:125), and a fence closes only
\* under a journal that is open and that no repair works on.
THEOREM FencesHaveOwners == Spec => []FenceHasAnOwnerUnlessDoubled
<1>1. Init => TypeOK /\ Shape /\ OrphanInv /\ OwnerInv
  <2>1. ASSUME Init PROVE OwnerInv
    <3>1. \A c \in Calls : fences[c] = "none" /\ call[c].at = "new"  BY <2>1 DEF Init, Idle
    <3> QED  BY <3>1 DEF OwnerInv, Fenced, Settles, Loose
  <2> QED  BY <2>1, InitShape, InitOrphans, Parameters
<1>2. (TypeOK /\ Shape /\ OrphanInv /\ OwnerInv) /\ [Next]_vars
        => (TypeOK /\ Shape /\ OrphanInv /\ OwnerInv)'
  BY NextShape, NextOrphans, NextOwns, Parameters DEF OrphanInv
<1>3. TypeOK /\ Shape /\ OrphanInv /\ OwnerInv => FenceHasAnOwnerUnlessDoubled  BY OwnedFences
<1> QED  BY <1>1, <1>2, <1>3, PTL DEF Spec

-----------------------------------------------------------------------------
(* Trees: closed under kids, and no larger than that.                       *)

LEMMA TreeClosed ==
  ASSUME NEW a \in Agents, NEW k \in Tree(a)
  PROVE  KidsOf(k) \subseteq DescendantsOf(a)
<1> SUFFICES ASSUME NEW d \in KidsOf(k), NEW S \in SUBSET Agents, Family(S, a)
             PROVE  d \in S
  BY DEF DescendantsOf, KidsOf
<1>1. CASE k = a  BY <1>1 DEF Family
<1>2. CASE k \in DescendantsOf(a)
  <2>1. k \in S  BY <1>2 DEF DescendantsOf
  <2> QED  BY <2>1 DEF Family
<1> QED  BY <1>1, <1>2 DEF Tree

LEMMA TreeParent ==
  ASSUME NEW a \in Agents, NEW d \in DescendantsOf(a)
  PROVE  parent[d] \in Tree(a)
<1> DEFINE S == {x \in Agents : parent[x] \in Tree(a)}
<1>1. KidsOf(a) \subseteq S  BY DEF KidsOf, Tree
<1>2. ASSUME NEW k \in S PROVE KidsOf(k) \subseteq S
  <2>1. parent[k] \in Tree(a) /\ k \in KidsOf(parent[k])  BY DEF KidsOf
  <2>2. k \in Tree(a)  BY <2>1, TreeClosed DEF Tree
  <2> QED  BY <2>2 DEF KidsOf
<1>3. Family(S, a) /\ S \in SUBSET Agents  BY <1>1, <1>2 DEF Family
<1>4. d \in S
  <2> HIDE DEF S
  <2> QED  BY <1>3 DEF DescendantsOf
<1> QED  BY <1>4

LEMMA SameTree ==
  ASSUME parent' = parent
  PROVE  \A a : Tree(a)' = Tree(a)
BY DEF Tree, DescendantsOf, Family, KidsOf

\* an agent that has no kids is added
LEMMA LeafAdded ==
  ASSUME TypeOK, NEW c \in Calls, NEW t, t # c, parent' = [parent EXCEPT ![c] = t], KidsOf(c) = {},
         NEW a \in Agents
  PROVE  Tree(a)' \subseteq Tree(a) \cup {c}
<1>1. parent'[c] = t /\ \A x \in Agents \ {c} : parent'[x] = parent[x]  BY DEF TypeOK, Agents
<1>2. \A k : KidsOf(k)' \subseteq KidsOf(k) \cup {c}  BY <1>1 DEF KidsOf
<1>3. KidsOf(c)' = {}  BY <1>1 DEF KidsOf
<1>4. PICK T \in SUBSET Agents : T = DescendantsOf(a) \cup {c}  BY DEF DescendantsOf, Agents
<1>5. KidsOf(a)' \subseteq T  BY <1>2, <1>4, TreeClosed DEF Tree
<1>6. ASSUME NEW k \in T PROVE KidsOf(k)' \subseteq T
  <2>1. CASE k = c  BY <1>3, <2>1
  <2>2. CASE k \in DescendantsOf(a)  BY <1>2, <1>4, <2>2, TreeClosed DEF Tree
  <2> QED  BY <1>4, <2>1, <2>2
<1>7. Family(T, a)'
  <2>1. UNION {KidsOf(k)' : k \in T} \subseteq T  BY <1>6
  <2>2. KidsOf(a)' \cup UNION {KidsOf(k)' : k \in T} \subseteq T  BY <1>5, <2>1
  <2> QED  BY <2>2 DEF Family
<1>8. DescendantsOf(a)' \subseteq T  BY <1>7 DEF DescendantsOf
<1> QED  BY <1>4, <1>8 DEF Tree

-----------------------------------------------------------------------------
(* What a step does to the runs, as far as other calls can tell.            *)
LEMMA StillTouches ==
  ASSUME NEW c \in Calls, Others(c), runs' = runs
  PROVE  Touches(c)
BY DEF Touches, Live

\* a run that is live, or is not live afterwards, is rewritten
LEMMA OneTouches ==
  ASSUME TypeOK, NEW c \in Calls, Others(c), NEW q \in Runs, NEW new, runs' = [runs EXCEPT ![q] = new],
         \A d \in Calls \ {c} : q \notin call'[d].copies,
         Live(q) \/ new.life \in Final \/ (q = c /\ Admitted(c))
  PROVE  Touches(c)
<1>1. runs'[q] = new /\ \A r \in Runs \ {q} : runs'[r] = runs[r]  BY DEF TypeOK
<1> QED  BY <1>1 DEF Touches, Live

LEMMA WriterTouches ==
  ASSUME TypeOK, Shape, Parameters, NEW c \in Calls, Copied(c),
         \/ FenceOldRun(c) \/ ReserveRun(c) \/ PatchTerminal(c) \/ PassGate(c) \/ MakeReady(c)
  PROVE  Touches(c)
<1>0. c \in Runs /\ runs[c] \in RunRecord  BY DEF Runs, TypeOK
<1>1. CASE FenceOldRun(c)
  <2> DEFINE new == [runs[call[c].old] EXCEPT !.life = "continuation-pending"]
  <2>1. Writes(c, "fenceOld", call[c].old, new, "drain", "compTerminal")  BY <1>1, FenceOldRunWrites
  <2>2. call[c].kind = "continue"  BY <2>1, Stepping DEF Writes
  <2>3. call[c].old \in call[c].copies => Live(call[c].old)  BY <2>1, <2>2 DEF Copied, Writes
  <2> HIDE DEF new
  <2>4. Others(c)  BY <2>1 DEF Writes, Acts
  <2>5. CASE runs' = runs  BY <2>4, <2>5, StillTouches
  <2>6. CASE runs' # runs  BY <2>1, <2>3, <2>4, <2>6, OneTouches DEF Writes
  <2> QED  BY <2>5, <2>6
<1>2. CASE ReserveRun(c)
  <2>1. call[c].at = "reserve" /\ Others(c)  BY <1>2, ReserveRunDoes DEF Acts
  <2>2. Admitted(c)  BY <2>1, Stepping DEF Admitted, Climber, Working, AtRest
  <2>3. CASE runs' = runs  BY <2>1, <2>3, StillTouches
  <2>4. CASE runs' # runs
    <3> DEFINE new == [NoRun EXCEPT !.agent = AgentOf(c), !.life = "provisioning"]
    <3>1. runs' = [runs EXCEPT ![c] = new] /\ \A d \in Calls \ {c} : c \notin call'[d].copies
      BY <1>2, <2>4, ReserveRunDoes
    <3> HIDE DEF new
    <3> QED  BY <1>0, <2>1, <2>2, <3>1, OneTouches
  <2> QED  BY <2>3, <2>4
<1>3. CASE PatchTerminal(c)
  <2> DEFINE new == [runs[c] EXCEPT !.terminal = TRUE]
  <2>1. Writes(c, "patchTerminal", c, new, "furnish", "compTerminal")  BY <1>3, PatchTerminalWrites
  <2>2. Admitted(c)  BY <2>1, Stepping DEF Writes, Admitted, Climber, Working, AtRest, HasRun
  <2> HIDE DEF new
  <2>3. Others(c)  BY <2>1 DEF Writes, Acts
  <2>4. CASE runs' = runs  BY <2>3, <2>4, StillTouches
  <2>5. CASE runs' # runs  BY <1>0, <2>1, <2>2, <2>3, <2>5, OneTouches DEF Writes
  <2> QED  BY <2>4, <2>5
<1>4. CASE PassGate(c)
  <2>1. CASE Climbs(c, "gated", "furnished", ops[c].state, "ready")
    BY <2>1, StillTouches DEF Climbs, Acts
  <2>2. CASE Writes(c, "gated", c, [runs[c] EXCEPT !.life = "failed"], "compTerminal", "compTerminal")
    <3> DEFINE new == [runs[c] EXCEPT !.life = "failed"]
    <3>1. Writes(c, "gated", c, new, "compTerminal", "compTerminal")  BY <2>2
    <3>2. new.life \in Final  BY <1>0 DEF RunRecord, Final
    <3> HIDE DEF new
    <3>3. Others(c)  BY <3>1 DEF Writes, Acts
    <3>4. CASE runs' = runs  BY <3>3, <3>4, StillTouches
    <3>5. CASE runs' # runs  BY <1>0, <3>1, <3>2, <3>3, <3>5, OneTouches DEF Writes
    <3> QED  BY <3>4, <3>5
  <2> QED  BY <1>4, <2>1, <2>2, PassGateDoes
<1>5. CASE MakeReady(c)
  <2>1. call[c].at = "ready" /\ Others(c)  BY <1>5, MakeReadyDoes DEF Acts
  <2>2. Admitted(c)  BY <2>1, Stepping DEF Admitted, Climber, Working, AtRest, HasRun
  <2>3. CASE runs' = runs  BY <2>1, <2>3, StillTouches
  <2>4. CASE runs' # runs  BY <1>0, <1>5, <2>1, <2>2, <2>4, MakeReadyDoes, OneTouches
  <2> QED  BY <2>3, <2>4
<1> QED  BY <1>1, <1>2, <1>3, <1>4, <1>5

LEMMA EnderTouches ==
  ASSUME TypeOK, Shape, Parameters, NEW c \in Calls, Copied(c),
         \/ MarkStopping(c) \/ MarkUnsure(c) \/ MarkStopped(c)
         \/ CompensateRun(c) \/ ReleaseFencedRun(c)
  PROVE  Touches(c)
<1>1. CASE MarkStopping(c) \/ MarkUnsure(c) \/ MarkStopped(c)
  <2> DEFINE v == call[c].victim
  <2>1. call[c].at \in Closer /\ Others(c)
    BY <1>1, MarkStoppingDoes, MarkUnsureMarks, MarkStoppedMarks DEF Closer, Marks, Acts
  <2>2. v \in Runs /\ runs[v] \in RunRecord  BY <2>1, VictimIs DEF TypeOK
  <2>3. CASE runs' = runs  BY <2>1, <2>3, StillTouches
  <2>4. CASE runs' # runs /\ MarkStopping(c)  BY <2>1, <2>2, <2>4, MarkStoppingDoes, OneTouches
  <2>5. CASE runs' # runs /\ MarkUnsure(c)
    <3>1. Marks(c, [runs[v] EXCEPT !.life = "recovery-required", !.doubt = TRUE], "unsure")
          /\ call[c].at = "unsure"
      BY <2>5, MarkUnsureMarks
    <3>2. v \in call[c].copies  BY <2>5, <3>1 DEF Marks
    <3>3. Live(v)  BY <3>1, <3>2 DEF Copied, Live, Final
    <3> QED  BY <2>1, <2>2, <2>5, <3>1, <3>3, OneTouches DEF Marks
  <2>6. CASE runs' # runs /\ MarkStopped(c)
    <3> DEFINE new == [runs[v] EXCEPT !.life = "stopped"]
    <3>1. Marks(c, new, "stopped")  BY <2>6, MarkStoppedMarks
    <3>2. new.life \in Final  BY <2>2 DEF RunRecord, Final
    <3> HIDE DEF new
    <3> QED  BY <2>1, <2>2, <2>6, <3>1, <3>2, OneTouches DEF Marks
  <2> QED  BY <1>1, <2>3, <2>4, <2>5, <2>6
<1>2. CASE CompensateRun(c)
  <2> DEFINE q == Journal(c)
  <2>1. Others(c) /\ q \in Runs  BY <1>2, CompensateRunDoes, JournalIs DEF Acts, Runs
  <2>2. CASE runs' = runs  BY <2>1, <2>2, StillTouches
  <2>3. CASE runs' # runs  BY <1>2, <2>1, <2>3, CompensateRunDoes, OneTouches
  <2> QED  BY <2>2, <2>3
<1>3. CASE ReleaseFencedRun(c)
  <2>1. call[c].at = "releaseOld" /\ Others(c)  BY <1>3, ReleaseFencedRunDoes DEF Acts
  <2>2. call[c].old \in Runs  BY <2>1, Stepping DEF Shape, Named
  <2>3. CASE runs' = runs  BY <2>1, <2>3, StillTouches
  <2>4. CASE runs' # runs
    <3> DEFINE new == [runs[call[c].old] EXCEPT !.life = "recovery-required", !.doubt = TRUE]
    <3>1. /\ runs[call[c].old].life = "continuation-pending" /\ runs' = [runs EXCEPT ![call[c].old] = new]
          /\ \A d \in Calls \ {c} : call[c].old \notin call'[d].copies
      BY <1>3, <2>4, ReleaseFencedRunDoes
    <3>2. Live(call[c].old)  BY <3>1 DEF Live, Final
    <3> HIDE DEF new
    <3> QED  BY <2>1, <2>2, <3>1, <3>2, OneTouches
  <2> QED  BY <2>3, <2>4
<1> QED  BY <1>1, <1>2, <1>3

-----------------------------------------------------------------------------
(* What a tree-stop has behind it stays stopped.                            *)
LEMMA FenceRoot ==
  ASSUME TypeOK, Shape, Grows, NEW f \in Calls, fences[f] # "none"
  PROVE  /\ call[f].kind = "stopTree" /\ call[f].target \in Agents
         /\ call'[f].target = call[f].target
BY DEF Shape, JournalOK, Named, Grows, CallsGrow

LEMMA BehindStays ==
  ASSUME TypeOK, Shape, Shape', Grows, Arises, Grafts, NEW f \in Calls, fences[f] # "none", Counted(f),
         NEW A, NEW v, Behind(f, A, v)
  PROVE  Behind(f, A, v)'
<1>1. PICK root \in Agents : root = call[f].target /\ call'[f].target = root  BY FenceRoot
<1>2. SUFFICES ASSUME NEW r \in Runs, Live(r)', runs'[r].agent \in Tree(root)'
               PROVE  r \in crowd[f] \cup overlooked \/ runs'[r].agent \in A \/ r = v
  <2>1. crowd[f] \subseteq crowd'[f] /\ overlooked \subseteq overlooked'  BY DEF Grows, HistoryGrows
  <2> QED  BY <1>1, <1>2, <2>1 DEF Behind, Tree, DescendantsOf, Family, KidsOf
<1>3. CASE Live(r)
  <2>1. runs'[r].agent = runs[r].agent  BY <1>3 DEF Live, Grows, RunsGrow
  <2>2. Exists(runs[r].agent)  BY <1>3 DEF TypeOK, Live
  <2>3. runs[r].agent \in Tree(root)  BY <1>2, <2>1, <2>2 DEF Grafts
  <2> QED  BY <1>1, <1>3, <2>1, <2>3 DEF Behind
<1>4. CASE ~Live(r) /\ r \in Calls /\ Admitted(r)
  <2>1. runs' # runs  BY <1>2, <1>4 DEF Live
  <2>2. call'[r].kind = call[r].kind /\ call'[r].target = call[r].target
    BY <1>4 DEF Admitted, Grows, CallsGrow
  <2>3. runs'[r].agent = AgentOf(r)  BY <1>2, <1>4, <2>2 DEF Shape, RunOK, Live, AgentOf
  <2>4. AgentOf(r) \in Tree(root)  BY <1>2, <2>1, <2>3 DEF Grafts
  <2>5. r \in crowd[f] \/ Outside(r, root)  BY <1>1, <1>4 DEF Counted
  <2>6. ~Outside(r, root)
    <3>1. SUFFICES ASSUME call[r].kind = "spawn", r # root PROVE call[r].target \in Tree(root)
      BY <2>4 DEF Outside, AgentOf
    <3>2. r \in DescendantsOf(root)  BY <2>4, <3>1 DEF Tree, AgentOf
    <3>3. parent[r] \in Tree(root)  BY <3>2, TreeParent
    <3>4. Tree(root) \subseteq Agents /\ None \notin Agents
      BY Parameters DEF Tree, DescendantsOf, Agents
    <3> QED  BY <3>3, <3>4, <1>4 DEF Shape, ParentOK, Agents
  <2> QED  BY <2>5, <2>6
<1> QED  BY <1>2, <1>3, <1>4 DEF Arises

LEMMA CountedCall ==
  ASSUME TypeOK, Shape, Grows, Grafts, Parameters, NEW f \in Calls, fences[f] # "none",
         Counted(f), NEW c \in Calls, Admitted(c)
  PROVE  c \in crowd'[f] \/ Outside(c, call[f].target)'
<1>1. PICK root \in Agents : root = call[f].target /\ call'[f].target = root  BY FenceRoot
<1>2. c \in crowd[f] \/ Outside(c, root)  BY <1>1 DEF Counted
<1>3. c \in crowd[f] => c \in crowd'[f]  BY DEF Grows, HistoryGrows
<1>4. ASSUME Outside(c, root) PROVE Outside(c, call[f].target)'
  <2>1. call'[c].kind = call[c].kind /\ call'[c].target = call[c].target
    BY DEF Admitted, Grows, CallsGrow
  <2>2. Exists(call[c].target)
    <3>1. CASE call[c].kind = "spawn"  BY <3>1 DEF Shape, Named
    <3>2. CASE call[c].kind = "continue"
      <4>1. /\ call[c].old \in Runs /\ call[c].target \in Agents
            /\ runs[call[c].old].agent = call[c].target
        BY <3>2 DEF Shape, Named
      <4>2. None \notin Agents  BY Parameters DEF Agents
      <4> QED  BY <4>1, <4>2 DEF TypeOK
    <3> QED  BY <3>1, <3>2 DEF Admitted
  <2>3. call[c].target \notin Tree(root)'  BY <1>4, <2>2 DEF Outside, Grafts
  <2> QED  BY <1>1, <1>4, <2>1, <2>3 DEF Outside, Tree, DescendantsOf, Family, KidsOf
<1> QED  BY <1>2, <1>3, <1>4

LEMMA CountedStays ==
  ASSUME TypeOK, Shape, Grows, Grafts, Parameters, NEW f \in Calls, Counted(f),
         fences'[f] # "none" => fences[f] # "none", \A c \in Calls : Admitted(c)' => Admitted(c)
  PROVE  Counted(f)'
BY CountedCall DEF Counted

LEMMA OwnerIs ==
  ASSUME TypeOK, Shape, NEW c \in Calls, Sweeps(c)
  PROVE  /\ Owner(c) \in Calls /\ call[Owner(c)].kind = "stopTree"
         /\ call[c].kind = "stopTree" => fences[Owner(c)] # "none"
                                         /\ call[Owner(c)].target = call[c].target
BY DEF Shape, Named, Holding, JournalOK, Sweeps, Owner, Loop

LEMMA SweptStays ==
  ASSUME TypeOK, Shape, Shape', Grows, Steady, OpenInv, NEW d \in Calls, Same(d)
  PROVE  Swept(d)'
<1>1. SUFFICES ASSUME Sweeps(d)', call'[d].kind = "repair" => ~Doubled(Owner(d))'
               PROVE  /\ fences'[Owner(d)'] # "none"
                      /\ call'[d].at \notin Closer => Behind(Owner(d), Left(d), None)'
                      /\ call'[d].at \in Closer =>
                           Behind(Owner(d), Left(d) \ {runs[call[d].victim].agent}, call[d].victim)'
                      /\ call'[d].at = "settleTree" => call'[d].todo = {}
  BY DEF Swept
<1>2. Sweeps(d) /\ call'[d].kind = call[d].kind  BY <1>1 DEF Sweeps, Same
<1>3. PICK f \in Calls : f = Owner(d)  BY <1>2, OwnerIs
<1>4. Owner(d)' = f  BY <1>3 DEF Owner, Same
<1>5. call[d].kind = "repair" => ~Doubled(f)
  <2>1. SUFFICES ASSUME call[d].kind = "repair", Doubled(f) PROVE Doubled(f)'
    BY <1>1, <1>2, <1>4 DEF Doubled
  <2>2. call[f].kind # "none"  BY <1>2, <1>3, OwnerIs
  <2> QED  BY <2>1, <2>2, DoubledStays DEF Steady
<1>6. fences[f] # "none" /\ Counted(f)  BY <1>2, <1>3, <1>5 DEF OpenInv, Swept
<1>7. \A A, v : Behind(f, A, v) => Behind(f, A, v)'  BY <1>6, BehindStays DEF Steady
<1>8. PICK A : A = Left(d) /\ Left(d)' = A  BY DEF Left, Same
<1>9. CASE call[d].at \notin Closer
  <2>1. Behind(f, A, None)  BY <1>2, <1>3, <1>5, <1>8, <1>9 DEF OpenInv, Swept
  <2>2. Behind(f, A, None)'  BY <1>7, <2>1
  <2>3. Behind(Owner(d), Left(d), None)'  BY <1>4, <1>8, <2>2 DEF Behind
  <2> QED  BY <1>2, <1>3, <1>4, <1>5, <1>6, <1>9, <2>3 DEF Steady, OpenInv, Swept, Same
<1>10. CASE call[d].at \in Closer
  <2>1. PICK v \in Runs : v = call[d].victim /\ runs[v].life # "none"  BY <1>10, VictimIs
  <2>2. PICK a : a = runs[v].agent  OBVIOUS
  <2>3. call'[d].victim = v /\ runs'[v].agent = a  BY <2>1, <2>2 DEF Same, Grows, RunsGrow
  <2>4. Behind(f, A \ {a}, v)  BY <1>2, <1>3, <1>5, <1>8, <1>10, <2>1, <2>2 DEF OpenInv, Swept
  <2>5. Behind(f, A \ {a}, v)'  BY <1>7, <2>4
  <2>6. Behind(Owner(d), Left(d) \ {runs[call[d].victim].agent}, call[d].victim)'
    BY <1>4, <1>8, <2>3, <2>5 DEF Behind
  <2> QED  BY <1>2, <1>3, <1>4, <1>5, <1>6, <1>10, <2>6 DEF Steady, OpenInv, Swept, Same
<1> QED  BY <1>9, <1>10

LEMMA RestStays ==
  ASSUME TypeOK, Shape, Shape', Grows, Steady, OpenInv, NEW o \in Calls,
         ops'[o].state = "tree-stop-pending" =>
            ops[o].state = "tree-stop-pending" /\ ops'[o].stopped = ops[o].stopped
  PROVE  Rest(o)'
<1>1. SUFFICES ASSUME ops[o].state = "tree-stop-pending", ops'[o].stopped = ops[o].stopped, ~Doubled(o)'
               PROVE  fences'[o] # "none" /\ Behind(o, Agents \ ops[o].stopped, None)'
  BY DEF Rest
<1>2. call[o].kind # "none"  BY <1>1 DEF Shape, JournalOK
<1>3. ~Doubled(o)  BY <1>1, <1>2, DoubledStays DEF Steady
<1>4. PICK A : A = Agents \ ops[o].stopped  OBVIOUS
<1>5. fences[o] # "none" /\ Counted(o) /\ Behind(o, A, None)  BY <1>1, <1>3, <1>4 DEF OpenInv, Rest
<1>6. Behind(o, A, None)'  BY <1>5, BehindStays DEF Steady
<1> QED  BY <1>1, <1>4, <1>5, <1>6 DEF Steady, Behind

LEMMA CopiesStay ==
  ASSUME TypeOK, NEW c \in Calls, Touches(c), NEW d \in Calls \ {c}, Copied(d), Parameters
  PROVE  Copied(d)'
<1>1. Same(d) /\ \A r \in call'[d].copies : r \in call[d].copies /\ runs'[r] = runs[r]
  BY DEF Touches, Others, Same, TypeOK, CallRecord
<1> QED  BY <1>1 DEF Copied, Same, Live

\* the call that takes the step sees to what it has behind it and to its copies
LEMMA OpenFrame ==
  ASSUME TypeOK, Shape, Shape', Grows, Steady, OpenInv, Parameters,
         \A d \in Calls : Counted(d)' /\ (Same(d) \/ Swept(d)') /\ Copied(d)',
         \A o \in Calls : ops'[o].state = "tree-stop-pending" =>
            \/ ops[o].state = "tree-stop-pending" /\ ops'[o].stopped = ops[o].stopped
            \/ Rest(o)'
  PROVE  OpenInv'
<1> SUFFICES ASSUME NEW d \in Calls PROVE Swept(d)' /\ Rest(d)'  BY DEF OpenInv
<1>1. Swept(d)'  BY SweptStays
<1>2. Rest(d)'
  <2>1. ops'[d].state # "tree-stop-pending" => Rest(d)'  BY DEF Rest
  <2> QED  BY <2>1, RestStays
<1> QED  BY <1>1, <1>2

-----------------------------------------------------------------------------
LEMMA StillGrafts ==
  ASSUME parent' = parent
  PROVE  Grafts
BY SameTree DEF Grafts

LEMMA TouchesArise ==
  ASSUME NEW c \in Calls, Touches(c)
  PROVE  Arises
BY DEF Touches, Arises

\* a call that has begun is admitted or never will be
LEMMA NoNewcomers ==
  ASSUME NEW c \in Calls, Acts(c), call[c].at \notin AtRest \cup {"admit"} \/ ~Climber(c)
  PROVE  \A d \in Calls : Admitted(d)' => Admitted(d)
BY DEF Acts, Others, Same, Admitted, Working, Climber

LEMMA Sweepless ==
  ASSUME NEW c \in Calls, call'[c].kind \notin {"stopTree", "repair"} \/ call'[c].at \notin Loop
  PROVE  Swept(c)'
BY DEF Swept, Sweeps

LEMMA Copyless ==
  ASSUME NEW c \in Calls,
         call'[c].at \notin {"fenceOld", "terminate", "unsure", "stopped"},
         call'[c].kind # "continue" \/ call'[c].at # "open"
  PROVE  Copied(c)'
BY DEF Copied

\* a step of a call that has begun
LEMMA ActsOpen ==
  ASSUME TypeOK, Shape, Shape', Grows, OpenInv, Parameters, NEW c \in Calls,
         Acts(c), call[c].at \notin AtRest \cup {"admit"} \/ ~Climber(c),
         Touches(c), Grafts, \A f \in Calls : fences[f] # "none" <=> fences'[f] # "none",
         Swept(c)', Copied(c)',
         \A o \in Calls : ops'[o].state = "tree-stop-pending" =>
            \/ ops[o].state = "tree-stop-pending" /\ ops'[o].stopped = ops[o].stopped
            \/ Rest(o)'
  PROVE  OpenInv'
<1>1. Steady  BY TouchesArise DEF Steady
<1>2. \A d \in Calls : Counted(d)'  BY NoNewcomers, CountedStays DEF OpenInv
<1>3. \A d \in Calls : (Same(d) \/ Swept(d)') /\ Copied(d)'  BY CopiesStay DEF OpenInv, Acts, Others
<1> QED  BY <1>1, <1>2, <1>3, OpenFrame

\* a step of a ladder: the journal is the call's own, and no tree-stop's
LEMMA ClimberOpens ==
  ASSUME TypeOK, Shape, Shape', Grows, OpenInv, Parameters, NEW c \in Calls, Climber(c),
         Acts(c), call[c].at \notin AtRest \cup {"admit"}, Touches(c), Grafts, fences' = fences,
         \A o \in Calls \ {c} : ops'[o] = ops[o], Copied(c)'
  PROVE  OpenInv'
<1>1. call'[c].kind \notin {"stopTree", "repair"}  BY DEF Climber, Acts
<1>2. Swept(c)'  BY <1>1, Sweepless
<1>3. ops'[c].state # "tree-stop-pending"  BY <1>1 DEF Shape, JournalOK
<1> QED  BY <1>2, <1>3, ActsOpen

LEMMA ClimbOpens ==
  ASSUME TypeOK, Shape, Shape', Grows, OpenInv, Parameters, NEW c \in Calls,
         NEW from \in {"identity", "drain"} \cup HasRun, NEW rung, NEW state,
         NEW to \in {"reserve", "ended"} \cup HasRun,
         Climbs(c, from, rung, state, to), Grafts, fences' = fences
  PROVE  OpenInv'
<1>1. call[c].at = from /\ Acts(c) /\ runs' = runs /\ call'[c].at \in {to, "compTerminal"}
      /\ \A o \in Calls \ {c} : ops'[o] = ops[o]
  BY DEF Climbs, Goes, TypeOK
<1>2. Climber(c)  BY <1>1, Stepping DEF Climber
<1>3. from \notin AtRest \cup {"admit"}  BY DEF AtRest, HasRun
<1>4. Touches(c)  BY <1>1, StillTouches DEF Acts
<1>5. Copied(c)'  BY <1>1, Copyless DEF HasRun
<1> QED  BY <1>1, <1>2, <1>3, <1>4, <1>5, ClimberOpens

LEMMA LadderOpens ==
  ASSUME TypeOK, Shape, Shape', Grows, OpenInv, Parameters, NEW c \in Calls,
         \/ Identity(c) \/ DrainOldRun(c) \/ JournalRun(c) \/ ReserveTerminal(c)
         \/ JournalTerminal(c) \/ Furnish(c) \/ Settle(c) \/ OpenTerminal(c)
  PROVE  OpenInv'
<1>1. CASE DrainOldRun(c)  BY <1>1, DrainClimbs, ClimbOpens, StillGrafts DEF Quiet
<1>2. CASE JournalRun(c)
  <2>1. CASE call[c].kind = "spawn"
    BY <1>2, <2>1, JournalRunClimbs, ClimbOpens, StillGrafts DEF Quiet, HasRun
  <2>2. CASE call[c].kind # "spawn"
    BY <1>2, <2>2, JournalRunClimbs, ClimbOpens, StillGrafts DEF Quiet, HasRun
  <2> QED  BY <2>1, <2>2
<1>3. CASE ReserveTerminal(c)
  BY <1>3, ReserveTerminalClimbs, ClimbOpens, StillGrafts DEF Quiet, HasRun
<1>4. CASE JournalTerminal(c)
  BY <1>4, JournalTerminalClimbs, ClimbOpens, StillGrafts DEF Quiet, HasRun
<1>5. CASE Settle(c)  BY <1>5, SettleClimbs, ClimbOpens, StillGrafts DEF Quiet, HasRun
<1>6. CASE Furnish(c)
  <2>1. CASE Climbs(c, "furnish", "furnished", ops[c].state, "ready")
    BY <1>6, <2>1, FurnishDoes, ClimbOpens, StillGrafts DEF Quiet, HasRun
  <2>2. CASE call[c].at = "furnish" /\ Acts(c) /\ Goes(c, "gated") /\ UNCHANGED <<runs, ops, pty>>
    <3>1. Climber(c) /\ call[c].at \notin AtRest \cup {"admit"}
      BY <2>2, Stepping DEF HasRun, AtRest
    <3>2. Copied(c)'  BY <2>2, Copyless DEF Goes
    <3>3. Quiet /\ Touches(c)  BY <1>6, <2>2, FurnishDoes, StillTouches DEF Acts
    <3> QED  BY <2>2, <3>1, <3>2, <3>3, StillGrafts, ClimberOpens DEF Quiet
  <2> QED  BY <1>6, <2>1, <2>2, FurnishDoes
<1>7. CASE OpenTerminal(c)
  <2>1. /\ call[c].at = "openTerminal" /\ Acts(c) /\ runs' = runs /\ ops' = ops
        /\ UNCHANGED <<parent, fences>> /\ call'[c].at \in {"journalTerminal", "compTerminal"}
    BY <1>7, OpenTerminalDoes DEF Goes
  <2>2. Climber(c) /\ call[c].at \notin AtRest \cup {"admit"}  BY <2>1, Stepping DEF HasRun, AtRest
  <2>3. Copied(c)' /\ Touches(c)  BY <2>1, Copyless, StillTouches DEF Acts
  <2> QED  BY <2>1, <2>2, <2>3, StillGrafts, ClimberOpens
<1>8. CASE Identity(c)
  <2>1. /\ Climbs(c, "identity", "identity", ops[c].state, "reserve") /\ fences' = fences
        /\ parent' = [parent EXCEPT ![c] = call[c].target] \/ parent' = parent
    BY <1>8, IdentityClimbs
  <2>2. Grafts
    <3>1. SUFFICES ASSUME parent' # parent PROVE Grafts  BY StillGrafts
    <3>2. parent' = [parent EXCEPT ![c] = call[c].target] /\ runs' = runs  BY <2>1, <3>1 DEF Climbs
    <3>3. call[c].kind = "spawn"  BY <2>1, Stepping DEF Climbs
    <3>4. parent[c] = None /\ c # Root
      BY <3>1, <3>2, <3>3, Parameters DEF Shape, ParentOK, TypeOK, Agents
    <3>5. ~Exists(c) /\ Exists(call[c].target)  BY <3>3, <3>4 DEF Exists, Shape, Named
    <3>6. KidsOf(c) = {}
      <4>1. SUFFICES ASSUME NEW k \in Agents, parent[k] = c PROVE FALSE  BY DEF KidsOf
      <4>2. k \in Calls /\ call[k].kind = "spawn" /\ call[k].target = c
        BY <4>1, Parameters DEF Shape, ParentOK
      <4> QED  BY <3>5, <4>2 DEF Shape, Named
    <3>7. \A a \in Agents : Tree(a)' \subseteq Tree(a) \cup {c}  BY <3>2, <3>5, <3>6, LeafAdded
    <3> QED  BY <3>2, <3>5, <3>7 DEF Grafts
  <2> QED  BY <2>1, <2>2, ClimbOpens
<1> QED  BY <1>1, <1>2, <1>3, <1>4, <1>5, <1>6, <1>7, <1>8

LEMMA WriterOpens ==
  ASSUME TypeOK, Shape, Shape', Grows, OpenInv, Parameters, NEW c \in Calls,
         \/ FenceOldRun(c) \/ ReserveRun(c) \/ PatchTerminal(c) \/ PassGate(c) \/ MakeReady(c)
         \/ ReleaseFencedRun(c)
  PROVE  OpenInv'
<1>1. Copied(c)  BY DEF OpenInv
<1>2. Touches(c)  BY <1>1, WriterTouches, EnderTouches
<1>3. /\ Acts(c) /\ UNCHANGED <<parent, fences>> /\ \A o \in Calls \ {c} : ops'[o] = ops[o]
      /\ call[c].at \in {"fenceOld", "reserve", "patchTerminal", "gated", "ready", "releaseOld"}
      /\ call'[c].at \in AtRest \cup {"drain", "journalRun", "furnish", "ready", "settle",
                                      "stopping", "compTerminal"}
  <2>1. CASE FenceOldRun(c)  BY <2>1, FenceOldRunWrites DEF Writes, Goes, Quiet
  <2>2. CASE ReserveRun(c)  BY <2>2, ReserveRunDoes DEF Goes
  <2>3. CASE PatchTerminal(c)  BY <2>3, PatchTerminalWrites DEF Writes, Goes, Quiet
  <2>4. CASE PassGate(c)
    <3>1. Quiet  BY <2>4, PassGateDoes
    <3>2. CASE Climbs(c, "gated", "furnished", ops[c].state, "ready")
      BY <3>1, <3>2 DEF Climbs, Goes, Quiet, TypeOK
    <3>3. CASE Writes(c, "gated", c, [runs[c] EXCEPT !.life = "failed"],
                      "compTerminal", "compTerminal")
      BY <3>1, <3>3 DEF Writes, Goes, Quiet
    <3> QED  BY <2>4, <3>2, <3>3, PassGateDoes
  <2>5. CASE MakeReady(c)  BY <2>5, MakeReadyDoes DEF Goes, Quiet
  <2>6. CASE ReleaseFencedRun(c)  BY <2>6, ReleaseFencedRunDoes DEF Goes, Quiet, AtRest
  <2> QED  BY <2>1, <2>2, <2>3, <2>4, <2>5, <2>6
<1>4. Climber(c) /\ call[c].at \notin AtRest \cup {"admit"}
  BY <1>3, Stepping DEF HasRun, AtRest, Climber
<1>5. Copied(c)'  BY <1>3, Copyless DEF AtRest
<1> QED  BY <1>2, <1>3, <1>4, <1>5, StillGrafts, ClimberOpens

-----------------------------------------------------------------------------
\* closing a run: an agent whose run was not stopped is missed
LEMMA CloserSweeps ==
  ASSUME TypeOK, Shape, Shape', Grows, Steady, OpenInv, Parameters, NEW c \in Calls,
         call[c].at \in Closer, call[c].kind \in {"stopTree", "repair"}, NEW v, v = call[c].victim,
         \/ \E step \in Closer : Goes(c, step)
         \/ \E result : Closes(c, result) /\ (result = "stopped" => ~Live(v)')
  PROVE  Swept(c)'
<1>1. Sweeps(c) /\ Closer \cap AtRest = {} /\ Closer \subseteq Loop
      /\ "stopEach" \notin Closer \cup {"settleTree"} /\ "settleTree" \notin Closer
  BY DEF Sweeps, Loop, Closer, AtRest
<1>2. PICK f \in Calls : f = Owner(c)  BY <1>1, OwnerIs
<1>3. /\ call'[c].kind = call[c].kind /\ call'[c].target = call[c].target
      /\ call'[c].fence = call[c].fence
  BY <1>1 DEF Goes, Closes
<1>4. Owner(c)' = f  BY <1>2, <1>3 DEF Owner
<1>5. SUFFICES ASSUME call[c].kind = "repair" => ~Doubled(f)'
               PROVE  Swept(c)'
  BY <1>3, <1>4 DEF Swept, Doubled
<1>6. call[c].kind = "repair" => ~Doubled(f)
  <2>1. call[f].kind # "none"  BY <1>1, <1>2, OwnerIs
  <2> QED  BY <1>5, <2>1, DoubledStays DEF Steady
<1>7. v \in Runs /\ runs[v].life # "none"  BY VictimIs
<1>8. PICK a : a = runs[v].agent  OBVIOUS
<1>9. runs'[v].agent = a  BY <1>7, <1>8 DEF Grows, RunsGrow
<1>10. PICK A : A = Left(c)  OBVIOUS
<1>11. fences[f] # "none" /\ Counted(f) /\ Behind(f, A \ {a}, v)
  BY <1>1, <1>2, <1>6, <1>7, <1>8, <1>10 DEF OpenInv, Swept
<1>12. Behind(f, A \ {a}, v)' /\ fences'[f] # "none"  BY <1>11, BehindStays DEF Steady
<1>13. CASE \E step \in Closer : Goes(c, step)
  <2>1. /\ call'[c].at \in Closer /\ call'[c].victim = v
        /\ call'[c].todo = call[c].todo /\ call'[c].missed = call[c].missed
    BY <1>1, <1>7, <1>13 DEF Goes
  <2>2. Left(c)' = A  BY <1>10, <2>1 DEF Left
  <2>3. Behind(Owner(c), Left(c) \ {runs[call[c].victim].agent}, call[c].victim)'
    BY <1>4, <1>9, <1>12, <2>1, <2>2 DEF Behind
  <2> QED  BY <1>1, <1>4, <1>12, <2>1, <2>3 DEF Swept
<1>14. ASSUME NEW result, Closes(c, result), result = "stopped" => ~Live(v)'
       PROVE  Swept(c)'
  <2>1. call'[c].at = "stopEach"  BY <1>14 DEF Closes
  <2>2. A \ {a} \subseteq Left(c)' /\ (result # "stopped" => a \in Left(c)')
    BY <1>7, <1>8, <1>10, <1>14 DEF Closes, Left
  <2>3. Behind(Owner(c), Left(c), None)'  BY <1>4, <1>9, <1>12, <1>14, <2>2 DEF Behind
  <2> QED  BY <1>1, <1>4, <1>12, <2>1, <2>3 DEF Swept
<1> QED  BY <1>13, <1>14

LEMMA CloserOpens ==
  ASSUME TypeOK, Shape, Shape', Grows, OpenInv, Parameters, NEW c \in Calls,
         MarkStopping(c) \/ Terminate(c) \/ MarkUnsure(c) \/ MarkStopped(c)
  PROVE  OpenInv'
<1>1. /\ call[c].at \in Closer /\ Acts(c) /\ UNCHANGED <<ops, parent, fences>>
      /\ Terminate(c) => runs' = runs
  <2>1. CASE MarkStopping(c)  BY <2>1, MarkStoppingDoes, TerminateDoes DEF Closer, Quiet
  <2>2. CASE Terminate(c)  BY <2>2, TerminateDoes DEF Closer, Quiet
  <2>3. CASE MarkUnsure(c)  BY <2>3, MarkUnsureMarks, TerminateDoes DEF Marks, Closer, Quiet
  <2>4. CASE MarkStopped(c)  BY <2>4, MarkStoppedMarks, TerminateDoes DEF Marks, Closer, Quiet
  <2> QED  BY <2>1, <2>2, <2>3, <2>4
<1>2. PICK v \in Runs : v = call[c].victim /\ runs[v] \in RunRecord  BY <1>1, VictimIs DEF TypeOK
<1>3. Copied(c)  BY DEF OpenInv
<1>4. Touches(c)  BY <1>1, <1>3, StillTouches, EnderTouches DEF Acts
<1>5. \/ \E result : Closes(c, result) /\ (result = "stopped" => ~Live(v)')
      \/ /\ Goes(c, "terminate")
         /\ runs' = [runs EXCEPT ![v] = [runs[v] EXCEPT !.life = "stopping"]]
      \/ /\ Goes(c, "unsure") \/ Goes(c, "stopped")
         /\ call[c].at = "terminate" /\ call'[c].copies \subseteq call[c].copies /\ runs' = runs
  <2>1. CASE MarkStopping(c)
    <3>1. ~Live(v) /\ runs' = runs => ~Live(v)'  BY DEF Live
    <3> QED  BY <1>2, <2>1, <3>1, MarkStoppingDoes
  <2>2. CASE Terminate(c)  BY <2>2, TerminateDoes
  <2>3. CASE MarkUnsure(c)
    <3>1. Closes(c, "error") \/ Closes(c, "unsure")  BY <2>3, MarkUnsureMarks DEF Marks
    <3> QED  BY <3>1
  <2>4. CASE MarkStopped(c)
    <3>1. Marks(c, [runs[v] EXCEPT !.life = "stopped"], "stopped")  BY <1>2, <2>4, MarkStoppedMarks
    <3>2. runs' = [runs EXCEPT ![v] = [runs[v] EXCEPT !.life = "stopped"]] => ~Live(v)'
      BY <1>2 DEF RunRecord, TypeOK, Live, Final
    <3> QED  BY <1>2, <3>1, <3>2 DEF Marks
  <2> QED  BY <1>1, <2>1, <2>2, <2>3, <2>4
<1>6. call[c].at \notin AtRest \cup {"admit"}
      /\ call[c].kind \in {"continue", "stop", "stopTree", "repair"}
  BY <1>1, Stepping DEF Closer, AtRest
<1>7. Copied(c)'
  <2>1. ASSUME NEW result, Closes(c, result) PROVE Copied(c)'  BY <1>6, <2>1, Copyless DEF Closes
  <2>2. CASE /\ Goes(c, "terminate")
             /\ runs' = [runs EXCEPT ![v] = [runs[v] EXCEPT !.life = "stopping"]]
    <3>1. runs'[v].life = "stopping"  BY <1>2, <2>2 DEF RunRecord, TypeOK
    <3> QED  BY <1>2, <2>2, <3>1 DEF Copied, Goes, AtRest
  <2>3. CASE /\ Goes(c, "unsure") \/ Goes(c, "stopped")
             /\ call[c].at = "terminate" /\ call'[c].copies \subseteq call[c].copies /\ runs' = runs
    BY <1>3, <2>3 DEF Copied, Goes, AtRest
  <2> QED  BY <1>5, <2>1, <2>2, <2>3
<1>8. Swept(c)'
  <2>1. CASE call[c].kind \in {"stopTree", "repair"}
    <3>1. Steady  BY <1>1, <1>4, TouchesArise, StillGrafts DEF Steady
    <3> QED  BY <1>1, <1>2, <1>5, <2>1, <3>1, CloserSweeps DEF Closer
  <2>2. CASE call[c].kind \notin {"stopTree", "repair"}  BY <1>1, <2>2, Sweepless DEF Acts
  <2> QED  BY <2>1, <2>2
<1> QED  BY <1>1, <1>4, <1>6, <1>7, <1>8, StillGrafts, ActsOpen

\* compensation, and what of a repair or of a tree-stop is no sweep
LEMMA UndoOpens ==
  ASSUME TypeOK, Shape, Shape', Grows, OpenInv, Parameters, NEW c \in Calls,
         \/ CompensateTerminal(c) \/ CompensateRun(c) \/ CompensateOperation(c)
         \/ RepairFence(c) \/ RepairSettle(c) \/ CloseFence(c) \/ OpenOperation(c)
  PROVE  OpenInv'
<1>0. /\ Copied(c) /\ ops \in [Calls -> OpRecord] /\ Journal(c) \in Calls
      /\ ops[Journal(c)] \in OpRecord
  BY JournalIs DEF OpenInv, TypeOK
<1> DEFINE Free == AtRest \cup {"compRun", "compOp", "repairFence", "repairSettle", "releaseOld",
                                "createFence", "snapshot"}
           Begun == AtRest \cup {"admit"}
<1>1. ASSUME Acts(c), Touches(c), parent' = parent, call[c].at \notin Begun,
             \A f \in Calls : fences[f] # "none" <=> fences'[f] # "none",
             \A o \in Calls : ops'[o].state = "tree-stop-pending" => ops'[o] = ops[o],
             call'[c].at \in Free
      PROVE  OpenInv'
  <2>1. Copied(c)' /\ Swept(c)'  BY <1>1, Copyless, Sweepless DEF Loop, Closer, AtRest
  <2> QED  BY <1>1, <2>1, StillGrafts, ActsOpen
<1>2. CASE CompensateTerminal(c) \/ CloseFence(c)
  <2>1. /\ Acts(c) /\ UNCHANGED <<runs, ops, fences, parent>> /\ call[c].at \notin Begun
        /\ call'[c].at \in Free
    BY <1>2, CompensateTerminalDoes, CloseFenceDoes DEF Quiet, AtRest, Goes
  <2> QED  BY <1>1, <2>1, StillTouches DEF Acts
<1>3. CASE CompensateRun(c)
  <2>1. /\ Acts(c) /\ UNCHANGED <<ops, fences, parent>> /\ call[c].at \notin Begun
        /\ call'[c].at \in Free
    BY <1>3, CompensateRunDoes DEF Quiet, AtRest, Ends, Goes
  <2> QED  BY SMTT(30), <1>0, <1>1, <1>3, <2>1, EnderTouches
<1>4. CASE CompensateOperation(c)
  <2>1. /\ Acts(c) /\ UNCHANGED <<runs, fences, parent>> /\ call[c].at \notin Begun
        /\ call'[c].at \in Free
        /\ \/ ops' = ops
           \/ \E doubt : ops' = [ops EXCEPT ![Journal(c)] =
                    [ops[Journal(c)] EXCEPT !.state = "recovery-required", !.doubt = doubt]]
    <3>1. Ends(c, TRUE) \/ Ends(c, FALSE)  BY <1>4, CompensateOperationDoes
    <3>2. call'[c].at \in Free  BY <3>1 DEF AtRest, Ends, Goes
    <3>3. \/ ops' = ops
          \/ \E doubt : ops' = [ops EXCEPT ![Journal(c)] =
                    [ops[Journal(c)] EXCEPT !.state = "recovery-required", !.doubt = doubt]]
      BY <1>4, CompensateOperationDoes
    <3>4. Acts(c) /\ UNCHANGED <<runs, fences, parent>>  BY <1>4, CompensateOperationDoes DEF Quiet
    <3>5. call[c].at \notin Begun
      <4>1. call[c].at = "compOp"  BY <1>4, CompensateOperationDoes
      <4> QED  BY <4>1 DEF AtRest
    <3> QED  BY <3>2, <3>3, <3>4, <3>5
  <2>2. \A o \in Calls : ops'[o].state = "tree-stop-pending" => ops'[o] = ops[o]
    BY ZenonT(60), <1>0, <2>1 DEF OpRecord
  <2> QED  BY <1>1, <2>1, <2>2, StillTouches DEF Acts
<1>5. CASE RepairSettle(c)
  <2>1. /\ Acts(c) /\ UNCHANGED <<runs, fences, parent>> /\ call[c].at \notin Begun
        /\ call'[c].at \in Free /\ call[c].at = "repairSettle"
        /\ \/ ops' = ops
           \/ ops' = [ops EXCEPT ![call[c].target] =
                     [ops[call[c].target] EXCEPT !.state = "completed"]]
    BY <1>5, RepairSettleDoes DEF Quiet, AtRest, Goes
  <2>2. Journal(c) = call[c].target  BY <2>1, Stepping, JournalIs
  <2>3. \A o \in Calls : ops'[o].state = "tree-stop-pending" => ops'[o] = ops[o]
    BY <1>0, <2>1, <2>2 DEF OpRecord
  <2> QED  BY <1>1, <2>1, <2>3, StillTouches DEF Acts
<1>6. CASE RepairFence(c)
  <2>1. /\ Acts(c) /\ UNCHANGED <<runs, ops, parent>> /\ call[c].at = "repairFence"
        /\ call'[c].at \in Free
        /\ \/ fences' = fences
           \/ /\ fences[call[c].target] = "closing"
              /\ fences' = [fences EXCEPT ![call[c].target] = "released"]
    BY <1>6, RepairFenceDoes DEF AtRest, Goes
  <2>2. \A f \in Calls : fences[f] # "none" <=> fences'[f] # "none"  BY <2>1 DEF TypeOK
  <2>3. call[c].at \notin Begun  BY <2>1 DEF AtRest
  <2> QED  BY <1>1, <2>1, <2>2, <2>3, StillTouches DEF Acts
<1>7. CASE OpenOperation(c)
  <2>1. /\ call[c].at = "open" /\ Acts(c) /\ UNCHANGED <<runs, fences, parent>>
        /\ call'[c].copies \subseteq call[c].copies
        /\ \A o \in Calls : ops'[o].state = "tree-stop-pending" => ops'[o] = ops[o]
    <3>1. [NoOp EXCEPT !.state = "running", !.mine = TRUE].state = "running"  BY DEF NoOp
    <3> QED  BY <1>7, <1>0, <3>1, OpenOperationDoes DEF Quiet
  <2>2. \/ call'[c].at \in Free \cup {"identity", "closeFence"}
        \/ call[c].kind = "continue" /\ Goes(c, "fenceOld")
    BY <1>7, OpenOperationDoes DEF Goes, AtRest
  <2>3. Touches(c)  BY <2>1, StillTouches DEF Acts
  <2>4. Swept(c)'  BY <2>2, Sweepless DEF Loop, Closer, AtRest, Goes
  <2>5. Copied(c)'
    <3>1. CASE call'[c].at \in Free \cup {"identity", "closeFence"}  BY <3>1, Copyless DEF AtRest
    <3>2. CASE call[c].kind = "continue" /\ Goes(c, "fenceOld")
      BY <1>0, <2>1, <3>2 DEF Copied, Goes, Live
    <3> QED  BY <2>2, <3>1, <3>2
  <2>6. call[c].at \notin Begun  BY <2>1 DEF AtRest
  <2> QED  BY <2>1, <2>3, <2>4, <2>5, <2>6, StillGrafts, ActsOpen
<1> QED  BY <1>2, <1>3, <1>4, <1>5, <1>6, <1>7

\* a sweep that goes on stands where it stood
LEMMA SweepGoesOn ==
  ASSUME TypeOK, Shape, Shape', Grows, Steady, OpenInv, NEW c \in Calls, Sweeps(c),
         call'[c].kind = call[c].kind, call'[c].target = call[c].target,
         call'[c].fence = call[c].fence,
         NEW f, f = Owner(c), call[c].kind = "repair" => ~Doubled(f)'
  PROVE  /\ f \in Calls /\ Owner(c)' = f /\ fences[f] # "none" /\ fences'[f] # "none"
         /\ call[c].kind = "repair" => ~Doubled(f)
         /\ \A A, v : Behind(f, A, v) => Behind(f, A, v)'
<1>1. f \in Calls /\ Owner(c)' = f /\ call[f].kind # "none"  BY OwnerIs DEF Owner
<1>2. call[c].kind = "repair" => ~Doubled(f)  BY <1>1, DoubledStays DEF Steady
<1>3. fences[f] # "none" /\ Counted(f)  BY <1>1, <1>2 DEF OpenInv, Swept
<1> QED  BY <1>1, <1>2, <1>3, BehindStays DEF Steady

LEMMA StopNextOpens ==
  ASSUME TypeOK, Shape, Shape', Grows, OpenInv, Parameters, NEW c \in Calls,
         StopNext(c) \/ FinishTree(c)
  PROVE  OpenInv'
<1>1. /\ call[c].at = "stopEach" /\ Acts(c) /\ UNCHANGED <<runs, ops, parent>>
      /\ call'[c].fence = call[c].fence /\ call'[c].missed = call[c].missed
      /\ call'[c].at \in {"stopEach", "stopping", "settleTree"}
      /\ StopNext(c) => fences' = fences
  BY StopNextDoes, FinishTreeDoes DEF Goes, AtRest
<1>2. call[c].kind \in {"stopTree", "repair"} /\ Sweeps(c)  BY <1>1, Stepping DEF Sweeps, Loop
<1>3. PICK f \in Calls : f = Owner(c)  BY <1>2, OwnerIs
<1>4. \A g \in Calls : fences[g] # "none" <=> fences'[g] # "none"
  <2>1. CASE fences' = fences  BY <2>1
  <2>2. CASE FinishTree(c) /\ call[c].missed = {} /\ FenceOf(c) # None
    <3>1. FenceOf(c) = f  BY <1>2, <1>3, <2>2 DEF FenceOf, Owner
    <3>2. Released(f)  BY <2>2, <3>1, FinishTreeDoes
    <3> QED  BY <3>2, ReleasedOpens DEF FencesOpen
  <2> QED  BY <1>1, <2>1, <2>2, FinishTreeDoes
<1>5. Touches(c) /\ Grafts  BY <1>1, StillTouches, StillGrafts DEF Acts
<1>6. Steady  BY <1>4, <1>5, TouchesArise DEF Steady
<1>7. Copied(c)'  BY <1>1, Copyless DEF Acts
<1>8. Swept(c)'
  <2>1. SUFFICES ASSUME call[c].kind = "repair" => ~Doubled(f)' PROVE Swept(c)'
    BY <1>1, <1>3 DEF Swept, Owner, Doubled, Acts
  <2>2. /\ Owner(c)' = f /\ fences[f] # "none" /\ fences'[f] # "none"
        /\ call[c].kind = "repair" => ~Doubled(f)
        /\ \A A, v : Behind(f, A, v) => Behind(f, A, v)'
    BY <1>1, <1>2, <1>3, <1>6, <2>1, SweepGoesOn DEF Acts
  <2>3. PICK A : A = Left(c)  OBVIOUS
  <2>4. Behind(f, A, None)  BY <1>1, <1>2, <1>3, <2>2, <2>3 DEF OpenInv, Swept, Closer
  <2>5. Behind(f, A, None)'  BY <2>2, <2>4
  <2>6. CASE StopNext(c)
    <3>1. PICK a \in call[c].todo :
            \/ /\ LiveRuns(a) = {}
               /\ call'[c].at = "stopEach" /\ call'[c].todo = call[c].todo \ {a}
            \/ /\ call'[c].at = "stopping" /\ call'[c].todo = call[c].todo
               /\ call'[c].victim \in LiveRuns(a)
               /\ overlooked' = overlooked \cup (LiveRuns(a) \ {call'[c].victim})
      BY <2>6, StopNextDoes
    <3>2. CASE LiveRuns(a) = {} /\ call'[c].at = "stopEach" /\ call'[c].todo = call[c].todo \ {a}
      <4>1. A \ {a} \subseteq Left(c)'  BY <1>1, <2>3, <3>2 DEF Left
      <4>2. \A r \in Runs : Live(r)' => runs'[r].agent # a  BY <1>1, <3>2 DEF Live, LiveRuns
      <4>3. Behind(Owner(c), Left(c), None)'  BY <2>2, <2>5, <4>1, <4>2 DEF Behind
      <4> QED  BY <2>2, <3>2, <4>3 DEF Swept, Closer
    <3>3. CASE /\ call'[c].at = "stopping" /\ call'[c].todo = call[c].todo
               /\ call'[c].victim \in LiveRuns(a)
               /\ overlooked' = overlooked \cup (LiveRuns(a) \ {call'[c].victim})
      <4>1. PICK v \in LiveRuns(a) : v = call'[c].victim  BY <3>3
      <4>2. Left(c)' = A  BY <1>1, <2>3, <3>3 DEF Left
      <4>3. \A r \in Runs : Live(r)' /\ runs'[r].agent = a => r = v \/ r \in overlooked'
        BY <1>1, <3>3, <4>1 DEF Live, LiveRuns
      <4>4. runs'[v].agent = a  BY <1>1, <4>1 DEF LiveRuns
      <4>5. Behind(f, A \ {a}, v)'  BY <2>5, <4>3, Parameters DEF Behind, Runs
      <4>6. Behind(Owner(c), Left(c) \ {runs[call[c].victim].agent}, call[c].victim)'
        BY <2>2, <4>1, <4>2, <4>4, <4>5 DEF Behind
      <4> QED  BY <2>2, <3>3, <4>6 DEF Swept, Closer
    <3> QED  BY <3>1, <3>2, <3>3
  <2>7. CASE FinishTree(c)
    <3>1. call'[c].at = "settleTree" /\ call'[c].todo = {} /\ call[c].todo = {}
      BY <2>7, FinishTreeDoes DEF Goes, AtRest
    <3>2. Left(c)' = A  BY <1>1, <2>3, <3>1 DEF Left
    <3>3. Behind(Owner(c), Left(c), None)'  BY <2>2, <2>5, <3>2 DEF Behind
    <3> QED  BY <2>2, <3>1, <3>3 DEF Swept, Closer
  <2> QED  BY <2>6, <2>7
<1>9. call[c].at \notin AtRest \cup {"admit"}  BY <1>1 DEF AtRest
<1> QED  BY <1>1, <1>4, <1>5, <1>7, <1>8, <1>9, ActsOpen

\* a sweep begins: with the whole tree, or with what an earlier one left
LEMMA BeginOpens ==
  ASSUME TypeOK, Shape, Shape', Grows, OpenInv, Parameters, NEW c \in Calls,
         ConfirmOrder(c) \/ Judge(c)
  PROVE  OpenInv'
<1>1. /\ call[c].at \in {"snapshot", "judge"} /\ Acts(c) /\ UNCHANGED <<runs, ops, parent, crowd, overlooked>>
      /\ call'[c].at \in {"stopEach", "compTerminal"} \cup AtRest
  BY ConfirmOrderDoes, JudgeDoes DEF Goes, AtRest
<1>2. \A g \in Calls : fences[g] # "none" <=> fences'[g] # "none"
  <2>1. CASE fences' = fences  BY <2>1
  <2>2. CASE ConfirmOrder(c) /\ Released(call[c].fence)
    <3>1. call[c].kind = "stopTree" /\ call[c].at = "snapshot"  BY <2>2, ConfirmOrderDoes, Stepping
    <3>2. call[c].fence \in Calls  BY <3>1 DEF Shape, Holding
    <3> QED  BY <2>2, <3>2, ReleasedOpens DEF FencesOpen
  <2> QED  BY <2>1, <2>2, ConfirmOrderDoes, JudgeDoes
<1>3. Touches(c) /\ Grafts  BY <1>1, StillTouches, StillGrafts DEF Acts
<1>4. Steady  BY <1>2, <1>3, TouchesArise DEF Steady
<1>5. Copied(c)'  BY <1>1, Copyless DEF AtRest
<1>6. ASSUME NEW f \in Calls, Owner(c)' = f, fences[f] # "none", call'[c].at = "stopEach",
             NEW A, Behind(f, A, None), NEW root, root = call[f].target, call'[f].target = root,
             Tree(root) \cap A \subseteq call'[c].todo
      PROVE  Swept(c)'
  <2>1. Tree(root)' = Tree(root) /\ Tree(root) \cap A \subseteq Left(c)'
    BY <1>1, <1>6, SameTree DEF Left
  <2>2. Behind(Owner(c), Left(c), None)'
    <3>1. SUFFICES ASSUME NEW r \in Runs, Live(r)', runs'[r].agent \in Tree(root)'
                   PROVE  r \in crowd[f] \cup overlooked \/ runs'[r].agent \in Left(c)' \/ r = None
      BY <1>1, <1>6 DEF Behind, Tree, DescendantsOf, Family, KidsOf
    <3>2. Live(r) /\ runs[r].agent \in Tree(root) /\ runs'[r] = runs[r]
      BY <1>1, <2>1, <3>1 DEF Live
    <3> QED  BY <1>6, <2>1, <3>2 DEF Behind
  <2> QED  BY <1>2, <1>6, <2>2 DEF Swept, Closer
<1>7. Swept(c)'
  <2>1. CASE call'[c].at # "stopEach"  BY <1>1, <2>1, Sweepless DEF Loop, Closer, AtRest
  <2>2. CASE ConfirmOrder(c) /\ call'[c].at = "stopEach"
    <3>1. /\ call[c].at = "snapshot" /\ call'[c].todo = Tree(call[c].target)
          /\ call'[c].fence = call[c].fence
      BY <2>2, ConfirmOrderDoes DEF Goes
    <3>2. call[c].kind = "stopTree"  BY <3>1, Stepping
    <3>3. PICK f \in Calls : /\ f = call[c].fence /\ fences[f] # "none"
                             /\ call[f].target = call[c].target
      BY <3>1, <3>2 DEF Shape, Holding
    <3>4. PICK root : root = call[f].target  OBVIOUS
    <3>5. call'[f].target = root  BY <3>3, <3>4, FenceRoot
    <3>6. Behind(f, Tree(root), None)  BY <3>4 DEF Behind
    <3>7. Owner(c)' = f  BY <1>1, <3>1, <3>2, <3>3 DEF Owner, Acts
    <3>8. Tree(root) \cap Tree(root) \subseteq call'[c].todo  BY <3>1, <3>3, <3>4
    <3> QED  BY <1>6, <2>2, <3>3, <3>4, <3>5, <3>6, <3>7, <3>8
  <2>3. CASE Judge(c) /\ call'[c].at = "stopEach"
    <3>1. /\ call[c].at = "judge"
          /\ call'[c].todo = Tree(call[call[c].target].target) \ ops[call[c].target].stopped
          /\ ops[call[c].target].state = "tree-stop-pending"
      BY <2>3, JudgeDoes DEF Goes, AtRest
    <3>2. call[c].kind = "repair"  BY <3>1, Stepping
    <3>3. PICK f \in Calls : f = call[c].target  BY <3>2 DEF Shape, Named
    <3>4. Owner(c)' = f  BY <1>1, <3>2, <3>3 DEF Owner, Acts
    <3>5. SUFFICES ASSUME ~Doubled(f)' PROVE Swept(c)'  BY <1>1, <3>2, <3>4 DEF Swept, Doubled, Acts
    <3>6. call[f].kind # "none"  BY <3>1, <3>3 DEF Shape, JournalOK
    <3>7. ~Doubled(f)  BY <1>4, <3>5, <3>6, DoubledStays DEF Steady
    <3>8. PICK A : A = Agents \ ops[f].stopped  OBVIOUS
    <3>9. fences[f] # "none" /\ Behind(f, A, None)  BY <3>1, <3>3, <3>7, <3>8 DEF OpenInv, Rest
    <3>10. PICK root \in Agents : root = call[f].target /\ call'[f].target = root  BY <3>9, FenceRoot
    <3>11. Tree(root) \cap A \subseteq call'[c].todo  BY <3>1, <3>3, <3>8, <3>10
    <3> QED  BY <1>6, <2>3, <3>4, <3>9, <3>10, <3>11
  <2> QED  BY <2>1, <2>2, <2>3
<1>8. call[c].at \notin AtRest \cup {"admit"}  BY <1>1 DEF AtRest
<1> QED  BY <1>1, <1>2, <1>3, <1>5, <1>7, <1>8, ActsOpen

\* what a tree-stop records as stopped is behind it
LEMMA SettleTreeOpens ==
  ASSUME TypeOK, Shape, Shape', Grows, OpenInv, Parameters, NEW c \in Calls,
         SettleTreeStop(c)
  PROVE  OpenInv'
<1>1. /\ call[c].at = "settleTree" /\ Acts(c) /\ UNCHANGED <<runs, parent, fences>>
      /\ call'[c].at \in AtRest
  BY SettleTreeStopDoes DEF Goes, AtRest, Quiet
<1>2. call[c].kind \in {"stopTree", "repair"} /\ Sweeps(c)  BY <1>1, Stepping DEF Sweeps, Loop
<1>3. Touches(c) /\ Grafts  BY <1>1, StillTouches, StillGrafts DEF Acts
<1>4. Steady  BY <1>1, <1>3, TouchesArise DEF Steady
<1>5. Copied(c)' /\ Swept(c)'  BY <1>1, Copyless, Sweepless DEF AtRest, Loop, Closer
<1>6. PICK o \in Calls : o = Journal(c)  BY JournalIs
<1>7. \A p \in Calls : ops'[p].state = "tree-stop-pending" =>
         ops'[p] = ops[p] \/ (p = o /\ ops'[o].stopped = DoneBy(c))
  <2>1. ops \in [Calls -> OpRecord] /\ ops[o] \in OpRecord  BY DEF TypeOK
  <2>2. ASSUME NEW s, NEW D, ops' = [ops EXCEPT ![o] = [ops[o] EXCEPT !.state = s, !.stopped = D]]
        PROVE  /\ ops'[o].state = s /\ ops'[o].stopped = D
               /\ \A p \in Calls \ {o} : ops'[p] = ops[p]
    BY <2>1, <2>2 DEF OpRecord
  <2>3. \/ ops' = ops
        \/ ops' = [ops EXCEPT ![o] = [ops[o] EXCEPT !.state = "completed", !.stopped = DoneBy(c)]]
        \/ ops' = [ops EXCEPT ![o] =
                     [ops[o] EXCEPT !.state = "tree-stop-pending", !.stopped = DoneBy(c)]]
    BY <1>6, SettleTreeStopDoes
  <2> QED  BY <2>2, <2>3
<1>8. ops'[o].stopped = DoneBy(c) => Rest(o)'
  <2>1. SUFFICES ASSUME ops'[o].stopped = DoneBy(c), ops'[o].state = "tree-stop-pending", ~Doubled(o)'
                 PROVE  fences'[o] # "none" /\ Behind(o, Agents \ ops[o].stopped, None)'
    BY DEF Rest
  <2>2. call'[o].kind = "stopTree"  BY <2>1 DEF Shape, JournalOK
  <2>3. call[o].kind = "stopTree"  BY <1>1, <1>2, <1>6, <2>2, JournalIs DEF Acts, Others, Same
  <2>4. ~Doubled(o)  BY <1>4, <2>1, <2>3, DoubledStays DEF Steady
  <2>5. Owner(c) = o
    <3>1. CASE call[c].kind = "repair"  BY <1>6, <3>1, JournalIs DEF Owner
    <3>2. CASE call[c].kind = "stopTree"
      <4>1. o = c /\ Owner(c) = call[c].fence  BY <1>6, <3>2, JournalIs DEF Owner
      <4>2. /\ call[c].fence \in Calls /\ fences[call[c].fence] # "none"
            /\ call[call[c].fence].target = call[c].target
        BY <1>1, <3>2 DEF Shape, Holding, Loop
      <4> QED  BY <2>4, <4>1, <4>2 DEF Doubled
    <3> QED  BY <1>2, <3>1, <3>2
  <2>6. /\ fences[o] # "none" /\ call[c].todo = {} /\ Behind(o, Left(c), None)
    BY <1>1, <1>2, <2>4, <2>5 DEF OpenInv, Swept, Closer
  <2>7. PICK A \in SUBSET Agents : A = call[c].missed  BY DEF TypeOK, CallRecord
  <2>8. Behind(o, A, None)  BY <2>6, <2>7 DEF Left, Behind
  <2>9. Behind(o, A, None)'  BY <1>4, <2>6, <2>8, BehindStays DEF OpenInv, Steady
  <2>10. A \subseteq Agents \ ops'[o].stopped  BY <2>1, <2>7 DEF DoneBy
  <2>11. fences'[o] # "none"  BY <1>1, <2>6
  <2> QED  BY <2>9, <2>10, <2>11 DEF Behind, Agents
<1>9. call[c].at \notin AtRest \cup {"admit"}  BY <1>1 DEF AtRest
<1>10. \A p \in Calls : ops'[p].state = "tree-stop-pending" =>
          \/ ops[p].state = "tree-stop-pending" /\ ops'[p].stopped = ops[p].stopped
          \/ Rest(p)'
  BY <1>7, <1>8
<1> QED  BY SMTT(30), <1>1, <1>3, <1>5, <1>9, <1>10, ActsOpen

\* a fence is created with all that were admitted in its crowd
LEMMA CreateFenceOpens ==
  ASSUME TypeOK, Shape, Shape', Grows, OpenInv, Parameters, NEW c \in Calls,
         CreateFence(c)
  PROVE  OpenInv'
<1>1. /\ call[c].at = "createFence" /\ Acts(c) /\ UNCHANGED <<runs, ops, parent>>
      /\ call'[c].at \in {"failed", "snapshot"}
      /\ \/ UNCHANGED <<fences, crowd>>
         \/ /\ fences' = [fences EXCEPT ![c] = "closing"]
            /\ crowd' = [crowd EXCEPT ![c] = @ \cup {d \in Calls : Admitted(d)}]
  BY CreateFenceDoes DEF Goes
<1>2. Touches(c) /\ Grafts  BY <1>1, StillTouches, StillGrafts DEF Acts
<1>3. Steady  BY <1>1, <1>2, TouchesArise DEF Steady, TypeOK
<1>4. Copied(c)' /\ Swept(c)'  BY <1>1, Copyless, Sweepless DEF Loop, Closer
<1>5. \A d \in Calls : (Same(d) \/ Swept(d)') /\ Copied(d)'
  BY <1>1, <1>2, <1>4, CopiesStay DEF OpenInv, Acts, Others
<1>6. \A d \in Calls : Admitted(d)' => Admitted(d)  BY <1>1, NoNewcomers DEF AtRest
<1>7. ASSUME NEW f \in Calls PROVE Counted(f)'
  <2>1. CASE fences'[f] = fences[f]  BY <1>2, <1>6, <2>1, CountedStays DEF OpenInv
  <2>2. CASE f = c /\ crowd' = [crowd EXCEPT ![c] = @ \cup {d \in Calls : Admitted(d)}]
    BY <1>6, <2>2 DEF TypeOK, Counted
  <2> QED  BY <1>1, <2>1, <2>2 DEF TypeOK
<1> QED  BY <1>1, <1>3, <1>5, <1>7, OpenFrame

\* a call that a fence lets in is in its crowd, or of another family
LEMMA RequestOpens ==
  ASSUME TypeOK, Shape, Shape', Grows, OpenInv, Parameters, NEW c \in Calls,
         Send(c) \/ SendAgain(c) \/ Admit(c)
  PROVE  OpenInv'
<1>1. /\ call[c].at \in {"new", "failed", "admit"} /\ Others(c)
      /\ UNCHANGED <<runs, ops, parent, fences>>
      /\ \/ call'[c].at \in {"failed", "refused", "admit"}
         \/ call'[c].kind = "repair" /\ call'[c].at = "judge"
         \/ call'[c].kind = "stop" /\ call'[c].at = "stopping"
         \/ call'[c].kind = "stopTree" /\ call'[c].at = "open"
         \/ Admit(c) /\ Acts(c) /\ call[c].kind \in {"spawn", "continue"} /\ Goes(c, "open")
  <2>1. CASE Send(c)  BY <2>1, SendDoes DEF Quiet
  <2>2. CASE SendAgain(c)  BY <2>2, SendAgainDoes DEF Acts, Goes
  <2>3. CASE Admit(c)  BY <2>3, AdmitDoes DEF Acts, Goes
  <2> QED  BY <2>1, <2>2, <2>3
<1>2. Touches(c) /\ Grafts  BY <1>1, StillTouches, StillGrafts
<1>3. Steady  BY <1>1, <1>2, TouchesArise DEF Steady
<1>4. Swept(c)'  BY <1>1, Sweepless DEF Loop, Closer, Goes
<1>5. CASE ~(Admit(c) /\ Acts(c) /\ call[c].kind \in {"spawn", "continue"} /\ Goes(c, "open"))
  <2>1. Copied(c)'  BY <1>1, <1>5, Copyless
  <2>2. \A d \in Calls : Admitted(d)' => Admitted(d)
    <3>1. ~Admitted(c)'  BY <1>1, <1>5 DEF Admitted, Working, AtRest
    <3>2. \A d \in Calls \ {c} : Same(d)  BY <1>1 DEF Others
    <3> QED  BY <3>1, <3>2 DEF Same, Admitted, Working
  <2>3. \A d \in Calls : Counted(d)'  BY <1>1, <1>2, <2>2, CountedStays DEF OpenInv
  <2>4. \A d \in Calls : (Same(d) \/ Swept(d)') /\ Copied(d)'
    BY <1>1, <1>2, <1>4, <2>1, CopiesStay DEF OpenInv, Others
  <2> QED  BY <1>1, <1>3, <2>3, <2>4, OpenFrame
<1>6. CASE Admit(c) /\ Acts(c) /\ call[c].kind \in {"spawn", "continue"} /\ Goes(c, "open")
  <2>1. /\ ~InsideClosingTree(call[c].target)
        /\ call[c].kind = "continue" => Live(call[c].old)
        /\ crowd' = [f \in Calls |->
                IF f \in Closing(AgentOf(c)) \/ fences[f] = "released"
                THEN crowd[f] \cup {c} ELSE crowd[f]]
    BY <1>6, AdmitDoes DEF Goes
  <2>2. Copied(c)'  BY <1>1, <1>6, <2>1 DEF Copied, Goes, Live
  <2>3. \A d \in Calls \ {c} : Admitted(d)' => Admitted(d)
    BY <1>1 DEF Others, Same, Admitted, Working
  <2>4. ASSUME NEW f \in Calls, fences[f] # "none"
        PROVE  c \in crowd'[f] \/ Outside(c, call[f].target)'
    <3>1. PICK root \in Agents : root = call[f].target /\ call'[f].target = root  BY <2>4, FenceRoot
    <3>2. SUFFICES ASSUME c \notin crowd'[f] PROVE Outside(c, root)'
      BY <3>1 DEF Outside, Tree, DescendantsOf, Family, KidsOf
    <3>3. fences[f] = "closing" /\ root # AgentOf(c)  BY <2>1, <2>4, <3>1, <3>2 DEF Closing, TypeOK
    <3>4. call[c].target \notin Tree(root)  BY <2>1, <3>1, <3>3 DEF InsideClosingTree, Closing
    <3> QED  BY <1>1, <1>6, <3>3, <3>4, SameTree DEF Outside, AgentOf, Acts
  <2>5. \A f \in Calls : Counted(f)'
    <3>1. \A f \in Calls : fences[f] # "none" => \A d \in Calls \ {c} :
             Admitted(d)' => d \in crowd'[f] \/ Outside(d, call[f].target)'
      BY <1>2, <2>3, CountedCall DEF OpenInv
    <3> QED  BY <1>1, <2>4, <3>1 DEF Counted
  <2>6. \A d \in Calls : (Same(d) \/ Swept(d)') /\ Copied(d)'
    BY <1>1, <1>2, <1>4, <2>2, CopiesStay DEF OpenInv, Others
  <2> QED  BY <1>1, <1>3, <2>5, <2>6, OpenFrame
<1> QED  BY <1>5, <1>6

LEMMA OutsideOpens ==
  ASSUME TypeOK, Shape, Shape', Grows, OpenInv, Parameters,
         (\E r \in Runs : Exit(r) \/ SettleGone(r)) \/ Restart
  PROVE  OpenInv'
<1>1. CASE \E r \in Runs : Exit(r) \/ SettleGone(r)
  <2>1. PICK r \in Runs : Exit(r) \/ SettleGone(r)  BY <1>1
  <2>2. (\A c \in Calls : Same(c)) /\ UNCHANGED <<ops, fences, parent>>
    BY <2>1, ExitDoes, SettleGoneDoes DEF Same
  <2>3. /\ \A q \in Runs : Live(q)' => Live(q)
        /\ \A c \in Calls : \A q \in call'[c].copies : runs'[q] = runs[q]
    <3>1. CASE Exit(r)  BY <3>1, ExitDoes DEF Live
    <3>2. CASE SettleGone(r)
      <4>1. /\ runs' = [runs EXCEPT ![r] = [runs[r] EXCEPT !.life = "interrupted"]]
            /\ \A c \in Calls : r \notin call'[c].copies
            /\ call' \in [Calls -> CallRecord]
        BY <3>2, SettleGoneDoes
      <4>2. runs'[r].life = "interrupted" /\ \A q \in Runs \ {r} : runs'[q] = runs[q]
        BY <4>1 DEF TypeOK, RunRecord
      <4> QED  BY <4>1, <4>2 DEF Live, Final, CallRecord
    <3> QED  BY <2>1, <3>1, <3>2
  <2>4. Steady  BY <2>2, <2>3, StillGrafts DEF Steady, Arises
  <2>5. \A c \in Calls : Copied(c)'  BY <2>2, <2>3 DEF OpenInv, Copied, Same, Live
  <2>6. \A c \in Calls : Admitted(c)' => Admitted(c)  BY <2>2 DEF Same, Admitted, Working
  <2>7. \A c \in Calls : Counted(c)'  BY <2>2, <2>4, <2>6, CountedStays DEF OpenInv, Steady
  <2> QED  BY <2>2, <2>4, <2>5, <2>7, OpenFrame
<1>2. CASE Restart
  <2>1. /\ \A c \in Calls : call'[c].at \in AtRest
        /\ \A r \in Runs : ~Live(r)'
        /\ UNCHANGED <<fences, parent>>
        /\ \A o \in Calls : ops'[o].state # "tree-stop-pending"
    <3>1. \A c \in Calls : call'[c].at \in AtRest  BY <1>2, RestartDoes DEF Working, Goes, AtRest
    <3>2. \A r \in Runs : ~Live(r)'
      <4>1. \A r \in Runs : [runs[r] EXCEPT !.life = "interrupted"].life = "interrupted"
        BY DEF TypeOK, RunRecord
      <4>2. runs' = [r \in Runs |-> IF Live(r) THEN [runs[r] EXCEPT !.life = "interrupted"]
                                    ELSE runs[r]]
        BY <1>2, RestartDoes
      <4> QED  BY <4>1, <4>2 DEF Live, Final
    <3> QED  BY <1>2, <3>1, <3>2, RestartDoes
  <2>2. Steady  BY <2>1, StillGrafts DEF Steady, Arises
  <2>3. \A c \in Calls : ~Admitted(c)'  BY <2>1 DEF Admitted, Working
  <2>4. \A c \in Calls : Counted(c)'  BY <2>3 DEF Counted
  <2>5. \A c \in Calls : Swept(c)' /\ Copied(c)'
    BY <2>1, Sweepless, Copyless DEF AtRest, Loop, Closer
  <2> QED  BY <2>1, <2>2, <2>4, <2>5, OpenFrame
<1> QED  BY <1>1, <1>2

LEMMA NextOpens ==
  ASSUME TypeOK, Shape, Shape', OpenInv, Parameters, [Next]_vars
  PROVE  OpenInv'
<1>1. CASE UNCHANGED vars
  BY <1>1 DEF vars, OpenInv, Counted, Swept, Rest, Copied, Admitted, Outside, Working, Tree,
     DescendantsOf, Family, KidsOf, Sweeps, Doubled, Owner, Behind, Left, Live
<1>2. CASE Next
  <2>1. Grows  BY <1>2, NextGrows
  <2> QED
    BY <1>2, <2>1, LadderOpens, WriterOpens, CloserOpens, UndoOpens, StopNextOpens, BeginOpens,
       SettleTreeOpens, CreateFenceOpens, RequestOpens, OutsideOpens
    DEF Next
<1> QED  BY <1>1, <1>2

\* who opens the fence it kept closed has finished the tree
LEMMA OpenedStopped ==
  ASSUME TypeOK, Shape, OpenInv, Parameters, Next, NEW c \in Calls, Opening(c)
  PROVE  \/ UNION {LiveRuns(a) : a \in Tree(call[FenceOf(c)].target)}
              \subseteq crowd[FenceOf(c)] \cup overlooked
         \/ call[c].kind = "repair" /\ Doubled(FenceOf(c))
<1>1. call[c].at = "stopEach" /\ call'[c].at = "settleTree" /\ FenceOf(c) # None
      /\ fences[FenceOf(c)] = "closing" /\ fences'[FenceOf(c)] = "released"
  BY DEF Opening
<1>2. FinishTree(c)
  <2>1. ASSUME NEW d \in Calls, ConfirmOrder(d) \/ RepairFence(d) \/ CreateFence(d) \/ FinishTree(d)
        PROVE  FinishTree(c)
    <3>1. CASE FinishTree(d)  BY <1>1, <3>1, FinishTreeDoes DEF Acts, Others, Same
    <3>2. CASE ~FinishTree(d)
      <4>1. Acts(d)  BY <2>1, <3>2, ConfirmOrderDoes, RepairFenceDoes, CreateFenceDoes
      <4>2. call[d].at \in {"snapshot", "repairFence", "createFence"}
        BY <2>1, <3>2 DEF ConfirmOrder, RepairFence, CreateFence
      <4> QED  BY <1>1, <4>1, <4>2 DEF Acts, Others, Same
    <3> QED  BY <3>1, <3>2
  <2>2. fences' # fences  BY <1>1
  <2>3. PICK d \in Calls : ConfirmOrder(d) \/ RepairFence(d) \/ CreateFence(d) \/ FinishTree(d)
    <3>1. CASE (\E r \in Runs : Exit(r) \/ SettleGone(r)) \/ Restart
      BY <2>2, <3>1 DEF Exit, SettleGone, Restart
    <3>2. ASSUME NEW d \in Calls, Send(d) \/ SendAgain(d) \/ Admit(d) \/ OpenOperation(d) \/ Identity(d)
                 \/ FenceOldRun(d) \/ DrainOldRun(d) \/ ReserveRun(d) \/ JournalRun(d)
                 \/ ReserveTerminal(d) \/ OpenTerminal(d) \/ JournalTerminal(d) \/ PatchTerminal(d)
          PROVE  FALSE
      BY <2>2, <3>2 DEF Send, SendAgain, Admit, OpenOperation, Identity, FenceOldRun, DrainOldRun,
         ReserveRun, JournalRun, ReserveTerminal, OpenTerminal, JournalTerminal, PatchTerminal
    <3>3. ASSUME NEW d \in Calls, Furnish(d) \/ PassGate(d) \/ MakeReady(d) \/ Settle(d)
                 \/ MarkStopping(d) \/ Terminate(d) \/ MarkUnsure(d) \/ MarkStopped(d)
                 \/ CloseFence(d) \/ StopNext(d)
          PROVE  FALSE
      BY <2>2, <3>3 DEF Furnish, PassGate, MakeReady, Settle, MarkStopping, Terminate, MarkUnsure,
         MarkStopped, CloseFence, StopNext
    <3>4. ASSUME NEW d \in Calls, SettleTreeStop(d) \/ CompensateTerminal(d) \/ CompensateRun(d)
                 \/ CompensateOperation(d) \/ ReleaseFencedRun(d) \/ Judge(d) \/ RepairSettle(d)
          PROVE  FALSE
      BY <2>2, <3>4 DEF SettleTreeStop, CompensateTerminal, CompensateRun, CompensateOperation,
         ReleaseFencedRun, Judge, RepairSettle
    <3> QED  BY <3>1, <3>2, <3>3, <3>4 DEF Next
  <2> QED  BY <2>1, <2>3
<1>3. call[c].kind \in {"stopTree", "repair"} /\ Sweeps(c)  BY <1>1, Stepping DEF Sweeps, Loop
<1>4. PICK f \in Calls : f = Owner(c)  BY <1>3, OwnerIs
<1>5. FenceOf(c) = f  BY <1>1, <1>3, <1>4 DEF FenceOf, Owner
<1>6. call[c].missed = {} /\ call[c].todo = {}
  <2>1. fences' # fences  BY <1>1
  <2> QED  BY <1>2, <2>1, FinishTreeDoes
<1>7. SUFFICES ASSUME call[c].kind = "repair" => ~Doubled(f), NEW r \in Runs, Live(r),
                      runs[r].agent \in Tree(call[f].target)
               PROVE  r \in crowd[f] \cup overlooked
  BY <1>3, <1>5 DEF LiveRuns
<1>8. Behind(f, Left(c), None) /\ Left(c) = {}
  BY <1>1, <1>3, <1>4, <1>6, <1>7 DEF OpenInv, Swept, Closer, Left
<1> QED  BY <1>7, <1>8, Parameters DEF Behind, Runs

\* A fence serves its tree-stop to the end: it is closing only for an operation that can still be
\* finished or repaired, and who opens it has left no live run in the tree (stop-tree.ts: "the
\* fence released only on complete success"), however many spawns, continuations, stops, repairs,
\* failures and restarts interleave.  A run comes alive only for a call that was admitted, a fence
\* counts in its crowd all that were, and keeps out the rest; what a sweep has behind it, and what
\* an unfinished one recorded as stopped, stays stopped.
THEOREM FencesServe == Spec => FencesServeTheirStop
<1> DEFINE IInv == TypeOK /\ Shape /\ OrphanInv /\ OwnerInv /\ OpenInv
           Serves(c) == Opening(c) =>
             \/ UNION {LiveRuns(a) : a \in Tree(call[FenceOf(c)].target)}
                  \subseteq crowd[FenceOf(c)] \cup overlooked
             \/ call[c].kind = "repair" /\ Doubled(FenceOf(c))
<1>1. Init => IInv
  <2>1. SUFFICES ASSUME Init PROVE OwnerInv /\ OpenInv
    BY InitShape, InitOrphans, Parameters
  <2>2. /\ call = [c \in Calls |-> Idle] /\ fences = [c \in Calls |-> "none"]
        /\ ops = [c \in Calls |-> NoOp]
    BY <2>1 DEF Init
  <2>3. \A c \in Calls : /\ fences[c] = "none" /\ call[c].at = "new" /\ call[c].copies = {}
                         /\ ops[c].state = "none"
    BY <2>2 DEF Idle, NoOp
  <2>4. OwnerInv  BY <2>3 DEF OwnerInv, Fenced, Settles, Loose
  <2>5. OpenInv  BY <2>3 DEF OpenInv, Counted, Swept, Rest, Copied, Sweeps, Loop, Closer
  <2> QED  BY <2>4, <2>5
<1>2. IInv /\ [Next]_vars => IInv'
  BY NextShape, NextOrphans, NextOwns, NextOpens, Parameters DEF OrphanInv
<1>3. IInv => FenceHasAnOwnerUnlessDoubled  BY OwnedFences
<1>4. IInv /\ [Next]_vars => [\A c \in Calls : Serves(c)]_vars
  BY OpenedStopped, Parameters
<1> QED  BY <1>1, <1>2, <1>3, <1>4, PTL
  DEF Spec, FencesServeTheirStop, FenceOpensOnAStoppedTreeUnlessRaced

=============================================================================
