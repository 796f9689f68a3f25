--------------------------- MODULE CommandReceipts ---------------------------
(***************************************************************************)
(* Durable command receipts: src/packages/foundation/contract/receipts.ts. *)
(*                                                                         *)
(* All attempts of one command share a receipt, whose id is derived from   *)
(* principal, operation and clientOpId.  An attempt reads the receipt      *)
(* without a lock, decides, creates or reopens it with a compare-and-set,  *)
(* executes the command, and records the outcome with another read and     *)
(* compare-and-set, whose failure it ignores.  Attempts overlap, run in    *)
(* several processes, meet a busy or failing store, and die.               *)
(*                                                                         *)
(* The store is what ObjectLog promises and StoreEngine delivers while no  *)
(* line is lost to a torn tail: versions are only appended, and a reader   *)
(* sees some version that is not older than what its process wrote or has  *)
(* already seen.                                                           *)
(***************************************************************************)
EXTENDS Integers, Sequences, FiniteSets

CONSTANTS
    Attempts,   \* attempts to run the command
    Runners,    \* processes
    ProcOf,     \* the process an attempt runs in
    Requests,   \* canonical request hashes that arrive under this clientOpId
    MaxDeaths,  \* bound: process deaths
    MaxStoreFaults \* bound: store operations that fail

ASSUME ReceiptAssumption ==
    /\ ProcOf \in [Attempts -> Runners]
    /\ MaxDeaths \in Nat /\ MaxStoreFaults \in Nat

VARIABLES
    receipt,    \* the versions of the receipt, oldest first
    floor,      \* the version below which a process no longer reads
    phase, heldVersion, \* where an attempt is; the version it last re-read
    result,     \* what its execution returned
    told,       \* what its caller was answered
    request,    \* the request of each attempt
    descriptor, \* replaySafe, retainRetryableProgress, keepRunning
    ran,        \* history: attempts that started to execute
    overlapped, \* history: an attempt went on beside another one, or on a stale read
    deaths, storeFaults

attempt == <<phase, heldVersion, result, told>>
mishaps == <<deaths, storeFaults>>
receiptVars == <<receipt, floor, phase, heldVersion, result, told, request, descriptor, ran,
                 overlapped, deaths, storeFaults>>

Outcomes == {"ok", "denied", "retryable"}
ReceiptVersions == [request : Requests, state : {"running", "succeeded", "failed"},
                    outcome : Outcomes \union {"none"}]
Answers == Outcomes \union
    {"none", "conflict", "recoveryRequired", "storeUnavailable", "threw"}
AttemptSteps == {"idle", "open", "reopen", "reopenWrite", "executing", "settle",
                 "settleWrite", "answered", "dead"}

LatestVersion == receipt[Len(receipt)]
Busy(c) == phase[c] \notin {"idle", "answered", "dead"}

IsSettled(v) == v.state = "succeeded" \/ (v.state = "failed" /\ v.outcome # "retryable")

ReceiptInit ==
    /\ receipt = << >>
    /\ floor = [p \in Runners |-> 0]
    /\ phase = [c \in Attempts |-> "idle"]
    /\ heldVersion = [c \in Attempts |-> 0]
    /\ result = [c \in Attempts |-> "none"]
    /\ told = [c \in Attempts |-> "none"]
    /\ request \in [Attempts -> Requests]
    /\ descriptor \in [replaySafe : BOOLEAN, retain : BOOLEAN, keepRunning : BOOLEAN]
    /\ ran = {}
    /\ overlapped = FALSE
    /\ deaths = 0 /\ storeFaults = 0

-----------------------------------------------------------------------------
Goes(c, step) == phase' = [phase EXCEPT ![c] = step]

Reply(c, a) ==
    /\ Goes(c, "answered")
    /\ told' = [told EXCEPT ![c] = a]

StartExecution(c) ==
    /\ Goes(c, "executing")
    /\ ran' = ran \union {c}
    /\ told' = told

(* readReceipt: 0 stands for no receipt.                                    *)
Sees(c, v) == v \in floor[ProcOf[c]] .. Len(receipt)

Look(c, v) ==
    /\ phase[c] = "idle"
    /\ Sees(c, v)
    /\ floor' = [floor EXCEPT ![ProcOf[c]] = v]
    /\ UNCHANGED <<receipt, heldVersion, result, request, descriptor, mishaps>>

(* The attempt goes on, with what it has just read.                         *)
GoesOn(c, v) ==
    overlapped' = (overlapped \/ v < Len(receipt) \/ \E d \in Attempts \ {c} : Busy(d))

FindNone(c) ==
    /\ Look(c, 0)
    /\ GoesOn(c, 0)
    /\ Goes(c, "open")
    /\ UNCHANGED <<told, ran>>

(* The same key was used for another request.                               *)
FindConflict(c, v) ==
    /\ Look(c, v) /\ v > 0
    /\ receipt[v].request # request[c]
    /\ Reply(c, "conflict")
    /\ UNCHANGED <<ran, overlapped>>

(* Mutant: the stored hash is not compared.                                 *)
Matches_anyRequest(c, v) == v > 0

Matches(c, v) == v > 0 /\ receipt[v].request = request[c]

Replay(c, v) ==
    /\ Look(c, v) /\ Matches(c, v)
    /\ IsSettled(receipt[v])
    /\ Reply(c, receipt[v].outcome)
    /\ UNCHANGED <<ran, overlapped>>

(* An interrupted command that may have had its effect is not repeated.     *)
RefuseUncertain(c, v) ==
    /\ Look(c, v) /\ Matches(c, v)
    /\ ~IsSettled(receipt[v]) /\ ~descriptor.replaySafe
    /\ Reply(c, "recoveryRequired")
    /\ UNCHANGED <<ran, overlapped>>

(* Mutants: nobody asks whether a repetition is safe, or whether the stored *)
(* failure was one the caller was invited to retry.                         *)
MayRepeat_always(c, v) == ~IsSettled(receipt[v])
MayRepeat_denials(c, v) == receipt[v].state # "succeeded" /\ descriptor.replaySafe

MayRepeat(c, v) == ~IsSettled(receipt[v]) /\ descriptor.replaySafe

Resume(c, v) ==
    /\ Look(c, v) /\ Matches(c, v)
    /\ MayRepeat(c, v) /\ receipt[v].state = "running"
    /\ GoesOn(c, v)
    /\ StartExecution(c)

FindRetryable(c, v) ==
    /\ Look(c, v) /\ Matches(c, v)
    /\ MayRepeat(c, v) /\ receipt[v].state = "failed"
    /\ GoesOn(c, v)
    /\ Goes(c, "reopen")
    /\ UNCHANGED <<told, ran>>

-----------------------------------------------------------------------------
(* createObject and updateObject: a compare-and-set inside the store's lock.*)

Rebase(c) == floor' = [floor EXCEPT ![ProcOf[c]] = Len(receipt')]

(* LockBusy; or the write fails with the version on disk or not.            *)
StoreFails(c, version) ==
    /\ storeFaults < MaxStoreFaults /\ storeFaults' = storeFaults + 1 /\ deaths' = deaths
    /\ \/ receipt' = receipt /\ floor' = floor
       \/ receipt' \in {receipt, Append(receipt, version)} /\ Rebase(c)

(* Mutant: the receipt starts in the declared state nothing ever reads.     *)
FirstVersion_accepted(c) == [request |-> request[c], state |-> "accepted", outcome |-> "none"]

FirstVersion(c) == [request |-> request[c], state |-> "running", outcome |-> "none"]

Absent == receipt = << >>

Open(c) ==
    /\ phase[c] = "open" /\ Absent
    /\ receipt' = Append(receipt, FirstVersion(c))
    /\ Rebase(c)
    /\ StartExecution(c)
    /\ UNCHANGED <<heldVersion, result, request, descriptor, overlapped, mishaps>>

(* Another attempt created it first, or the store failed.                   *)
OpenFails(c) ==
    /\ phase[c] = "open"
    /\ \/ ~Absent /\ receipt' = receipt /\ Rebase(c) /\ UNCHANGED mishaps
       \/ Absent /\ StoreFails(c, FirstVersion(c))
    /\ Reply(c, "storeUnavailable")
    /\ UNCHANGED <<heldVersion, result, request, descriptor, ran, overlapped>>

(* reopen and settle read the receipt again, and keep only its version.     *)
Reread(c, v) ==
    /\ phase[c] \in {"reopen", "settle"}
    /\ v > 0 /\ Sees(c, v)
    /\ floor' = [floor EXCEPT ![ProcOf[c]] = v]
    /\ heldVersion' = [heldVersion EXCEPT ![c] = v]
    /\ Goes(c, IF phase[c] = "reopen" THEN "reopenWrite" ELSE "settleWrite")
    /\ UNCHANGED <<receipt, result, told, request, descriptor, ran, overlapped, mishaps>>

HeldIsLatest(c) == heldVersion[c] = Len(receipt)

Reopened == [LatestVersion EXCEPT !.state = "running"]

Reopen(c) ==
    /\ phase[c] = "reopenWrite" /\ HeldIsLatest(c)
    /\ receipt' = Append(receipt, Reopened)
    /\ Rebase(c)
    /\ StartExecution(c)
    /\ UNCHANGED <<heldVersion, result, request, descriptor, overlapped, mishaps>>

ReopenFails(c) ==
    /\ phase[c] = "reopenWrite"
    /\ \/ ~HeldIsLatest(c) /\ receipt' = receipt /\ Rebase(c) /\ UNCHANGED mishaps
       \/ HeldIsLatest(c) /\ StoreFails(c, Reopened)
    /\ Reply(c, "storeUnavailable")
    /\ UNCHANGED <<heldVersion, result, request, descriptor, ran, overlapped>>

-----------------------------------------------------------------------------
Execute(c, r) ==
    /\ phase[c] = "executing"
    /\ result' = [result EXCEPT ![c] = r]
    /\ \/ Goes(c, "settle") /\ told' = told
       \/ descriptor.keepRunning /\ r = "ok" /\ Reply(c, "ok")
    /\ UNCHANGED <<receipt, floor, heldVersion, request, descriptor, ran, overlapped, mishaps>>

Throw(c) ==
    /\ phase[c] = "executing"
    /\ Reply(c, "threw")
    /\ UNCHANGED <<receipt, floor, heldVersion, result, request, descriptor, ran, overlapped,
                   mishaps>>

StateAfter(c) ==
    IF result[c] = "ok" THEN "succeeded"
    ELSE IF result[c] = "retryable" /\ descriptor.retain THEN "running" ELSE "failed"

SettledVersion(c) == [LatestVersion EXCEPT !.state = StateAfter(c), !.outcome = result[c]]

(* The caller gets the result whether or not the receipt could be written.  *)
Settle(c) ==
    /\ phase[c] = "settleWrite"
    /\ \/ /\ HeldIsLatest(c)
          /\ receipt' = Append(receipt, SettledVersion(c)) /\ Rebase(c) /\ UNCHANGED mishaps
       \/ ~HeldIsLatest(c) /\ receipt' = receipt /\ Rebase(c) /\ UNCHANGED mishaps
       \/ HeldIsLatest(c) /\ StoreFails(c, SettledVersion(c))
    /\ Reply(c, result[c])
    /\ UNCHANGED <<heldVersion, result, request, descriptor, ran, overlapped>>

(* The process dies; its successor starts with a fresh read.                *)
RunnerDies(p) ==
    /\ deaths < MaxDeaths
    /\ \E c \in Attempts : ProcOf[c] = p /\ Busy(c)
    /\ deaths' = deaths + 1
    /\ phase' = [c \in Attempts |-> IF ProcOf[c] = p /\ Busy(c) THEN "dead" ELSE phase[c]]
    /\ floor' = [floor EXCEPT ![p] = Len(receipt)]
    /\ UNCHANGED <<receipt, heldVersion, result, told, request, descriptor, ran, overlapped,
                   storeFaults>>

Read(c, v) ==
    \/ FindConflict(c, v) \/ Replay(c, v) \/ RefuseUncertain(c, v)
    \/ Resume(c, v) \/ FindRetryable(c, v)

ReceiptNext ==
    \/ \E c \in Attempts :
        \/ FindNone(c) \/ Open(c) \/ OpenFails(c)
        \/ \E v \in 1 .. Len(receipt) : Read(c, v) \/ Reread(c, v)
        \/ Reopen(c) \/ ReopenFails(c)
        \/ (\E r \in Outcomes : Execute(c, r)) \/ Throw(c)
        \/ Settle(c)
    \/ \E p \in Runners : RunnerDies(p)

ReceiptSpec == ReceiptInit /\ [][ReceiptNext]_receiptVars

-----------------------------------------------------------------------------
ReceiptTypeOK ==
    /\ receipt \in Seq(ReceiptVersions)
    /\ floor \in [Runners -> Nat] /\ \A p \in Runners : floor[p] <= Len(receipt)
    /\ phase \in [Attempts -> AttemptSteps]
    /\ heldVersion \in [Attempts -> Nat] /\ \A c \in Attempts : heldVersion[c] <= Len(receipt)
    /\ result \in [Attempts -> Outcomes \union {"none"}]
    /\ told \in [Attempts -> Answers]
    /\ request \in [Attempts -> Requests]
    /\ descriptor \in [replaySafe : BOOLEAN, retain : BOOLEAN, keepRunning : BOOLEAN]
    /\ ran \subseteq Attempts
    /\ overlapped \in BOOLEAN
    /\ deaths \in Nat /\ storeFaults \in Nat

(* "A retry cannot silently become a different command": whatever attempts  *)
(* execute under one key, they execute one and the same request.            *)
OneRequestRuns == \A c, d \in ran : request[c] = request[d]

(* "Never a second execution": a command whose effect must not be repeated  *)
(* starts at most once, over crashes, lost settlements and stale reads.     *)
AtMostOnce == ~descriptor.replaySafe => \A c, d \in ran : c = d

(* One key, one command: a retry is the same command, and never its second  *)
(* effect.                                                                  *)
KeyIsOneCommand == OneRequestRuns /\ AtMostOnce

(* What a caller is told, the settlement of an attempt or a replay of one,  *)
(* is what some attempt's execution really returned.                        *)
AnswersAreReal ==
    \A c \in Attempts : told[c] \in Outcomes =>
        \E d \in ran : request[d] = request[c] /\ result[d] = told[c]

(* A success stays a success, and "a caller must not be able to retry its   *)
(* way past a denial": a settled receipt keeps its outcome.                 *)
SettledIsFinal ==
    \A i \in 1 .. Len(receipt) - 1 :
        IsSettled(receipt[i]) =>
            /\ IsSettled(receipt[i + 1])
            /\ receipt[i + 1].outcome = receipt[i].outcome

(* It does as long as no attempt overlaps another or acts on a stale read,  *)
(* and in any case where the command is not replay safe.                    *)
SettledIsFinalUnlessRaced == (overlapped /\ descriptor.replaySafe) \/ SettledIsFinal
=============================================================================
