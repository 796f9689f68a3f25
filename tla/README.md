# Verification of Novakai Command

Novakai Command is a local operations centre for several AI agents. It is a TypeScript monorepo
(`src/packages/*`) whose processes share one directory of append-only files and a handful of
operating-system resources: lock directories, process ids, pseudo-terminals. There is no database and no
broker. What makes it correct is a set of small hand-written protocols (a mutation lock, a write-ahead pair
of appends, receipts, a single-instance lease, a typing boundary, journals), and those are what this
directory models in TLA+, checks with TLC and proves with TLAPS.

Contents: [the system](#1-the-system), [how the specification is laid out](#2-layout),
[the modules](#3-the-modules), [bounds](#4-bounds-symmetry-and-views), [fairness](#5-fairness),
[proofs](#6-proofs), [known departures of the code from its comments](#7-what-the-code-does-differently),
[what is not modelled](#8-not-modelled), [plan](#9-plan).

## 1. The system

Everything durable goes through **Foundation**: objects and traces in JSONL files under one root, written
under one mutation lock, read without it. Above it sit **Agent runtime** (agent runs, their process, their
epoch, the operations that create, hand over and end them), **Terminal** (PTY sessions and who may type into them), **Messaging** (sends to and transcripts
from providers), **Supervision** (watchers, deadlines, notifications), **Agents** (sessions and governed
documents), **Artifacts**, **Projects**, **Browser**, and a **Server** that composes them. They talk by
function calls inside one process and by the shared store between processes; there is no other message
passing. A command travels: transport → `executeReceiptedCommand` (Foundation) → a component's core → several
store mutations, and sometimes one irreversible effect (bytes typed into a terminal, a provider call).

| component (source) | state it keeps | operations | what is hard | what makes it correct |
|---|---|---|---|---|
| mutation lock (`foundation/core/store-engine/lock.ts`) | directory `lock`, `owner.json` | acquire (blocking and async), takeover, release | two file-system calls per step, kills in between, takeovers | one holder; a bounded wait; nobody removes another's lock |
| store engine and object API (`engine.ts`, `contract/api.ts`) | JSONL files, tombstones, stat memo, boot flag | create, update, complete a trace, boot reconciliation | torn lines, stale reads, retries, a busy or dead lock holder | acknowledged means durable; one line and one trace per operation; compare-and-set under the lock |
| command receipts (`contract/receipts.ts`) | one receipt object per command | execute, replay, resume, reopen, settle | retries racing the first attempt, death between effect and settlement | an unrepeatable command runs once; a retry cannot become another command or escape a denial |
| runtime host (`agent-runtime/adapters/file-lease.ts`, `core/epochs.ts`, `core/compose.ts`) | `runtime.lock`, epoch records, memory of ownership | ensure, stop, shutdown, fence | processes racing for a dead holder's lease, pid reuse, failures between epoch and recovery | one active epoch; mutation only under it; recovery before ownership is announced |
| terminal input (`terminal/core`) | sessions, attachments, leases, reservations, attempts, turns | attach, draft, acquire, take over, write, reserve, commit, prepare, execute, settle, interrupt | three kinds of typist, a lane plus events outside it, faults between attempt and bytes | one owner of the boundary; nothing typed twice; records that tell the truth; old generations fenced |
| terminal sessions and PTY (`sessions.ts`, `replay.ts`, `stream.ts`) | PTY handles, replay ring | create, exit, terminate, stream | exit racing input, boot recovery of orphans | a session that is over stays over |
| run operations (`agent-runtime/core` spawn, continue, lifecycle, stop-tree, journal, repair, recover) | runs, RunOperation journals, tree-mutation fences | spawn, continue, stop, stop-tree, repair, boot reconciliation | sagas interrupted at any stage, none serialised against another | no live process off the record; an agent keeps a run; a fence opens on a stopped tree and outlives nobody |
| provider turns (`provider-turns.ts`, `terminal/core/provider-turn-input.ts`) | submission, attempt, run (fence, active turn) | submit, execute, complete, interrupt, repair, reconcile | one turn over three records and an effect | typed once; true verdicts; the records agree |
| messaging: send and delivery (`messaging/core/send`, `core/delivery`) | send journal, pending deliveries | accept, claim, dispatch, confirm, route, maintain | racing callers, a claim whose owner died, deadlines racing evidence | one provider effect; honest confirmation |
| messaging: ingestion (`core/ingestion`, `transcript-state.ts`) | checkpoints, lines | ingest, classify, rewind | growing, truncated, replaced transcripts | each line once; evidence of what was sent |
| supervision: drift (`supervision/core/watchers/drift*`) and its delivery (`agent-runtime/core/notification-delivery*`, `server/core/runtime-host/notification-delivery-*`) | deadline, status notification | check, claim, submit, record, escalate, expire | two records, never written together; an effect before the claim | the halves agree; help is called after the agent was asked |
| messaging: writer lease (`writer-lease.ts`) | a lease file | acquire, release | a third single-holder file protocol | one writer |
| supervision: ordinary notifications, rules, usage | notifications, fences, evaluation progress | notify, claim, settle, evaluate | leases on deadlines that run out during evaluation | a deadline fires once |
| agents (`sessions/`, `governed/`) | chat sessions, roles, plans, relationships | send, sweep, assign | one in-flight queue swept at boot | no answer attributed to another send |
| artifacts (`publication-lock.ts`, `orphan-sweep.ts`) | bytes, records, publication lock | publish, sweep | bytes without a record during a sweep | a record always has its bytes |
| projects, browser, server wiring, shell | objects, one JSON file, sockets, windows | CRUD, connect | little of their own | what the store promises |

How they interact, as far as it matters here:

- every mutation of every component is *read (lock-free) → await → lock → compare-and-set → two appends*;
- every command may be retried by its caller under the same `clientOpId`, also while the first try runs;
- within one process JavaScript interleaves only at awaits; between processes any two file-system calls may
  interleave; any process may be killed at any of them; pids may be reused;
- the terminal runs commands of one session in a lane (`serialize.ts`), yet sightings, turn ends, expiry and
  process exit are outside it;
- the runtime host's fence (`assertActive`) is what lets any runtime component mutate at all.

`PROJECT.json` lists all components with their status and, under `hazards`, the places where these
behaviours bite, each with the properties that watch it.

## 2. Layout

    ObjectLog            abstract: what the store promises
      ^ implemented by
    StoreEngine          two appends under the lock, readers, torn tails, boot
      | assumes exclusion        | delivers versions that only grow
      v                          v
    MutationLock         CommandReceipts   RuntimeHost   ArtifactStore
                                 |              | epochs, one runtime at a time
                                 v              v
                         RunOperations     ProviderTurns    MessageDelivery    DriftWatch
                                 |              |                 |                |
                                 +---- terminals, typing ----> TerminalInput <-----+

Each component has one module with its constants, assumptions, state, `Init`, one action per step of the
code, `Next`, `Spec` (and `FairSpec` where liveness is claimed), and at its end its properties. `MC<module>`
gives TLC concrete processes, calls or controllers; the `.cfg` files fix the bounds. Proofs live in
`<module>Proofs`, those of the lock and the receipts next to the store's in `StoreEngineProofs`, and the inductive
invariants of `RunOperations` in `RunOperationsInvariants`. Composition is by assume and guarantee: `StoreEngine` treats the lock as the exclusion that
`MutationLock` is shown to give; all others treat a store operation as the compare-and-set that `StoreEngine` is
shown to give, in the one runtime process that `RuntimeHost` is shown to leave (`ArtifactStore` is used outside it, and so
models what a second process sees of the store); `RunOperations` sees of a
terminal whether its process lives, `DriftWatch` and `MessageDelivery` see of a provider turn what it answers and
whether it was typed. A combined state space would be far out of TLC's reach.

Names follow the source. An action stands for the code between two awaits (or between two file-system calls
where processes race on files), with everything that code does; `map` in `PROJECT.json` gives the lines of
every definition. *History variables* (`raced`, `acked`, `lost`, `mishaps`, `typed`, `crossed`, ...) record
what happened and guard nothing.

Operators named `Definition_something` next to a definition are deliberate faults: the definition as a
plausible bug would have it. Each checked property has one that breaks it under the same configuration, which
is how we know that the property can fail.

## 3. The modules

### MutationLock

`lock.ts` and its two callers (`boot`, `withLock`). State: `dir` (the directory exists), `owner` (whose token
`owner.json` holds; a missing or half-written file reads as nobody), `alive`, `pc` per call, `polls`. One step
per file-system call: `Mkdir` (`mkdirSync`), `WriteOwner`, `FindDead`/`FindBusy`/`TimeOut` (`readLockOwner`,
`isPidAlive`, the deadline), `BreakUnlink`/`BreakRmdir` (the two calls inside `rmSync`), `Enter` (the await of
`withLock`), `ReleaseRead`/`ReleaseUnlink`/`ReleaseRmdir`. `CanStep` is the JavaScript thread: a synchronous
acquisition blocks its whole process.

| run | checks | shows |
|---|---|---|
| `lock_safety` | `TypeOK`, `ExclusionUnlessRaced`, `EveryCallSettles` | with two of three processes killed anywhere, one holder at a time, except when two survivors were removing the same dead lock at once; every call is answered |

### StoreEngine and ObjectLog

`createObject`/`updateObject` over `appendMutation`, `completeTrace`, the stat memo and `boot`. State: two
files, each whole lines plus a possibly torn tail; `tombs`; the lock holder; a boot stage and a memo per
process; per client where it is, its operation, the version it merged onto. A mutation is `Start` (everything
before the first await: findPriorOp, the quarantine gate, the merge), then `Conflict` or `AppendObject` and
`AppendTrace` inside the lock, or `CompleteTrace` for a line whose trace is missing. `FailObject`, `FailTrace`,
`FailComplete` cut a write anywhere, in a process that survives (the error is returned) or dies. Boot is
`CutObjs`, `CutTraces`, `NoteCut`, `Tombstone` with `BootBusy` and `FailNote`. `Glance`/`Expire` are the
50 ms memo: `Bust` drops it when the lock is taken and after an append that succeeded; after one that failed, landed or
not, what the read inside the lock memoised stays (`KeepsOld`). `landed` are the operations of which such a line
landed, `misled` those of them that were retried while their engine did not show it (`Hides`).

`ObjectLog` is the promise: one log, an operation enters it at most once, a create where nothing exists, an
update as the successor of the latest version, nothing leaves. `StoreEngine` implements it under the mapping
that forgets which version an update was merged from.

| run | checks | shows |
|---|---|---|
| `store_one` | `TypeOK`, `BootIsHarmless`, `ImplementsObjectLog` | one process with two overlapping calls and two crashes: boot cuts every torn tail before anything is appended, quarantines nothing readable, and the store is the abstract log |
| `store_retry` | `MutationsAreWhole`, `RetriesAreIdempotentUnlessMisled`, `RetryReconciles` | two processes retrying their own operations through failed writes that may have landed, lock timeouts and a crash: what was acknowledged keeps line and trace, a retry is not refused for its own line nor traced twice unless the memo hid that line from it, and a missing trace is eventually completed |

### CommandReceipts

`executeReceiptedCommand`: `FindNone`/`FindConflict`/`Replay`/`RefuseUncertain`/`Resume`/`FindRetryable`
decide on a lock-free read (any version not older than what the process has seen: `floor`), `Open`/`Reopen`
write with a compare-and-set, `Execute`/`Throw` are the command, `Reread` and `Settle` record the outcome,
whose failure the code ignores. The descriptor (`replaySafe`, `retainRetryableProgress`, `keepRunning`) and
the request of each attempt are chosen at the start.

| run | checks | shows |
|---|---|---|
| `receipts` | `ReceiptTypeOK`, `KeyIsOneCommand`, `AnswersAreReal`, `SettledIsFinalUnlessRaced` | for every descriptor and every mix of two requests: one request executes under a key, an unrepeatable command starts once, callers hear real results |

### RuntimeHost

`InstanceLease` (acquire, claim, release on `runtime/runtime.lock`), `EpochStore` (active, advance, settle) and
`composeRuntimeHost` (ensure, fence, stop, shutdown). A host is a process incarnation; `PidOf` lets a later one
reuse a pid. Each process has one ensure (`ensure`, `seen`, `todo`) and one stop (`stop`, `stopping`) under way.
`Ensure`/`Unlink`/`Claim` are acquire; `Observe`, `Lookup`, `Adopt`, `List`, `Supersede`, `Create`, `Own`,
`Recover` are takeOverOrObserve and advance, a store operation each; `EnsureFails`/`SettleFails` are errors,
with the write on disk or not. `mishaps` records the four events that break a promise: a living host's lock
was unlinked as debris, a lease was released or an epoch adopted across a concurrent stop, a stop's write
landed although it failed, an ensure failed between the new epoch and the end of recovery.

| run | checks | shows |
|---|---|---|
| `host` | `TypeOK`, `OneHostRulesUnlessRaced`, `EnsuredIsRecoveredUnlessHalfway` | of the steps modelled, those events alone can leave two active epochs, a fence open on a dead epoch, or an owner that never recovered (reads of the store are fresh here: section 8) |
| `host_live` | `ServedIfAsked` | if every host that stays up is asked again and again, some host is served again and again, whatever happened before; an ensure or a stop once begun comes to an end |

### TerminalInput

One session. Lane operations of several writes are sequences of steps (`lane`); `MarkStale`, `SeenAgain`,
`Lapse`, `BeginPlain`, `EndTurn`, `Exit`, `Crash` happen between any two of them. `leases` is the sequence of
all leases ever granted: the index is the generation, the value the holder while it is active. `reservation`
and `notice` are the two records of a notification (`Reserve`, `CommitNotice`, `TypeNotice`, `Confirm`,
`FinishNotice`, `AdoptNotice`, `CancelNotice`), `turn` the attempt and barrier of a provider turn (`Prepare`,
`Execute`, `TypeTurn`, `Submit`, `Settle`, ...). `typed` is the history of everything written to the PTY, with
the generation and the `inputSequence` it claimed.

| run | checks | shows |
|---|---|---|
| `terminal` | `TypeOK`, `OneGenerationWrites`, `BoundaryHasOneOwnerUnlessCrossed`, `KeyboardIsRecorded` | one typist at a time, nothing typed twice after any fault or restart, cancelled means never typed and confirmed means typed, old generations stay out |

### ProviderTurns

One run and its managed turns. Three durable records: `sub` (the submission of each turn), `att` (the terminal's
attempt and barrier, by submission and ordinal) and `run` (lifecycle, activity generation, operation fence, active
turn). Four processes work on them: the run's activity queue (`queue`: a controller's submission, completion,
repair), the inbox pump (`pump`, which bypasses that queue), the lifecycle operations (`ops`: bare turns,
interrupts, stop, the exit of the provider) and reconciliation (`recovery`). Each process is a program counter over
the store operations and port calls of its function; `fresh` says which record versions it still holds, which is
the compare-and-set. `Submitting` is `submitProviderTurn` from the look at the run to the committed activation,
`Completing` is `completeProviderTurn`, `Closing` the closure of an unprovable one, `Reconciling` the startup and
the periodic reconciliation. A fault ends an operation before or after its write lands; a crash ends all of them
and the provider. A prepare that is refused or fails has its submission rejected by a write whose result nobody asks for
(`RejectsController`, which may lose it); a refusal for good ends the command unless its receipt cannot be settled
(`EndsCommand`), and the failure of a store lets the caller send it again (`SubmitLosesPrepare`). Each lost write is
one failure (`Costs`).

| run | checks | shows |
|---|---|---|
| `turns` | `TypeOK`, `RecordsAgree` (`TypedOnce`, `VerdictsAreTrue`, `TerminalAgrees`), `CompletableUnlessInterrupted`, `RunMovesForward` | a controller's and a system turn with bare turns, interrupts, stops, exits, one failing operation and a crash with startup reconciliation: a text is typed once, a refusal means nothing was typed, completed means settled, a final run gets no further turn |

### RunOperations

What creates and ends runs. `runs`, `ops` (the RunOperation journals with the rungs of their ladder), `fences` and
`parent` are the records, `pty` the processes, `call` what each command is doing. A spawn climbs `Identity`,
`ReserveRun`, `JournalRun`, `ReserveTerminal`, `OpenTerminal`, `JournalTerminal`, `PatchTerminal`, `Furnish` (and
`PassGate`), `MakeReady`, `Settle`; a continuation fences and drains the old run first (`FenceOldRun`,
`DrainOldRun`) and ends it last (`closeRun`: `MarkStopping`, `Terminate`, `MarkUnsure` or `MarkStopped`); any rung
that fails goes to `CompensateTerminal`, `CompensateRun`, `CompensateOperation`, and for a continuation to
`ReleaseFencedRun`. Stop-tree is `CloseFence`/`CreateFence`, `ConfirmOrder`, `StopNext` with a `closeRun` each,
`FinishTree`, `SettleTreeStop`. Repair is `Judge`, then compensation or the rest of the tree, `RepairFence`,
`RepairSettle`. `Restart` is the death of the runtime with `reconcileAfterRestart`, `SettleGone` the settling of a
run whose terminal ended, `SendAgain` a client that sends a failed command again. Nothing serialises these
operations, so the compare-and-sets carry all of it: a call holds copies of the run versions it read (`copies`)
and of its journal (`entry`), and a write takes them from everybody else. `DescendantsOf` is the walk down the family
edges, by what it returns (the least set that is closed under `KidsOf`). `Ask` is a request, `Tidy` what a call forgets when it comes to rest.
The histories say what the exceptions of the properties are about: `crowd` (calls a fence did not hold back), `overlooked`
(live runs that were not the oldest of their agent), `lost` (releases that failed unnoticed), `asked` (agents somebody
stopped, or that lost a terminal), `meddled` (journals a call worked on next to a repair, or after it had been settled
or was ready) and `hollow` (continuations that took up a terminal that had ended).

| run | checks | shows |
|---|---|---|
| `operations` | `TypeOK`, `NoSilentOrphanUnlessUnjournalled`, `AgentKeepsARunUnlessUnwound`, `FencesServeTheirStop` (`FenceHasAnOwnerUnlessDoubled` and `FenceOpensOnAStoppedTreeUnlessRaced`) | every pair of commands at every interleaving, one of them sent again, with two failed writes, port failures, exits or restarts |

### MessageDelivery

A message on its way to one agent. `journal` is the SendJournal of each send, `delivery` the PendingDelivery of
each addressed message, `file` what the provider wrote, `ingested` the checkpoints, `call` the callers of
`sendConversationMessage` (the delivery pass is one of them), `pass` and `ingest` the two background activities of
which one each runs. `Accept`, `Prepare`, `Claim`, `StartTurn`, `Land` (external: the provider appends the line),
`Return`, `Settle` are a send; `StartPass`, `CloseStale`, `Observe`, `FailOverdue`, `Route`, `Report` a delivery
pass; `BeginIngest`, `Attach`, `Bind`, `Commit`, `Confirm`, `Deliver` an ingestion drain. Confirmation pairs the
journals that await a transcript with committed lines by text, session and fence, in dispatch order.

| run | checks | shows |
|---|---|---|
| `delivery` | `TypeOK`, `SentOnceUnderClaim`, `ConfirmationsAreHonest`, `FreshEvidenceWinsUnlessRaced` | racing callers, retries, a crash or failed write, a person typing the same text: one effect, a line confirms one send, and what is reported as seen was seen |

### DriftWatch

One activity-drift deadline (`deadline`) and the status notification of each of its quiet episodes (`note`), with
the delivery pass that types them. A check (`Load`, `Observe`, then the reducer `Reduced` and its effects
`ExpireQueued`, `EnsureStatus`, `EnsureEscalation`, `PersistDrift`) is serialised with nothing; the pass
(`ListWork`, `TakeUp`, `Authority`, `SubmitTurn`, the four steps of the claim, the three of the recorded
submission) types before it claims. The scheduler (`ClaimDue`), a person (`ResetEpisode`, `Acknowledge`) and the
transcript (`TranscriptObserves`, `TranscriptCloses`) write in between, and a crash ends check and pass anywhere.

| run | checks | shows |
|---|---|---|
| `drift` | `TypeOK`, `HalvesAgree`, `SilenceIsReal` (`EscalationFollowsRequest` and `MovementIsNotForgotten`), `CancellationHolds` | over two quiet episodes the two records tell one story but for the half-done ways that the property names; a person is called only after a submitted request went unanswered for three checks; movement is never taken for silence |

### ArtifactStore

One artifact, published by `putArtifact` calls under one `clientOpId` and swept by `sweepOrphans`, in several processes.
The publication lock is `root` and `dir` (whose `mkdir` made it), `owner` (whose token `owner.json` has) and `aged` (30 s
without an owner). `Enter`, `MakeDir`, `Own`, `Undo` acquire it; `Look`, `Confirm`, `Stat`, `ConfirmAge`, `TakeOver` are
`reclaimAbandonedPublication`, whose two looks are two steps; `ReleaseRead`, `ReleaseRemove` release it. A put goes on with
`Inspect`, then `WriteTemp` and `RenameTemp` or `Replay` over bytes that are there already, then `Append` (the look for an
earlier outcome) and `Commit`; a sweep with `List` and `Scan` before any lock and `Recheck`, `Trace`, `Unlink` under the lock
of each orphan. `blind` are the processes whose memoised stat of the store predates the record. `Fail` is an operation that
fails, landed or not; `Crash` a process that dies, also halfway through removing a lock.

| run | checks | shows |
|---|---|---|
| `artifacts` | `TypeOK`, `PublicationIsExclusiveUnlessRaced`, `RecordedBytesStayUnlessMisread` | a command line and a server that sweeps, a failing operation and a crash: one call at a time works on the artifact, a record keeps its bytes, a put that was told ok is on record, and nothing is deleted untraced; each exception in the names is needed |

## 4. Bounds, symmetry and views

Every bound is a named constant that appears in a guard.

- `MutationLock`: 3 processes, 4 calls, `MaxPolls = 1`. Exclusion is about pairs; a third process is what it
  takes for two survivors to find one dead holder's lock, the fourth call is a synchronous one next to an
  asynchronous one of the same process. A poll more only repeats a state with the counter moved.
- `StoreEngine`: one object (operations on different objects share nothing but the lock and the files, whose
  lines never interact), a create and one or two updates, two clients. `store_one` has one process and two
  crashes: the second crash hits the boot that repairs the first. `store_retry` has two processes, one crash,
  one survived failure and lock timeouts.
- `CommandReceipts`: three attempts, the least with which two overlap and a third replays; two of them in one
  process, one crash, one failed store operation, all descriptors, two requests.
- `RuntimeHost`: three processes, `host3` under the pid of `host1`; three epochs, one survived fault, one stop.
  Two survivors and a dead holder are needed for the lock race; a stop crosses one ensure. `host_live` allows
  seven epochs for two hosts so that the bound does not end the service: a host can mint at most once per
  boot, fault, stop and crossing.
- `ArtifactStore`: two processes, of which one sweeps, two puts, one sweep, one crash, one failing operation, three inputs of which
  two share their bytes (and are symmetric): a retry with the same, with other metadata, with other bytes. A dead holder
  with two survivors takes the second put and the sweep, both of the server.
- `TerminalInput`: two controllers, one notification, one managed and one unmanaged turn, two generations of
  leases, one write, one fault. Controllers are interchangeable and declared symmetric; safety only, so
  symmetry is sound. The `VIEW` identifies states that differ in what controllers do after the session has
  ended (nothing typed can follow) and in the order of typed inputs that no property compares.

- `ProviderTurns`: a controller's turn and a system turn (the two paths into a run), two preparations of one
  submission and two in all (a retry after a lost one; a run with three also held), four activity generations
  (so that two turns can be completed one after the other, or a turn goes stale against an interrupt or a bare
  turn), one fault, one crash. One fault keeps the run off the case in which two failures of one command leave a
  reservation that nobody rejects (section 7); with two, for a controller's turn alone, TLC finds `RecordsAgree` violated,
  and no longer does where no submission is prepared again over a reservation it left (`PreparesAfresh`). With one
  fault and one crash that never happens, as TLC confirmed on the instance of `turns`.
  `Modes = {"startup"}`: periodic reconciliation exists only in tests (section 7).
- `RunOperations`: two commands of any kind on top of an agent that runs, two troubles, one command sent again.
  Interference is between two commands (the fence against a spawn, two tree-stops, repair against the command it
  repairs), and the two troubles let a compensation fail as well as the step it compensates. A tree of
  three agents needs three commands; three commands without troubles held as well. Commands are symmetric.
- `MessageDelivery`: one send by a host, raced by two callers, and one delivery with the same text (the least with
  which one can be taken for the other), two sessions, two lines, one of them a person's, one crash or failed
  write. Sessions and callers are symmetric.
- `DriftWatch`: one checker, two episodes (the second shows what is left over from the first), two fingerprints.
  Two concurrent checkers with one episode also hold, and the theorems hold for any number of both. Time is abstracted: whatever may be due, is.

`CHECK_DEADLOCK FALSE` is set where the system may rightly come to rest: every bounded action has been used and
nobody has anything to do. `MutationLock` says the same with the action `Finished`, and `StoreEngine` never
stops.

## 5. Fairness

- `MutationLock`: weak fairness of a call's own steps. A running process runs its timers and its thread; no
  call has to begin, no process has to die.
- `StoreEngine`: weak fairness of commits, boots, memo expiry, and of `Start`, i.e. a caller that was told to
  retry does. None for readers, failures or crashes. `RetryReconciles` needs the retry: nothing in the code
  completes a missing trace on its own.
- `RuntimeHost`: weak fairness of an ensure that has begun (`EnsureGoesOn`) and of a stop that has begun: the event loop
  continues them, and a retry after an answer is not part of it. Nothing makes a host call ensure again: serving calls it
  once (`server/core/runtime-host/runtime-wire.ts:272`), and after that only an explicit `b3.runtime.ensure` does
  (`methods.ts:101`), so a host that merely observes does not notice that the holder died. That every host that stays
  up is asked again is therefore the hypothesis of `ServedIfAsked` (`EveryHostIsAskedAgain`) and not part of the
  specification. Failures and deaths are never required.
- All other modules claim safety only: their operations wait for a user who types, a provider that finishes, a
  caller that retries or a person who repairs, which is nobody's promise.

## 6. Proofs

All theorems are `Spec => ...`, for every value of the constants, from the assumptions the module states
about them (`LockAssumption`, `StoreAssumption`, `ReceiptAssumption`, `HostAssumption`, `TerminalAssumption`,
`MessageAssumption`, `ArtifactStoreAssumption`, `TurnsAssumption`, the `Parameters` of `RunOperations`, and of `DriftWatch` `EpisodeAssumption` and `CheckerAssumption`).
Some theorems have a hypothesis of their own, which is part of their statement: `Harmless` and `Retries` hold of a
store used in the way that `OneWriter` and `SeparateCallers` describe, and of no other, and the safety of provider
turns is proved for a runtime that reconciles when it starts (`StartupOnly`), which is the only time the program
does: `reconcileProviderTurns` (`runs-compose.ts:447`), which reconciles while it runs, is called by tests alone. It is
proved of behaviours in which no controller's submission is prepared again over a reservation that an earlier
preparation left (`PreparesAfresh`): outside them the code breaks it (section 7).

- **StoreEngineProofs**, on the mutation lock (`LockTypeCorrect`, `LockInvariant`, `Exclusion`, `ForeignErrors`,
  `CrashFreeExclusion`). `ExclusionUnlessRaced` is not inductive: a holder is
  only safe because of what `owner.json` says. `LockInv` adds that at each stage of a hold the file names the
  holder (or nobody, before it is written and after it is unlinked), that a takeover happens only over a dead
  owner's or an empty directory with nobody inside, and that both groups have at most one member.
- **StoreEngineProofs**, on the store (`Inductive`, `TypeCorrect`, `Whole`, `Implements`, `Harmless`, `Retries`).
  Two chains of argument in one `IInv`. For wholeness, `Pending`: a call that is about to write a trace has its object line already (or lost it to a
  torn tail), so a trace is never ahead of its object, and a prior trace that a reader finds, however old its
  view, is evidence enough to acknowledge. For the refinement to `ObjectLog`, `Versions`: in every prefix of the
  store file an object that occurs has a highest version (`Summit`), so `Latest` of a stale view is a number and
  `Latest` inside the lock is the maximum; and the line of an update is the successor of the version that its
  operation expects, which is settled by the first attempt (`ExpectedStays`). So once the line is there, the
  compare of a second attempt fails: an update is committed at most once although nothing inside the lock looks
  for the operation's name. `FilesMove` does the case analysis once: every action leaves the files alone, appends
  one object line after a compare-and-set, or appends one trace.
  `Harmless` is about a store that one process writes and whose appends neither fail halfway nor meet a lock that
  times out (`OneWriter`): then a file is torn only between the death of the process and its boot, and at most one
  file is (`Tidy`); a process that has not booted yet has no memo, so its boot reads whole files, finds the object
  of every trace and quarantines nothing. `Retries` is about clients that send no operation to two engines at once
  (`SeparateCallers`: two clients that may run the same operations are the same client). An engine shows its
  client the client's own lines, because an append that succeeds drops the memo, except lines of appends that failed and
  landed (`OwnLinesAreSeen`), and what it shows only grows (`ReadsAreMonotone`); so each attempt of an operation sees what
  the attempts before it left, or it is one of the `misled`, of which the theorem does not speak.
- **StoreEngineProofs**, on the receipts (`ReceiptInvariant`, `ReceiptTypeCorrect`, `OneCommand`, `RealAnswers`, `SettledStays`).
  `ReceiptInv` says that all versions of a receipt are about one request and whoever works on it has that request
  (`OneRequest`), that an unrepeatable command is never picked up from an existing receipt (`NoSecondStart`),
  that results and stored outcomes come from executions (`Provenance`), and that in an orderly history one
  attempt is at work, on a receipt that is not settled (`OneAtATime`). `AtMostOnce` follows although reads are
  stale, because only an attempt that created the receipt may execute such a command, and the create is a
  compare-and-set on absence.
- **RuntimeHostProofs** (`TypeCorrect`, `OneHost`, `RacersAgree`, `FenceHolds`, `RecoveryHasRun`, `EpochsSettleOnce`). `Exclusive`:
  an ensure that advances holds the lease all the while and its list still covers every active epoch, so that
  when the list is empty nothing is active and the new epoch is the only one; two hosts cannot both be
  advancing, since a lease names one pid and running pids are distinct. `Current`: an epoch that is owned or
  being stopped is the holder's own, and stays active until its own stop settles it, so nobody but the holder
  can take it away, and the holder's own ensure would have adopted instead of superseded. `Minted`: without a
  twin of the same pid every epoch of a pid was minted by the process that has it now, so what it adopts it
  has recovered into. Each holds until the mishap that its theorem names has happened, which is why the
  theorems and not only the runs say that there is no other way.
- **MessageDeliveryProofs** (`Inductive`, `TypeCorrect`, `SentOnce`, `Honest`, `FreshWins`). `OneEffect`: whoever is
  about to hand a turn over has moved the journal to dispatching itself, no two callers have done so for one send,
  and a send with an effect never becomes claimable again, whatever a crash forgets. `RouterHolds`: while the pass
  is inside a send its step is `submit`, so none of the steps that close or fail claims can run. `Ordered`: the
  dispatch order names every claimed send once, so of two sends that one confirmation pass proves, one consumed
  its line before the other looked (`Apart`); across passes the recorded lines (`LinesOK`) are excluded.
  `EvidenceHeld`: confirmed is final, and between observation and the deadline nothing confirmed at the start of
  the pass is still submitted. `MessageAssumption` says that the sessions are finite, that `None` is none of the
  named things, and that the pass is not a host's caller. `JournalsMove` and `DeliveriesMove` do the case analysis
  once.
- **ArtifactStoreProofs** (`Inductive`, `TypeCorrect`, `Exclusive`, `BytesStay`). `LockOK` says what the directory is at each stage:
  it is one's own and unsigned between `mkdir` and `owner.json`, a dead call's while somebody is about to remove it, and
  signed by whoever is inside; at most one call is about to remove it. `DataOK` gives what a holder may rely on at each step
  (no record and no bytes before the rename, its own bytes before the record, no record before the bytes are deleted), which
  is inductive because everybody else is outside. `WorkersOK` (a call at work has a live process) is what makes a dead call's
  directory nobody's.
- **TerminalInputProofs** (`Inductive`, `TypeCorrect`, `OneGeneration`, `Boundary`, `Keyboard`). A promise about what
  was typed depends on the step the lane is at, so `NoticeOK` and `TurnOK` say for each step what the record and
  the keyboard hold there; only that makes "never typed twice" and "confirmed means typed" inductive across an
  operation that gives up halfway. `LeasesOK`: between the revocation and the grant, and from an interrupt's
  revocation to its Control-C, nobody holds a lease, and a detach under way has given up its own already.
  `GenerationsOK`: what an interrupt types is ahead of the leases only while nobody holds one, so that the next
  holder's first write is not fenced by it. `BoundaryOK` needs the claim on the boundary to stay away until a
  lease is granted (one lane, and the reservation and the turn wait for it) and drafts only of those present.
  `LaneMoves`, `LeasesMove`, `NoticeMoves`, `TurnMoves` and `TypedIs` do the case analysis once.

- **DriftWatchProofs** (`Inductive`, `TypeCorrect`, `Agreement`, `Silence`, `Cancellation`). `HalvesAgree` says what
  the notification says next to the deadline, but who makes it false again are checks and passes that read one of
  them long ago. So `IInv` says what each of them has in hand: a check works on a state that the deadline once had,
  and before it writes the deadline it has written the effect that belongs to that state (`CheckOK`); the pass has
  typed from `claim` on, and while its copies are fresh the deadline and the notification are at the step it is at
  (`WorkerOK`). `DeadlineOK` and `Shape` give what the reducer keeps of any deadline (a submitted request was typed,
  an escalated one has its human notification, movement is pending only while claimed); `NoteOK` and `EpisodeOK`
  give each episode's notification (episodes after the deadline's have none, an expired one was not typed unless a
  pass overtook its cancellation). The run has one checker; the theorems hold for any number of concurrent checks
  and of episodes.

- **ProviderTurnsProofs** (`TypeCorrect`, `Inductive`, `Agreement`, `Completable`, `MovesOnward`). None of the
  promises is inductive, for two reasons. They relate three records that are written one at a time, so `RecordsOK`
  says what holds of each of them next to the others after every write: what the provider may be working on is
  what the fence names (`BusyOK`), the fence names an attempt of its submission's generation (`FencedOK`), an
  active turn is fenced and submitted (`ActivatedOK`), and what was typed stays under the fence until there is a
  verdict (`TypedOK`). And a process decides on copies it has read earlier, so `SubmitterOK`, `CompleterOK`,
  `CloserOK`, `OpsOK` and `ReconcilerOK` say what it may rely on at each of its steps: what nobody else can change,
  and what is so as long as its copy of the run is fresh, which is all that a compare-and-set has to be told. The
  case analysis is done once: every action is one of some thirty moves (`Move`), taken by a process that owns the
  submission (`Owns`); every move keeps `RecordsOK` (`RecordsKept`); a process's own step leaves it with what its
  next step needs (`...Knows`), and nobody else's move takes that away (`...Kept`). `FirstOK` (of a controller's
  submission at most one attempt is neither absent nor rejected) is what makes a lost reply harmless: after a crash, an
  attempt found without effect was never typed by another attempt either. It is kept because nothing is prepared over a
  standing reservation (`PreparesAfresh`); any number of failures and crashes is allowed otherwise. `TypeCorrect` needs no hypothesis at all, and its own strengthening (`RoomOK`): a generation that is
  about to be written has been checked against the bound on a copy that is still fresh.

- **RunOperationsProofs** (`TypeCorrect`, `OrphansAreOnRecord`, `AgentsKeepARun`, `FencesHaveOwners`, `FencesServe`), with the
  invariants in **RunOperationsInvariants**. Any number of commands of five kinds interleave at every await, so the proofs
  first say what each action does, field by field, to the call that takes it and that everybody else only loses copies
  (`SendDoes` to `RestartDoes`, in words like `Goes`, `Acts`, `Climbs`, `Writes`, `Marks`); after that no action is opened
  again. On it stand, each on those before it:
  - `Shape`: where a call can be, given its command, and what it then holds (a run, a journal, a victim, a fence of its
    target); whose a run, a journal and a fence are. `Grows`: what no step takes back (rungs, agents of runs, requests,
    dead terminals, histories).
  - `Guarded`: a journal that was not meddled with has one worker, its call or its repairs, and a call that climbs finds
    no `ready` rung. `Fitted`: who is as good as ready has a terminal, and a copy that is about to be marked stopped and is
    still fresh is of a run whose terminal is dead. `Mended`: what a compensation found out about a terminal stays true while
    it is at work. With these `AllRecorded` is inductive, which says of every ended run with a living terminal that the run
    is in doubt or its journal is not completed, and of a completed journal that its run names its terminal
    (`OrphansAreOnRecord`).
  - `Kept`: a run that has worked and of whose agent nobody asked anything is live, or a continuation of it came as far as
    furnishing its own run; its terminal dies only for such a successor. `Informed` says what the calls know of that, and that a
    replacement is younger than what it replaces (`Precedes` in the order of creation). The agent's youngest run that has
    worked therefore lives, or its successor fails and is the `Unwound` of the exception (`AgentsKeepARun`).
  - `OwnerInv`: whoever is about to complete a journal has opened its fence, or that is known to be lost, meddled with or
    doubled (`FencesHaveOwners`).
  - `OpenInv`: the crowd of a fence is complete (`Counted`: whoever was admitted and is not in it is of another family,
    and stays so because a family edge is only added below the agent that was asked about); what a sweep has behind it
    stays stopped (`Swept`), and so does what an unfinished one recorded (`Rest`), for a run comes alive only for a call
    that was admitted (`Arises`) and a tree grows only by agents without runs (`Grafts`). Trees are the least
    closed sets, so what is proved of them needs no induction. A sweep that opens its fence has nothing left, hence
    the second half of `FencesServe`, which is an action property.

Not proved, only model-checked: all liveness (`EveryCallSettles`, `RetryReconciles`, `ServedIfAsked`), which is out
of the prover's reach. Every safety property that a run checks is a theorem.

## 7. What the code does differently

The exceptions in the names of the passing properties (`...Unless...`) are behaviours of the code as well; without
the exception TLC finds them:

- *ExclusionUnlessRaced, OneHostRulesUnlessRaced*: two survivors that read the same dead holder can both remove the
  lock, the second one removing the lock the first has just taken: two live holders (`lock.ts:52`), and likewise
  for the instance lease (`file-lease.ts:88-92`), with two active epochs against `epochs.ts:3-5`; a stop or
  shutdown of the same process releases the lease under a running ensure, which then supersedes the epoch of the
  host that took over meanwhile (`compose.ts:114-116`);
- *EnsuredIsRecoveredUnlessHalfway*: after a recovery that failed, the next ensure answers "already ours" and
  recovery never runs (`compose.ts:117`);
- *SettledIsFinalUnlessRaced*: of two overlapping attempts of a replay-safe command the slower one overwrites the
  faster one's settled outcome (`receipts.ts:254`);
- *BoundaryHasOneOwnerUnlessCrossed*: a provider turn can be prepared while a notification is reserved
  (`provider-turn-input.ts:217`), and a stale window can come back with its draft (`presence.ts:74`, against
  `records.ts:90`);
- *RetriesAreIdempotentUnlessMisled*: `bustStampCache` runs only after an append that succeeded (`engine.ts:223`). When
  the line landed and the `fsync` or the close threw, the memo that the read inside the lock has just taken stays for
  50 ms, so an immediate retry on that engine does not see its own line and conflicts with it, or writes its trace
  twice - against "after every append it performs" (`engine.ts:280-281`) and "Nothing was appended; the op is
  retryable" (`engine.ts:1153`);
- *Agreement*, of which the theorem excepts by `PreparesAfresh`: the patch that rejects a controller's submission is not
  looked at (`provider-turns.ts:341-349`), and a store failure of prepare is retryable, so that the receipt is opened
  again (`receipts.ts:220-222`). If the reservation landed, prepare failed, and the rejection got lost, the command sent
  again prepares and types a second attempt next to the first; if the runtime dies before that is recorded,
  reconciliation (`provider-turns.ts:548-602`) finds the first one without effect and marks the submission rejected with
  `effectEscaped: false`, although it was typed;
- *CompletableUnlessInterrupted*: an interrupt moves the run's activity generation and not the turn's, so an
  interrupted managed turn can never be completed and its fence stays, although the terminal has a verdict for
  exactly this (`barrier-won-before-completion`, `provider-turns.ts:1355`);
- *FreshEvidenceWinsUnlessRaced*: evidence that arrives between the observation and the deadline of one pass comes
  too late (`maintenance.ts:42`);
- *HalvesAgree*: a submission that stops between the notification and its deadline leaves the deadline claimed for
  good, because the recovery answers as soon as the notification says submitted
  (`notification-delivery-replay.ts:103`, against its line 70; stated as `BookkeepingIsFinished`, which does not hold);
- *FenceOpensOnAStoppedTreeUnlessRaced*: spawn and continue look at the fence once, before their journal is opened
  (`spawn.ts:119-126`), so one that was admitted earlier still adds its child; a resumed spawn asks only about its
  parent, not about the agent it has created itself; and of an agent with two live runs (a continuation whose old
  run could not be ended) only the oldest is stopped while success is reported (`runs-context.ts:187`);
- *FenceHasAnOwnerUnlessDoubled*: a failed release is ignored (`stop-tree.ts:107`), the operation is completed under
  a closed fence and its repair does nothing; two tree-stops that list at the same time create two fences;
- *AgentKeepsARunUnlessUnwound*, *NoSilentOrphanUnlessUnjournalled* and *FenceHasAnOwnerUnlessDoubled* except what `meddled`
  records: `repair.ts:82` takes an operation for stranded when its journal names a dead epoch, and `openOperation`
  (`journal.ts:72`) does not stamp the current one on a journal it finds. The repair of a command that is sent again
  after a restart then compensates what the live command has just built, or completes a stop-tree's journal under a
  command that closes its fence afterwards, against "A live attempt in the CURRENT epoch is not stranded"
  (`repair.ts:81`). And `advance` (`journal.ts:129`) leaves a journal as it is whose `run-ready` rung is recorded, so
  a command that failed after that rung and is sent again succeeds under a journal that stays `recovery-required`,
  and a later repair ends the run that works;
- *AgentKeepsARunUnlessUnwound*: a continuation that fails after it has ended the old run ends its replacement too,
  against "never a moment with no Run at all" (`continue.ts:170-174`). The same comes of a continuation that is sent
  again when the terminal it had opened has ended: only spawn looks at that, and the old run is ended for a
  replacement without a process (`continue-launch.ts:83`; `hollow`);
- *PublicationIsExclusiveUnlessRaced*: two calls that judged the same dead owner, or the same unsigned directory, remove the
  lock by name one after the other (`publication-lock.ts:70`, `95`); a live process that needs 30 s between `mkdir` and
  `owner.json` is taken for dead;
- *RecordedBytesStayUnlessMisread*: the recheck under the lease (`orphan-sweep.ts:216`), the comparison of a replay
  (`artifacts.ts:241`) and the dedup of `createObject` read through the 50 ms stat memo of their process
  (`engine.ts:283-305`), which no lease refreshes. What another process has recorded in that time is not seen: the sweep
  deletes the bytes of a recorded artifact. `tests/orphan-sweep.test.ts` shares one engine between the two;
- *NoSilentOrphanUnlessUnjournalled*: a continuation has no terminal-reserved rung, so a terminal it opened and could
  not journal stays alive under a failed run that nobody doubts (`continue-launch.ts:83`).

Noticed while reading, and visible in the models, without a property of their own:

- killed between `mkdir` and `owner.json`, a process leaves a lock nobody may break (`lock.ts:46`); every
  acquisition then times out. A torn `runtime.lock` that names nobody does the same to the lease
  (`file-lease.ts:83-95`; not modelled);
- a second process that stays up appends to the tail that a dead one left, and both lines are unreadable
  (`engine.ts:218`; the `lost` of `StoreEngine`); the compare-and-set sees version numbers, not the content an update
  was merged from (`api.ts:314`);
- overlapping retries of one operation conflict with themselves (`api.ts:240`) or write its trace twice
  (`engine.ts:1275`), which is why `RetriesAreIdempotentUnlessMisled` is checked and proved for one client per operation; a completed update
  is traced as a create (`api.ts:99`); the result of `completeTrace` is ignored (`api.ts:244`);
- a host that only observes never takes over by itself when the holder dies: ensure is called once at serve
  (`runtime-wire.ts:272`);
- boot sets `booted` before it reconciles (`engine.ts:970`), so a failure half way is not repeated; it reads
  through the memoised stat (`engine.ts:959`) and can tombstone an object that was created since, which is why
  `BootIsHarmless` is checked and proved for one process;
- a receipt whose create landed but reported an error answers `recoveryRequired` for ever when the command is
  not replay safe, although nothing was executed;
- Control-C may reach an unmanaged turn that began after the one it was meant for (`interrupt.ts:112`); a barrier
  that landed but reported an error leaves an interrupt without its Control-C (`interrupt.ts:102`); a controller's
  attempt is recorded only after its bytes are typed (`input.ts`), unlike a notification's;
- `beginProviderTurn` replaces an active managed turn without asking for a safe boundary (`lifecycle.ts:144-183`),
  and `endProviderTurn` can end one and leave its fence. Periodic reconciliation (called by tests only,
  `provider-turns.ts:692`) can quarantine a healthy attempt and write on a final run, which is why `turns` runs with
  the startup mode;
- a send whose process died after the claim stays `dispatching`; the transcript is never asked about it although
  `maintenance.ts:46-49` says it can still prove what happened (`StaleClaimCanStillBeProved`, which does not hold); a
  transcript line with the same text confirms a send that was lost; sends of one agent to two of its sessions stall
  the ingestion of a source (`send-journal-state.ts:195`);
- drift: the deadline has one activity generation for its life; in the shipped composition the authority asks for a
  notification reservation that the runtime's own path never creates (`runtime-supervision.ts:33-68`), so recorded
  submissions are refused there; a request whose deadline was never written is typed and then conflicts for ever
  (`drift-quiet.ts:34`); a claim does not ask whether the notification has expired (`delivery.ts:171`);
- a final run is not final (`FinalRunsStayFinal`, which does not hold): a gated spawn makes a run ready that was
  stopped meanwhile, and a continuation sent again takes up its failed run. `releaseFencedRun` gives up the fence of
  another continuation (`continue.ts:127`); a run whose creation was not journalled stays `provisioning` and blocks
  its own retry.

## 8. Not modelled

Payload bytes, formatting, validation, HTTP, user interface, and configuration: no property here is about them.
In the modelled components: batches (`recordBatch`, `appendMutationBatch`), quarantine resolution, the
store-route cutover, schema migration and the legacy root of the store; the 50 ms stat memo in what the runtime host reads
of epochs (a narrow second way to two active epochs, of which `OneHostRulesUnlessRaced` does not speak); the census, session stopping and
doctor report of the runtime host, and lock files that cannot be parsed; viewports, principals, replay and
streaming of the terminal; authority, plans, grants, supervision and headless children of the run operations, and
adoption; session classification, adoption and truncated sources of ingestion; ordinary notifications, watch
rules and the due page of supervision; the next-turn delivery of the notification worker; more than one artifact, the reading operations and a pid that is given to another process in the
artifact store. Usage projection, read
models, the screen recognition of the skills gate and the shell have no concurrency of their own.

Whole components without a module: the messaging writer lease (the same protocol as `MutationLock` and
`RuntimeHost`), the older chat sessions of Agents, governed roles and plans, Projects, Browser, and the
server's wiring.

## 9. Plan

Done: the store and its lock, receipts, the runtime host, the terminal boundary, provider turns, run operations,
messaging, drift and its delivery, artifacts. What would come next, in this order:

1. batches in `StoreEngine` (members, then a receipt, with a death in between);
2. ordinary notifications with their fences and the next-turn delivery over a terminal reservation, for which
   `TerminalInput` would be shown to implement an abstract reservation (reserved, then committed or cancelled);
3. three commands with troubles in `RunOperations`, by splitting tree operations from ladder operations;
4. the safety of provider turns for a runtime that also reconciles while it runs, should the program start to.
