----------------------------- MODULE DriftWatch -----------------------------
(***************************************************************************)
(* One activity-drift deadline of Supervision and the status requests it   *)
(* causes, together with the delivery that types them.                     *)
(*                                                                         *)
(* Two durable records tell one story: the deadline (which episode is      *)
(* quiet, whether its status request is queued, claimed, submitted,        *)
(* unanswered, escalated) and the notification of that episode (queued,    *)
(* claimed, submitted, observed).  Nothing writes both at once: every      *)
(* operation writes one, then the other, each under the version it read.   *)
(* checkRunDrift is not serialised by the owner's queue, the delivery pump *)
(* never is, and a person, the transcript and the scheduler write in       *)
(* between.  The provider's effect comes before the claim.                 *)
(*                                                                         *)
(* A record's version is modelled by who still holds the current one: every*)
(* write takes it from all others, and a write whose author does not hold  *)
(* it is refused, which is the compare-and-set of the store.               *)
(***************************************************************************)
EXTENDS Integers, FiniteSets

CONSTANTS
    Checkers,       \* concurrent calls of checkRunDrift
    Prints,         \* fingerprints of the free evidence
    NoPrint,        \* no evidence was ever sampled
    MaxEpisodes     \* bound: quiet episodes one deadline goes through

ASSUME PrintAssumption == NoPrint \notin Prints
ASSUME EpisodeAssumption == MaxEpisodes \in Nat \ {0}
ASSUME CheckerAssumption == "worker" \notin Checkers

VARIABLES
    evidence,   \* the fingerprint the owners of the evidence answer now
    deadline,   \* the WatchDeadline with its DurableDriftState
    note,       \* the status notification of each episode
    escalated,  \* the episodes whose human escalation was queued
    asked,      \* history: the episodes whose request became outstanding
    typed,      \* what the runtime durably knows of each episode's provider turn
    checker,    \* the local state of each checkRunDrift
    list,       \* the candidates the delivery pass listed and has not taken up
    worker,     \* the notification in the pass's hands and how far it is
    holds,      \* who holds the deadline's current version
    holdsNote,  \* whether the worker holds its notification's current version
    answered,   \* history: the episodes the delivery reported as delivered
    halved,     \* history: a submission that stopped between its two records
    overtaken,  \* history: cancelled when already typed or in a worker's hands
    moved       \* history: movement was recorded while the request was claimed

vars == <<evidence, deadline, note, escalated, asked, typed, checker, list, worker,
          holds, holdsNote, answered, halved, overtaken, moved>>
records == <<deadline, note, escalated, asked>>
delivery == <<typed, list, worker, holdsNote, answered, halved>>

Episodes == 1..MaxEpisodes
Submitted == {"confirmed", "unconfirmed"}
Worker == "worker"
Holders == Checkers \union {Worker}

NoClosure == [episode |-> 0, how |-> "none"]

-----------------------------------------------------------------------------
(* The records. *)

DriftStates ==
    [phase : {"observing", "outstanding", "escalated"},
     quiet : 0..2,
     ordinal : 0..MaxEpisodes,
     status : {"none", "queued", "claimed"} \union Submitted,
     pending : BOOLEAN,
     count : 0..3,
     print : Prints \union {NoPrint},
     closed : [episode : 0..MaxEpisodes,
               how : {"none", "cancelled", "answered"}]]

Notifications ==
    [state : {"absent", "queued", "offered", "uncertain", "observed",
              "acknowledged", "expired"},
     attempt : {"queued", "claimed"} \union Submitted]

Armed ==
    [phase |-> "observing", quiet |-> 0, ordinal |-> 0,
     status |-> "none", pending |-> FALSE, count |-> 0, print |-> NoPrint,
     closed |-> NoClosure]

Idle == [pc |-> "idle", episode |-> 0, replay |-> FALSE]
NoCheck == [pc |-> "idle", read |-> Armed, seen |-> NoPrint]

TypeOK ==
    /\ evidence \in Prints
    /\ deadline \in DriftStates
    /\ note \in [Episodes -> Notifications]
    /\ escalated \subseteq Episodes
    /\ asked \subseteq Episodes
    /\ typed \in [Episodes -> {"none"} \union Submitted]
    /\ checker \in [Checkers ->
           [pc : {"idle", "observe", "effect", "persist"},
            read : DriftStates, seen : Prints \union {NoPrint}]]
    /\ list \subseteq Episodes
    /\ worker \in
           [pc : {"idle", "authority", "submit", "claim", "find", "claimDeadline",
                  "claimNote", "record", "recordNote", "recordDeadline"},
            episode : 0..MaxEpisodes, replay : BOOLEAN]
    /\ holds \subseteq Holders
    /\ holdsNote \in BOOLEAN
    /\ answered \subseteq Episodes
    /\ halved \subseteq Episodes
    /\ overtaken \subseteq Episodes
    /\ moved \subseteq Episodes

Init ==
    /\ evidence \in Prints
    /\ deadline = Armed
    /\ note = [e \in Episodes |-> [state |-> "absent", attempt |-> "queued"]]
    /\ escalated = {}
    /\ asked = {}
    /\ typed = [e \in Episodes |-> "none"]
    /\ checker = [c \in Checkers |-> NoCheck]
    /\ list = {}
    /\ worker = Idle
    /\ holds = {}
    /\ holdsNote = FALSE
    /\ answered = {}
    /\ halved = {}
    /\ overtaken = {}
    /\ moved = {}

-----------------------------------------------------------------------------
(* The reducer: what one check makes of the state it read and the evidence  *)
(* it saw.                                                                  *)

Moved(d, seen) == d.print # seen

Outstanding(d, e) == d.phase = "outstanding" /\ d.ordinal = e

(* The episode is over; the next sample starts from rest. *)
Resting(d, seen, closed) ==
    [phase |-> "observing", quiet |-> 0, ordinal |-> d.ordinal,
     status |-> "none", pending |-> FALSE, count |-> 0,
     print |-> seen, closed |-> closed]

Closure(d, how) == [episode |-> d.ordinal, how |-> how]

AfterMovement(d, seen) ==
    CASE d.phase = "outstanding" /\ d.status = "queued" ->
             Resting(d, seen, Closure(d, "cancelled"))
      [] d.phase = "outstanding" /\ d.status = "claimed" ->
             [d EXCEPT !.print = seen, !.pending = TRUE]
      [] d.status \in Submitted -> Resting(d, seen, Closure(d, "answered"))
      [] d.phase = "observing" -> Resting(d, seen, d.closed)

(* Mutant: nobody is asked for help, the checks are counted on and on.       *)
AfterQuiet_uncapped(d) ==
    CASE d.phase = "observing" /\ d.quiet = 0 ->
             [d EXCEPT !.quiet = 1, !.ordinal = @ + 1]
      [] d.phase = "observing" /\ d.quiet = 1 ->
             [d EXCEPT !.phase = "outstanding", !.quiet = 2,
                       !.status = "queued", !.closed = NoClosure]
      [] d.phase = "outstanding" /\ d.status \in Submitted ->
             [d EXCEPT !.count = @ + 1]
      [] OTHER -> d

AfterQuiet(d) ==
    CASE d.phase = "observing" /\ d.quiet = 0 ->
             [d EXCEPT !.quiet = 1, !.ordinal = @ + 1]
      [] d.phase = "observing" /\ d.quiet = 1 ->
             [d EXCEPT !.phase = "outstanding", !.quiet = 2,
                       !.status = "queued", !.closed = NoClosure]
      [] d.phase = "outstanding" /\ d.status \in Submitted ->
             IF d.count < 2
             THEN [d EXCEPT !.count = @ + 1]
             ELSE [d EXCEPT !.phase = "escalated", !.count = 3]
      [] OTHER -> d

Reduced(d, seen) == IF Moved(d, seen) THEN AfterMovement(d, seen) ELSE AfterQuiet(d)

(* The record a check writes before it writes the deadline, if any. *)
Effect(d, seen) ==
    CASE Moved(d, seen) /\ d.phase = "outstanding" /\ d.status = "queued" -> "expire"
      [] ~Moved(d, seen) /\ d.phase = "observing" /\ d.quiet = 1 -> "request"
      [] ~Moved(d, seen) /\ d.phase = "outstanding" /\ d.status \in Submitted
             /\ d.count = 2 -> "escalate"
      [] OTHER -> "none"

-----------------------------------------------------------------------------
(* checkRunDrift, one call. *)

StepTo(c, pc) == checker' = [checker EXCEPT ![c].pc = pc]
Give(c) == /\ checker' = [checker EXCEPT ![c] = NoCheck]
           /\ holds' = holds \ {c}

Load(c) ==
    /\ checker[c].pc = "idle"
    /\ checker' = [checker EXCEPT ![c] = [pc |-> "observe", read |-> deadline,
                                          seen |-> NoPrint]]
    /\ holds' = holds \union {c}
    /\ UNCHANGED <<evidence, records, delivery, overtaken, moved>>

(* The evidence is read from its owners while others write.  A bound keeps   *)
(* the number of episodes finite.                                            *)
Observe(c) ==
    /\ checker[c].pc = "observe"
    /\ LET d == checker[c].read IN
       /\ Moved(d, evidence) \/ d.phase # "observing" \/ d.quiet = 1
              \/ d.ordinal < MaxEpisodes
       /\ checker' = [checker EXCEPT
              ![c].seen = evidence,
              ![c].pc = IF Effect(d, evidence) = "none" THEN "persist" ELSE "effect"]
    /\ UNCHANGED <<evidence, records, delivery, holds, overtaken, moved>>

(* Not due, another generation, or evidence nobody could read. *)
Refused(c) ==
    /\ checker[c].pc = "observe"
    /\ Give(c)
    /\ UNCHANGED <<evidence, records, delivery, overtaken, moved>>

(* A write of a notification takes its version from the worker. *)
WriteNote(e, state, attempt) ==
    /\ note' = [note EXCEPT ![e] = [state |-> state, attempt |-> attempt]]
    /\ holdsNote' = (holdsNote /\ worker.episode # e)

InFlight(e) == e \in list \/ worker.episode = e

(* Movement met a queued request: expire the notification first. *)
ExpireQueued(c) ==
    LET d == checker[c].read
        e == d.ordinal IN
    /\ checker[c].pc = "effect"
    /\ Effect(d, checker[c].seen) = "expire"
    /\ \/ /\ note[e].state = "expired"
          /\ StepTo(c, "persist")
          /\ UNCHANGED <<note, holds, holdsNote, overtaken>>
       \/ /\ note[e] = [state |-> "queued", attempt |-> "queued"]
          /\ WriteNote(e, "expired", "queued")
          /\ overtaken' = IF typed[e] # "none" \/ InFlight(e)
                          THEN overtaken \union {e} ELSE overtaken
          /\ StepTo(c, "persist")
          /\ UNCHANGED holds
       \/ /\ note[e].state # "expired"
          /\ note[e] # [state |-> "queued", attempt |-> "queued"]
          /\ Give(c)
          /\ UNCHANGED <<note, holdsNote, overtaken>>
    /\ UNCHANGED <<evidence, deadline, escalated, asked, typed, list, worker,
                   answered, halved, moved>>

(* Two quiet intervals: the status notification is created, or found. *)
EnsureStatus(c) ==
    LET e == checker[c].read.ordinal IN
    /\ checker[c].pc = "effect"
    /\ Effect(checker[c].read, checker[c].seen) = "request"
    /\ IF note[e].state = "absent" THEN WriteNote(e, "queued", "queued")
                                   ELSE UNCHANGED <<note, holdsNote>>
    /\ StepTo(c, "persist")
    /\ UNCHANGED <<evidence, deadline, escalated, asked, typed, list, worker, holds,
                   answered, halved, overtaken, moved>>

EnsureEscalation(c) ==
    /\ checker[c].pc = "effect"
    /\ Effect(checker[c].read, checker[c].seen) = "escalate"
    /\ escalated' = escalated \union {checker[c].read.ordinal}
    /\ StepTo(c, "persist")
    /\ UNCHANGED <<evidence, deadline, note, asked, delivery, holds, overtaken, moved>>

(* Mutant: the last writer wins.                                             *)
CanPersist_unversioned(c) == TRUE

(* The deadline is written under the version that was read, or not at all.   *)
CanPersist(c) == c \in holds

PersistDrift(c) ==
    LET d == checker[c].read
        next == Reduced(d, checker[c].seen) IN
    /\ checker[c].pc = "persist"
    /\ IF CanPersist(c)
       THEN /\ deadline' = next
            /\ asked' = IF next.status = "queued" THEN asked \union {next.ordinal}
                                                  ELSE asked
            /\ moved' = IF next.pending THEN moved \union {next.ordinal} ELSE moved
            /\ holds' = {}
       ELSE UNCHANGED <<deadline, asked, moved, holds>>
    /\ checker' = [checker EXCEPT ![c] = NoCheck]
    /\ UNCHANGED <<evidence, note, escalated, delivery, overtaken>>

-----------------------------------------------------------------------------
(* The other writers of the deadline and of the notifications. *)

(* claimDueDeadlines puts the deadline on the scheduler's rung, once more     *)
(* when the rung's lease has run out.  Only the scheduler reads the rung; to  *)
(* the others the claim is a new version of the deadline.                     *)
ClaimDue ==
    /\ holds # {}
    /\ holds' = {}
    /\ UNCHANGED <<evidence, deadline, note, escalated, asked, delivery, checker, overtaken, moved>>

(* resetDriftEpisode: a person releases the escalated episode they looked at. *)
ResetEpisode ==
    /\ deadline.phase = "escalated"
    /\ deadline' = Resting(deadline, deadline.print, NoClosure)
    /\ holds' = {}
    /\ UNCHANGED <<evidence, note, escalated, asked, delivery, checker, overtaken, moved>>

(* The transcript's evidence, positive and negative, and the recipient's     *)
(* acknowledgement: one record each, under the version it had.               *)
NoteMoves(e, from, to) ==
    /\ note[e].state \in from
    /\ WriteNote(e, to, note[e].attempt)
    /\ UNCHANGED <<evidence, deadline, escalated, asked, typed, checker, list, worker,
                   holds, answered, halved, overtaken, moved>>

TranscriptObserves(e) ==
    note[e].attempt \in Submitted /\ NoteMoves(e, {"offered", "uncertain"}, "observed")

TranscriptCloses(e) ==
    note[e].attempt \in Submitted /\ NoteMoves(e, {"offered"}, "uncertain")

Acknowledge(e) == NoteMoves(e, {"observed"}, "acknowledged")

(* The agent moves, or a source of evidence answers differently. *)
EvidenceMoves ==
    /\ evidence' \in Prints \ {evidence}
    /\ UNCHANGED <<records, delivery, checker, holds, overtaken, moved>>

-----------------------------------------------------------------------------
(* The delivery pass.  One pass is in flight at a time: it lists, takes the  *)
(* candidates one after the other, and after one delivery leaves the rest of *)
(* the run to the next pass.                                                 *)

Here == worker.episode
At(pc) == worker.pc = pc
Go(pc) == worker' = [worker EXCEPT !.pc = pc]

ClaimedDrift(e) == Outstanding(deadline, e) /\ deadline.status = "claimed"

(* Mutant: the pass lists expired notifications too.                         *)
Candidate_expired(e) ==
    \/ note[e].state # "absent" /\ note[e].attempt \in {"queued", "claimed"}
    \/ note[e].attempt \in Submitted /\ ClaimedDrift(e)

Candidate(e) ==
    /\ note[e].state \in {"queued", "offered", "uncertain"}
    /\ \/ note[e].attempt \in {"queued", "claimed"}
       \/ note[e].attempt \in Submitted /\ ClaimedDrift(e)

Candidates == {e \in Episodes : Candidate(e)}

Stop ==
    /\ worker' = Idle
    /\ holds' = holds \ {Worker}
    /\ holdsNote' = FALSE

Refuse == Stop /\ UNCHANGED <<list, answered>>

Deliver == Stop /\ list' = {} /\ answered' = answered \union {Here}

ListWork ==
    /\ At("idle") /\ list = {}
    /\ Candidates # {}
    /\ list' = Candidates
    /\ UNCHANGED <<evidence, records, typed, checker, worker, holds, holdsNote,
                   answered, halved, overtaken, moved>>

TakeUp(e) ==
    /\ At("idle") /\ e \in list
    /\ list' = list \ {e}
    /\ worker' = [Idle EXCEPT !.pc = "authority", !.episode = e]
    /\ UNCHANGED <<evidence, records, typed, checker, holds, holdsNote,
                   answered, halved, overtaken, moved>>

(* The authority is read with the notification's version; then the runtime   *)
(* asks whether it has submitted this turn before.  If so, and Supervision   *)
(* has recorded it, there is nothing to do; if not, the bookkeeping follows. *)
Recover == IF note[Here].attempt \in Submitted THEN "delivered" ELSE "claim"

Authority ==
    /\ At("authority")
    /\ IF typed[Here] = "none"
       THEN Go("submit") /\ holdsNote' = TRUE /\ UNCHANGED <<list, answered, holds>>
       ELSE IF Recover = "delivered"
            THEN Deliver
            ELSE Go("claim") /\ holdsNote' = TRUE /\ UNCHANGED <<list, answered, holds>>
    /\ UNCHANGED <<evidence, records, typed, checker, halved, overtaken, moved>>

(* submitProviderTurn: refused, or typed once; its answer may be lost.       *)
SubmitTurn ==
    /\ At("submit")
    /\ \/ Refuse /\ UNCHANGED typed
       \/ \E how \in Submitted :
              /\ typed' = [typed EXCEPT ![Here] = how]
              /\ Go("claim")
              /\ UNCHANGED <<list, answered, holds, holdsNote>>
    /\ UNCHANGED <<evidence, records, checker, halved, overtaken, moved>>

(* claimNotificationDelivery reads the notification.  A notification bound   *)
(* to this reservation is a replay, whatever its version.                    *)
ClaimLoad ==
    /\ At("claim")
    /\ IF note[Here].attempt # "queued" \/ holdsNote
       THEN /\ worker' = [worker EXCEPT !.pc = "find",
                                        !.replay = (note[Here].attempt # "queued")]
            /\ UNCHANGED <<list, answered, holds, holdsNote>>
       ELSE Refuse
    /\ UNCHANGED <<evidence, records, typed, checker, halved, overtaken, moved>>

(* Exactly one outstanding deadline must wait for this request; a claim that *)
(* is already there is adopted.                                              *)
ClaimFind ==
    /\ At("find")
    /\ IF ~Outstanding(deadline, Here)
       THEN Refuse
       ELSE /\ Go(IF deadline.status = "queued" THEN "claimDeadline"
                  ELSE IF worker.replay THEN "record" ELSE "claimNote")
            /\ holds' = holds \union {Worker}
            /\ UNCHANGED <<list, answered, holdsNote>>
    /\ UNCHANGED <<evidence, records, typed, checker, halved, overtaken, moved>>

ClaimDeadline ==
    /\ At("claimDeadline")
    /\ IF Worker \in holds
       THEN /\ deadline' = [deadline EXCEPT !.status = "claimed"]
            /\ holds' = {Worker}
            /\ Go(IF worker.replay THEN "record" ELSE "claimNote")
            /\ UNCHANGED <<list, answered, holdsNote>>
       ELSE Refuse /\ UNCHANGED deadline
    /\ UNCHANGED <<evidence, note, escalated, asked, typed, checker, halved,
                   overtaken, moved>>

ClaimNote ==
    /\ At("claimNote")
    /\ IF holdsNote
       THEN /\ note' = [note EXCEPT ![Here] = [state |-> "offered", attempt |-> "claimed"]]
            /\ Go("record")
            /\ UNCHANGED <<list, answered, holds, holdsNote>>
       ELSE Refuse /\ UNCHANGED note
    /\ UNCHANGED <<evidence, deadline, escalated, asked, typed, checker, halved,
                   overtaken, moved>>

(* recordDriftStatusSubmission: a submission that both records tell already  *)
(* is adopted; otherwise the claim must be the one that was returned, and    *)
(* the terminal must vouch for the submission.                               *)
SameSubmission ==
    \/ deadline.phase = "observing" /\ deadline.closed.episode = Here
    \/ Outstanding(deadline, Here) /\ deadline.status = typed[Here]

Recorded == note[Here].attempt = typed[Here]

RecordLoad ==
    /\ At("record")
    /\ IF SameSubmission /\ Recorded
       THEN Deliver
       ELSE \/ Refuse
            \/ /\ Worker \in holds
               /\ ClaimedDrift(Here)
               /\ note[Here].attempt = "claimed" \/ Recorded
               /\ Go(IF Recorded THEN "recordDeadline" ELSE "recordNote")
               /\ holdsNote' = TRUE
               /\ UNCHANGED <<list, answered, holds>>
    /\ UNCHANGED <<evidence, records, typed, checker, halved, overtaken, moved>>

RecordNote ==
    /\ At("recordNote")
    /\ IF holdsNote
       THEN /\ note' = [note EXCEPT ![Here] =
                   [state |-> IF typed[Here] = "confirmed" THEN "offered" ELSE "uncertain",
                    attempt |-> typed[Here]]]
            /\ Go("recordDeadline")
            /\ UNCHANGED <<list, answered, holds, holdsNote>>
       ELSE Refuse /\ UNCHANGED note
    /\ UNCHANGED <<evidence, deadline, escalated, asked, typed, checker, halved,
                   overtaken, moved>>

(* Mutant: the submission is recorded over the deferred movement.            *)
SubmittedState_forgetful(d) == [d EXCEPT !.status = typed[Here]]

(* Movement that was deferred while the request was claimed closes it now.   *)
SubmittedState(d) ==
    IF d.pending THEN Resting(d, d.print, Closure(d, "answered"))
    ELSE [d EXCEPT !.status = typed[Here]]

RecordDeadline ==
    /\ At("recordDeadline")
    /\ IF Worker \in holds
       THEN /\ deadline' = SubmittedState(deadline)
            /\ worker' = Idle
            /\ list' = {}
            /\ answered' = answered \union {Here}
            /\ holds' = {} /\ holdsNote' = FALSE
            /\ UNCHANGED halved
       ELSE /\ Refuse
            /\ halved' = halved \union {Here}
            /\ UNCHANGED deadline
    /\ UNCHANGED <<evidence, note, escalated, asked, typed, checker, overtaken, moved>>

(* The runtime process dies: the records stay. *)
Crash ==
    /\ ~At("idle") \/ list # {} \/ \E c \in Checkers : checker[c].pc # "idle"
    /\ checker' = [c \in Checkers |-> NoCheck]
    /\ list' = {}
    /\ worker' = Idle
    /\ holds' = {} /\ holdsNote' = FALSE
    /\ halved' = IF At("recordDeadline") THEN halved \union {Here} ELSE halved
    /\ UNCHANGED <<evidence, records, typed, answered, overtaken, moved>>

-----------------------------------------------------------------------------

Check(c) ==
    \/ Load(c) \/ Observe(c) \/ Refused(c)
    \/ ExpireQueued(c) \/ EnsureStatus(c) \/ EnsureEscalation(c)
    \/ PersistDrift(c)

Claim == ClaimLoad \/ ClaimFind \/ ClaimDeadline \/ ClaimNote
Record == RecordLoad \/ RecordNote \/ RecordDeadline

Pass ==
    \/ ListWork \/ \E e \in Episodes : TakeUp(e)
    \/ Authority \/ SubmitTurn \/ Claim \/ Record

Next ==
    \/ \E c \in Checkers : Check(c)
    \/ ClaimDue \/ ResetEpisode
    \/ \E e \in Episodes : TranscriptObserves(e) \/ TranscriptCloses(e) \/ Acknowledge(e)
    \/ EvidenceMoves
    \/ Pass
    \/ Crash

Spec == Init /\ [][Next]_vars

-----------------------------------------------------------------------------
(* The two records tell one story, whatever was written between the writes   *)
(* of an operation and whichever of its writes was the last: a notification  *)
(* is claimed only while its deadline is, what the deadline says was         *)
(* submitted the notification says too, in the same words, and the           *)
(* notification is never ahead of a deadline that still has it queued.  Two  *)
(* ways to be left half-done are named: the cancellation that met a delivery *)
(* in flight, and the submission that stopped between its two records.       *)
HalvesAgree ==
    \A e \in Episodes :
        /\ note[e].attempt = "claimed" => ClaimedDrift(e)
        /\ Outstanding(deadline, e) /\ deadline.status = "queued" =>
               note[e].attempt = "queued" /\ note[e].state \in {"queued", "expired"}
        /\ deadline.ordinal = e /\ deadline.status \in Submitted =>
               note[e].attempt = deadline.status
        /\ ClaimedDrift(e) /\ note[e].state = "expired" => e \in overtaken
        /\ ClaimedDrift(e) /\ e \in answered => e \in halved

(* A person is asked for help only when the agent was asked first and let    *)
(* three checks pass, and an episode is closed as answered only when there   *)
(* was something to answer.                                                  *)
EscalationFollowsRequest ==
    /\ \A e \in escalated : note[e].attempt \in Submitted /\ typed[e] # "none"
    /\ deadline.phase = "escalated" =>
           /\ deadline.ordinal \in escalated
           /\ deadline.count = 3
           /\ note[deadline.ordinal].attempt \in Submitted
    /\ deadline.closed.how = "answered" => typed[deadline.closed.episode] # "none"

(* Movement the reducer recorded while the request was claimed closes the    *)
(* episode when the submission is recorded: no later write makes the request *)
(* wait for an answer, counts it unanswered or escalates it.                 *)
MovementIsNotForgotten ==
    \A e \in moved : deadline.ordinal = e => deadline.status \notin Submitted

(* Help is called, and an episode counted or closed, on what really          *)
(* happened: silence is real silence, an answer answers something.           *)
SilenceIsReal == EscalationFollowsRequest /\ MovementIsNotForgotten

(* A cancelled request stays cancelled: no claim brings the expired          *)
(* notification back, and nobody asks the agent for a status that its        *)
(* episode no longer waits for.  The exception is the cancellation that met  *)
(* the delivery in flight; a check that created the notification and never   *)
(* wrote the deadline is not a cancellation.                                 *)
CancellationHolds ==
    [][\A e \in Episodes :
          /\ note[e].state = "expired" => note'[e] = note[e] \/ e \in overtaken
          /\ typed[e] = "none" /\ typed'[e] # "none" /\ e \in asked =>
                 Outstanding(deadline, e) \/ e \in overtaken]_vars

(* agent-runtime/core/notification-delivery-replay.ts:70 says the recovery   *)
(* does "Finish Supervision bookkeeping for an already-submitted semantic    *)
(* turn": once it has answered, the deadline no longer waits for the claim.  *)
(* The code does not keep this, and it is no property of a run: the recovery *)
(* looks at the notification alone (notification-delivery-replay.ts:103).    *)
BookkeepingIsFinished ==
    \A e \in answered : ~ClaimedDrift(e)

=============================================================================
