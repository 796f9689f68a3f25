--------------------------- MODULE MessageDelivery ---------------------------
(***************************************************************************)
(* Messages to one agent: src/packages/messaging.  A send is journalled,   *)
(* claimed, handed to the provider once, and confirmed when its text shows *)
(* up in the provider's transcript.  A delivery is a message one agent     *)
(* addressed to another; the routing pass claims it, sends it like any     *)
(* other message, and keeps its own record of how that went.               *)
(*                                                                         *)
(* One process holds the store (WriterLease), and in it run concurrently:  *)
(* the callers of sendConversationMessage, at most one ingestion drain     *)
(* (ingest-queue.ts), which ends by waiting for delivery, and at most one  *)
(* delivery pass (delivery-runtime.ts).  A store operation is one step     *)
(* (the stores serialise theirs).  A crash ends all of them.               *)
(*                                                                         *)
(* Abstracted: one agent; a transcript is the sequence of its user lines;  *)
(* validation, missing agents and foreign sessions; time: a claim or a     *)
(* deadline may be overdue in any pass after the one that wrote it.  Sends *)
(* in Lookalikes, and what a person types, have the same text.             *)
(***************************************************************************)
EXTENDS Integers, Sequences, FiniteSets

CONSTANTS
    Hosts,       \* sends of a host, named by (issuedBy, clientOpId)
    Deliveries,  \* pending deliveries, and the send each one becomes
    Lookalikes,  \* sends whose text is the same
    Callers,     \* callers of sendConversationMessage
    Router,      \* the delivery pass as a caller
    Sessions,    \* provider sessions of the agent, one source file each
    None,
    MaxLines,    \* bound: user lines in the transcripts
    MaxTyped,    \* bound: lines a person types
    MaxTroubles  \* bound: crashes and failed store writes

Sends == Hosts \cup Deliveries
Everyone == Callers \cup {Router}

ASSUME MessageAssumption ==
    /\ MaxLines \in Nat /\ MaxTyped \in Nat /\ MaxTroubles \in Nat
    /\ IsFiniteSet(Sessions)
    /\ None \notin Sends \cup Everyone \cup Sessions \cup (Sessions \X (1 .. MaxLines))
    /\ None # "confirmation-timeout"
    /\ Hosts \cap Deliveries = {} /\ Router \notin Callers

VARIABLES
    file,      \* what the provider wrote: of each line, the send it came from
    ingested,  \* lines committed of each session (its IngestCheckpoint)
    current,   \* currentProviderSessionId of the agent
    journal,   \* SendJournal of each send
    order,     \* sends in the order of their dispatchedAt
    effects,   \* history: turns handed to the provider for each send
    call,      \* where each caller is
    delivery,  \* PendingDelivery: state and evidence of failure
    pass,      \* step of the delivery pass under way
    recent,    \* deliveries this pass has moved itself
    ingest,    \* the ingestion drain: step, source, lines read
    evidence,  \* history: what was known of each delivery as the pass began
    troubles

provider == <<file, effects>>
sends == <<journal, order>>
reading == <<ingested, current, ingest>>
routing == <<delivery, pass, recent, evidence>>
vars == <<provider, sends, reading, routing, call, troubles>>

(* A line of a person has no send.  Lines are named by session and place.   *)
Text(m) == IF m \in Lookalikes \cup {None} THEN None ELSE m
Places == Sessions \X (1 .. MaxLines)
Written == {p \in Places : p[2] <= Len(file[p[1]])}
Author(p) == file[p[1]][p[2]]

NoFence == [s \in Sessions |-> 0]
NoJournal == [state |-> "none", target |-> None, from |-> NoFence, line |-> None]
Idle == [at |-> "idle", send |-> None, session |-> None, from |-> NoFence, landed |-> FALSE, result |-> None]
NoIngest == [at |-> "idle", session |-> None, upto |-> 0]

NoEvidence == [d \in Deliveries |-> "none"]

(* send-journal-state.ts terminal: the journal moves no more.               *)
Terminal == {"confirmed", "failed", "indeterminate"}
Live(m) == journal[m].state \notin Terminal \cup {"none"}

Init ==
    /\ file = [s \in Sessions |-> << >>]
    /\ ingested = [s \in Sessions |-> 0] /\ current = None
    /\ journal = [m \in Sends |-> NoJournal] /\ order = << >>
    /\ effects = [m \in Sends |-> 0]
    /\ call = [k \in Everyone |-> Idle]
    /\ delivery = [d \in Deliveries |-> [state |-> "none", why |-> None]]
    /\ pass = "idle" /\ recent = {} /\ ingest = NoIngest
    /\ evidence = NoEvidence /\ troubles = 0

Trouble == troubles < MaxTroubles /\ troubles' = troubles + 1

-----------------------------------------------------------------------------
(* sendConversationMessage: accept, claim, one provider turn, settle.       *)

At(k, step) == call[k].at = step
Goto(k, step) == call' = [call EXCEPT ![k].at = step]

(* A host's caller has its answer; the pass goes on to its delivery.        *)
Leave(k, step) ==
    call' = [call EXCEPT ![k] = IF k = Router THEN [Idle EXCEPT !.at = step, !.send = call[k].send]
                                ELSE Idle]
End(k) == Leave(k, "report")
Throw(k) == Leave(k, "threw")

(* Nobody but the pass sends a delivery.                                    *)
Calls(k, m) ==
    \/ k \in Callers /\ At(k, "idle") /\ m \in Hosts
    \/ At(k, "accept") /\ m = call[k].send

(* The journal lands before the provider is touched; a retry finds it, and  *)
(* goes on only when it is still as accepted.                               *)
Accept(k, m) ==
    /\ Calls(k, m)
    /\ journal' = IF journal[m].state # "none" THEN journal
                  ELSE [journal EXCEPT ![m].state = "accepted", ![m].target = current]
    /\ IF journal'[m].state = "accepted"
       THEN call' = [call EXCEPT ![k] = [Idle EXCEPT !.at = "accepted", !.send = m]]
       ELSE End(k)
    /\ UNCHANGED <<provider, order, reading, routing, troubles>>

AcceptFails(k) ==
    /\ At(k, "accept") /\ journal[call[k].send].state = "none"
    /\ Throw(k) /\ Trouble
    /\ UNCHANGED <<provider, sends, reading, routing>>

(* sourceFenceFor, and the time of the attempt where there is no checkpoint:*)
(* a line counts only past it, and only in the fenced source.               *)
FenceOf(s) ==
    IF s # None /\ ingested[s] > 0
    THEN [t \in Sessions |-> IF t = s THEN ingested[s] ELSE MaxLines]
    ELSE [t \in Sessions |-> Len(file[t])]

Prepare(k) ==
    LET target == journal[call[k].send].target
        session == IF target # None THEN target ELSE current
    IN
    /\ At(k, "accepted")
    /\ call' = [call EXCEPT ![k].at = "prepared", ![k].session = session, ![k].from = FenceOf(session)]
    /\ UNCHANGED <<provider, sends, reading, routing, troubles>>

(* Mutant: the journal is read instead of compared and set.                 *)
Claim_noCas(k) ==
    LET m == call[k].send IN
    /\ At(k, "prepared")
    /\ journal' = [journal EXCEPT ![m].state = "dispatching", ![m].from = call[k].from]
    /\ order' = Append(order, m)
    /\ call' = [call EXCEPT ![k].at = "claimed", ![k].from = NoFence]
    /\ UNCHANGED <<provider, reading, routing, troubles>>

(* The compare-and-set accepted -> dispatching: a loser that finds it done  *)
(* returns, one that finds the journal further on throws.                   *)
Claim(k) ==
    LET m == call[k].send IN
    /\ At(k, "prepared")
    /\ \/ /\ journal[m].state = "accepted"
          /\ journal' = [journal EXCEPT ![m].state = "dispatching", ![m].from = call[k].from]
          /\ order' = Append(order, m)
          /\ call' = [call EXCEPT ![k].at = "claimed", ![k].from = NoFence]
       \/ journal[m].state = "dispatching" /\ End(k) /\ UNCHANGED sends
       \/ journal[m].state \notin {"accepted", "dispatching"} /\ Throw(k) /\ UNCHANGED sends
    /\ UNCHANGED <<provider, reading, routing, troubles>>

ClaimFails(k) ==
    /\ At(k, "prepared") /\ journal[call[k].send].state = "accepted"
    /\ Throw(k) /\ Trouble
    /\ UNCHANGED <<provider, sends, reading, routing>>

(* executeProviderTurn runs the turns of one agent one after the other.     *)
TurnIdle == \A k \in Everyone : ~At(k, "turn")

StartTurn(k) ==
    /\ At(k, "claimed") /\ TurnIdle
    /\ effects' = [effects EXCEPT ![call[k].send] = @ + 1]
    /\ Goto(k, "turn")
    /\ UNCHANGED <<file, sends, reading, routing, troubles>>

(* The text reaches the transcript of the resumed session, or of a new one. *)
Land(k) ==
    /\ At(k, "turn") /\ ~call[k].landed
    /\ \E s \in Sessions :
         /\ IF call[k].session = None THEN file[s] = << >> ELSE s = call[k].session
         /\ Cardinality(Written) < MaxLines
         /\ file' = [file EXCEPT ![s] = Append(@, call[k].send)]
    /\ call' = [call EXCEPT ![k].landed = TRUE]
    /\ UNCHANGED <<effects, sends, reading, routing, troubles>>

(* A refused turn was never queued; one that threw may have landed; and one *)
(* that completed may have left nothing.                                    *)
Return(k) ==
    /\ At(k, "turn")
    /\ \E r \in {"ok", "refused", "threw"} :
         /\ r = "refused" => ~call[k].landed
         /\ call' = [call EXCEPT ![k].at = "settle", ![k].landed = FALSE,
                                           ![k].result = r]
    /\ UNCHANGED <<provider, sends, reading, routing, troubles>>

(* Mutant: the provider's word becomes the state of the journal.            *)
SettledState_raw(k) == call[k].result

SettledState(k) ==
    CASE call[k].result = "refused" -> "failed"
      [] call[k].result = "threw" -> "indeterminate"
      [] call[k].result = "ok" /\ call[k].session = None -> "awaiting-session-assignment"
      [] OTHER -> "awaiting-transcript"

Settle(k) ==
    LET m == call[k].send IN
    /\ At(k, "settle")
    /\ IF journal[m].state = "dispatching"
       THEN journal' = [journal EXCEPT ![m].state = SettledState(k)] /\ End(k)
       ELSE Throw(k) /\ UNCHANGED journal
    /\ UNCHANGED <<provider, order, reading, routing, troubles>>

(* The write is not awaited inside the try: its failure is no uncertainty   *)
(* of the send, it is thrown at the caller.                                 *)
SettleFails(k) ==
    /\ At(k, "settle") /\ Throw(k) /\ Trouble
    /\ UNCHANGED <<provider, sends, reading, routing>>

-----------------------------------------------------------------------------
(* The delivery pass: reconcile, maintenance, then routing.                 *)

Move(d, state, why) == delivery' = [delivery EXCEPT ![d] = [state |-> state, why |-> why]]
MoveAll(ds, state, why) ==
    delivery' = [d \in Deliveries |-> IF d \in ds THEN [state |-> state, why |-> why] ELSE delivery[d]]
InState(states) == {d \in Deliveries : delivery[d].state \in states}

(* The reconciler queues the deliveries whose marker lines it finds; after  *)
(* a restart it scans again, and a delivery already there is a duplicate.   *)
Reconcile == \E new \in SUBSET InState({"none"}) : MoveAll(new, "queued", None)

(* deliveryInFlight: one pass at a time, joined by whoever asks for one.    *)
MayBegin == pass = "idle"

(* The line of the send is committed, and its confirmation was tried.       *)
Committed(d) ==
    ingest.at # "confirm" /\ \E p \in Written : Author(p) = d /\ p[2] <= ingested[p[1]]
Evident(d) ==
    CASE journal[d].state = "confirmed" -> "confirmed" [] Committed(d) -> "committed" [] OTHER -> "none"

StartPass ==
    /\ Reconcile /\ pass' = "stale" /\ recent' = {}
    /\ evidence' = [d \in Deliveries |-> Evident(d)]

BeginPass ==
    /\ MayBegin /\ StartPass
    /\ UNCHANGED <<provider, sends, reading, call, troubles>>

(* closeStaleClaims: a claim nobody reported on for 30 seconds.             *)
CloseStale ==
    /\ pass = "stale"
    /\ \E stale \in SUBSET InState({"claimed"}) :
         MoveAll(stale, "submitted-unconfirmed", None) /\ recent' = stale
    /\ pass' = "observe"
    /\ UNCHANGED <<provider, sends, reading, call, evidence, troubles>>

Submitted == InState({"submitted-confirmed", "submitted-unconfirmed"})

Observable == {d \in Submitted : journal[d].state = "confirmed"}

(* Mutant: the deadline is looked at first.                                 *)
Observe_late ==
    /\ pass = "observe"
    /\ pass' = "deadline"
    /\ UNCHANGED <<provider, sends, reading, call, delivery, recent, evidence, troubles>>

(* observeConfirmedDeliveries                                               *)
Observe ==
    /\ pass = "observe"
    /\ MoveAll(Observable, "transcript-observed", None)
    /\ pass' = "deadline"
    /\ UNCHANGED <<provider, sends, reading, call, recent, evidence, troubles>>

(* failUnconfirmedDeliveries: two minutes after the delivery last moved;    *)
(* the pass took its timestamp before it moved any.                         *)
Overdue == SUBSET (InState({"submitted-unconfirmed"}) \ recent)

FailOverdue ==
    /\ pass = "deadline"
    /\ \E late \in Overdue : MoveAll(late, "failed", "confirmation-timeout")
    /\ pass' = "route" /\ recent' = {} /\ evidence' = NoEvidence
    /\ UNCHANGED <<provider, sends, reading, call, troubles>>

(* Nothing it needs may ever come back: line, marker, two participants.     *)
RouteFails(d) ==
    /\ pass = "route" /\ delivery[d].state = "queued"
    /\ Move(d, "failed", "routing-failed")
    /\ UNCHANGED <<provider, sends, reading, call, pass, recent, evidence, troubles>>

(* A recipient without an idle session defers; otherwise the delivery is    *)
(* claimed and sent like any other message.                                 *)
Route(d) ==
    /\ pass = "route" /\ delivery[d].state = "queued"
    /\ current # None /\ TurnIdle
    /\ Move(d, "claimed", None) /\ pass' = "submit"
    /\ call' = [call EXCEPT ![Router] = [Idle EXCEPT !.at = "accept", !.send = d]]
    /\ UNCHANGED <<provider, sends, reading, recent, evidence, troubles>>

(* submissionState: the live adapter is never certain, so only a journal    *)
(* already confirmed makes the submission confirmed.                        *)
SubmissionState(d) ==
    CASE journal[d].state = "confirmed" -> "submitted-confirmed"
      [] journal[d].state = "failed" -> "failed"
      [] OTHER -> "submitted-unconfirmed"

(* Moves out of claimed, if it still is: somebody else settled it first.    *)
SettleClaim(d, state, why) ==
    IF delivery[d].state = "claimed" THEN Move(d, state, why) ELSE UNCHANGED delivery

Report ==
    LET d == call[Router].send IN
    /\ At(Router, "report")
    /\ SettleClaim(d, SubmissionState(d),
                   IF SubmissionState(d) = "failed" THEN "dispatch-failed" ELSE None)
    /\ call' = [call EXCEPT ![Router] = Idle] /\ pass' = "route"
    /\ UNCHANGED <<provider, sends, reading, recent, evidence, troubles>>

(* Whatever was thrown on the way is the delivery's failure.                *)
ReportThrow ==
    LET d == call[Router].send IN
    /\ At(Router, "threw")
    /\ SettleClaim(d, "failed", "submission-error")
    /\ call' = [call EXCEPT ![Router] = Idle] /\ pass' = "route"
    /\ UNCHANGED <<provider, sends, reading, recent, evidence, troubles>>

(* Settling itself fails: once more as a failure; if that fails too (one    *)
(* trouble, a store that stays broken) the pass is over.                    *)
ReportFails ==
    /\ \/ At(Router, "report") /\ Goto(Router, "threw") /\ UNCHANGED <<pass, ingest>>
       \/ /\ call[Router].at \in {"report", "threw"}
          /\ call' = [call EXCEPT ![Router] = Idle]
          /\ pass' = "idle" /\ ingest' = IF ingest.at = "wait" THEN NoIngest ELSE ingest
    /\ Trouble
    /\ UNCHANGED <<provider, sends, ingested, current, delivery, recent, evidence>>

EndPass ==
    /\ pass = "route"
    /\ pass' = "idle" /\ ingest' = IF ingest.at = "wait" THEN NoIngest ELSE ingest
    /\ UNCHANGED <<provider, sends, ingested, current, call, delivery, recent, evidence, troubles>>

-----------------------------------------------------------------------------
(* Ingestion of one source, and the confirmation every drain ends with.     *)

BeginIngest(s) ==
    /\ ingest.at = "idle" /\ ingested[s] < Len(file[s])
    /\ ingest' = [at |-> "attach", session |-> s, upto |-> Len(file[s])]
    /\ UNCHANGED <<provider, sends, ingested, current, routing, call, troubles>>

(* assignProviderSession: the agent points to the session that grew last.   *)
Attach ==
    /\ ingest.at = "attach"
    /\ current' = ingest.session
    /\ ingest' = [ingest EXCEPT !.at = "bind"]
    /\ UNCHANGED <<provider, sends, ingested, routing, call, troubles>>

BoundElsewhere(s) == {m \in Sends : Live(m) /\ journal[m].target \notin {None, s}}

Bound(m, s) ==
    IF ~Live(m) THEN journal[m]
    ELSE [journal[m] EXCEPT !.target = s,
              !.state = IF @ = "awaiting-session-assignment" THEN "awaiting-transcript" ELSE @]

(* bindAgentSession: all live sends of the agent, or none: one that targets *)
(* another session is a conflict, and the source is given up for this drain.*)
Bind ==
    /\ ingest.at = "bind"
    /\ IF BoundElsewhere(ingest.session) = {}
       THEN /\ journal' = [m \in Sends |-> Bound(m, ingest.session)]
            /\ ingest' = [ingest EXCEPT !.at = "commit"]
       ELSE ingest' = [NoIngest EXCEPT !.at = "confirm"] /\ UNCHANGED journal
    /\ UNCHANGED <<provider, order, ingested, current, routing, call, troubles>>

(* commitIngestBatch: the lines and the checkpoint in one batch.            *)
Commit ==
    /\ ingest.at = "commit"
    /\ ingested' = [ingested EXCEPT ![ingest.session] = ingest.upto]
    /\ ingest' = [NoIngest EXCEPT !.at = "confirm"]
    /\ UNCHANGED <<provider, sends, current, routing, call, troubles>>

Pending == {m \in Sends : journal[m].state = "awaiting-transcript" /\ journal[m].target # None}
Place(m) == CHOOSE i \in 1 .. Len(order) : order[i] = m
Before(m) == {x \in Pending : Place(x) < Place(m)}

UsedLines == {journal[m].line : m \in Sends} \ {None}

(* Mutant: the fence is not looked at.                                      *)
Eligible_unfenced(p, m) ==
    /\ p[1] = journal[m].target /\ p[2] <= ingested[p[1]]
    /\ Text(Author(p)) = Text(m)

(* isEligibleLine: same text, the session's source, at or past the fence.   *)
Eligible(p, m) ==
    /\ p[1] = journal[m].target /\ p[2] <= ingested[p[1]]
    /\ Text(Author(p)) = Text(m) /\ p[2] > journal[m].from[p[1]]

Evidence(m, used) == {p \in Written \ used : Eligible(p, m)}
(* Exactly one line decides, and it is recorded.                            *)
Proves(lines) == Cardinality(lines) = 1
LineOf(lines) == CHOOSE p \in Places : lines = {p}

(* Mutant: a line confirmed within the pass stays a candidate.              *)
Consistent_kept(v) == \A m \in Pending : v[m] = Evidence(m, UsedLines)

(* What each send finds, in dispatch order, among the lines that the ones   *)
(* before it have not consumed.                                             *)
Consistent(v) ==
    \A m \in Pending :
        v[m] = Evidence(m, UsedLines \cup UNION {v[x] : x \in {y \in Before(m) : Proves(v[y])}})

(* Exactly one line confirms, more are ambiguous, none leaves it waiting.   *)
Confirmed(m, v) ==
    CASE m \notin Pending \/ v[m] = {} -> journal[m]
      [] m \in Pending /\ Proves(v[m]) ->
            [journal[m] EXCEPT !.state = "confirmed", !.line = LineOf(v[m])]
      [] OTHER -> [journal[m] EXCEPT !.state = "indeterminate"]

(* confirmPendingSends                                                      *)
Confirm ==
    /\ ingest.at = "confirm"
    /\ \E v \in [Pending -> SUBSET Written] :
         Consistent(v) /\ journal' = [m \in Sends |-> Confirmed(m, v)]
    /\ ingest' = [ingest EXCEPT !.at = "deliver"]
    /\ UNCHANGED <<provider, order, ingested, current, routing, call, troubles>>

(* The drain then waits for a delivery pass: its own, or the one under way. *)
Deliver ==
    /\ ingest.at = "deliver"
    /\ ingest' = [ingest EXCEPT !.at = "wait"]
    /\ IF pass = "idle" THEN StartPass ELSE UNCHANGED routing
    /\ UNCHANGED <<provider, sends, ingested, current, call, troubles>>

(* A person types into the provider's terminal; a new session of the agent  *)
(* may begin that way.                                                      *)
Typed == Cardinality({p \in Written : Author(p) = None})

Type(s) ==
    /\ Cardinality(Written) < MaxLines /\ Typed < MaxTyped
    /\ file' = [file EXCEPT ![s] = Append(@, None)]
    /\ UNCHANGED <<effects, sends, reading, routing, call, troubles>>

Crash ==
    /\ Trouble
    /\ call' = [k \in Everyone |-> Idle] /\ ingest' = NoIngest
    /\ pass' = "idle" /\ recent' = {} /\ evidence' = NoEvidence
    /\ UNCHANGED <<provider, sends, ingested, current, delivery>>

Send(k) == Prepare(k) \/ Claim(k) \/ StartTurn(k) \/ Return(k) \/ Settle(k)
SendFails(k) == AcceptFails(k) \/ ClaimFails(k) \/ SettleFails(k)
Pass == CloseStale \/ Observe \/ FailOverdue \/ Report \/ ReportThrow
Ingest == Attach \/ Bind \/ Commit \/ Confirm \/ Deliver

Next ==
    \/ \E k \in Everyone, m \in Sends : Accept(k, m)
    \/ \E k \in Everyone : Send(k) \/ Land(k) \/ SendFails(k)
    \/ BeginPass \/ Pass \/ ReportFails \/ EndPass
    \/ \E d \in Deliveries : RouteFails(d) \/ Route(d)
    \/ \E s \in Sessions : BeginIngest(s) \/ Type(s)
    \/ Ingest \/ Crash

Spec == Init /\ [][Next]_vars

-----------------------------------------------------------------------------
JournalStates ==
    {"none", "accepted", "dispatching", "awaiting-session-assignment", "awaiting-transcript"}
        \cup Terminal
DeliveryStates ==
    {"none", "queued", "claimed", "submitted-confirmed", "submitted-unconfirmed",
     "transcript-observed", "failed"}
Failures == {None, "confirmation-timeout", "routing-failed", "dispatch-failed", "submission-error"}
CallSteps ==
    {"idle", "accept", "accepted", "prepared", "claimed", "turn", "settle", "report", "threw"}
Fences == [Sessions -> 0 .. MaxLines]

(* The records are the ones of contract/records.                            *)
TypeOK ==
    /\ file \in [Sessions -> Seq(Sends \cup {None})]
    /\ \A s \in Sessions : Len(file[s]) <= MaxLines
    /\ ingested \in [Sessions -> 0 .. MaxLines] /\ current \in Sessions \cup {None}
    /\ journal \in [Sends -> [state : JournalStates, target : Sessions \cup {None},
                              from : Fences, line : Places \cup {None}]]
    /\ order \in Seq(Sends) /\ effects \in [Sends -> Nat]
    /\ call \in [Everyone -> [at : CallSteps, send : Sends \cup {None},
                              session : Sessions \cup {None}, from : Fences, landed : BOOLEAN,
                              result : {None, "ok", "refused", "threw"}]]
    /\ delivery \in [Deliveries -> [state : DeliveryStates, why : Failures]]
    /\ pass \in {"idle", "stale", "observe", "deadline", "route", "submit"}
    /\ recent \subseteq Deliveries
    /\ ingest \in [at : {"idle", "attach", "bind", "commit", "confirm", "deliver", "wait"},
                   session : Sessions \cup {None}, upto : 0 .. MaxLines]
    /\ evidence \in [Deliveries -> {"none", "committed", "confirmed"}]
    /\ troubles \in 0 .. MaxTroubles

(* However many callers race a send, retry it, or come back to it after a   *)
(* crash, the provider is handed it at most once (dispatch.ts: "only one    *)
(* effect ever leaves the process").                                        *)
OneEffectPerSend == \A m \in Sends : effects[m] <= 1

(* No line of a transcript confirms two sends, in one pass or across passes *)
(* (send-confirmation.ts).                                                  *)
LineConfirmsOne ==
    \A m, x \in Sends : m # x /\ journal[m].line # None => journal[m].line # journal[x].line

(* Somebody else's line with the send's text, past its fence.               *)
HasLookalike(m) ==
    \E p \in Written :
        /\ p[1] = journal[m].target /\ p[2] > journal[m].from[p[1]]
        /\ Author(p) # m /\ Text(Author(p)) = Text(m)

(* A confirmed send did reach the transcript, and reached it by the line it *)
(* is confirmed with, except that another line with the same text past its  *)
(* fence can be taken for it.                                               *)
ConfirmedIsLandedUnlessLookalike ==
    \A m \in Sends : journal[m].state = "confirmed" =>
        Author(journal[m].line) = m \/ HasLookalike(m)

(* A delivery is reported as seen in the transcript only on the evidence of *)
(* its own send.                                                            *)
ObservedIsConfirmed ==
    \A d \in Deliveries : delivery[d].state = "transcript-observed" => journal[d].state = "confirmed"

(* What the journal says the provider has seen is evidence of that send,    *)
(* and so is what the delivery reports.                                     *)
ConfirmationsAreHonest ==
    LineConfirmsOne /\ ConfirmedIsLandedUnlessLookalike /\ ObservedIsConfirmed

(* While the pass is inside a delivery's send - however long the provider's *)
(* turn takes - the claim is the pass's own: it is not closed as stale, nor *)
(* failed at a deadline, under the worker.                                  *)
ClaimIsHeld ==
    ~At(Router, "idle") => delivery[call[Router].send].state = "claimed"

(* A message leaves the process once, under a claim that is the worker's.   *)
SentOnceUnderClaim == OneEffectPerSend /\ ClaimIsHeld

Fails(d) == delivery[d].state # "failed" /\ delivery'[d].why = "confirmation-timeout"

(* A delivery whose send was confirmed when the pass began never fails for  *)
(* want of confirmation: observation runs before the deadline "so fresh     *)
(* evidence always wins" (maintenance.ts).  Evidence that arrives between   *)
(* the two comes too late.                                                  *)
FreshEvidenceWinsUnlessRaced ==
    [][\A d \in Deliveries : Fails(d) => evidence[d] # "confirmed"]_vars

(* maintenance.ts closes a stale claim "so the transcript can still prove   *)
(* what happened": no delivery whose sender died before it could settle is  *)
(* failed for want of evidence with its line in the committed transcript.   *)
(* The code does not keep this, and it is no property of a run: the send of *)
(* that delivery stays 'dispatching', and confirmation asks the transcript  *)
(* only about 'awaiting-transcript' (send-confirmation.ts).                 *)
StaleClaimCanStillBeProved ==
    [][\A d \in Deliveries :
          Fails(d) /\ journal[d].state = "dispatching" => evidence[d] = "none"]_vars
=============================================================================
