-------------------------- MODULE DriftWatchProofs --------------------------
(***************************************************************************)
(* Theorems about DriftWatch, for any number of concurrent checks: the two *)
(* records of a drift episode agree, a person is called only on real       *)
(* silence, and a cancelled request stays cancelled.                       *)
(***************************************************************************)
EXTENDS DriftWatch, TLAPS

(* What the reducer keeps of any drift state.                               *)
Shape(d) ==
    /\ d.phase = "observing" =>
           d.status = "none" /\ d.count = 0 /\ ~d.pending /\ d.quiet \in {0, 1}
    /\ d.phase = "outstanding" => d.status # "none" /\ d.count \in 0..2 /\ d.ordinal # 0
    /\ d.phase = "escalated" =>
           d.status \in Submitted /\ d.count = 3 /\ ~d.pending /\ d.ordinal # 0
    /\ d.pending => d.status = "claimed"
    /\ d.phase = "observing" /\ d.quiet = 1 => d.ordinal # 0

(* A submitted request was typed, and its notification says so for good.    *)
Told(d) ==
    d.status \in Submitted =>
        note[d.ordinal].attempt \in Submitted /\ typed[d.ordinal] # "none"

(* A check works on a state the deadline once had, and has written what its *)
(* effect is before it writes the deadline.                                 *)
CheckOK(c) ==
    LET d == checker[c].read
        seen == checker[c].seen IN
    /\ Shape(d) /\ Told(d)
    /\ d.ordinal \in 0..deadline.ordinal
    /\ c \in holds => checker[c].pc # "idle" /\ d = deadline
    /\ checker[c].pc = "persist" =>
         /\ Moved(d, seen) \/ d.phase # "observing" \/ d.quiet = 1 \/ d.ordinal < MaxEpisodes
         /\ Effect(d, seen) = "escalate" => d.ordinal \in escalated
         /\ Effect(d, seen) = "request" => note[d.ordinal].state # "absent"
         /\ Effect(d, seen) = "expire" =>
                note[d.ordinal].state = "expired" \/ d.ordinal \in overtaken

(* The deadline by itself, and what it implies of the runtime.              *)
DeadlineOK ==
    /\ Shape(deadline) /\ Told(deadline)
    /\ deadline.status = "claimed" => typed[deadline.ordinal] # "none"
    /\ deadline.phase = "escalated" => deadline.ordinal \in escalated
    /\ deadline.closed.how = "answered" =>
           deadline.closed.episode # 0 /\ typed[deadline.closed.episode] # "none"

(* What the worker knows at each of its steps.                              *)
WorkerOK ==
    /\ worker.pc = "idle" <=> worker.episode = 0
    /\ worker.pc = "submit" => typed[worker.episode] = "none"
    /\ worker.pc \notin {"idle", "authority", "submit"} => typed[worker.episode] # "none"
    /\ Worker \in holds =>
         /\ worker.pc \in {"claimDeadline", "claimNote", "record", "recordNote", "recordDeadline"}
         /\ Outstanding(deadline, worker.episode)
         /\ worker.pc = "claimDeadline" => deadline.status = "queued"
         /\ worker.pc \in {"recordNote", "recordDeadline"} => deadline.status = "claimed"
    /\ worker.pc \in {"find", "claimDeadline", "claimNote"} /\ ~worker.replay /\ holdsNote
           => note[worker.episode].attempt = "queued"
    /\ worker.pc = "claimNote" => ~worker.replay
    /\ worker.pc = "claimNote" => ClaimedDrift(worker.episode) \/ ~holdsNote
    /\ worker.pc = "recordNote" /\ holdsNote => note[worker.episode].attempt = "claimed"
    /\ worker.pc = "recordDeadline" => note[worker.episode].attempt = typed[worker.episode]

(* A notification next to its deadline.                                     *)
NoteOK(e) ==
    /\ note[e].state = "absent" => note[e].attempt = "queued"
    /\ e > deadline.ordinal => note[e].state = "absent" /\ typed[e] = "none"
    /\ deadline.ordinal = e /\ deadline.phase = "observing" /\ deadline.quiet = 1 =>
           note[e].attempt = "queued" /\ note[e].state \in {"absent", "queued", "expired"}
    /\ note[e].state = "expired" /\ e \notin overtaken =>
           ~InFlight(e) /\ typed[e] = "none"
    /\ ClaimedDrift(e) /\ note[e].attempt \in Submitted =>
           e \in halved \/ (worker.episode = e /\ worker.pc = "recordDeadline")
    /\ e \in answered => note[e].attempt \in Submitted
    /\ e \in list => note[e].state # "absent"
    /\ worker.episode = e => note[e].state # "absent"
    /\ note[e].attempt \in Submitted => typed[e] # "none"

(* What was asked, and what was moved.                                      *)
EpisodeOK(e) ==
    /\ e \in asked =>
         \/ Outstanding(deadline, e) \/ e \in overtaken
         \/ typed[e] # "none" \/ note[e].state = "expired"
    /\ e \in escalated => note[e].attempt \in Submitted
    /\ e \in moved => e <= deadline.ordinal
    /\ e \in moved /\ deadline.ordinal = e =>
           deadline.pending \/ (deadline.phase = "observing" /\ deadline.quiet = 0)

IInv ==
    /\ TypeOK
    /\ \A c \in Checkers : CheckOK(c)
    /\ DeadlineOK /\ WorkerOK
    /\ \A e \in Episodes : NoteOK(e) /\ EpisodeOK(e)
    /\ HalvesAgree

(* The sets of records TypeOK is made of.                                   *)
Shades == {"none", "queued", "claimed"} \union Submitted
Closures == [episode : 0..MaxEpisodes, how : {"none", "cancelled", "answered"}]
Pcs == {"idle", "authority", "submit", "claim", "find", "claimDeadline",
        "claimNote", "record", "recordNote", "recordDeadline"}
Workers == [pc : Pcs, episode : 0..MaxEpisodes, replay : BOOLEAN]
Checks == [pc : {"idle", "observe", "effect", "persist"},
           read : DriftStates, seen : Prints \union {NoPrint}]

(* What the moves of the delivery pass, and of the reducer, do to a record. *)
LEMMA WorkerMoves ==
    ASSUME NEW w \in Workers, NEW p \in Pcs
    PROVE  /\ [w EXCEPT !.pc = p] \in Workers
           /\ [w EXCEPT !.pc = p].pc = p
           /\ [w EXCEPT !.pc = p].episode = w.episode
           /\ [w EXCEPT !.pc = p].replay = w.replay
    BY DEF Workers

LEMMA WorkerStarts ==
    ASSUME NEW e \in Episodes
    PROVE  [Idle EXCEPT !.pc = "authority", !.episode = e] \in Workers /\ Idle \in Workers
  <1>1. e \in 0..MaxEpisodes /\ 0 \in 0..MaxEpisodes
    BY EpisodeAssumption DEF Episodes
  <1>2. Idle \in Workers
    BY <1>1 DEF Idle, Workers, Pcs
  <1>3. [Idle EXCEPT !.pc = "authority", !.episode = e] \in Workers
    BY <1>1 DEF Idle, Workers, Pcs
  <1> QED BY <1>2, <1>3

(* Going to rest forgets everything but the ordinal and how it closed.      *)
LEMMA RestingIs ==
    ASSUME NEW d \in DriftStates, NEW seen \in Prints \union {NoPrint}, NEW k \in Closures
    PROVE  LET r == Resting(d, seen, k) IN
           /\ r \in DriftStates
           /\ r.phase = "observing" /\ r.quiet = 0 /\ r.ordinal = d.ordinal
           /\ r.status = "none" /\ ~r.pending /\ r.count = 0 /\ r.print = seen
           /\ r.closed = k
  <1>1. d.ordinal \in 0..MaxEpisodes /\ 0 \in 0..2 /\ 0 \in 0..3
    BY DEF DriftStates
  <1>2. Resting(d, seen, k) \in DriftStates
    BY <1>1 DEF Resting, DriftStates, Closures
  <1> QED BY <1>2 DEF Resting

(* One field of a drift state is replaced, the others stay.                 *)
LEMMA PhaseIs ==
    ASSUME NEW d \in DriftStates, NEW p \in {"observing", "outstanding", "escalated"}
    PROVE  LET r == [d EXCEPT !.phase = p] IN
           /\ r \in DriftStates
           /\ r.phase = p /\ r.quiet = d.quiet /\ r.ordinal = d.ordinal
           /\ r.status = d.status /\ r.pending = d.pending /\ r.count = d.count
           /\ r.print = d.print /\ r.closed = d.closed
    BY DEF DriftStates

LEMMA QuietIs ==
    ASSUME NEW d \in DriftStates, NEW n \in 0..2
    PROVE  LET r == [d EXCEPT !.quiet = n] IN
           /\ r \in DriftStates
           /\ r.phase = d.phase /\ r.quiet = n /\ r.ordinal = d.ordinal
           /\ r.status = d.status /\ r.pending = d.pending /\ r.count = d.count
           /\ r.print = d.print /\ r.closed = d.closed
    BY DEF DriftStates

LEMMA OrdinalIs ==
    ASSUME NEW d \in DriftStates, NEW n \in 0..MaxEpisodes
    PROVE  LET r == [d EXCEPT !.ordinal = n] IN
           /\ r \in DriftStates
           /\ r.phase = d.phase /\ r.quiet = d.quiet /\ r.ordinal = n
           /\ r.status = d.status /\ r.pending = d.pending /\ r.count = d.count
           /\ r.print = d.print /\ r.closed = d.closed
    BY DEF DriftStates

LEMMA StatusIs ==
    ASSUME NEW d \in DriftStates, NEW s \in Shades
    PROVE  LET r == [d EXCEPT !.status = s] IN
           /\ r \in DriftStates
           /\ r.phase = d.phase /\ r.quiet = d.quiet /\ r.ordinal = d.ordinal
           /\ r.status = s /\ r.pending = d.pending /\ r.count = d.count
           /\ r.print = d.print /\ r.closed = d.closed
    BY DEF DriftStates, Shades

LEMMA PendingIs ==
    ASSUME NEW d \in DriftStates, NEW b \in BOOLEAN
    PROVE  LET r == [d EXCEPT !.pending = b] IN
           /\ r \in DriftStates
           /\ r.phase = d.phase /\ r.quiet = d.quiet /\ r.ordinal = d.ordinal
           /\ r.status = d.status /\ r.pending = b /\ r.count = d.count
           /\ r.print = d.print /\ r.closed = d.closed
    BY DEF DriftStates

LEMMA CountIs ==
    ASSUME NEW d \in DriftStates, NEW n \in 0..3
    PROVE  LET r == [d EXCEPT !.count = n] IN
           /\ r \in DriftStates
           /\ r.phase = d.phase /\ r.quiet = d.quiet /\ r.ordinal = d.ordinal
           /\ r.status = d.status /\ r.pending = d.pending /\ r.count = n
           /\ r.print = d.print /\ r.closed = d.closed
    BY DEF DriftStates

LEMMA PrintIs ==
    ASSUME NEW d \in DriftStates, NEW f \in Prints \union {NoPrint}
    PROVE  LET r == [d EXCEPT !.print = f] IN
           /\ r \in DriftStates
           /\ r.phase = d.phase /\ r.quiet = d.quiet /\ r.ordinal = d.ordinal
           /\ r.status = d.status /\ r.pending = d.pending /\ r.count = d.count
           /\ r.print = f /\ r.closed = d.closed
    BY DEF DriftStates

LEMMA ClosedIs ==
    ASSUME NEW d \in DriftStates, NEW k \in Closures
    PROVE  LET r == [d EXCEPT !.closed = k] IN
           /\ r \in DriftStates
           /\ r.phase = d.phase /\ r.quiet = d.quiet /\ r.ordinal = d.ordinal
           /\ r.status = d.status /\ r.pending = d.pending /\ r.count = d.count
           /\ r.print = d.print /\ r.closed = k
    BY DEF DriftStates, Closures

(* The transitions of the reducer, field by field.                          *)
LEMMA BeginsIs ==
    ASSUME NEW d \in DriftStates, NEW n \in 0..MaxEpisodes
    PROVE  LET r == [d EXCEPT !.quiet = 1, !.ordinal = n] IN
           /\ r \in DriftStates
           /\ r.phase = d.phase /\ r.quiet = 1 /\ r.ordinal = n
           /\ r.status = d.status /\ r.pending = d.pending /\ r.count = d.count
           /\ r.print = d.print /\ r.closed = d.closed
  <1> DEFINE r1 == [d EXCEPT !.quiet = 1]
             r2 == [r1 EXCEPT !.ordinal = n]
  <1>0. 1 \in 0..2
    OBVIOUS
  <1>e. r2 = [d EXCEPT !.quiet = 1, !.ordinal = n]
    BY Zenon
  <1>1.
        /\ r1 \in DriftStates
        /\ r1.phase = d.phase /\ r1.quiet = 1 /\ r1.ordinal = d.ordinal
        /\ r1.status = d.status /\ r1.pending = d.pending /\ r1.count = d.count
        /\ r1.print = d.print /\ r1.closed = d.closed
    BY <1>0, QuietIs
  <1>2.
        /\ r2 \in DriftStates
        /\ r2.phase = d.phase /\ r2.quiet = 1 /\ r2.ordinal = n
        /\ r2.status = d.status /\ r2.pending = d.pending /\ r2.count = d.count
        /\ r2.print = d.print /\ r2.closed = d.closed
    <2> HIDE DEF r1
    <2> QED BY <1>0, <1>1, OrdinalIs
  <1> HIDE DEF r1, r2
  <1> QED BY <1>e, <1>2

LEMMA AskIs ==
    ASSUME NEW d \in DriftStates
    PROVE  LET r == [d EXCEPT !.phase = "outstanding", !.quiet = 2, !.status = "queued",
                              !.closed = NoClosure] IN
           /\ r \in DriftStates
           /\ r.phase = "outstanding" /\ r.quiet = 2 /\ r.ordinal = d.ordinal
           /\ r.status = "queued" /\ r.pending = d.pending /\ r.count = d.count
           /\ r.print = d.print /\ r.closed = NoClosure
  <1> DEFINE r1 == [d EXCEPT !.phase = "outstanding"]
             r2 == [r1 EXCEPT !.quiet = 2]
             r3 == [r2 EXCEPT !.status = "queued"]
             r4 == [r3 EXCEPT !.closed = NoClosure]
  <1>0. /\ "outstanding" \in {"observing", "outstanding", "escalated"} /\ 2 \in 0..2
        /\ "queued" \in Shades /\ NoClosure \in Closures
    BY EpisodeAssumption DEF Shades, NoClosure, Closures
  <1>e. r4 = [d EXCEPT !.phase = "outstanding", !.quiet = 2, !.status = "queued",
                       !.closed = NoClosure]
    BY Zenon
  <1>1.
        /\ r1 \in DriftStates
        /\ r1.phase = "outstanding" /\ r1.quiet = d.quiet /\ r1.ordinal = d.ordinal
        /\ r1.status = d.status /\ r1.pending = d.pending /\ r1.count = d.count
        /\ r1.print = d.print /\ r1.closed = d.closed
    BY <1>0, PhaseIs
  <1>2.
        /\ r2 \in DriftStates
        /\ r2.phase = "outstanding" /\ r2.quiet = 2 /\ r2.ordinal = d.ordinal
        /\ r2.status = d.status /\ r2.pending = d.pending /\ r2.count = d.count
        /\ r2.print = d.print /\ r2.closed = d.closed
    <2> HIDE DEF r1
    <2> QED BY <1>0, <1>1, QuietIs
  <1>3.
        /\ r3 \in DriftStates
        /\ r3.phase = "outstanding" /\ r3.quiet = 2 /\ r3.ordinal = d.ordinal
        /\ r3.status = "queued" /\ r3.pending = d.pending /\ r3.count = d.count
        /\ r3.print = d.print /\ r3.closed = d.closed
    <2> HIDE DEF r1, r2
    <2> QED BY <1>0, <1>2, StatusIs
  <1>4.
        /\ r4 \in DriftStates
        /\ r4.phase = "outstanding" /\ r4.quiet = 2 /\ r4.ordinal = d.ordinal
        /\ r4.status = "queued" /\ r4.pending = d.pending /\ r4.count = d.count
        /\ r4.print = d.print /\ r4.closed = NoClosure
    <2> HIDE DEF r1, r2, r3
    <2> QED BY <1>0, <1>3, ClosedIs
  <1> HIDE DEF r1, r2, r3, r4
  <1> QED BY <1>e, <1>4

LEMMA EscalateIs ==
    ASSUME NEW d \in DriftStates
    PROVE  LET r == [d EXCEPT !.phase = "escalated", !.count = 3] IN
           /\ r \in DriftStates
           /\ r.phase = "escalated" /\ r.quiet = d.quiet /\ r.ordinal = d.ordinal
           /\ r.status = d.status /\ r.pending = d.pending /\ r.count = 3
           /\ r.print = d.print /\ r.closed = d.closed
  <1> DEFINE r1 == [d EXCEPT !.phase = "escalated"]
             r2 == [r1 EXCEPT !.count = 3]
  <1>0. "escalated" \in {"observing", "outstanding", "escalated"} /\ 3 \in 0..3
    OBVIOUS
  <1>e. r2 = [d EXCEPT !.phase = "escalated", !.count = 3]
    BY Zenon
  <1>1.
        /\ r1 \in DriftStates
        /\ r1.phase = "escalated" /\ r1.quiet = d.quiet /\ r1.ordinal = d.ordinal
        /\ r1.status = d.status /\ r1.pending = d.pending /\ r1.count = d.count
        /\ r1.print = d.print /\ r1.closed = d.closed
    BY <1>0, PhaseIs
  <1>2.
        /\ r2 \in DriftStates
        /\ r2.phase = "escalated" /\ r2.quiet = d.quiet /\ r2.ordinal = d.ordinal
        /\ r2.status = d.status /\ r2.pending = d.pending /\ r2.count = 3
        /\ r2.print = d.print /\ r2.closed = d.closed
    <2> HIDE DEF r1
    <2> QED BY <1>0, <1>1, CountIs
  <1> HIDE DEF r1, r2
  <1> QED BY <1>e, <1>2

LEMMA DeferIs ==
    ASSUME NEW d \in DriftStates, NEW f \in Prints \union {NoPrint}
    PROVE  LET r == [d EXCEPT !.print = f, !.pending = TRUE] IN
           /\ r \in DriftStates
           /\ r.phase = d.phase /\ r.quiet = d.quiet /\ r.ordinal = d.ordinal
           /\ r.status = d.status /\ r.pending = TRUE /\ r.count = d.count
           /\ r.print = f /\ r.closed = d.closed
  <1> DEFINE r1 == [d EXCEPT !.print = f]
             r2 == [r1 EXCEPT !.pending = TRUE]
  <1>0. TRUE \in BOOLEAN
    OBVIOUS
  <1>e. r2 = [d EXCEPT !.print = f, !.pending = TRUE]
    BY Zenon
  <1>1.
        /\ r1 \in DriftStates
        /\ r1.phase = d.phase /\ r1.quiet = d.quiet /\ r1.ordinal = d.ordinal
        /\ r1.status = d.status /\ r1.pending = d.pending /\ r1.count = d.count
        /\ r1.print = f /\ r1.closed = d.closed
    BY <1>0, PrintIs
  <1>2.
        /\ r2 \in DriftStates
        /\ r2.phase = d.phase /\ r2.quiet = d.quiet /\ r2.ordinal = d.ordinal
        /\ r2.status = d.status /\ r2.pending = TRUE /\ r2.count = d.count
        /\ r2.print = f /\ r2.closed = d.closed
    <2> HIDE DEF r1
    <2> QED BY <1>0, <1>1, PendingIs
  <1> HIDE DEF r1, r2
  <1> QED BY <1>e, <1>2

(* What a check makes of the state it read, one line of the reducer at a    *)
(* time, and the record it writes first.                                    *)
Rests(d, n) ==
    n.phase = "observing" /\ n.quiet = 0 /\ n.ordinal = d.ordinal /\ n.status = "none"
    /\ ~n.pending /\ n.count = 0

Outcome(d, seen, r) ==
    \/ /\ d.phase = "outstanding" /\ d.status = "queued" /\ Effect(d, seen) = "expire"
       /\ Rests(d, r) /\ r.closed = Closure(d, "cancelled")
    \/ /\ d.phase = "outstanding" /\ d.status = "claimed" /\ Effect(d, seen) = "none"
       /\ r.phase = d.phase /\ r.quiet = d.quiet /\ r.ordinal = d.ordinal
       /\ r.status = d.status /\ r.pending /\ r.count = d.count /\ r.closed = d.closed
    \/ /\ d.status \in Submitted /\ Effect(d, seen) = "none"
       /\ Rests(d, r) /\ r.closed = Closure(d, "answered")
    \/ /\ d.phase = "observing" /\ Effect(d, seen) = "none"
       /\ Rests(d, r) /\ r.closed = d.closed
    \/ /\ d.phase = "observing" /\ d.quiet = 0 /\ Effect(d, seen) = "none"
       /\ r.phase = d.phase /\ r.quiet = 1 /\ r.ordinal = d.ordinal + 1
       /\ r.status = d.status /\ r.pending = d.pending /\ r.count = d.count
       /\ r.closed = d.closed
    \/ /\ d.phase = "observing" /\ d.quiet = 1 /\ Effect(d, seen) = "request"
       /\ r.phase = "outstanding" /\ r.quiet = 2 /\ r.ordinal = d.ordinal
       /\ r.status = "queued" /\ r.pending = d.pending /\ r.count = d.count
       /\ r.closed = NoClosure
    \/ /\ d.phase = "outstanding" /\ d.status \in Submitted /\ Effect(d, seen) = "none"
       /\ d.count < 2 /\ r.phase = d.phase /\ r.quiet = d.quiet /\ r.ordinal = d.ordinal
       /\ r.status = d.status /\ r.pending = d.pending /\ r.count = d.count + 1
       /\ r.closed = d.closed
    \/ /\ d.phase = "outstanding" /\ d.status \in Submitted /\ Effect(d, seen) = "escalate"
       /\ r.phase = "escalated" /\ r.quiet = d.quiet /\ r.ordinal = d.ordinal
       /\ r.status = d.status /\ r.pending = d.pending /\ r.count = 3
       /\ r.closed = d.closed
    \/ Effect(d, seen) = "none" /\ r = d

(* The fields of the records that TypeOK types.                             *)
LEMMA DriftFields ==
    ASSUME NEW d \in DriftStates
    PROVE  /\ d.phase \in {"observing", "outstanding", "escalated"}
           /\ d.quiet \in 0..2 /\ d.ordinal \in 0..MaxEpisodes
           /\ d.status \in Shades /\ d.pending \in BOOLEAN /\ d.count \in 0..3
           /\ d.print \in Prints \union {NoPrint} /\ d.closed \in Closures
    BY DEF DriftStates, Shades, Closures

(* The reducer keeps the shape of a drift state. *)
LEMMA ReducedIs ==
    ASSUME NEW d \in DriftStates, NEW seen \in Prints \union {NoPrint}, Shape(d),
           Moved(d, seen) \/ d.phase # "observing" \/ d.quiet = 1 \/ d.ordinal < MaxEpisodes
    PROVE  LET r == Reduced(d, seen) IN
           r \in DriftStates /\ Shape(r) /\ Outcome(d, seen, r)
  <1> DEFINE r == Reduced(d, seen)
  <1> SUFFICES r \in DriftStates /\ Shape(r) /\ Outcome(d, seen, r)
    OBVIOUS
  <1>0. /\ d.phase \in {"observing", "outstanding", "escalated"}
        /\ d.quiet \in 0..2 /\ d.ordinal \in 0..MaxEpisodes /\ d.ordinal \in Nat
        /\ d.status \in Shades /\ d.pending \in BOOLEAN /\ d.count \in 0..3
        /\ d.print \in Prints \union {NoPrint} /\ d.closed \in Closures
        /\ Closure(d, "cancelled") \in Closures /\ Closure(d, "answered") \in Closures
    BY DriftFields, EpisodeAssumption DEF Closure, Closures
  <1>c. /\ d.closed \in Closures
        /\ Closure(d, "cancelled") \in Closures /\ Closure(d, "answered") \in Closures
    BY <1>0
  <1>1. CASE Moved(d, seen) /\ d.phase = "outstanding" /\ d.status = "queued"
    <2>1. r = Resting(d, seen, Closure(d, "cancelled"))
      BY <1>1 DEF Reduced, AfterMovement, Submitted
    <2>2. Effect(d, seen) = "expire"
      BY <1>1 DEF Effect
    <2> HIDE DEF r
    <2>3. r \in DriftStates /\ Rests(d, r) /\ r.closed = Closure(d, "cancelled")
      BY <1>c, <2>1, RestingIs DEF Rests
    <2>4. Shape(r)
      BY <2>3 DEF Rests, Shape, Submitted
    <2> QED BY <1>1, <2>2, <2>3, <2>4 DEF Outcome
  <1>2. CASE Moved(d, seen) /\ d.phase = "outstanding" /\ d.status = "claimed"
    <2>1. r = [d EXCEPT !.print = seen, !.pending = TRUE]
      BY <1>2 DEF Reduced, AfterMovement, Submitted
    <2>2. Effect(d, seen) = "none"
      BY <1>2 DEF Effect
    <2> HIDE DEF r
    <2> QED BY <1>0, <1>2, <2>1, <2>2, DeferIs DEF Outcome, Shape, Submitted
  <1>3. CASE Moved(d, seen) /\ d.status \in Submitted
    <2>1. r = Resting(d, seen, Closure(d, "answered"))
      BY <1>3 DEF Reduced, AfterMovement, Shape, Submitted
    <2>2. Effect(d, seen) = "none"
      BY <1>3 DEF Effect, Submitted
    <2> HIDE DEF r
    <2>3. r \in DriftStates /\ Rests(d, r) /\ r.closed = Closure(d, "answered")
      BY <1>c, <2>1, RestingIs DEF Rests
    <2>4. Shape(r)
      BY <2>3 DEF Rests, Shape, Submitted
    <2> QED BY <1>3, <2>2, <2>3, <2>4 DEF Outcome
  <1>4. CASE Moved(d, seen) /\ d.phase = "observing"
    <2>1. r = Resting(d, seen, d.closed)
      BY <1>4 DEF Reduced, AfterMovement, Shape, Submitted
    <2>2. Effect(d, seen) = "none"
      BY <1>4 DEF Effect, Submitted
    <2> HIDE DEF r
    <2>3. r \in DriftStates /\ Rests(d, r) /\ r.closed = d.closed
      BY <1>c, <2>1, RestingIs DEF Rests
    <2>4. Shape(r)
      BY <2>3 DEF Rests, Shape, Submitted
    <2> QED BY <1>4, <2>2, <2>3, <2>4 DEF Outcome
  <1>5. CASE ~Moved(d, seen) /\ d.phase = "observing" /\ d.quiet = 0
    <2>1. r = [d EXCEPT !.quiet = 1, !.ordinal = d.ordinal + 1]
      BY <1>5 DEF Reduced, AfterQuiet
    <2>2. Effect(d, seen) = "none"
      BY <1>5 DEF Effect
    <2>3. d.ordinal + 1 \in 0..MaxEpisodes
      BY <1>0, <1>5, EpisodeAssumption
    <2> HIDE DEF r
    <2>4. /\ r \in DriftStates
          /\ r.phase = d.phase /\ r.quiet = 1 /\ r.ordinal = d.ordinal + 1
          /\ r.status = d.status /\ r.pending = d.pending /\ r.count = d.count
          /\ r.closed = d.closed
      BY <2>1, <2>3, BeginsIs
    <2>5. Shape(r)
      BY <1>0, <1>5, <2>4 DEF Shape
    <2> QED BY <1>5, <2>2, <2>4, <2>5 DEF Outcome
  <1>6. CASE ~Moved(d, seen) /\ d.phase = "observing" /\ d.quiet = 1
    <2>1. r = [d EXCEPT !.phase = "outstanding", !.quiet = 2,
                        !.status = "queued", !.closed = NoClosure]
      BY <1>6 DEF Reduced, AfterQuiet
    <2>2. Effect(d, seen) = "request"
      BY <1>6 DEF Effect
    <2> HIDE DEF r
    <2>4. /\ r \in DriftStates
          /\ r.phase = "outstanding" /\ r.quiet = 2 /\ r.ordinal = d.ordinal
          /\ r.status = "queued" /\ r.pending = d.pending /\ r.count = d.count
          /\ r.closed = NoClosure
      BY <2>1, AskIs
    <2>5. Shape(r)
      BY <1>0, <1>6, <2>4 DEF Shape, Submitted
    <2> QED BY <1>6, <2>2, <2>4, <2>5 DEF Outcome
  <1>7. CASE ~Moved(d, seen) /\ d.phase = "outstanding" /\ d.status \in Submitted /\ d.count < 2
    <2>1. r = [d EXCEPT !.count = d.count + 1]
      BY <1>7 DEF Reduced, AfterQuiet
    <2>2. Effect(d, seen) = "none"
      BY <1>0, <1>7 DEF Effect
    <2>3. d.count + 1 \in 0..2 /\ d.count + 1 \in 0..3
      BY <1>0, <1>7
    <2> HIDE DEF r
    <2> QED BY ZenonT(60), <1>0, <1>7, <2>1, <2>2, <2>3, CountIs DEF Outcome, Shape
  <1>8. CASE ~Moved(d, seen) /\ d.phase = "outstanding" /\ d.status \in Submitted /\ ~(d.count < 2)
    <2>0. d.count = 2
      BY <1>0, <1>8 DEF Shape
    <2>1. r = [d EXCEPT !.phase = "escalated", !.count = 3]
      BY <1>8, <2>0 DEF Reduced, AfterQuiet
    <2>2. Effect(d, seen) = "escalate"
      BY <1>8, <2>0 DEF Effect
    <2> HIDE DEF r
    <2> QED BY <1>0, <1>8, <2>1, <2>2, EscalateIs DEF Outcome, Shape, Submitted
  <1>9. CASE /\ ~Moved(d, seen)
             /\ ~(d.phase = "observing" /\ d.quiet \in {0, 1})
             /\ ~(d.phase = "outstanding" /\ d.status \in Submitted)
    <2>1. r = d
      BY <1>9 DEF Reduced, AfterQuiet
    <2>2. Effect(d, seen) = "none"
      BY <1>9 DEF Effect
    <2> HIDE DEF r
    <2> QED BY <1>9, <2>1, <2>2 DEF Outcome
  <1> QED
    BY <1>0, <1>1, <1>2, <1>3, <1>4, <1>5, <1>6, <1>7, <1>8, <1>9 DEF Shades, Shape, Submitted

CheckPcs == {"idle", "observe", "effect", "persist"}

LEMMA Typed ==
    ASSUME TypeOK
    PROVE  /\ deadline \in DriftStates /\ worker \in Workers
           /\ checker \in [Checkers -> Checks] /\ note \in [Episodes -> Notifications]
           /\ evidence \in Prints
    BY DEF TypeOK, Workers, Pcs, Checks

LEMMA StartsTyped ==
    /\ Armed \in DriftStates /\ Shape(Armed) /\ Armed.status = "none" /\ Armed.ordinal = 0
    /\ Idle \in Workers /\ Idle.pc = "idle" /\ Idle.episode = 0 /\ ~Idle.replay
    /\ NoCheck \in Checks /\ NoCheck.pc = "idle" /\ NoCheck.read = Armed
  <1>1. 0 \in 0..MaxEpisodes
    BY EpisodeAssumption
  <1>2. NoClosure \in Closures
    BY <1>1 DEF NoClosure, Closures
  <1>3. Armed \in DriftStates
    BY <1>1, <1>2 DEF Armed, DriftStates, Closures
  <1>4. Shape(Armed) /\ Armed.status = "none" /\ Armed.ordinal = 0
    BY DEF Armed, Shape
  <1>5. Idle \in Workers /\ Idle.pc = "idle" /\ Idle.episode = 0 /\ ~Idle.replay
    BY <1>1 DEF Idle, Workers, Pcs
  <1>6. NoCheck \in Checks /\ NoCheck.pc = "idle" /\ NoCheck.read = Armed
    BY <1>3 DEF NoCheck, Checks
  <1> QED BY <1>3, <1>4, <1>5, <1>6

(* What the small writes of the module do, record by record. *)
LEMMA GoIs ==
    ASSUME worker \in Workers, NEW p \in Pcs, Go(p)
    PROVE  /\ worker' \in Workers /\ worker'.pc = p
           /\ worker'.episode = worker.episode /\ worker'.replay = worker.replay
    BY WorkerMoves DEF Go

LEMMA StepIs ==
    ASSUME checker \in [Checkers -> Checks], NEW c \in Checkers, NEW p \in CheckPcs,
           StepTo(c, p)
    PROVE  /\ checker' \in [Checkers -> Checks]
           /\ checker'[c].pc = p /\ checker'[c].read = checker[c].read
           /\ checker'[c].seen = checker[c].seen
           /\ \A k \in Checkers \ {c} : checker'[k] = checker[k]
    BY DEF StepTo, Checks, CheckPcs

LEMMA PutIs ==
    ASSUME checker \in [Checkers -> Checks], NEW c \in Checkers, NEW v \in Checks,
           checker' = [checker EXCEPT ![c] = v]
    PROVE  /\ checker' \in [Checkers -> Checks]
           /\ checker'[c] = v
           /\ \A k \in Checkers \ {c} : checker'[k] = checker[k]
    OBVIOUS

LEMMA ObserveIs ==
    ASSUME checker \in [Checkers -> Checks], NEW c \in Checkers, evidence \in Prints, Observe(c)
    PROVE  /\ checker' \in [Checkers -> Checks]
           /\ checker'[c].pc = IF Effect(checker[c].read, evidence) = "none"
                               THEN "persist" ELSE "effect"
           /\ checker'[c].read = checker[c].read
           /\ checker'[c].seen = evidence
           /\ \A k \in Checkers \ {c} : checker'[k] = checker[k]
    BY DEF Observe, Checks

LEMMA LoadIs ==
    ASSUME checker \in [Checkers -> Checks], NEW c \in Checkers, deadline \in DriftStates, Load(c)
    PROVE  /\ checker' \in [Checkers -> Checks]
           /\ checker'[c].pc = "observe" /\ checker'[c].read = deadline
           /\ checker'[c].seen = NoPrint
           /\ \A k \in Checkers \ {c} : checker'[k] = checker[k]
  <1>1. [pc |-> "observe", read |-> deadline, seen |-> NoPrint] \in Checks
    BY DEF Checks
  <1> QED BY <1>1 DEF Load

LEMMA NoteIs ==
    ASSUME note \in [Episodes -> Notifications], NEW e \in Episodes,
           NEW s \in {"queued", "offered", "uncertain", "observed", "acknowledged", "expired"},
           NEW a \in {"queued", "claimed"} \union Submitted,
           note' = [note EXCEPT ![e] = [state |-> s, attempt |-> a]]
    PROVE  /\ note' \in [Episodes -> Notifications]
           /\ note'[e].state = s /\ note'[e].attempt = a
           /\ \A k \in Episodes \ {e} : note'[k] = note[k]
  <1>1. [state |-> s, attempt |-> a] \in Notifications
    BY DEF Notifications
  <1> QED BY <1>1

LEMMA NoteFields ==
    ASSUME note \in [Episodes -> Notifications], NEW e \in Episodes
    PROVE  /\ note[e].state \in {"absent", "queued", "offered", "uncertain", "observed",
                                 "acknowledged", "expired"}
           /\ note[e].attempt \in {"queued", "claimed"} \union Submitted
           /\ note[e] = [state |-> note[e].state, attempt |-> note[e].attempt]
    BY DEF Notifications

LEMMA WorkerFields ==
    ASSUME worker \in Workers
    PROVE  /\ worker.pc \in Pcs /\ worker.episode \in 0..MaxEpisodes
           /\ worker.replay \in BOOLEAN
           /\ worker.episode # 0 => worker.episode \in Episodes
    BY DEF Workers, Episodes

LEMMA CheckFields ==
    ASSUME checker \in [Checkers -> Checks], NEW c \in Checkers
    PROVE  /\ checker[c].pc \in CheckPcs /\ checker[c].read \in DriftStates
           /\ checker[c].seen \in Prints \union {NoPrint}
    BY DEF Checks, CheckPcs

(* An effect is of an episode. *)
LEMMA EffectIs ==
    ASSUME NEW d \in DriftStates, NEW seen, Shape(d), Effect(d, seen) # "none"
    PROVE  /\ d.ordinal \in Episodes
           /\ Effect(d, seen) = "expire" => d.phase = "outstanding" /\ d.status = "queued"
           /\ Effect(d, seen) = "request" => d.phase = "observing" /\ d.quiet = 1
           /\ Effect(d, seen) = "escalate" => d.phase = "outstanding" /\ d.status \in Submitted
  <1>1. d.ordinal # 0 => d.ordinal \in Episodes
    BY DriftFields, EpisodeAssumption DEF Episodes
  <1> QED BY <1>1 DEF Effect, Shape

LEMMA HasOrdinal ==
    ASSUME NEW d \in DriftStates, Shape(d), d.status = "queued" \/ d.pending
    PROVE  d.ordinal \in Episodes /\ d.phase = "outstanding"
  <1>1. d.ordinal # 0 => d.ordinal \in Episodes
    BY DriftFields, EpisodeAssumption DEF Episodes
  <1> QED BY <1>1, DriftFields DEF Shape, Submitted

USE DEF At, Here, vars, records, delivery

LEMMA DeadlineTyped ==
    ASSUME IInv, Next
    PROVE  deadline' \in DriftStates
  <1>a. TypeOK
    BY DEF IInv
  <1>b. deadline \in DriftStates /\ worker \in Workers /\ checker \in [Checkers -> Checks]
        /\ note \in [Episodes -> Notifications] /\ evidence \in Prints
    BY <1>a, Typed
  <1>1. ASSUME NEW c \in Checkers,
               Load(c) \/ Observe(c) \/ Refused(c) \/ ExpireQueued(c) \/ EnsureStatus(c)
               \/ EnsureEscalation(c)
        PROVE  deadline' \in DriftStates
    BY <1>1, <1>b
    DEF Load, Observe, Refused, Give, ExpireQueued, WriteNote, StepTo, EnsureStatus,
        EnsureEscalation
  <1>2. ASSUME
               ClaimDue \/ EvidenceMoves \/ ListWork \/ Authority \/ SubmitTurn
               \/ ClaimLoad \/ ClaimFind \/ ClaimNote \/ RecordLoad \/ RecordNote \/ Crash
        PROVE  deadline' \in DriftStates
    BY <1>2, <1>b
    DEF ClaimDue, EvidenceMoves, ListWork, Authority, Go, Deliver, Stop, SubmitTurn, Refuse,
        ClaimLoad, ClaimFind, ClaimNote, RecordLoad, RecordNote, Crash
  <1>3. ASSUME NEW x \in Episodes,
               TranscriptObserves(x) \/ TranscriptCloses(x) \/ Acknowledge(x)
               \/ TakeUp(x)
        PROVE  deadline' \in DriftStates
    BY <1>3, <1>b
    DEF TranscriptObserves, NoteMoves, WriteNote, TranscriptCloses, Acknowledge, TakeUp
  <1>4. ASSUME NEW c \in Checkers, PersistDrift(c) PROVE deadline' \in DriftStates
    <2>1. CASE c \in holds
      <3>1. checker[c].read \in DriftStates /\ checker[c].seen \in Prints \union {NoPrint}
        BY <1>b, CheckFields
      <3>2. CheckOK(c)
        BY DEF IInv
      <3>3. deadline' = Reduced(checker[c].read, checker[c].seen)
        BY <1>4, <2>1 DEF PersistDrift, CanPersist
      <3> QED BY <1>4, <3>1, <3>2, <3>3, ReducedIs DEF PersistDrift, CheckOK
    <2> QED BY <1>4, <1>b, <2>1 DEF PersistDrift, CanPersist
  <1>5. ASSUME ResetEpisode PROVE deadline' \in DriftStates
    <2>1. NoClosure \in Closures
      BY EpisodeAssumption DEF NoClosure, Closures
    <2> QED BY <1>5, <1>b, <2>1, RestingIs, DriftFields DEF ResetEpisode
  <1>6. ASSUME ClaimDeadline PROVE deadline' \in DriftStates
    <2>1. "claimed" \in Shades
      BY DEF Shades
    <2> QED BY <1>6, <1>b, <2>1, StatusIs DEF ClaimDeadline
  <1>7. ASSUME RecordDeadline PROVE deadline' \in DriftStates
    <2>1. CASE Worker \in holds /\ deadline.pending
      <3>1. Closure(deadline, "answered") \in Closures
        BY <1>b, DriftFields DEF Closure, Closures
      <3>2. deadline' = Resting(deadline, deadline.print, Closure(deadline, "answered"))
        BY <1>7, <2>1 DEF RecordDeadline, SubmittedState
      <3>3. deadline.print \in Prints \union {NoPrint}
        BY <1>b, DriftFields
      <3> QED BY <1>b, <3>1, <3>2, <3>3, RestingIs
    <2>2. CASE Worker \in holds /\ ~deadline.pending
      <3>1. typed[Here] \in Shades
        BY <1>b, <1>7, WorkerFields DEF IInv, WorkerOK, RecordDeadline, TypeOK, Shades
      <3>2. deadline' = [deadline EXCEPT !.status = typed[Here]]
        BY <1>7, <2>2 DEF RecordDeadline, SubmittedState
      <3> QED BY <1>b, <3>1, <3>2, StatusIs
    <2> QED BY <1>7, <1>b, <2>1, <2>2 DEF RecordDeadline
  <1> QED
    BY <1>1, <1>2, <1>3, <1>4, <1>5, <1>6, <1>7 DEF Next, Check, Pass, Claim, Record

LEMMA NoteTyped ==
    ASSUME IInv, Next
    PROVE  note' \in [Episodes -> Notifications]
  <1>a. TypeOK
    BY DEF IInv
  <1>b. deadline \in DriftStates /\ worker \in Workers /\ checker \in [Checkers -> Checks]
        /\ note \in [Episodes -> Notifications] /\ evidence \in Prints
    BY <1>a, Typed
  <1>1. ASSUME NEW c \in Checkers,
               Load(c) \/ Observe(c) \/ Refused(c) \/ EnsureEscalation(c)
               \/ PersistDrift(c)
        PROVE  note' \in [Episodes -> Notifications]
    BY <1>1, <1>b
    DEF Load, Observe, Refused, Give, EnsureEscalation, StepTo, PersistDrift, CanPersist
  <1>2. ASSUME NEW c \in Checkers, ExpireQueued(c) \/ EnsureStatus(c)
        PROVE  note' \in [Episodes -> Notifications]
    BY <1>2, <1>b, NoteIs, NoteFields DEF ExpireQueued, WriteNote, StepTo, Give, EnsureStatus
  <1>3. ASSUME
               ClaimDue \/ ResetEpisode \/ EvidenceMoves \/ ListWork \/ Authority
               \/ SubmitTurn \/ ClaimLoad \/ ClaimFind \/ ClaimDeadline \/ RecordLoad
               \/ RecordDeadline \/ Crash
        PROVE  note' \in [Episodes -> Notifications]
    BY <1>3, <1>b
    DEF ClaimDue, ResetEpisode, EvidenceMoves, ListWork, Authority, Go, Deliver, Stop,
        SubmitTurn, Refuse, ClaimLoad, ClaimFind, ClaimDeadline, RecordLoad, RecordDeadline,
        Crash
  <1>4. ASSUME NEW x \in Episodes,
               TranscriptObserves(x) \/ TranscriptCloses(x) \/ Acknowledge(x)
        PROVE  note' \in [Episodes -> Notifications]
    BY <1>4, <1>b, NoteIs, NoteFields
    DEF TranscriptObserves, NoteMoves, WriteNote, TranscriptCloses, Acknowledge
  <1>5. ASSUME NEW x \in Episodes, TakeUp(x)
        PROVE  note' \in [Episodes -> Notifications]
    BY <1>5, <1>b DEF TakeUp
  <1>6. ASSUME ClaimNote PROVE note' \in [Episodes -> Notifications]
    <2>1. Here \in Episodes
      BY <1>b, <1>6, WorkerFields DEF IInv, WorkerOK, ClaimNote
    <2> QED BY <1>6, <1>b, <2>1, NoteIs DEF ClaimNote
  <1>7. ASSUME RecordNote PROVE note' \in [Episodes -> Notifications]
    <2>1. Here \in Episodes
      BY <1>b, <1>7, WorkerFields DEF IInv, WorkerOK, RecordNote
    <2>2. typed[Here] \in Submitted
      BY <1>7, <2>1 DEF IInv, WorkerOK, TypeOK, RecordNote
    <2> QED BY <1>7, <1>b, <2>1, <2>2, NoteIs DEF RecordNote
  <1> QED
    BY <1>1, <1>2, <1>3, <1>4, <1>5, <1>6, <1>7 DEF Next, Check, Pass, Claim, Record

LEMMA CheckerTyped ==
    ASSUME IInv, Next
    PROVE  checker' \in [Checkers -> Checks]
  <1>a. TypeOK
    BY DEF IInv
  <1>b. deadline \in DriftStates /\ worker \in Workers /\ checker \in [Checkers -> Checks]
        /\ note \in [Episodes -> Notifications] /\ evidence \in Prints
    BY <1>a, Typed
  <1>c. NoCheck \in Checks /\ "persist" \in CheckPcs
    BY StartsTyped DEF CheckPcs
  <1>1. ASSUME NEW c \in Checkers, Load(c)
        PROVE  checker' \in [Checkers -> Checks]
    BY <1>1, <1>b, LoadIs DEF Load
  <1>2. ASSUME NEW c \in Checkers, Observe(c)
        PROVE  checker' \in [Checkers -> Checks]
    BY <1>2, <1>b, ObserveIs DEF Observe
  <1>3. ASSUME NEW c \in Checkers, Refused(c) \/ PersistDrift(c)
        PROVE  checker' \in [Checkers -> Checks]
    BY <1>3, <1>b, <1>c, PutIs DEF Refused, Give, PersistDrift, CanPersist
  <1>4. ASSUME NEW c \in Checkers, ExpireQueued(c)
        PROVE  checker' \in [Checkers -> Checks]
    BY <1>4, <1>b, <1>c, PutIs, StepIs DEF ExpireQueued, Give
  <1>5. ASSUME NEW c \in Checkers, EnsureStatus(c)
        PROVE  checker' \in [Checkers -> Checks]
    BY <1>5, <1>b, <1>c, StepIs DEF EnsureStatus
  <1>6. ASSUME NEW c \in Checkers, EnsureEscalation(c)
        PROVE  checker' \in [Checkers -> Checks]
    BY <1>6, <1>b, <1>c, StepIs DEF EnsureEscalation
  <1>7. ASSUME
               ClaimDue \/ ResetEpisode \/ EvidenceMoves \/ ListWork \/ Authority
               \/ SubmitTurn \/ ClaimLoad \/ ClaimFind \/ ClaimDeadline \/ ClaimNote
               \/ RecordLoad \/ RecordNote \/ RecordDeadline
        PROVE  checker' \in [Checkers -> Checks]
    BY <1>7, <1>b
    DEF ClaimDue, ResetEpisode, EvidenceMoves, ListWork, Authority, Go, Deliver, Stop,
        SubmitTurn, Refuse, ClaimLoad, ClaimFind, ClaimDeadline, ClaimNote, RecordLoad,
        RecordNote, RecordDeadline
  <1>8. ASSUME NEW x \in Episodes,
               TranscriptObserves(x) \/ TranscriptCloses(x) \/ Acknowledge(x)
               \/ TakeUp(x)
        PROVE  checker' \in [Checkers -> Checks]
    BY <1>8, <1>b
    DEF TranscriptObserves, NoteMoves, WriteNote, TranscriptCloses, Acknowledge, TakeUp
  <1>9. ASSUME Crash
        PROVE  checker' \in [Checkers -> Checks]
    BY <1>9, <1>c DEF Crash
  <1> QED
    BY <1>1, <1>2, <1>3, <1>4, <1>5, <1>6, <1>7, <1>8, <1>9 DEF Next, Check, Pass, Claim, Record

LEMMA WorkerTyped ==
    ASSUME IInv, Next
    PROVE  worker' \in Workers
  <1>a. TypeOK
    BY DEF IInv
  <1>b. deadline \in DriftStates /\ worker \in Workers /\ checker \in [Checkers -> Checks]
        /\ note \in [Episodes -> Notifications] /\ evidence \in Prints
    BY <1>a, Typed
  <1>c. Idle \in Workers
    BY StartsTyped
  <1>1. ASSUME NEW c \in Checkers,
               Load(c) \/ Observe(c) \/ Refused(c) \/ ExpireQueued(c) \/ EnsureStatus(c)
               \/ EnsureEscalation(c) \/ PersistDrift(c)
        PROVE  worker' \in Workers
    BY <1>1, <1>b
    DEF Load, Observe, Refused, Give, ExpireQueued, WriteNote, StepTo, EnsureStatus,
        EnsureEscalation, PersistDrift, CanPersist
  <1>2. ASSUME ClaimDue \/ ResetEpisode \/ EvidenceMoves \/ ListWork
        PROVE  worker' \in Workers
    BY <1>2, <1>b DEF ClaimDue, ResetEpisode, EvidenceMoves, ListWork
  <1>3. ASSUME NEW x \in Episodes,
               TranscriptObserves(x) \/ TranscriptCloses(x) \/ Acknowledge(x)
        PROVE  worker' \in Workers
    BY <1>3, <1>b DEF TranscriptObserves, NoteMoves, WriteNote, TranscriptCloses, Acknowledge
  <1>4. ASSUME NEW x \in Episodes, TakeUp(x)
        PROVE  worker' \in Workers
    BY <1>4, WorkerStarts DEF TakeUp
  <1>5. ASSUME
               Authority \/ SubmitTurn \/ ClaimFind \/ ClaimDeadline \/ ClaimNote
               \/ RecordLoad \/ RecordNote
        PROVE  worker' \in Workers
    BY <1>5, <1>b, <1>c, GoIs
    DEF Authority, Deliver, Stop, SubmitTurn, Refuse, ClaimFind, ClaimDeadline, ClaimNote,
        RecordLoad, RecordNote, Pcs
  <1>6. ASSUME RecordDeadline \/ Crash
        PROVE  worker' \in Workers
    BY <1>6, <1>c DEF RecordDeadline, Refuse, Stop, Crash
  <1>7. ASSUME ClaimLoad PROVE worker' \in Workers
    <2>1. [worker EXCEPT !.pc = "find", !.replay = (note[Here].attempt # "queued")] \in Workers
      BY <1>b DEF Workers, Pcs
    <2> QED BY <1>c, <1>7, <2>1 DEF ClaimLoad, Refuse, Stop
  <1> QED
    BY <1>1, <1>2, <1>3, <1>4, <1>5, <1>6, <1>7 DEF Next, Check, Pass, Claim, Record

(* TypeOK, the rest. *)
RestTyped ==
    /\ escalated \subseteq Episodes /\ asked \subseteq Episodes
    /\ typed \in [Episodes -> {"none"} \union Submitted]
    /\ list \subseteq Episodes /\ holds \subseteq Holders /\ holdsNote \in BOOLEAN
    /\ answered \subseteq Episodes /\ halved \subseteq Episodes
    /\ overtaken \subseteq Episodes /\ moved \subseteq Episodes

(* Type correctness, one lemma for what each kind of step writes.           *)
LEMMA RestKept ==
    ASSUME IInv, Next
    PROVE  RestTyped'
  <1>a. TypeOK
    BY DEF IInv
  <1>b. deadline \in DriftStates /\ worker \in Workers /\ checker \in [Checkers -> Checks]
        /\ note \in [Episodes -> Notifications] /\ evidence \in Prints
    BY <1>a, Typed
  <1>c. RestTyped
    BY <1>a DEF TypeOK, RestTyped
  <1>d. Worker \in Holders /\ \A c \in Checkers : c \in Holders
    BY DEF Holders
  <1>e. worker.pc \notin {"idle"} => Here \in Episodes
    BY <1>b, WorkerFields DEF IInv, WorkerOK
  <1>1. ASSUME NEW c \in Checkers,
               Load(c) \/ Observe(c) \/ Refused(c) \/ EnsureStatus(c)
        PROVE  RestTyped'
    BY <1>1, <1>c, <1>d, <1>e
    DEF Load, Observe, Refused, Give, EnsureStatus, WriteNote, StepTo, RestTyped
  <1>2. ASSUME
               ClaimDue \/ ResetEpisode \/ EvidenceMoves \/ Authority \/ SubmitTurn
               \/ ClaimLoad \/ ClaimFind \/ ClaimDeadline \/ ClaimNote \/ RecordLoad
               \/ RecordNote \/ RecordDeadline \/ Crash
        PROVE  RestTyped'
    BY <1>2, <1>c, <1>d, <1>e
    DEF ClaimDue, ResetEpisode, EvidenceMoves, Authority, Go, Deliver, Stop, SubmitTurn, Refuse,
        ClaimLoad, ClaimFind, ClaimDeadline, ClaimNote, RecordLoad, RecordNote, RecordDeadline,
        Crash, RestTyped
  <1>3. ASSUME NEW x \in Episodes,
               TranscriptObserves(x) \/ TranscriptCloses(x) \/ Acknowledge(x)
               \/ TakeUp(x)
        PROVE  RestTyped'
    BY <1>3, <1>c, <1>d, <1>e
    DEF TranscriptObserves, NoteMoves, WriteNote, TranscriptCloses, Acknowledge, TakeUp,
        RestTyped
  <1>4. ASSUME ListWork
        PROVE  RestTyped'
    BY <1>4, <1>c, <1>d, <1>e DEF ListWork, Candidates, RestTyped
  <1>5. ASSUME NEW c \in Checkers, ExpireQueued(c) PROVE RestTyped'
    <2>1. checker[c].read.ordinal \in Episodes
      BY <1>5, <1>b, CheckFields, EffectIs DEF ExpireQueued, IInv, CheckOK
    <2> QED BY <1>5, <1>c, <1>d, <2>1 DEF ExpireQueued, WriteNote, Give, RestTyped
  <1>6. ASSUME NEW c \in Checkers, EnsureEscalation(c) PROVE RestTyped'
    <2>1. checker[c].read.ordinal \in Episodes
      BY <1>6, <1>b, CheckFields, EffectIs DEF EnsureEscalation, IInv, CheckOK
    <2> QED BY <1>6, <1>c, <1>d, <2>1 DEF EnsureEscalation, RestTyped
  <1>7. ASSUME NEW c \in Checkers, PersistDrift(c) PROVE RestTyped'
    <2> DEFINE next == Reduced(checker[c].read, checker[c].seen)
    <2>1. next \in DriftStates /\ Shape(next)
      BY <1>7, <1>b, CheckFields, ReducedIs DEF PersistDrift, IInv, CheckOK
    <2>2. next.status = "queued" \/ next.pending => next.ordinal \in Episodes
      BY <2>1, HasOrdinal
    <2>3. /\ asked' = asked \/ (next.status = "queued" /\ asked' = asked \union {next.ordinal})
          /\ moved' = moved \/ (next.pending /\ moved' = moved \union {next.ordinal})
          /\ holds' = {} \/ holds' = holds
      BY <1>7 DEF PersistDrift
    <2> HIDE DEF next
    <2> QED BY <1>7, <1>c, <2>2, <2>3 DEF PersistDrift, RestTyped
  <1> QED
    BY <1>1, <1>2, <1>3, <1>4, <1>5, <1>6, <1>7 DEF Next, Check, Pass, Claim, Record

LEMMA TypeKept ==
    ASSUME IInv, Next
    PROVE  TypeOK'
  <1>1. TypeOK
    BY DEF IInv
  <1>2. evidence' \in Prints
    BY <1>1
    DEF TypeOK, Next, Check, Pass, Claim, Record, Load, Observe, Refused, ExpireQueued,
        EnsureStatus, EnsureEscalation, PersistDrift, ClaimDue, ResetEpisode,
        TranscriptObserves, TranscriptCloses, Acknowledge, NoteMoves, EvidenceMoves, ListWork,
        TakeUp, Authority, SubmitTurn, ClaimLoad, ClaimFind, ClaimDeadline, ClaimNote,
        RecordLoad, RecordNote, RecordDeadline, Crash
  <1> QED
    BY SMTT(30), <1>2, DeadlineTyped, NoteTyped, CheckerTyped, WorkerTyped, RestKept
    DEF TypeOK, RestTyped, Workers, Pcs, Checks

(* What no step takes back: a typed turn, a recorded submission, an         *)
(* escalation; a notification once created; and an expired notification     *)
(* stays expired unless the cancellation met a delivery in flight.          *)
NoteLasts(e) ==
    /\ note[e].attempt \in Submitted => note'[e].attempt = note[e].attempt
    /\ note[e].state # "absent" => note'[e].state # "absent"
    /\ note[e].state = "expired" => note'[e] = note[e] \/ e \in overtaken

(* What never goes back: a submitted attempt, a typed turn, the ordinal.    *)
LEMMA NotesLast ==
    ASSUME IInv, Next
    PROVE  \A e \in Episodes : NoteLasts(e)
  <1>a. TypeOK
    BY DEF IInv
  <1>b. deadline \in DriftStates /\ worker \in Workers /\ checker \in [Checkers -> Checks]
        /\ note \in [Episodes -> Notifications] /\ evidence \in Prints
    BY <1>a, Typed
  <1>c. RestTyped
    BY <1>a DEF TypeOK, RestTyped
  <1>e. worker.pc # "idle" => Here \in Episodes
    BY <1>b, WorkerFields DEF IInv, WorkerOK
  <1>1. ASSUME NEW c \in Checkers,
               Load(c) \/ Observe(c) \/ Refused(c) \/ EnsureEscalation(c)
               \/ PersistDrift(c)
        PROVE  \A e \in Episodes : NoteLasts(e)
    BY <1>1, <1>c, <1>e
    DEF Load, Observe, Refused, Give, EnsureEscalation, StepTo, PersistDrift, CanPersist,
        NoteLasts
  <1>2. ASSUME NEW c \in Checkers, ExpireQueued(c)
        PROVE  \A e \in Episodes : NoteLasts(e)
    BY <1>2, <1>b, <1>c, <1>e, NoteIs, NoteFields
    DEF ExpireQueued, WriteNote, StepTo, Give, NoteLasts
  <1>3. ASSUME
               ClaimDue \/ ResetEpisode \/ EvidenceMoves \/ ListWork \/ Authority
               \/ SubmitTurn \/ ClaimLoad \/ ClaimFind \/ ClaimDeadline \/ RecordLoad
               \/ RecordDeadline \/ Crash
        PROVE  \A e \in Episodes : NoteLasts(e)
    BY <1>3, <1>c, <1>e
    DEF ClaimDue, ResetEpisode, EvidenceMoves, ListWork, Authority, Go, Deliver, Stop,
        SubmitTurn, Refuse, ClaimLoad, ClaimFind, ClaimDeadline, RecordLoad, RecordDeadline,
        Crash, NoteLasts
  <1>4. ASSUME NEW x \in Episodes,
               TranscriptObserves(x) \/ TranscriptCloses(x) \/ Acknowledge(x)
        PROVE  \A e \in Episodes : NoteLasts(e)
    BY <1>4, <1>b, <1>c, <1>e, NoteIs, NoteFields
    DEF TranscriptObserves, NoteMoves, WriteNote, TranscriptCloses, Acknowledge, NoteLasts
  <1>5. ASSUME NEW x \in Episodes, TakeUp(x)
        PROVE  \A e \in Episodes : NoteLasts(e)
    BY <1>5, <1>c, <1>e DEF TakeUp, NoteLasts
  <1>6. ASSUME NEW c \in Checkers, EnsureStatus(c) PROVE \A e \in Episodes : NoteLasts(e)
    <2> DEFINE e == checker[c].read.ordinal
    <2>1. e \in Episodes
      BY <1>6, <1>b, CheckFields, EffectIs DEF EnsureStatus, IInv, CheckOK
    <2>2. CASE note[e].state = "absent"
      <3>1. note[e].attempt = "queued"
        BY <2>1, <2>2 DEF IInv, NoteOK
      <3>2. /\ note'[e].state = "queued"
            /\ \A k \in Episodes \ {e} : note'[k] = note[k]
        BY <1>6, <1>b, <2>1, <2>2, NoteIs DEF EnsureStatus, WriteNote
      <3> HIDE DEF e
      <3> QED BY <2>1, <2>2, <3>1, <3>2 DEF NoteLasts, Submitted
    <2>3. CASE note[e].state # "absent"
      BY <1>6, <2>3 DEF EnsureStatus, NoteLasts
    <2> QED BY <2>2, <2>3
  <1>7. ASSUME ClaimNote PROVE \A e \in Episodes : NoteLasts(e)
    <2>1. CASE ~holdsNote
      BY <1>7, <2>1 DEF ClaimNote, Refuse, NoteLasts
    <2>2. CASE holdsNote
      <3>1. note[Here].attempt = "queued"
        BY <1>7, <2>2 DEF ClaimNote, IInv, WorkerOK
      <3>2. note[Here].state = "expired" => Here \in overtaken
        BY <1>7, <1>e DEF ClaimNote, IInv, NoteOK, InFlight
      <3>3. \A e \in Episodes \ {Here} : note'[e] = note[e]
        BY <1>7, <1>b, <1>e, <2>2 DEF ClaimNote
      <3>4. note'[Here].state = "offered"
        BY <1>7, <1>b, <1>e, <2>2 DEF ClaimNote
      <3> QED BY <3>1, <3>2, <3>3, <3>4 DEF NoteLasts, Submitted
    <2> QED BY <2>1, <2>2
  <1>8. ASSUME RecordNote PROVE \A e \in Episodes : NoteLasts(e)
    <2>1. CASE ~holdsNote
      BY <1>8, <2>1 DEF RecordNote, Refuse, NoteLasts
    <2>2. CASE holdsNote
      <3>1. note[Here].attempt = "claimed"
        BY <1>8, <2>2 DEF RecordNote, IInv, WorkerOK
      <3>2. note[Here].state = "expired" => Here \in overtaken
        BY <1>8, <1>e DEF RecordNote, IInv, NoteOK, InFlight
      <3>3. \A e \in Episodes \ {Here} : note'[e] = note[e]
        BY <1>8, <1>b, <1>e, <2>2 DEF RecordNote
      <3>4. note'[Here].state \in {"offered", "uncertain"}
        BY <1>8, <1>b, <1>e, <2>2 DEF RecordNote
      <3> QED BY <3>1, <3>2, <3>3, <3>4 DEF NoteLasts, Submitted
    <2> QED BY <2>1, <2>2
  <1> QED
    BY <1>1, <1>2, <1>3, <1>4, <1>5, <1>6, <1>7, <1>8 DEF Next, Check, Pass, Claim, Record

TurnLasts(e) == typed[e] # "none" => typed'[e] = typed[e]

LEMMA TurnsLast ==
    ASSUME IInv, Next
    PROVE  \A e \in Episodes : TurnLasts(e)
  <1>a. TypeOK
    BY DEF IInv
  <1>b. deadline \in DriftStates /\ worker \in Workers /\ checker \in [Checkers -> Checks]
        /\ note \in [Episodes -> Notifications] /\ evidence \in Prints
    BY <1>a, Typed
  <1>c. RestTyped
    BY <1>a DEF TypeOK, RestTyped
  <1>e. worker.pc # "idle" => Here \in Episodes
    BY <1>b, WorkerFields DEF IInv, WorkerOK
  <1>1. ASSUME NEW c \in Checkers,
               Load(c) \/ Observe(c) \/ Refused(c) \/ ExpireQueued(c) \/ EnsureStatus(c)
               \/ EnsureEscalation(c) \/ PersistDrift(c)
        PROVE  \A e \in Episodes : TurnLasts(e)
    BY <1>1, <1>e
    DEF Load, Observe, Refused, Give, ExpireQueued, WriteNote, StepTo, EnsureStatus,
        EnsureEscalation, PersistDrift, CanPersist, TurnLasts
  <1>2. ASSUME
               ClaimDue \/ ResetEpisode \/ EvidenceMoves \/ ListWork \/ Authority
               \/ ClaimLoad \/ ClaimFind \/ ClaimDeadline \/ ClaimNote \/ RecordLoad
               \/ RecordNote \/ RecordDeadline \/ Crash
        PROVE  \A e \in Episodes : TurnLasts(e)
    BY <1>2, <1>e
    DEF ClaimDue, ResetEpisode, EvidenceMoves, ListWork, Authority, Go, Deliver, Stop,
        ClaimLoad, Refuse, ClaimFind, ClaimDeadline, ClaimNote, RecordLoad, RecordNote,
        RecordDeadline, Crash, TurnLasts
  <1>3. ASSUME NEW x \in Episodes,
               TranscriptObserves(x) \/ TranscriptCloses(x) \/ Acknowledge(x)
               \/ TakeUp(x)
        PROVE  \A e \in Episodes : TurnLasts(e)
    BY <1>3, <1>e
    DEF TranscriptObserves, NoteMoves, WriteNote, TranscriptCloses, Acknowledge, TakeUp,
        TurnLasts
  <1>4. ASSUME SubmitTurn
        PROVE  \A e \in Episodes : TurnLasts(e)
    BY <1>4, <1>c, <1>e DEF SubmitTurn, Go, Refuse, Stop, RestTyped, IInv, WorkerOK, TurnLasts
  <1> QED
    BY <1>1, <1>2, <1>3, <1>4 DEF Next, Check, Pass, Claim, Record

LEMMA OrdinalGrows ==
    ASSUME IInv, Next
    PROVE  deadline.ordinal <= deadline'.ordinal
  <1>a. TypeOK
    BY DEF IInv
  <1>b. deadline \in DriftStates /\ checker \in [Checkers -> Checks]
    BY <1>a, Typed
  <1>c. deadline.ordinal \in Nat
    BY <1>b, DriftFields, EpisodeAssumption
  <1>1. ASSUME NEW c \in Checkers,
               Load(c) \/ Observe(c) \/ Refused(c) \/ ExpireQueued(c) \/ EnsureStatus(c)
               \/ EnsureEscalation(c)
        PROVE  deadline.ordinal <= deadline'.ordinal
    BY <1>1, <1>c
    DEF Load, Observe, Refused, Give, ExpireQueued, WriteNote, StepTo, EnsureStatus,
        EnsureEscalation
  <1>2. ASSUME
               ClaimDue \/ EvidenceMoves \/ ListWork \/ Authority \/ SubmitTurn
               \/ ClaimLoad \/ ClaimFind \/ ClaimNote \/ RecordLoad \/ RecordNote \/ Crash
        PROVE  deadline.ordinal <= deadline'.ordinal
    BY <1>2, <1>c
    DEF ClaimDue, EvidenceMoves, ListWork, Authority, Go, Deliver, Stop, SubmitTurn, Refuse,
        ClaimLoad, ClaimFind, ClaimNote, RecordLoad, RecordNote, Crash
  <1>3. ASSUME ResetEpisode
        PROVE  deadline.ordinal <= deadline'.ordinal
    BY <1>3, <1>c DEF ResetEpisode, Resting
  <1>4. ASSUME NEW x \in Episodes,
               TranscriptObserves(x) \/ TranscriptCloses(x) \/ Acknowledge(x)
               \/ TakeUp(x)
        PROVE  deadline.ordinal <= deadline'.ordinal
    BY <1>4, <1>c
    DEF TranscriptObserves, NoteMoves, WriteNote, TranscriptCloses, Acknowledge, TakeUp
  <1>5. ASSUME NEW c \in Checkers, PersistDrift(c)
        PROVE  deadline.ordinal <= deadline'.ordinal
    <2>1. CASE c \in holds
      <3> DEFINE next == Reduced(checker[c].read, checker[c].seen)
      <3>1. deadline' = next /\ checker[c].read = deadline
        BY <1>5, <2>1 DEF PersistDrift, CanPersist, IInv, CheckOK
      <3>2. Outcome(deadline, checker[c].seen, next)
        BY <1>5, <1>b, <3>1, CheckFields, ReducedIs DEF PersistDrift, IInv, CheckOK
      <3> HIDE DEF next
      <3>3. next.ordinal = deadline.ordinal \/ next.ordinal = deadline.ordinal + 1
        BY <3>2 DEF Outcome, Rests
      <3> QED BY <1>c, <3>1, <3>3
    <2> QED BY <1>5, <1>c, <2>1 DEF PersistDrift, CanPersist
  <1>6. ASSUME ClaimDeadline PROVE deadline.ordinal <= deadline'.ordinal
    <2>1. deadline'.ordinal = deadline.ordinal
      BY <1>6, <1>b DEF ClaimDeadline, Refuse, DriftStates
    <2> QED BY <1>c, <2>1
  <1>7. ASSUME RecordDeadline PROVE deadline.ordinal <= deadline'.ordinal
    <2>1. deadline'.ordinal = deadline.ordinal
      <3>1. SubmittedState(deadline).ordinal = deadline.ordinal
        BY DEF SubmittedState, Resting, DriftStates
      <3> QED BY <1>7, <3>1 DEF RecordDeadline
    <2> QED BY <1>c, <2>1
  <1> QED
    BY <1>1, <1>2, <1>3, <1>4, <1>5, <1>6, <1>7 DEF Next, Check, Pass, Claim, Record

LEMMA ToldLasts ==
    ASSUME IInv, Next, NEW d \in DriftStates, Shape(d), Told(d)
    PROVE  Told(d)'
  <1>1. d.status \in Submitted => d.ordinal \in Episodes
    BY DriftFields, EpisodeAssumption DEF Shape, Submitted, Episodes
  <1>2. d.status \in Submitted =>
            note'[d.ordinal].attempt \in Submitted /\ typed'[d.ordinal] # "none"
    BY <1>1, NotesLast, TurnsLast DEF Told, NoteLasts, TurnLasts
  <1> QED BY <1>2 DEF Told

(* What a check holds in its hands, at any step. *)
ReadOK(c) ==
    /\ Shape(checker[c].read) /\ Told(checker[c].read)
    /\ checker[c].read.ordinal \in 0..deadline.ordinal

ReadComes(c) == checker'[c].read \in {checker[c].read, deadline, Armed}

(* A check reads the deadline as it is, so what holds of the deadline holds *)
(* of what the check has in hand, and goes on holding.                      *)
LEMMA ReadsCome ==
    ASSUME IInv, Next
    PROVE  \A k \in Checkers : ReadComes(k)
  <1>a. TypeOK
    BY DEF IInv
  <1>b. deadline \in DriftStates /\ worker \in Workers /\ checker \in [Checkers -> Checks]
        /\ note \in [Episodes -> Notifications] /\ evidence \in Prints
    BY <1>a, Typed
  <1>d. NoCheck \in Checks /\ "persist" \in CheckPcs /\ NoCheck.read = Armed
    BY StartsTyped DEF CheckPcs
  <1>1. ASSUME NEW c \in Checkers, Load(c)
        PROVE  \A k \in Checkers : ReadComes(k)
    BY <1>1, LoadIs DEF Load, ReadComes
  <1>2. ASSUME NEW c \in Checkers, Observe(c)
        PROVE  \A k \in Checkers : ReadComes(k)
    BY <1>2, <1>b, ObserveIs DEF Observe, ReadComes
  <1>3. ASSUME NEW c \in Checkers, Refused(c) \/ PersistDrift(c)
        PROVE  \A k \in Checkers : ReadComes(k)
    BY <1>3, <1>b, <1>d, PutIs DEF Refused, Give, PersistDrift, CanPersist, ReadComes
  <1>4. ASSUME NEW c \in Checkers, ExpireQueued(c)
        PROVE  \A k \in Checkers : ReadComes(k)
    BY <1>4, <1>b, <1>d, PutIs, StepIs DEF ExpireQueued, Give, ReadComes
  <1>5. ASSUME NEW c \in Checkers, EnsureStatus(c)
        PROVE  \A k \in Checkers : ReadComes(k)
    BY <1>5, <1>b, <1>d, StepIs DEF EnsureStatus, ReadComes
  <1>6. ASSUME NEW c \in Checkers, EnsureEscalation(c)
        PROVE  \A k \in Checkers : ReadComes(k)
    BY <1>6, <1>b, <1>d, StepIs DEF EnsureEscalation, ReadComes
  <1>7. ASSUME
               ClaimDue \/ ResetEpisode \/ EvidenceMoves \/ ListWork \/ Authority
               \/ SubmitTurn \/ ClaimLoad \/ ClaimFind \/ ClaimDeadline \/ ClaimNote
               \/ RecordLoad \/ RecordNote \/ RecordDeadline
        PROVE  \A k \in Checkers : ReadComes(k)
    BY <1>7
    DEF ClaimDue, ResetEpisode, EvidenceMoves, ListWork, Authority, Go, Deliver, Stop,
        SubmitTurn, Refuse, ClaimLoad, ClaimFind, ClaimDeadline, ClaimNote, RecordLoad,
        RecordNote, RecordDeadline, ReadComes
  <1>8. ASSUME NEW x \in Episodes,
               TranscriptObserves(x) \/ TranscriptCloses(x) \/ Acknowledge(x)
               \/ TakeUp(x)
        PROVE  \A k \in Checkers : ReadComes(k)
    BY <1>8
    DEF TranscriptObserves, NoteMoves, WriteNote, TranscriptCloses, Acknowledge, TakeUp,
        ReadComes
  <1>9. ASSUME Crash
        PROVE  \A k \in Checkers : ReadComes(k)
    BY <1>9, <1>d DEF Crash, ReadComes
  <1> QED
    BY <1>1, <1>2, <1>3, <1>4, <1>5, <1>6, <1>7, <1>8, <1>9 DEF Next, Check, Pass, Claim, Record

LEMMA ReadsKept ==
    ASSUME IInv, Next
    PROVE  \A c \in Checkers : ReadOK(c)'
  <1> SUFFICES ASSUME NEW c \in Checkers
               PROVE  ReadOK(c)'
    OBVIOUS
  <1>1. checker \in [Checkers -> Checks] /\ deadline \in DriftStates /\ deadline' \in DriftStates
    BY DeadlineTyped, Typed DEF IInv
  <1>2. deadline.ordinal \in Nat /\ deadline'.ordinal \in Nat /\ deadline.ordinal <= deadline'.ordinal
    BY <1>1, OrdinalGrows, DriftFields, EpisodeAssumption
  <1>3. Armed \in DriftStates /\ Shape(Armed) /\ Armed.ordinal = 0 /\ Told(Armed)
    BY StartsTyped DEF Told, Submitted
  <1> PICK d : d = checker'[c].read
    OBVIOUS
  <1>4. d \in {checker[c].read, deadline, Armed}
    BY ReadsCome DEF ReadComes
  <1>5. d \in DriftStates /\ Shape(d) /\ Told(d)
    BY <1>1, <1>3, <1>4, CheckFields DEF IInv, CheckOK, DeadlineOK
  <1>6. d.ordinal \in 0..deadline.ordinal
    BY <1>2, <1>3, <1>4 DEF IInv, CheckOK
  <1>7. d.ordinal \in 0..deadline'.ordinal
    BY <1>2, <1>6
  <1>8. d.status \in Submitted =>
            note'[d.ordinal].attempt \in Submitted /\ typed'[d.ordinal] # "none"
    BY <1>5, ToldLasts DEF Told
  <1> QED BY <1>5, <1>7, <1>8 DEF ReadOK, Told

(* Whoever holds the deadline's version has read what it is. *)
Current(c) == c \in holds => checker[c].pc # "idle" /\ checker[c].read = deadline

(* A copy that is fresh is the deadline.                                    *)
LEMMA HoldersKept ==
    ASSUME IInv, Next
    PROVE  \A k \in Checkers : Current(k)'
  <1>a. TypeOK
    BY DEF IInv
  <1>b. deadline \in DriftStates /\ worker \in Workers /\ checker \in [Checkers -> Checks]
        /\ note \in [Episodes -> Notifications] /\ evidence \in Prints
    BY <1>a, Typed
  <1>d. NoCheck \in Checks /\ "persist" \in CheckPcs
    BY StartsTyped DEF CheckPcs
  <1>f. \A k \in Checkers : Current(k)
    BY DEF IInv, CheckOK, Current
  <1>1. ASSUME NEW c \in Checkers, Load(c)
        PROVE  \A k \in Checkers : Current(k)'
    BY <1>1, <1>b, <1>f, CheckerAssumption, LoadIs DEF Load, Current, Worker
  <1>2. ASSUME NEW c \in Checkers, Refused(c) \/ PersistDrift(c)
        PROVE  \A k \in Checkers : Current(k)'
    BY <1>2, <1>b, <1>f, CheckerAssumption, <1>d, PutIs
    DEF Refused, Give, PersistDrift, CanPersist, Current, Worker
  <1>3. ASSUME NEW c \in Checkers, ExpireQueued(c)
        PROVE  \A k \in Checkers : Current(k)'
    BY <1>3, <1>b, <1>f, CheckerAssumption, <1>d, PutIs, StepIs
    DEF ExpireQueued, Give, Current, Worker
  <1>4. ASSUME NEW c \in Checkers, EnsureStatus(c)
        PROVE  \A k \in Checkers : Current(k)'
    BY <1>4, <1>b, <1>f, CheckerAssumption, <1>d, StepIs DEF EnsureStatus, Current, Worker
  <1>5. ASSUME NEW c \in Checkers, EnsureEscalation(c)
        PROVE  \A k \in Checkers : Current(k)'
    BY <1>5, <1>b, <1>f, CheckerAssumption, <1>d, StepIs DEF EnsureEscalation, Current, Worker
  <1>6. ASSUME
               ClaimDue \/ ResetEpisode \/ EvidenceMoves \/ ListWork \/ Authority
               \/ SubmitTurn \/ ClaimLoad \/ ClaimFind \/ ClaimDeadline \/ ClaimNote
               \/ RecordLoad \/ RecordNote \/ RecordDeadline
        PROVE  \A k \in Checkers : Current(k)'
    BY <1>6, <1>f, CheckerAssumption
    DEF ClaimDue, ResetEpisode, EvidenceMoves, ListWork, Authority, Go, Deliver, Stop,
        SubmitTurn, Refuse, ClaimLoad, ClaimFind, ClaimDeadline, ClaimNote, RecordLoad,
        RecordNote, RecordDeadline, Current, Worker
  <1>7. ASSUME NEW x \in Episodes,
               TranscriptObserves(x) \/ TranscriptCloses(x) \/ Acknowledge(x)
               \/ TakeUp(x)
        PROVE  \A k \in Checkers : Current(k)'
    BY <1>7, <1>f, CheckerAssumption
    DEF TranscriptObserves, NoteMoves, WriteNote, TranscriptCloses, Acknowledge, TakeUp,
        Current, Worker
  <1>8. ASSUME Crash
        PROVE  \A k \in Checkers : Current(k)'
    BY <1>8, <1>f, CheckerAssumption, <1>d DEF Crash, Current, Worker
  <1>9. ASSUME NEW c \in Checkers, Observe(c) PROVE \A k \in Checkers : Current(k)'
    <2>1. /\ checker'[c].pc # "idle" /\ checker'[c].read = checker[c].read
          /\ \A k \in Checkers \ {c} : checker'[k] = checker[k]
      BY <1>9, <1>b, ObserveIs
    <2>2. deadline' = deadline /\ holds' = holds /\ checker[c].pc # "idle"
      BY <1>9 DEF Observe
    <2> QED BY <1>f, <2>1, <2>2 DEF Current
  <1> QED
    BY <1>1, <1>2, <1>3, <1>4, <1>5, <1>6, <1>7, <1>8, <1>9 DEF Next, Check, Pass, Claim, Record

(* A check about to write the deadline has written its effect. *)
Effected(d, seen) ==
    /\ Moved(d, seen) \/ d.phase # "observing" \/ d.quiet = 1 \/ d.ordinal < MaxEpisodes
    /\ Effect(d, seen) = "escalate" => d.ordinal \in escalated
    /\ Effect(d, seen) = "request" => note[d.ordinal].state # "absent"
    /\ Effect(d, seen) = "expire" =>
           note[d.ordinal].state = "expired" \/ d.ordinal \in overtaken

Grows == escalated \subseteq escalated' /\ overtaken \subseteq overtaken'

(* The histories only grow.                                                 *)
LEMMA HistoriesGrow ==
    ASSUME IInv, Next
    PROVE  Grows
  <1>1. ASSUME NEW c \in Checkers,
               Load(c) \/ Observe(c) \/ Refused(c) \/ ExpireQueued(c) \/ EnsureStatus(c)
               \/ EnsureEscalation(c) \/ PersistDrift(c)
        PROVE  Grows
    BY <1>1
    DEF Load, Observe, Refused, Give, ExpireQueued, WriteNote, StepTo, EnsureStatus,
        EnsureEscalation, PersistDrift, CanPersist, Grows
  <1>2. ASSUME
               ClaimDue \/ ResetEpisode \/ EvidenceMoves \/ ListWork \/ Authority
               \/ SubmitTurn \/ ClaimLoad \/ ClaimFind \/ ClaimDeadline \/ ClaimNote
               \/ RecordLoad \/ RecordNote \/ RecordDeadline \/ Crash
        PROVE  Grows
    BY <1>2
    DEF ClaimDue, ResetEpisode, EvidenceMoves, ListWork, Authority, Go, Deliver, Stop,
        SubmitTurn, Refuse, ClaimLoad, ClaimFind, ClaimDeadline, ClaimNote, RecordLoad,
        RecordNote, RecordDeadline, Crash, Grows
  <1>3. ASSUME NEW x \in Episodes,
               TranscriptObserves(x) \/ TranscriptCloses(x) \/ Acknowledge(x)
               \/ TakeUp(x)
        PROVE  Grows
    BY <1>3
    DEF TranscriptObserves, NoteMoves, WriteNote, TranscriptCloses, Acknowledge, TakeUp, Grows
  <1> QED
    BY <1>1, <1>2, <1>3 DEF Next, Check, Pass, Claim, Record

(* The effect a check has written stays written.                            *)
LEMMA EffectedLasts ==
    ASSUME IInv, Next, NEW d \in DriftStates, NEW seen, Shape(d), Effected(d, seen)
    PROVE  Effected(d, seen)'
  <1>1. Effect(d, seen) # "none" => d.ordinal \in Episodes
    BY EffectIs
  <1>2. escalated \subseteq escalated' /\ overtaken \subseteq overtaken'
    BY HistoriesGrow DEF Grows
  <1>3. Effect(d, seen) = "request" => note'[d.ordinal].state # "absent"
    BY <1>1, NotesLast DEF NoteLasts, Effected
  <1>4. Effect(d, seen) = "expire" =>
            note'[d.ordinal].state = "expired" \/ d.ordinal \in overtaken'
    BY <1>1, <1>2, NotesLast DEF NoteLasts, Effected
  <1> QED BY <1>2, <1>3, <1>4 DEF Effected

Written(c) == checker[c].pc = "persist" => Effected(checker[c].read, checker[c].seen)

Writes(c) ==
    checker'[c].pc = "persist" =>
        \/ checker[c].pc = "persist" /\ checker'[c] = checker[c]
        \/ Written(c)'

(* A deadline is only written by one of these.                              *)
LEMMA WritesAre ==
    ASSUME IInv, Next
    PROVE  \A k \in Checkers : Writes(k)
  <1>a. TypeOK
    BY DEF IInv
  <1>b. deadline \in DriftStates /\ worker \in Workers /\ checker \in [Checkers -> Checks]
        /\ note \in [Episodes -> Notifications] /\ evidence \in Prints
    BY <1>a, Typed
  <1>d. NoCheck \in Checks /\ "persist" \in CheckPcs /\ NoCheck.pc = "idle"
    BY StartsTyped DEF CheckPcs
  <1>1. ASSUME NEW c \in Checkers, Load(c)
        PROVE  \A k \in Checkers : Writes(k)
    BY <1>1, LoadIs DEF Load, Writes
  <1>2. ASSUME NEW c \in Checkers, Refused(c) \/ PersistDrift(c)
        PROVE  \A k \in Checkers : Writes(k)
    BY <1>2, <1>b, <1>d, PutIs DEF Refused, Give, PersistDrift, CanPersist, Writes
  <1>3. ASSUME
               ClaimDue \/ ResetEpisode \/ EvidenceMoves \/ ListWork \/ Authority
               \/ SubmitTurn \/ ClaimLoad \/ ClaimFind \/ ClaimDeadline \/ ClaimNote
               \/ RecordLoad \/ RecordNote \/ RecordDeadline
        PROVE  \A k \in Checkers : Writes(k)
    BY <1>3
    DEF ClaimDue, ResetEpisode, EvidenceMoves, ListWork, Authority, Go, Deliver, Stop,
        SubmitTurn, Refuse, ClaimLoad, ClaimFind, ClaimDeadline, ClaimNote, RecordLoad,
        RecordNote, RecordDeadline, Writes
  <1>4. ASSUME NEW x \in Episodes,
               TranscriptObserves(x) \/ TranscriptCloses(x) \/ Acknowledge(x)
               \/ TakeUp(x)
        PROVE  \A k \in Checkers : Writes(k)
    BY <1>4
    DEF TranscriptObserves, NoteMoves, WriteNote, TranscriptCloses, Acknowledge, TakeUp, Writes
  <1>5. ASSUME Crash
        PROVE  \A k \in Checkers : Writes(k)
    BY <1>5, <1>d DEF Crash, Writes
  <1>6. ASSUME NEW c \in Checkers, Observe(c) PROVE \A k \in Checkers : Writes(k)
    <2>1. /\ checker'[c].pc = IF Effect(checker[c].read, evidence) = "none"
                             THEN "persist" ELSE "effect"
          /\ checker'[c].read = checker[c].read /\ checker'[c].seen = evidence
          /\ \A k \in Checkers \ {c} : checker'[k] = checker[k]
      BY <1>6, <1>b, ObserveIs
    <2>2. LET d == checker[c].read IN
          Moved(d, evidence) \/ d.phase # "observing" \/ d.quiet = 1 \/ d.ordinal < MaxEpisodes
      BY <1>6 DEF Observe
    <2> QED BY <2>1, <2>2 DEF Writes, Written, Effected
  <1>7. ASSUME NEW c \in Checkers, ExpireQueued(c) PROVE \A k \in Checkers : Writes(k)
    <2> DEFINE d == checker[c].read
    <2>0. d.ordinal \in Episodes /\ d.phase = "outstanding" /\ Effect(d, checker[c].seen) = "expire"
      BY <1>7, <1>b, CheckFields, EffectIs DEF ExpireQueued, IInv, CheckOK
    <2>1. CASE Give(c)
      BY <1>d, <2>1, PutIs DEF Give, Writes
    <2>2. CASE StepTo(c, "persist")
      <3>1. note'[d.ordinal].state = "expired"
        BY <1>7, <1>b, <1>d, <2>0, <2>2, NoteIs, StepIs DEF ExpireQueued, WriteNote, Give
      <3>2. /\ checker'[c].read = checker[c].read /\ checker'[c].seen = checker[c].seen
            /\ \A k \in Checkers \ {c} : checker'[k] = checker[k]
        BY <1>b, <1>d, <2>2, StepIs
      <3>3. Written(c)'
        <4>1. d.phase # "observing"
          BY <2>0
        <4> QED BY <2>0, <3>1, <3>2, <4>1 DEF Written, Effected
      <3> QED BY <3>2, <3>3 DEF Writes
    <2> QED BY <1>7, <2>1, <2>2 DEF ExpireQueued
  <1>8. ASSUME NEW c \in Checkers, EnsureStatus(c) PROVE \A k \in Checkers : Writes(k)
    <2> DEFINE d == checker[c].read
    <2>0. /\ d.ordinal \in Episodes /\ d.phase = "observing" /\ d.quiet = 1
          /\ Effect(d, checker[c].seen) = "request"
      BY <1>8, <1>b, CheckFields, EffectIs DEF EnsureStatus, IInv, CheckOK
    <2>1. note'[d.ordinal].state # "absent"
      BY <1>8, <1>b, <2>0, NoteIs DEF EnsureStatus, WriteNote
    <2>2. /\ checker'[c].read = checker[c].read /\ checker'[c].seen = checker[c].seen
          /\ \A k \in Checkers \ {c} : checker'[k] = checker[k]
      BY <1>8, <1>b, <1>d, StepIs DEF EnsureStatus
    <2>3. Written(c)'
      BY <2>0, <2>1, <2>2 DEF Written, Effected
    <2> QED BY <2>2, <2>3 DEF Writes
  <1>9. ASSUME NEW c \in Checkers, EnsureEscalation(c) PROVE \A k \in Checkers : Writes(k)
    <2> DEFINE d == checker[c].read
    <2>0. d.phase = "outstanding" /\ Effect(d, checker[c].seen) = "escalate"
      BY <1>9, <1>b, CheckFields, EffectIs DEF EnsureEscalation, IInv, CheckOK
    <2>1. d.ordinal \in escalated'
      BY <1>9 DEF EnsureEscalation
    <2>2. /\ checker'[c].read = checker[c].read /\ checker'[c].seen = checker[c].seen
          /\ \A k \in Checkers \ {c} : checker'[k] = checker[k]
      BY <1>9, <1>b, <1>d, StepIs DEF EnsureEscalation
    <2>3. Written(c)'
      BY <2>0, <2>1, <2>2 DEF Written, Effected
    <2> QED BY <2>2, <2>3 DEF Writes
  <1> QED
    BY <1>1, <1>2, <1>3, <1>4, <1>5, <1>6, <1>7, <1>8, <1>9 DEF Next, Check, Pass, Claim, Record

LEMMA ChecksKept ==
    ASSUME IInv, Next
    PROVE  \A c \in Checkers : CheckOK(c)'
  <1> SUFFICES ASSUME NEW c \in Checkers
               PROVE  CheckOK(c)'
    OBVIOUS
  <1>1. checker \in [Checkers -> Checks]
    BY Typed DEF IInv
  <1>2. Written(c) /\ ReadOK(c)
    BY DEF IInv, CheckOK, Written, Effected, ReadOK
  <1>3. Written(c)'
    <2>1. CASE checker[c].pc = "persist" /\ checker'[c] = checker[c]
      <3> PICK d, seen : d = checker[c].read /\ seen = checker[c].seen
        OBVIOUS
      <3>1. d \in DriftStates /\ Shape(d) /\ Effected(d, seen)
        BY <1>1, <1>2, <2>1, CheckFields DEF Written, ReadOK
      <3>2. Effected(d, seen)'
        BY <3>1, EffectedLasts
      <3> QED BY <2>1, <3>2 DEF Written, Effected
    <2> QED BY <2>1, WritesAre DEF Writes, Written
  <1> QED BY <1>3, ReadsKept, HoldersKept DEF CheckOK, Written, Effected, ReadOK, Current

(* The four writes of the deadline, as the other records see them. *)
LEMMA PersistIs ==
    ASSUME IInv, NEW c \in Checkers, PersistDrift(c), c \in holds
    PROVE  /\ deadline' \in DriftStates /\ Shape(deadline')
           /\ Outcome(deadline, checker[c].seen, deadline')
           /\ Effected(deadline, checker[c].seen)
           /\ asked' = IF deadline'.status = "queued" THEN asked \union {deadline'.ordinal}
                                                      ELSE asked
           /\ moved' = IF deadline'.pending THEN moved \union {deadline'.ordinal} ELSE moved
           /\ holds' = {}
  <1>1. checker \in [Checkers -> Checks]
    BY Typed DEF IInv
  <1>2. checker[c].read = deadline /\ Shape(deadline) /\ checker[c].pc = "persist"
    BY DEF IInv, CheckOK, PersistDrift
  <1>3. Effected(deadline, checker[c].seen)
    BY <1>2 DEF IInv, CheckOK, Effected
  <1>4. deadline \in DriftStates /\ checker[c].seen \in Prints \union {NoPrint}
    BY <1>1, <1>2, CheckFields
  <1>5. deadline' = Reduced(deadline, checker[c].seen)
    BY <1>2 DEF PersistDrift, CanPersist
  <1>6. /\ deadline' \in DriftStates /\ Shape(deadline')
        /\ Outcome(deadline, checker[c].seen, deadline')
    BY <1>2, <1>3, <1>4, <1>5, ReducedIs DEF Effected
  <1> QED BY <1>2, <1>3, <1>6 DEF PersistDrift, CanPersist

(* A compare-and-set that lost changes nothing.                             *)
LEMMA PersistRefused ==
    ASSUME NEW c \in Checkers, PersistDrift(c), c \notin holds
    PROVE  UNCHANGED <<deadline, asked, moved, holds>>
    BY DEF PersistDrift, CanPersist

LEMMA ResetIs ==
    ASSUME IInv, ResetEpisode
    PROVE  /\ deadline.phase = "escalated"
           /\ Rests(deadline, deadline') /\ deadline'.closed = NoClosure
           /\ UNCHANGED <<note, typed, escalated, asked, overtaken, moved, answered, halved>>
    BY DEF ResetEpisode, Resting, Rests

LEMMA ClaimIs ==
    ASSUME IInv, ClaimDeadline, Worker \in holds
    PROVE  /\ deadline.phase = "outstanding" /\ deadline.ordinal = Here /\ Here \in Episodes
           /\ deadline.status = "queued"
           /\ deadline'.phase = "outstanding" /\ deadline'.quiet = deadline.quiet
           /\ deadline'.ordinal = Here /\ deadline'.status = "claimed"
           /\ deadline'.pending = deadline.pending /\ deadline'.count = deadline.count
           /\ deadline'.closed = deadline.closed /\ holds' = {Worker}
           /\ worker' \in Workers /\ worker'.episode = worker.episode
           /\ worker'.replay = worker.replay
           /\ worker'.pc = IF worker.replay THEN "record" ELSE "claimNote"
           /\ UNCHANGED holdsNote
  <1>1. deadline \in DriftStates /\ worker \in Workers
    BY Typed DEF IInv
  <1>2. deadline.phase = "outstanding" /\ deadline.ordinal = Here /\ deadline.status = "queued"
    BY DEF IInv, WorkerOK, ClaimDeadline, Outstanding
  <1>3. Here \in Episodes
    BY <1>1, WorkerFields DEF IInv, WorkerOK, ClaimDeadline
  <1>4. deadline' = [deadline EXCEPT !.status = "claimed"]
    BY DEF ClaimDeadline
  <1>5. "claimed" \in Shades
    BY DEF Shades
  <1>6. Go(IF worker.replay THEN "record" ELSE "claimNote")
    BY DEF ClaimDeadline
  <1>7. (IF worker.replay THEN "record" ELSE "claimNote") \in Pcs
    BY DEF Pcs
  <1> QED BY <1>1, <1>2, <1>3, <1>4, <1>5, <1>6, <1>7, GoIs DEF ClaimDeadline

LEMMA ClaimRefused ==
    ASSUME ClaimDeadline, Worker \notin holds
    PROVE  deadline' = deadline /\ worker' = Idle /\ ~holdsNote' /\ holds' = holds
    BY DEF ClaimDeadline, Refuse, Stop

LEMMA RecordIs ==
    ASSUME IInv, RecordDeadline, Worker \in holds
    PROVE  /\ deadline.phase = "outstanding" /\ deadline.ordinal = Here /\ Here \in Episodes
           /\ deadline.status = "claimed"
           /\ typed[Here] \in Submitted /\ note[Here].attempt = typed[Here]
           /\ deadline.pending =>
                  /\ Rests(deadline, deadline')
                  /\ deadline'.closed = Closure(deadline, "answered")
           /\ ~deadline.pending =>
                  /\ deadline'.phase = "outstanding" /\ deadline'.quiet = deadline.quiet
                  /\ deadline'.ordinal = Here /\ deadline'.status = typed[Here]
                  /\ ~deadline'.pending /\ deadline'.count = deadline.count
                  /\ deadline'.closed = deadline.closed
  <1>1. deadline \in DriftStates /\ worker \in Workers
    BY Typed DEF IInv
  <1>2. deadline.phase = "outstanding" /\ deadline.ordinal = Here /\ deadline.status = "claimed"
    BY DEF IInv, WorkerOK, RecordDeadline, Outstanding
  <1>3. Here \in Episodes
    BY <1>1, WorkerFields DEF IInv, WorkerOK, RecordDeadline
  <1>4. typed[Here] \in Submitted /\ note[Here].attempt = typed[Here]
    BY <1>3 DEF IInv, WorkerOK, RecordDeadline, TypeOK
  <1>5. deadline' = SubmittedState(deadline)
    BY DEF RecordDeadline
  <1>6. ASSUME deadline.pending
        PROVE  Rests(deadline, deadline') /\ deadline'.closed = Closure(deadline, "answered")
    BY <1>5, <1>6 DEF SubmittedState, Resting, Rests
  <1>7. ASSUME ~deadline.pending
        PROVE  /\ deadline'.phase = "outstanding" /\ deadline'.quiet = deadline.quiet
               /\ deadline'.ordinal = Here /\ deadline'.status = typed[Here]
               /\ ~deadline'.pending /\ deadline'.count = deadline.count
               /\ deadline'.closed = deadline.closed
    <2>1. deadline' = [deadline EXCEPT !.status = typed[Here]] /\ typed[Here] \in Shades
      BY <1>4, <1>5, <1>7 DEF SubmittedState, Shades
    <2> QED BY <1>1, <1>2, <1>7, <2>1
  <1> QED BY <1>2, <1>3, <1>4, <1>6, <1>7

LEMMA RecordRefused ==
    ASSUME RecordDeadline, Worker \notin holds
    PROVE  deadline' = deadline
    BY DEF RecordDeadline

(* The deadline by itself. *)
LEMMA ShapeKept ==
    ASSUME IInv, Next
    PROVE  Shape(deadline')
  <1>b. deadline \in DriftStates
    BY Typed DEF IInv
  <1>g. Shape(deadline)
    BY DEF IInv, DeadlineOK
  <1>1. ASSUME NEW c \in Checkers,
               Load(c) \/ Observe(c) \/ Refused(c) \/ ExpireQueued(c) \/ EnsureStatus(c)
               \/ EnsureEscalation(c)
        PROVE  Shape(deadline')
    BY <1>1, <1>g
    DEF Load, Observe, Refused, Give, ExpireQueued, WriteNote, StepTo, EnsureStatus,
        EnsureEscalation, Shape
  <1>2. ASSUME
               ClaimDue \/ EvidenceMoves \/ ListWork \/ Authority \/ SubmitTurn
               \/ ClaimLoad \/ ClaimFind \/ ClaimNote \/ RecordLoad \/ RecordNote \/ Crash
        PROVE  Shape(deadline')
    BY <1>2, <1>g
    DEF ClaimDue, EvidenceMoves, ListWork, Authority, Go, Deliver, Stop, SubmitTurn, Refuse,
        ClaimLoad, ClaimFind, ClaimNote, RecordLoad, RecordNote, Crash, Shape
  <1>3. ASSUME NEW x \in Episodes,
               TranscriptObserves(x) \/ TranscriptCloses(x) \/ Acknowledge(x)
               \/ TakeUp(x)
        PROVE  Shape(deadline')
    BY <1>3, <1>g
    DEF TranscriptObserves, NoteMoves, WriteNote, TranscriptCloses, Acknowledge, TakeUp, Shape
  <1>4. ASSUME NEW c \in Checkers, PersistDrift(c) PROVE Shape(deadline')
    <2>1. CASE c \in holds
      BY <1>4, <1>g, <2>1, PersistIs DEF PersistDrift, Outcome, Rests, Shape, Submitted
    <2>2. CASE c \notin holds
      BY <1>4, <1>g, <2>2, PersistRefused DEF PersistDrift, Shape, Submitted
    <2> QED BY <2>1, <2>2
  <1>5. ASSUME ResetEpisode PROVE Shape(deadline')
    BY <1>5, <1>g, ResetIs DEF Rests, Shape, Submitted
  <1>6. ASSUME ClaimDeadline PROVE Shape(deadline')
    <2>1. CASE Worker \in holds
      BY <1>6, <1>g, <2>1, ClaimIs DEF ClaimDeadline, Shape, Submitted
    <2>2. CASE Worker \notin holds
      BY <1>6, <1>g, <2>2, ClaimRefused DEF ClaimDeadline, Shape, Submitted
    <2> QED BY <2>1, <2>2
  <1>7. ASSUME RecordDeadline PROVE Shape(deadline')
    <2>1. CASE Worker \in holds
      BY <1>7, <1>g, <2>1, RecordIs DEF RecordDeadline, Rests, Shape, Submitted
    <2>2. CASE Worker \notin holds
      BY <1>7, <1>g, <2>2, RecordRefused DEF RecordDeadline, Shape, Submitted
    <2> QED BY <2>1, <2>2
  <1> QED
    BY <1>1, <1>2, <1>3, <1>4, <1>5, <1>6, <1>7 DEF Next, Check, Pass, Claim, Record

(* What the deadline says of the runtime and of the escalations. *)
Backed ==
    /\ deadline.status \in Submitted =>
           note[deadline.ordinal].attempt \in Submitted /\ typed[deadline.ordinal] # "none"
    /\ deadline.status = "claimed" => typed[deadline.ordinal] # "none"
    /\ deadline.phase = "escalated" => deadline.ordinal \in escalated
    /\ deadline.closed.how = "answered" =>
           deadline.closed.episode # 0 /\ typed[deadline.closed.episode] # "none"

(* What the deadline promises stays true of the records it speaks of.       *)
LEMMA BackedLasts ==
    ASSUME IInv, Next, deadline' = deadline
    PROVE  Backed'
  <1>1. Backed /\ Shape(deadline) /\ deadline \in DriftStates
    BY Typed DEF IInv, DeadlineOK, Backed, Told
  <1>2. deadline.closed.episode \in 0..MaxEpisodes /\ deadline.ordinal \in 0..MaxEpisodes
    BY <1>1, DriftFields DEF Closures
  <1>3. \A n \in 0..MaxEpisodes : n # 0 => n \in Episodes
    BY DEF Episodes
  <1>4. deadline.phase # "observing" => deadline.ordinal # 0
    BY <1>1, DriftFields DEF Shape
  <1>5. deadline.status # "none" => deadline.ordinal # 0
    BY <1>1, <1>4 DEF Shape
  <1>6. \A e \in Episodes : NoteLasts(e) /\ TurnLasts(e)
    BY NotesLast, TurnsLast
  <1>7. escalated \subseteq escalated'
    BY HistoriesGrow DEF Grows
  <1> QED
    BY <1>1, <1>2, <1>3, <1>4, <1>5, <1>6, <1>7
    DEF Backed, NoteLasts, TurnLasts, Submitted

LEMMA BackedKept ==
    ASSUME IInv, Next
    PROVE  Backed'
  <1>b. deadline \in DriftStates /\ deadline.ordinal \in 0..MaxEpisodes
    BY Typed, DriftFields DEF IInv
  <1>g. Shape(deadline) /\ (deadline.ordinal # 0 => deadline.ordinal \in Episodes)
    BY <1>b, EpisodeAssumption DEF IInv, DeadlineOK, Episodes
  <1>k. Backed
    BY DEF IInv, DeadlineOK, Backed, Told
  <1>1. ASSUME NEW c \in Checkers,
               Load(c) \/ Observe(c) \/ Refused(c) \/ ExpireQueued(c) \/ EnsureStatus(c)
               \/ EnsureEscalation(c)
        PROVE  Backed'
    BY <1>1, BackedLasts
    DEF Load, Observe, Refused, Give, ExpireQueued, WriteNote, StepTo, EnsureStatus,
        EnsureEscalation
  <1>2. ASSUME
               ClaimDue \/ EvidenceMoves \/ ListWork \/ Authority \/ SubmitTurn
               \/ ClaimLoad \/ ClaimFind \/ ClaimNote \/ RecordLoad \/ RecordNote \/ Crash
        PROVE  Backed'
    BY <1>2, BackedLasts
    DEF ClaimDue, EvidenceMoves, ListWork, Authority, Go, Deliver, Stop, SubmitTurn, Refuse,
        ClaimLoad, ClaimFind, ClaimNote, RecordLoad, RecordNote, Crash
  <1>3. ASSUME NEW x \in Episodes,
               TranscriptObserves(x) \/ TranscriptCloses(x) \/ Acknowledge(x)
               \/ TakeUp(x)
        PROVE  Backed'
    BY <1>3, BackedLasts
    DEF TranscriptObserves, NoteMoves, WriteNote, TranscriptCloses, Acknowledge, TakeUp
  <1>4. ASSUME NEW c \in Checkers, PersistDrift(c) PROVE Backed'
    <2>1. CASE c \in holds
      <3>1. Outcome(deadline, checker[c].seen, deadline') /\ Effected(deadline, checker[c].seen)
            /\ note' = note /\ typed' = typed /\ escalated' = escalated /\ Shape(deadline)
        BY <1>4, <1>g, <2>1, PersistIs DEF PersistDrift
      <3>2. /\ Closure(deadline, "cancelled").how = "cancelled" /\ NoClosure.how = "none"
            /\ Closure(deadline, "answered").episode = deadline.ordinal
        BY DEF Closure, NoClosure
      <3>3. deadline.status \in Submitted => deadline.ordinal # 0
        BY <1>b, <1>g, DriftFields DEF Shape, Submitted
      <3>4. /\ deadline'.status \in Submitted => deadline'.ordinal = deadline.ordinal
                    /\ deadline'.status = deadline.status
            /\ deadline'.status = "claimed" => deadline'.ordinal = deadline.ordinal
                    /\ deadline'.status = deadline.status
        BY <3>1 DEF Outcome, Rests, Submitted, Shape
      <3>5. deadline'.phase = "escalated" => deadline'.ordinal \in escalated'
        BY <1>k, <3>1 DEF Outcome, Rests, Backed, Effected
      <3>6. deadline'.closed.how = "answered" =>
                deadline'.closed.episode # 0 /\ typed[deadline'.closed.episode] # "none"
        BY <1>k, <3>1, <3>2, <3>3 DEF Outcome, Backed
      <3> QED BY <1>k, <3>1, <3>4, <3>5, <3>6 DEF Backed
    <2>2. CASE c \notin holds
      BY <1>4, <2>2, PersistRefused, BackedLasts
    <2> QED BY <2>1, <2>2
  <1>5. ASSUME ResetEpisode PROVE Backed'
    BY <1>5, ResetIs DEF Rests, Backed, NoClosure, Submitted
  <1>6. ASSUME ClaimDeadline PROVE Backed'
    <2>1. CASE Worker \in holds
      <3>1. typed[Here] # "none"
        BY <1>6 DEF ClaimDeadline, IInv, WorkerOK
      <3> QED BY <1>6, <1>k, <2>1, <3>1, ClaimIs DEF ClaimDeadline, Backed, Submitted
    <2>2. CASE Worker \notin holds
      BY <1>6, <2>2, ClaimRefused, BackedLasts
    <2> QED BY <2>1, <2>2
  <1>7. ASSUME RecordDeadline PROVE Backed'
    <2>1. CASE Worker \in holds
      <3>0. /\ deadline.ordinal = Here /\ Here \in Episodes /\ typed[Here] \in Submitted
            /\ note[Here].attempt = typed[Here]
        BY <1>7, <2>1, RecordIs
      <3>1. /\ deadline.ordinal = Here /\ Here \in Episodes /\ typed[Here] \in Submitted
            /\ note[Here].attempt = typed[Here] /\ Here # 0 /\ typed[Here] # "none"
            /\ note' = note /\ typed' = typed /\ escalated' = escalated
        BY <1>7, <3>0 DEF RecordDeadline, Submitted, Episodes
      <3>2. CASE deadline.pending
        <4>1. Closure(deadline, "answered").episode = Here
          BY <3>1 DEF Closure
        <4>2. /\ deadline'.status = "none" /\ deadline'.phase = "observing"
              /\ deadline'.closed.episode = Here
          BY <1>7, <2>1, <3>2, <4>1, RecordIs DEF Rests
        <4> QED BY <3>1, <4>2 DEF Backed, Submitted
      <3>3. CASE ~deadline.pending
        BY <1>7, <1>k, <2>1, <3>1, <3>3, RecordIs DEF Backed, Submitted
      <3> QED BY <3>2, <3>3
    <2>2. CASE Worker \notin holds
      BY <1>7, <2>2, RecordRefused, BackedLasts
    <2> QED BY <2>1, <2>2
  <1> QED
    BY <1>1, <1>2, <1>3, <1>4, <1>5, <1>6, <1>7 DEF Next, Check, Pass, Claim, Record

LEMMA DeadlineKept ==
    ASSUME IInv, Next
    PROVE  DeadlineOK'
    BY ShapeKept, BackedKept DEF DeadlineOK, Backed, Told

(* The worker, part by part. *)
Reached ==
    /\ worker.pc = "idle" <=> worker.episode = 0
    /\ worker.pc = "submit" => typed[worker.episode] = "none"
    /\ worker.pc \notin {"idle", "authority", "submit"} => typed[worker.episode] # "none"

HoldsDeadline ==
    Worker \in holds =>
         /\ worker.pc \in {"claimDeadline", "claimNote", "record", "recordNote", "recordDeadline"}
         /\ deadline.phase = "outstanding" /\ deadline.ordinal = worker.episode
         /\ worker.pc = "claimDeadline" => deadline.status = "queued"
         /\ worker.pc \in {"recordNote", "recordDeadline"} => deadline.status = "claimed"

KnowsNote ==
    /\ worker.pc \in {"find", "claimDeadline", "claimNote"} /\ ~worker.replay /\ holdsNote
           => note[worker.episode].attempt = "queued"
    /\ worker.pc = "recordNote" /\ holdsNote => note[worker.episode].attempt = "claimed"
    /\ worker.pc = "recordDeadline" => note[worker.episode].attempt = typed[worker.episode]

BoundToClaim ==
    worker.pc = "claimNote" =>
        ~worker.replay /\ (ClaimedDrift(worker.episode) \/ ~holdsNote)

(* The delivery pass: where it is, what it has typed, what it holds.        *)
LEMMA ReachedKept ==
    ASSUME IInv, Next
    PROVE  Reached'
  <1>b. worker \in Workers /\ worker.pc \in Pcs /\ Reached
    BY Typed, WorkerFields DEF IInv, WorkerOK, Reached
  <1>e. worker.episode # 0 => Here \in Episodes
    BY <1>b, WorkerFields
  <1>f. /\ Idle.pc = "idle" /\ Idle.episode = 0 /\ ~Idle.replay
        /\ typed \in [Episodes -> {"none"} \union Submitted]
    BY StartsTyped DEF IInv, TypeOK
  <1>1. ASSUME NEW c \in Checkers,
               Load(c) \/ Observe(c) \/ Refused(c) \/ ExpireQueued(c) \/ EnsureStatus(c)
               \/ EnsureEscalation(c) \/ PersistDrift(c)
        PROVE  Reached'
    BY <1>1, <1>b, <1>e, <1>f
    DEF Load, Observe, Refused, Give, ExpireQueued, WriteNote, StepTo, EnsureStatus,
        EnsureEscalation, PersistDrift, CanPersist, Reached
  <1>2. ASSUME
               ClaimDue \/ ResetEpisode \/ EvidenceMoves \/ ListWork \/ RecordDeadline
               \/ Crash
        PROVE  Reached'
    BY <1>2, <1>b, <1>e, <1>f
    DEF ClaimDue, ResetEpisode, EvidenceMoves, ListWork, RecordDeadline, Refuse, Stop, Crash,
        Reached
  <1>3. ASSUME NEW x \in Episodes,
               TranscriptObserves(x) \/ TranscriptCloses(x) \/ Acknowledge(x)
        PROVE  Reached'
    BY <1>3, <1>b, <1>e, <1>f
    DEF TranscriptObserves, NoteMoves, WriteNote, TranscriptCloses, Acknowledge, Reached
  <1>4. ASSUME NEW x \in Episodes, TakeUp(x)
        PROVE  Reached'
    BY <1>4, <1>e, <1>f, EpisodeAssumption DEF TakeUp, Idle, Episodes, Reached
  <1>5. ASSUME
               Authority \/ ClaimFind \/ ClaimDeadline \/ ClaimNote \/ RecordLoad
               \/ RecordNote
        PROVE  Reached'
    BY <1>5, <1>b, <1>e, <1>f, GoIs
    DEF Authority, Deliver, Stop, ClaimFind, Refuse, ClaimDeadline, ClaimNote, RecordLoad,
        RecordNote, Pcs, Reached
  <1>6. ASSUME SubmitTurn
        PROVE  Reached'
    BY <1>6, <1>b, <1>e, <1>f, GoIs, EpisodeAssumption
    DEF SubmitTurn, Refuse, Stop, Pcs, Submitted, Episodes, Reached
  <1>7. ASSUME ClaimLoad
        PROVE  Reached'
    BY <1>7, <1>b, <1>e, <1>f DEF ClaimLoad, Refuse, Stop, Workers, Reached
  <1> QED
    BY <1>1, <1>2, <1>3, <1>4, <1>5, <1>6, <1>7 DEF Next, Check, Pass, Claim, Record

LEMMA HoldsDeadlineKept ==
    ASSUME IInv, Next
    PROVE  HoldsDeadline'
  <1>b. worker \in Workers /\ worker.pc \in Pcs /\ Reached
    BY Typed, WorkerFields DEF IInv, WorkerOK, Reached
  <1>f. /\ Idle.pc = "idle" /\ Idle.episode = 0 /\ ~Idle.replay
        /\ typed \in [Episodes -> {"none"} \union Submitted]
    BY StartsTyped DEF IInv, TypeOK
  <1>g. HoldsDeadline
    BY DEF IInv, WorkerOK, HoldsDeadline, Outstanding
  <1>h. \A c \in Checkers : c # Worker
    BY CheckerAssumption DEF Worker
  <1>1. ASSUME NEW c \in Checkers,
               Load(c) \/ Observe(c) \/ Refused(c) \/ ExpireQueued(c) \/ EnsureStatus(c)
               \/ EnsureEscalation(c)
        PROVE  HoldsDeadline'
    BY <1>1, <1>f, <1>g, <1>h
    DEF Load, Observe, Refused, Give, ExpireQueued, WriteNote, StepTo, EnsureStatus,
        EnsureEscalation, HoldsDeadline
  <1>2. ASSUME
               ClaimDue \/ ResetEpisode \/ EvidenceMoves \/ ListWork \/ RecordDeadline
               \/ Crash
        PROVE  HoldsDeadline'
    BY <1>2, <1>f, <1>g, <1>h
    DEF ClaimDue, ResetEpisode, EvidenceMoves, ListWork, RecordDeadline, Refuse, Stop, Crash,
        HoldsDeadline
  <1>3. ASSUME NEW x \in Episodes,
               TranscriptObserves(x) \/ TranscriptCloses(x) \/ Acknowledge(x)
        PROVE  HoldsDeadline'
    BY <1>3, <1>f, <1>g, <1>h
    DEF TranscriptObserves, NoteMoves, WriteNote, TranscriptCloses, Acknowledge, HoldsDeadline
  <1>4. ASSUME NEW x \in Episodes, TakeUp(x)
        PROVE  HoldsDeadline'
    BY <1>4, <1>f, <1>g, <1>h DEF TakeUp, Idle, HoldsDeadline
  <1>5. ASSUME Authority \/ SubmitTurn \/ ClaimNote \/ RecordNote
        PROVE  HoldsDeadline'
    BY <1>5, <1>b, <1>f, <1>g, <1>h, GoIs
    DEF Authority, Deliver, Stop, SubmitTurn, Refuse, ClaimNote, RecordNote, Pcs, HoldsDeadline
  <1>6. ASSUME ClaimLoad
        PROVE  HoldsDeadline'
    BY <1>6, <1>f, <1>g, <1>h DEF ClaimLoad, Refuse, Stop, Workers, HoldsDeadline
  <1>7. ASSUME ClaimFind
        PROVE  HoldsDeadline'
    BY <1>7, <1>b, <1>f, <1>g, <1>h, GoIs
    DEF ClaimFind, Refuse, Stop, Pcs, Outstanding, HoldsDeadline
  <1>8. ASSUME RecordLoad
        PROVE  HoldsDeadline'
    BY <1>8, <1>b, <1>f, <1>g, <1>h, GoIs
    DEF RecordLoad, Refuse, Deliver, Stop, Pcs, ClaimedDrift, Outstanding, HoldsDeadline
  <1>9. ASSUME NEW c \in Checkers, PersistDrift(c) PROVE HoldsDeadline'
    <2>1. CASE c \in holds
      BY <1>9, <2>1, PersistIs DEF HoldsDeadline
    <2>2. CASE c \notin holds
      BY <1>9, <1>g, <2>2, PersistRefused DEF PersistDrift, HoldsDeadline
    <2> QED BY <2>1, <2>2
  <1>10. ASSUME ClaimDeadline PROVE HoldsDeadline'
    <2>1. CASE Worker \in holds
      BY <1>10, <2>1, ClaimIs DEF HoldsDeadline
    <2>2. CASE Worker \notin holds
      BY <1>10, <2>2, ClaimRefused DEF HoldsDeadline
    <2> QED BY <2>1, <2>2
  <1> QED
    BY <1>1, <1>2, <1>3, <1>4, <1>5, <1>6, <1>7, <1>8, <1>9, <1>10
    DEF Next, Check, Pass, Claim, Record

LEMMA KnowsNoteKept ==
    ASSUME IInv, Next
    PROVE  KnowsNote'
  <1>b. worker \in Workers /\ worker.pc \in Pcs /\ Reached
    BY Typed, WorkerFields DEF IInv, WorkerOK, Reached
  <1>e. worker.episode # 0 => Here \in Episodes
    BY <1>b, WorkerFields
  <1>f. /\ Idle.pc = "idle" /\ Idle.episode = 0 /\ ~Idle.replay
        /\ typed \in [Episodes -> {"none"} \union Submitted]
    BY StartsTyped DEF IInv, TypeOK
  <1>c. note \in [Episodes -> Notifications]
    BY Typed DEF IInv
  <1>g. KnowsNote
    BY DEF IInv, WorkerOK, KnowsNote
  <1>1. ASSUME NEW c \in Checkers,
               Load(c) \/ Observe(c) \/ Refused(c) \/ EnsureEscalation(c)
               \/ PersistDrift(c)
        PROVE  KnowsNote'
    BY <1>1, <1>c, <1>f, <1>g
    DEF Load, Observe, Refused, Give, EnsureEscalation, StepTo, PersistDrift, CanPersist,
        KnowsNote
  <1>2. ASSUME
               ClaimDue \/ ResetEpisode \/ EvidenceMoves \/ ListWork \/ RecordDeadline
               \/ Crash
        PROVE  KnowsNote'
    BY <1>2, <1>c, <1>f, <1>g
    DEF ClaimDue, ResetEpisode, EvidenceMoves, ListWork, RecordDeadline, Refuse, Stop, Crash,
        KnowsNote
  <1>3. ASSUME NEW x \in Episodes, TakeUp(x)
        PROVE  KnowsNote'
    BY <1>3, <1>c, <1>f, <1>g DEF TakeUp, Idle, KnowsNote
  <1>4. ASSUME Authority \/ SubmitTurn \/ ClaimFind \/ ClaimDeadline \/ ClaimNote
        PROVE  KnowsNote'
    BY <1>4, <1>b, <1>c, <1>f, <1>g, GoIs
    DEF Authority, Deliver, Stop, SubmitTurn, Refuse, ClaimFind, ClaimDeadline, ClaimNote, Pcs,
        KnowsNote
  <1>5. ASSUME ClaimLoad
        PROVE  KnowsNote'
    BY <1>5, <1>b, <1>c, <1>f, <1>g DEF ClaimLoad, Refuse, Stop, Workers, KnowsNote
  <1>6. ASSUME RecordLoad
        PROVE  KnowsNote'
    BY <1>6, <1>b, <1>c, <1>f, <1>g, GoIs
    DEF RecordLoad, Refuse, Deliver, Stop, Pcs, Recorded, KnowsNote
  <1>7. ASSUME NEW c \in Checkers, ExpireQueued(c) PROVE KnowsNote'
    <2>1. worker' = worker /\ typed' = typed
      BY <1>7 DEF ExpireQueued, WriteNote
    <2>2. Here # 0 => note'[Here] = note[Here] \/ ~holdsNote'
      BY <1>7, <1>c, <1>e DEF ExpireQueued, WriteNote
    <2>3. worker.pc = "recordDeadline" => note'[Here].attempt = note[Here].attempt
      <3>1. worker.pc = "recordDeadline" => Here \in Episodes /\ note[Here].attempt \in Submitted
        BY <1>b, <1>e, <1>f, <1>g DEF Reached, KnowsNote
      <3> QED BY <3>1, NotesLast DEF NoteLasts
    <2>4. holdsNote' => holdsNote
      BY <1>7 DEF ExpireQueued, WriteNote
    <2> QED BY <1>b, <1>g, <2>1, <2>2, <2>3, <2>4 DEF KnowsNote, Reached
  <1>8. ASSUME NEW c \in Checkers, EnsureStatus(c) PROVE KnowsNote'
    <2>1. worker' = worker /\ typed' = typed
      BY <1>8 DEF EnsureStatus, WriteNote
    <2>2. Here # 0 => note'[Here] = note[Here] \/ ~holdsNote'
      BY <1>8, <1>c, <1>e DEF EnsureStatus, WriteNote
    <2>3. worker.pc = "recordDeadline" => note'[Here].attempt = note[Here].attempt
      <3>1. worker.pc = "recordDeadline" => Here \in Episodes /\ note[Here].attempt \in Submitted
        BY <1>b, <1>e, <1>f, <1>g DEF Reached, KnowsNote
      <3> QED BY <3>1, NotesLast DEF NoteLasts
    <2>4. holdsNote' => holdsNote
      BY <1>8 DEF EnsureStatus, WriteNote
    <2> QED BY <1>b, <1>g, <2>1, <2>2, <2>3, <2>4 DEF KnowsNote, Reached
  <1>9. ASSUME NEW x \in Episodes, TranscriptObserves(x) PROVE KnowsNote'
    <2>1. worker' = worker /\ typed' = typed
      BY <1>9 DEF TranscriptObserves, NoteMoves, WriteNote
    <2>2. Here # 0 => note'[Here] = note[Here] \/ ~holdsNote'
      BY <1>9, <1>c, <1>e DEF TranscriptObserves, NoteMoves, WriteNote
    <2>3. worker.pc = "recordDeadline" => note'[Here].attempt = note[Here].attempt
      <3>1. worker.pc = "recordDeadline" => Here \in Episodes /\ note[Here].attempt \in Submitted
        BY <1>b, <1>e, <1>f, <1>g DEF Reached, KnowsNote
      <3> QED BY <3>1, NotesLast DEF NoteLasts
    <2>4. holdsNote' => holdsNote
      BY <1>9 DEF TranscriptObserves, NoteMoves, WriteNote
    <2> QED BY <1>b, <1>g, <2>1, <2>2, <2>3, <2>4 DEF KnowsNote, Reached
  <1>10. ASSUME NEW x \in Episodes, TranscriptCloses(x) PROVE KnowsNote'
    <2>1. worker' = worker /\ typed' = typed
      BY <1>10 DEF TranscriptCloses, NoteMoves, WriteNote
    <2>2. Here # 0 => note'[Here] = note[Here] \/ ~holdsNote'
      BY <1>10, <1>c, <1>e DEF TranscriptCloses, NoteMoves, WriteNote
    <2>3. worker.pc = "recordDeadline" => note'[Here].attempt = note[Here].attempt
      <3>1. worker.pc = "recordDeadline" => Here \in Episodes /\ note[Here].attempt \in Submitted
        BY <1>b, <1>e, <1>f, <1>g DEF Reached, KnowsNote
      <3> QED BY <3>1, NotesLast DEF NoteLasts
    <2>4. holdsNote' => holdsNote
      BY <1>10 DEF TranscriptCloses, NoteMoves, WriteNote
    <2> QED BY <1>b, <1>g, <2>1, <2>2, <2>3, <2>4 DEF KnowsNote, Reached
  <1>11. ASSUME NEW x \in Episodes, Acknowledge(x) PROVE KnowsNote'
    <2>1. worker' = worker /\ typed' = typed
      BY <1>11 DEF Acknowledge, NoteMoves, WriteNote
    <2>2. Here # 0 => note'[Here] = note[Here] \/ ~holdsNote'
      BY <1>11, <1>c, <1>e DEF Acknowledge, NoteMoves, WriteNote
    <2>3. worker.pc = "recordDeadline" => note'[Here].attempt = note[Here].attempt
      <3>1. worker.pc = "recordDeadline" => Here \in Episodes /\ note[Here].attempt \in Submitted
        BY <1>b, <1>e, <1>f, <1>g DEF Reached, KnowsNote
      <3> QED BY <3>1, NotesLast DEF NoteLasts
    <2>4. holdsNote' => holdsNote
      BY <1>11 DEF Acknowledge, NoteMoves, WriteNote
    <2> QED BY <1>b, <1>g, <2>1, <2>2, <2>3, <2>4 DEF KnowsNote, Reached
  <1>12. ASSUME RecordNote PROVE KnowsNote'
    <2>1. CASE holdsNote
      <3>1. Here \in Episodes
        BY <1>12, <1>b, <1>e DEF RecordNote, Reached
      <3>2. note'[Here].attempt = typed[Here]
        BY <1>12, <1>c, <2>1, <3>1 DEF RecordNote
      <3>3. worker'.pc = "recordDeadline" /\ worker'.episode = Here /\ typed' = typed
        BY <1>12, <1>b, <2>1, GoIs DEF RecordNote, Pcs
      <3> QED BY <3>2, <3>3 DEF KnowsNote
    <2>2. CASE ~holdsNote
      BY <1>12, <1>f, <2>2 DEF RecordNote, Refuse, Stop, KnowsNote
    <2> QED BY <2>1, <2>2
  <1> QED
    BY <1>1, <1>2, <1>3, <1>4, <1>5, <1>6, <1>7, <1>8, <1>9, <1>10, <1>11, <1>12
    DEF Next, Check, Pass, Claim, Record

LEMMA BoundToClaimKept ==
    ASSUME IInv, Next
    PROVE  BoundToClaim'
  <1>b. worker \in Workers /\ worker.pc \in Pcs /\ Reached
    BY Typed, WorkerFields DEF IInv, WorkerOK, Reached
  <1>e. worker.episode # 0 => Here \in Episodes
    BY <1>b, WorkerFields
  <1>f. /\ Idle.pc = "idle" /\ Idle.episode = 0 /\ ~Idle.replay
        /\ typed \in [Episodes -> {"none"} \union Submitted]
    BY StartsTyped DEF IInv, TypeOK
  <1>g. BoundToClaim /\ KnowsNote
    BY DEF IInv, WorkerOK, BoundToClaim, KnowsNote
  <1>1. ASSUME NEW c \in Checkers,
               Load(c) \/ Observe(c) \/ Refused(c) \/ ExpireQueued(c) \/ EnsureStatus(c)
               \/ EnsureEscalation(c)
        PROVE  BoundToClaim'
    BY <1>1, <1>f, <1>g
    DEF Load, Observe, Refused, Give, ExpireQueued, WriteNote, StepTo, EnsureStatus,
        EnsureEscalation, BoundToClaim, ClaimedDrift, Outstanding
  <1>2. ASSUME ClaimDue \/ EvidenceMoves \/ ListWork \/ RecordDeadline \/ Crash
        PROVE  BoundToClaim'
    BY <1>2, <1>f, <1>g
    DEF ClaimDue, EvidenceMoves, ListWork, RecordDeadline, Refuse, Stop, Crash, BoundToClaim,
        ClaimedDrift, Outstanding
  <1>3. ASSUME ResetEpisode
        PROVE  BoundToClaim'
    BY <1>3, <1>f, <1>g, ResetIs DEF ResetEpisode, BoundToClaim, ClaimedDrift, Outstanding
  <1>4. ASSUME NEW x \in Episodes,
               TranscriptObserves(x) \/ TranscriptCloses(x) \/ Acknowledge(x)
        PROVE  BoundToClaim'
    BY <1>4, <1>f, <1>g
    DEF TranscriptObserves, NoteMoves, WriteNote, TranscriptCloses, Acknowledge, BoundToClaim,
        ClaimedDrift, Outstanding
  <1>5. ASSUME NEW x \in Episodes, TakeUp(x)
        PROVE  BoundToClaim'
    BY <1>5, <1>f, <1>g DEF TakeUp, Idle, BoundToClaim, ClaimedDrift, Outstanding
  <1>6. ASSUME Authority \/ SubmitTurn \/ ClaimNote \/ RecordLoad \/ RecordNote
        PROVE  BoundToClaim'
    BY <1>6, <1>b, <1>f, <1>g, GoIs
    DEF Authority, Deliver, Stop, SubmitTurn, Refuse, ClaimNote, RecordLoad, RecordNote, Pcs,
        BoundToClaim, ClaimedDrift, Outstanding
  <1>7. ASSUME ClaimLoad
        PROVE  BoundToClaim'
    BY <1>7, <1>b, <1>f, <1>g
    DEF ClaimLoad, Refuse, Stop, Workers, BoundToClaim, ClaimedDrift, Outstanding
  <1>8. ASSUME NEW c \in Checkers, PersistDrift(c) PROVE BoundToClaim'
    <2>1. CASE c \in holds
      <3>1. ClaimedDrift(Here) => ClaimedDrift(Here)'
        BY <1>8, <2>1, PersistIs DEF PersistDrift, Outcome, ClaimedDrift, Outstanding, Submitted
      <3> QED BY <1>8, <1>g, <3>1 DEF PersistDrift, BoundToClaim
    <2>2. CASE c \notin holds
      BY <1>8, <1>g, <2>2, PersistRefused
      DEF PersistDrift, BoundToClaim, ClaimedDrift, Outstanding
    <2> QED BY <2>1, <2>2
  <1>9. ASSUME ClaimFind PROVE BoundToClaim'
    <2>1. CASE ~Outstanding(deadline, Here) \/ deadline.status = "queued" \/ worker.replay
      BY <1>9, <1>b, <1>f, <2>1, GoIs DEF ClaimFind, Refuse, Stop, Pcs, BoundToClaim
    <2>2. CASE Outstanding(deadline, Here) /\ deadline.status # "queued" /\ ~worker.replay
      <3>1. worker'.pc = "claimNote" /\ worker'.episode = Here /\ ~worker'.replay
        BY <1>9, <1>b, <2>2, GoIs DEF ClaimFind, Pcs
      <3>2. deadline' = deadline /\ holdsNote' = holdsNote
        BY <1>9, <2>2 DEF ClaimFind
      <3>3. Here \in Episodes
        BY <1>9, <1>b, <1>e DEF ClaimFind, Reached
      <3>4. deadline.status \in Submitted => note[Here].attempt \in Submitted
        BY <2>2, <3>3 DEF IInv, HalvesAgree, Outstanding
      <3>5. holdsNote => note[Here].attempt = "queued"
        BY <1>9, <1>g, <2>2 DEF ClaimFind, KnowsNote
      <3>6. deadline.status # "none"
        BY <2>2 DEF Outstanding, IInv, DeadlineOK, Shape
      <3>7. deadline.status \in Shades
        BY Typed, DriftFields DEF IInv
      <3>8. ClaimedDrift(Here) \/ ~holdsNote
        BY <2>2, <3>4, <3>5, <3>6, <3>7 DEF ClaimedDrift, Shades, Submitted
      <3> QED BY <3>1, <3>2, <3>8 DEF BoundToClaim, ClaimedDrift, Outstanding
    <2> QED BY <2>1, <2>2
  <1>10. ASSUME ClaimDeadline PROVE BoundToClaim'
    <2>1. CASE Worker \in holds
      BY <1>10, <2>1, ClaimIs DEF BoundToClaim, ClaimedDrift, Outstanding
    <2>2. CASE Worker \notin holds
      BY <1>10, <1>f, <2>2, ClaimRefused DEF BoundToClaim
    <2> QED BY <2>1, <2>2
  <1> QED
    BY <1>1, <1>2, <1>3, <1>4, <1>5, <1>6, <1>7, <1>8, <1>9, <1>10
    DEF Next, Check, Pass, Claim, Record

LEMMA WorkerKept ==
    ASSUME IInv, Next
    PROVE  WorkerOK'
    BY ReachedKept, HoldsDeadlineKept, KnowsNoteKept, BoundToClaimKept
    DEF WorkerOK, Reached, HoldsDeadline, KnowsNote, BoundToClaim, Outstanding

(* The notification of an episode, part by part. *)
Created(e) == note[e].state = "absent" => note[e].attempt = "queued"

Ahead(e) == e > deadline.ordinal => note[e].state = "absent" /\ typed[e] = "none"

Waiting(e) ==
    deadline.ordinal = e /\ deadline.phase = "observing" /\ deadline.quiet = 1 =>
        note[e].attempt = "queued" /\ note[e].state \in {"absent", "queued", "expired"}

Cancelled(e) ==
    note[e].state = "expired" /\ e \notin overtaken => ~InFlight(e) /\ typed[e] = "none"

HalfDone(e) ==
    ClaimedDrift(e) /\ note[e].attempt \in Submitted =>
        e \in halved \/ (worker.episode = e /\ worker.pc = "recordDeadline")

Answered(e) == e \in answered => note[e].attempt \in Submitted

Known(e) ==
    (e \in list => note[e].state # "absent") /\ (worker.episode = e => note[e].state # "absent")

Typewritten(e) == note[e].attempt \in Submitted => typed[e] # "none"

(* Each notification, one lemma for each conjunct of NoteOK.                *)
LEMMA CreatedKept ==
    ASSUME IInv, Next
    PROVE  \A e \in Episodes : Created(e)'
  <1>b. /\ worker \in Workers /\ deadline \in DriftStates /\ note \in [Episodes -> Notifications]
        /\ checker \in [Checkers -> Checks]
        /\ typed \in [Episodes -> {"none"} \union Submitted]
    BY Typed DEF IInv, TypeOK
  <1>c. Reached /\ KnowsNote /\ BoundToClaim /\ HoldsDeadline
    BY DEF IInv, WorkerOK, Reached, KnowsNote, BoundToClaim, HoldsDeadline, Outstanding
  <1>d. worker.episode # 0 => Here \in Episodes
    BY <1>b, WorkerFields
  <1>g. \A e \in Episodes : Created(e)
    BY DEF IInv, NoteOK, Created
  <1>1. ASSUME NEW c \in Checkers,
               Load(c) \/ Observe(c) \/ Refused(c) \/ EnsureEscalation(c)
               \/ PersistDrift(c)
        PROVE  \A e \in Episodes : Created(e)'
    BY <1>1, <1>g
    DEF Load, Observe, Refused, Give, EnsureEscalation, StepTo, PersistDrift, CanPersist,
        Created
  <1>2. ASSUME
               ClaimDue \/ ResetEpisode \/ EvidenceMoves \/ ListWork \/ Authority
               \/ SubmitTurn \/ ClaimLoad \/ ClaimFind \/ ClaimDeadline \/ RecordLoad
               \/ RecordDeadline \/ Crash
        PROVE  \A e \in Episodes : Created(e)'
    BY <1>2, <1>g
    DEF ClaimDue, ResetEpisode, EvidenceMoves, ListWork, Authority, Go, Deliver, Stop,
        SubmitTurn, Refuse, ClaimLoad, ClaimFind, ClaimDeadline, RecordLoad, RecordDeadline,
        Crash, Created
  <1>3. ASSUME NEW x \in Episodes,
               TranscriptObserves(x) \/ TranscriptCloses(x) \/ Acknowledge(x)
        PROVE  \A e \in Episodes : Created(e)'
    BY <1>3, <1>b, <1>g, NoteIs, NoteFields
    DEF TranscriptObserves, NoteMoves, WriteNote, TranscriptCloses, Acknowledge, Created
  <1>4. ASSUME NEW x \in Episodes, TakeUp(x)
        PROVE  \A e \in Episodes : Created(e)'
    BY <1>4, <1>g DEF TakeUp, Created
  <1>5. ASSUME NEW c \in Checkers, ExpireQueued(c) PROVE \A e \in Episodes : Created(e)'
    <2>1. checker[c].read.ordinal \in Episodes
      BY <1>5, <1>b, CheckFields, EffectIs DEF ExpireQueued, IInv, CheckOK
    <2> QED
      BY <1>5, <1>b, <1>g, <2>1, NoteIs, NoteFields
      DEF ExpireQueued, WriteNote, Give, Created
  <1>6. ASSUME NEW c \in Checkers, EnsureStatus(c) PROVE \A e \in Episodes : Created(e)'
    <2>1. checker[c].read.ordinal \in Episodes
      BY <1>6, <1>b, CheckFields, EffectIs DEF EnsureStatus, IInv, CheckOK
    <2> QED BY <1>6, <1>b, <1>g, <2>1, NoteIs, NoteFields DEF EnsureStatus, WriteNote, Created
  <1>7. ASSUME ClaimNote PROVE \A e \in Episodes : Created(e)'
    <2>1. Here \in Episodes
      BY <1>7, <1>c, <1>d DEF ClaimNote, Reached
    <2> QED BY <1>7, <1>b, <1>g, <2>1 DEF ClaimNote, Refuse, Stop, Created
  <1>8. ASSUME RecordNote PROVE \A e \in Episodes : Created(e)'
    <2>1. Here \in Episodes
      BY <1>8, <1>c, <1>d DEF RecordNote, Reached
    <2> QED BY <1>8, <1>b, <1>g, <2>1 DEF RecordNote, Refuse, Stop, Created
  <1> QED
    BY <1>1, <1>2, <1>3, <1>4, <1>5, <1>6, <1>7, <1>8 DEF Next, Check, Pass, Claim, Record

LEMMA AnsweredKept ==
    ASSUME IInv, Next
    PROVE  \A e \in Episodes : Answered(e)'
  <1>b. /\ worker \in Workers /\ deadline \in DriftStates /\ note \in [Episodes -> Notifications]
        /\ checker \in [Checkers -> Checks]
        /\ typed \in [Episodes -> {"none"} \union Submitted]
    BY Typed DEF IInv, TypeOK
  <1>c. Reached /\ KnowsNote /\ BoundToClaim /\ HoldsDeadline
    BY DEF IInv, WorkerOK, Reached, KnowsNote, BoundToClaim, HoldsDeadline, Outstanding
  <1>d. worker.episode # 0 => Here \in Episodes
    BY <1>b, WorkerFields
  <1>f. 0 \notin Episodes
    BY DEF Episodes
  <1>g. \A e \in Episodes : Answered(e)
    BY DEF IInv, NoteOK, Answered
  <1>h. \A e \in Episodes : NoteLasts(e) /\ TurnLasts(e)
    BY NotesLast, TurnsLast
  <1>1. ASSUME NEW c \in Checkers,
               Load(c) \/ Observe(c) \/ Refused(c) \/ ExpireQueued(c) \/ EnsureStatus(c)
               \/ EnsureEscalation(c) \/ PersistDrift(c)
        PROVE  \A e \in Episodes : Answered(e)'
    BY <1>1, <1>d, <1>g, <1>h
    DEF Load, Observe, Refused, Give, ExpireQueued, WriteNote, StepTo, EnsureStatus,
        EnsureEscalation, PersistDrift, CanPersist, Answered, NoteLasts
  <1>2. ASSUME
               ClaimDue \/ ResetEpisode \/ EvidenceMoves \/ ListWork \/ SubmitTurn
               \/ ClaimLoad \/ ClaimFind \/ ClaimDeadline \/ ClaimNote \/ RecordNote
               \/ Crash
        PROVE  \A e \in Episodes : Answered(e)'
    BY <1>2, <1>d, <1>g, <1>h
    DEF ClaimDue, ResetEpisode, EvidenceMoves, ListWork, SubmitTurn, Go, Refuse, Stop,
        ClaimLoad, ClaimFind, ClaimDeadline, ClaimNote, RecordNote, Crash, Answered, NoteLasts
  <1>3. ASSUME NEW x \in Episodes,
               TranscriptObserves(x) \/ TranscriptCloses(x) \/ Acknowledge(x)
               \/ TakeUp(x)
        PROVE  \A e \in Episodes : Answered(e)'
    BY <1>3, <1>d, <1>g, <1>h
    DEF TranscriptObserves, NoteMoves, WriteNote, TranscriptCloses, Acknowledge, TakeUp,
        Answered, NoteLasts
  <1>4. ASSUME Authority
        PROVE  \A e \in Episodes : Answered(e)'
    BY <1>4, <1>d, <1>g, <1>h, <1>b, <1>f
    DEF Authority, Go, Deliver, Stop, Reached, Recover, Answered, NoteLasts
  <1>5. ASSUME RecordLoad
        PROVE  \A e \in Episodes : Answered(e)'
    BY <1>5, <1>c, <1>d, <1>g, <1>h, <1>b
    DEF RecordLoad, Go, Refuse, Deliver, Stop, Recorded, Reached, Answered, NoteLasts
  <1>6. ASSUME RecordDeadline
        PROVE  \A e \in Episodes : Answered(e)'
    BY <1>6, <1>c, <1>d, <1>g, <1>h, <1>b
    DEF RecordDeadline, Refuse, Stop, KnowsNote, Reached, Answered, NoteLasts
  <1> QED
    BY <1>1, <1>2, <1>3, <1>4, <1>5, <1>6 DEF Next, Check, Pass, Claim, Record

LEMMA KnownKept ==
    ASSUME IInv, Next
    PROVE  \A e \in Episodes : Known(e)'
  <1>b. /\ worker \in Workers /\ deadline \in DriftStates /\ note \in [Episodes -> Notifications]
        /\ checker \in [Checkers -> Checks]
        /\ typed \in [Episodes -> {"none"} \union Submitted]
    BY Typed DEF IInv, TypeOK
  <1>e. Idle.pc = "idle" /\ Idle.episode = 0
    BY StartsTyped
  <1>f. 0 \notin Episodes
    BY DEF Episodes
  <1>g. \A e \in Episodes : Known(e)
    BY DEF IInv, NoteOK, Known
  <1>h. \A e \in Episodes : NoteLasts(e) /\ TurnLasts(e)
    BY NotesLast, TurnsLast
  <1>1. ASSUME NEW c \in Checkers,
               Load(c) \/ Observe(c) \/ Refused(c) \/ ExpireQueued(c) \/ EnsureStatus(c)
               \/ EnsureEscalation(c) \/ PersistDrift(c)
        PROVE  \A e \in Episodes : Known(e)'
    BY <1>1, <1>f, <1>g, <1>h
    DEF Load, Observe, Refused, Give, ExpireQueued, WriteNote, StepTo, EnsureStatus,
        EnsureEscalation, PersistDrift, CanPersist, Known, NoteLasts
  <1>2. ASSUME ClaimDue \/ ResetEpisode \/ EvidenceMoves \/ RecordDeadline \/ Crash
        PROVE  \A e \in Episodes : Known(e)'
    BY <1>2, <1>e, <1>f, <1>g, <1>h
    DEF ClaimDue, ResetEpisode, EvidenceMoves, RecordDeadline, Refuse, Stop, Crash, Known,
        NoteLasts
  <1>3. ASSUME NEW x \in Episodes,
               TranscriptObserves(x) \/ TranscriptCloses(x) \/ Acknowledge(x)
        PROVE  \A e \in Episodes : Known(e)'
    BY <1>3, <1>f, <1>g, <1>h
    DEF TranscriptObserves, NoteMoves, WriteNote, TranscriptCloses, Acknowledge, Known,
        NoteLasts
  <1>4. ASSUME ListWork
        PROVE  \A e \in Episodes : Known(e)'
    BY <1>4, <1>f, <1>g, <1>h DEF ListWork, Candidates, Candidate, Known, NoteLasts
  <1>5. ASSUME NEW x \in Episodes, TakeUp(x)
        PROVE  \A e \in Episodes : Known(e)'
    BY <1>5, <1>f, <1>g, <1>h DEF TakeUp, Idle, Known, NoteLasts
  <1>6. ASSUME
               Authority \/ SubmitTurn \/ ClaimFind \/ ClaimDeadline \/ ClaimNote
               \/ RecordLoad \/ RecordNote
        PROVE  \A e \in Episodes : Known(e)'
    BY <1>6, <1>e, <1>f, <1>g, <1>h, <1>b, GoIs
    DEF Authority, Deliver, Stop, SubmitTurn, Refuse, ClaimFind, ClaimDeadline, ClaimNote,
        RecordLoad, RecordNote, Pcs, Known, NoteLasts
  <1>7. ASSUME ClaimLoad
        PROVE  \A e \in Episodes : Known(e)'
    BY <1>7, <1>e, <1>f, <1>g, <1>h, <1>b DEF ClaimLoad, Refuse, Stop, Workers, Known, NoteLasts
  <1> QED
    BY <1>1, <1>2, <1>3, <1>4, <1>5, <1>6, <1>7 DEF Next, Check, Pass, Claim, Record

LEMMA TypewrittenKept ==
    ASSUME IInv, Next
    PROVE  \A e \in Episodes : Typewritten(e)'
  <1>b. /\ worker \in Workers /\ deadline \in DriftStates /\ note \in [Episodes -> Notifications]
        /\ checker \in [Checkers -> Checks]
        /\ typed \in [Episodes -> {"none"} \union Submitted]
    BY Typed DEF IInv, TypeOK
  <1>c. Reached /\ KnowsNote /\ BoundToClaim /\ HoldsDeadline
    BY DEF IInv, WorkerOK, Reached, KnowsNote, BoundToClaim, HoldsDeadline, Outstanding
  <1>d. worker.episode # 0 => Here \in Episodes
    BY <1>b, WorkerFields
  <1>f. 0 \notin Episodes
    BY DEF Episodes
  <1>g. \A e \in Episodes : Typewritten(e)
    BY DEF IInv, NoteOK, Typewritten
  <1>h. \A e \in Episodes : NoteLasts(e) /\ TurnLasts(e)
    BY NotesLast, TurnsLast
  <1>1. ASSUME NEW c \in Checkers,
               Load(c) \/ Observe(c) \/ Refused(c) \/ EnsureEscalation(c)
               \/ PersistDrift(c)
        PROVE  \A e \in Episodes : Typewritten(e)'
    BY <1>1, <1>c, <1>d, <1>f, <1>g
    DEF Load, Observe, Refused, Give, EnsureEscalation, StepTo, PersistDrift, CanPersist,
        Typewritten
  <1>2. ASSUME
               ClaimDue \/ ResetEpisode \/ EvidenceMoves \/ ListWork \/ Authority
               \/ ClaimLoad \/ ClaimFind \/ ClaimDeadline \/ RecordLoad \/ RecordDeadline
               \/ Crash
        PROVE  \A e \in Episodes : Typewritten(e)'
    BY <1>2, <1>c, <1>d, <1>f, <1>g
    DEF ClaimDue, ResetEpisode, EvidenceMoves, ListWork, Authority, Go, Deliver, Stop,
        ClaimLoad, Refuse, ClaimFind, ClaimDeadline, RecordLoad, RecordDeadline, Crash,
        Typewritten
  <1>3. ASSUME NEW x \in Episodes,
               TranscriptObserves(x) \/ TranscriptCloses(x) \/ Acknowledge(x)
        PROVE  \A e \in Episodes : Typewritten(e)'
    BY <1>3, <1>b, <1>c, <1>d, <1>f, <1>g, NoteIs, NoteFields
    DEF TranscriptObserves, NoteMoves, WriteNote, TranscriptCloses, Acknowledge, Typewritten
  <1>4. ASSUME NEW x \in Episodes, TakeUp(x)
        PROVE  \A e \in Episodes : Typewritten(e)'
    BY <1>4, <1>c, <1>d, <1>f, <1>g DEF TakeUp, Typewritten
  <1>5. ASSUME SubmitTurn
        PROVE  \A e \in Episodes : Typewritten(e)'
    BY <1>5, <1>c, <1>d, <1>f, <1>g, <1>h
    DEF SubmitTurn, Go, Refuse, Stop, TurnLasts, Typewritten
  <1>6. ASSUME NEW c \in Checkers, ExpireQueued(c)
        PROVE  \A e \in Episodes : Typewritten(e)'
    <2>1. checker[c].read.ordinal \in Episodes
      BY <1>6, <1>b, CheckFields, EffectIs DEF ExpireQueued, IInv, CheckOK
    <2> QED
      BY <1>6, <1>b, <1>g, <2>1, NoteIs, NoteFields
      DEF ExpireQueued, WriteNote, Give, Typewritten, Submitted
  <1>7. ASSUME NEW c \in Checkers, EnsureStatus(c)
        PROVE  \A e \in Episodes : Typewritten(e)'
    <2>1. checker[c].read.ordinal \in Episodes
      BY <1>7, <1>b, CheckFields, EffectIs DEF EnsureStatus, IInv, CheckOK
    <2> QED
      BY <1>7, <1>b, <1>g, <2>1, NoteIs, NoteFields
      DEF EnsureStatus, WriteNote, Typewritten, Submitted
  <1>8. ASSUME ClaimNote PROVE \A e \in Episodes : Typewritten(e)'
    <2>1. Here \in Episodes
      BY <1>8, <1>c, <1>d DEF ClaimNote, Reached
    <2> QED BY <1>8, <1>b, <1>g, <2>1 DEF ClaimNote, Refuse, Stop, Typewritten, Submitted
  <1>9. ASSUME RecordNote PROVE \A e \in Episodes : Typewritten(e)'
    <2>1. Here \in Episodes /\ typed[Here] # "none"
      BY <1>9, <1>c, <1>d DEF RecordNote, Reached
    <2> QED BY <1>9, <1>b, <1>g, <2>1 DEF RecordNote, Refuse, Stop, Typewritten
  <1> QED
    BY <1>1, <1>2, <1>3, <1>4, <1>5, <1>6, <1>7, <1>8, <1>9 DEF Next, Check, Pass, Claim, Record

LEMMA AheadKept ==
    ASSUME IInv, Next
    PROVE  \A e \in Episodes : Ahead(e)'
  <1>b. /\ worker \in Workers /\ deadline \in DriftStates /\ note \in [Episodes -> Notifications]
        /\ checker \in [Checkers -> Checks]
        /\ typed \in [Episodes -> {"none"} \union Submitted]
    BY Typed DEF IInv, TypeOK
  <1>c. Reached /\ KnowsNote /\ BoundToClaim /\ HoldsDeadline
    BY DEF IInv, WorkerOK, Reached, KnowsNote, BoundToClaim, HoldsDeadline, Outstanding
  <1>d. worker.episode # 0 => Here \in Episodes
    BY <1>b, WorkerFields
  <1>g. \A e \in Episodes : Ahead(e)
    BY DEF IInv, NoteOK, Ahead
  <1>m. deadline.ordinal \in Nat /\ deadline'.ordinal \in Nat /\ deadline.ordinal <= deadline'.ordinal
    BY OrdinalGrows, DeadlineTyped, DriftFields, <1>b, EpisodeAssumption
  <1>j. \A e \in Episodes : e \in Nat
    BY DEF Episodes
  <1>k. \A e \in Episodes : e > deadline'.ordinal => e > deadline.ordinal
    BY <1>m, <1>j
  <1>l. \A e \in Episodes : Known(e)
    BY DEF IInv, NoteOK, Known
  <1>1. ASSUME NEW c \in Checkers,
               Load(c) \/ Observe(c) \/ Refused(c) \/ EnsureEscalation(c)
               \/ PersistDrift(c)
        PROVE  \A e \in Episodes : Ahead(e)'
    BY <1>1, <1>g, <1>k
    DEF Load, Observe, Refused, Give, EnsureEscalation, StepTo, PersistDrift, CanPersist, Ahead
  <1>2. ASSUME
               ClaimDue \/ ResetEpisode \/ EvidenceMoves \/ ListWork \/ Authority
               \/ ClaimLoad \/ ClaimFind \/ ClaimDeadline \/ RecordLoad \/ RecordDeadline
               \/ Crash
        PROVE  \A e \in Episodes : Ahead(e)'
    BY <1>2, <1>g, <1>k
    DEF ClaimDue, ResetEpisode, EvidenceMoves, ListWork, Authority, Go, Deliver, Stop,
        ClaimLoad, Refuse, ClaimFind, ClaimDeadline, RecordLoad, RecordDeadline, Crash, Ahead
  <1>3. ASSUME NEW x \in Episodes,
               TranscriptObserves(x) \/ TranscriptCloses(x) \/ Acknowledge(x)
               \/ TakeUp(x)
        PROVE  \A e \in Episodes : Ahead(e)'
    BY <1>3, <1>b, <1>g, <1>k
    DEF TranscriptObserves, NoteMoves, WriteNote, TranscriptCloses, Acknowledge, TakeUp, Ahead
  <1>4. ASSUME NEW c \in Checkers, ExpireQueued(c) PROVE \A e \in Episodes : Ahead(e)'
    <2>1. checker[c].read.ordinal \in Episodes /\ ~(checker[c].read.ordinal > deadline.ordinal)
      BY <1>4, <1>b, <1>m, <1>j, CheckFields, EffectIs DEF ExpireQueued, IInv, CheckOK
    <2> QED BY <1>4, <1>b, <1>g, <1>k, <2>1 DEF ExpireQueued, WriteNote, Give, Ahead
  <1>5. ASSUME NEW c \in Checkers, EnsureStatus(c) PROVE \A e \in Episodes : Ahead(e)'
    <2>1. checker[c].read.ordinal \in Episodes /\ ~(checker[c].read.ordinal > deadline.ordinal)
      BY <1>5, <1>b, <1>m, <1>j, CheckFields, EffectIs DEF EnsureStatus, IInv, CheckOK
    <2> QED BY <1>5, <1>b, <1>g, <1>k, <2>1 DEF EnsureStatus, WriteNote, Ahead
  <1>6. ASSUME SubmitTurn PROVE \A e \in Episodes : Ahead(e)'
    <2>1. Here \in Episodes /\ note[Here].state # "absent"
      BY <1>6, <1>c, <1>d, <1>l DEF SubmitTurn, Reached, Known
    <2> QED BY <1>6, <1>b, <1>g, <1>k, <2>1 DEF SubmitTurn, Ahead
  <1>7. ASSUME ClaimNote PROVE \A e \in Episodes : Ahead(e)'
    <2>1. Here \in Episodes /\ note[Here].state # "absent"
      BY <1>7, <1>c, <1>d, <1>l DEF ClaimNote, Reached, Known
    <2> QED BY <1>7, <1>b, <1>g, <1>k, <2>1 DEF ClaimNote, Ahead
  <1>8. ASSUME RecordNote PROVE \A e \in Episodes : Ahead(e)'
    <2>1. Here \in Episodes /\ note[Here].state # "absent"
      BY <1>8, <1>c, <1>d, <1>l DEF RecordNote, Reached, Known
    <2> QED BY <1>8, <1>b, <1>g, <1>k, <2>1 DEF RecordNote, Ahead
  <1> QED
    BY <1>1, <1>2, <1>3, <1>4, <1>5, <1>6, <1>7, <1>8 DEF Next, Check, Pass, Claim, Record

LEMMA CancelledKept ==
    ASSUME IInv, Next
    PROVE  \A e \in Episodes : Cancelled(e)'
  <1>b. /\ worker \in Workers /\ deadline \in DriftStates /\ note \in [Episodes -> Notifications]
        /\ checker \in [Checkers -> Checks]
        /\ typed \in [Episodes -> {"none"} \union Submitted]
    BY Typed DEF IInv, TypeOK
  <1>c. Reached /\ KnowsNote /\ BoundToClaim /\ HoldsDeadline
    BY DEF IInv, WorkerOK, Reached, KnowsNote, BoundToClaim, HoldsDeadline, Outstanding
  <1>d. worker.episode # 0 => Here \in Episodes
    BY <1>b, WorkerFields
  <1>e. Idle.pc = "idle" /\ Idle.episode = 0
    BY StartsTyped
  <1>f. 0 \notin Episodes
    BY DEF Episodes
  <1>g. \A e \in Episodes : Cancelled(e)
    BY DEF IInv, NoteOK, Cancelled
  <1>1. ASSUME NEW c \in Checkers,
               Load(c) \/ Observe(c) \/ Refused(c) \/ EnsureEscalation(c)
               \/ PersistDrift(c)
        PROVE  \A e \in Episodes : Cancelled(e)'
    BY <1>1, <1>e, <1>f, <1>g
    DEF Load, Observe, Refused, Give, EnsureEscalation, StepTo, PersistDrift, CanPersist,
        Cancelled, InFlight
  <1>2. ASSUME ClaimDue \/ ResetEpisode \/ EvidenceMoves
        PROVE  \A e \in Episodes : Cancelled(e)'
    BY <1>2, <1>e, <1>f, <1>g DEF ClaimDue, ResetEpisode, EvidenceMoves, Cancelled, InFlight
  <1>3. ASSUME NEW x \in Episodes,
               TranscriptObserves(x) \/ TranscriptCloses(x) \/ Acknowledge(x)
        PROVE  \A e \in Episodes : Cancelled(e)'
    BY <1>3, <1>b, <1>e, <1>f, <1>g, NoteIs, NoteFields
    DEF TranscriptObserves, NoteMoves, WriteNote, TranscriptCloses, Acknowledge, InFlight,
        Cancelled
  <1>4. ASSUME ListWork
        PROVE  \A e \in Episodes : Cancelled(e)'
    BY <1>4, <1>e, <1>f, <1>g DEF ListWork, InFlight, Candidates, Candidate, Cancelled
  <1>5. ASSUME NEW x \in Episodes, TakeUp(x)
        PROVE  \A e \in Episodes : Cancelled(e)'
    BY <1>5, <1>e, <1>f, <1>g DEF TakeUp, InFlight, Idle, Cancelled
  <1>6. ASSUME Authority \/ ClaimFind \/ ClaimDeadline \/ RecordLoad
        PROVE  \A e \in Episodes : Cancelled(e)'
    BY <1>6, <1>b, <1>e, <1>f, <1>g, <1>c, GoIs
    DEF Authority, Deliver, Stop, ClaimFind, Refuse, ClaimDeadline, RecordLoad, Pcs, InFlight,
        Reached, Cancelled
  <1>7. ASSUME ClaimLoad
        PROVE  \A e \in Episodes : Cancelled(e)'
    BY <1>7, <1>b, <1>e, <1>f, <1>g, <1>c
    DEF ClaimLoad, Refuse, Stop, Workers, InFlight, Reached, Cancelled
  <1>8. ASSUME RecordDeadline
        PROVE  \A e \in Episodes : Cancelled(e)'
    BY <1>8, <1>e, <1>f, <1>g, <1>c
    DEF RecordDeadline, Refuse, Stop, InFlight, Reached, Cancelled
  <1>9. ASSUME Crash
        PROVE  \A e \in Episodes : Cancelled(e)'
    BY <1>9, <1>e, <1>f, <1>g DEF Crash, InFlight, Cancelled
  <1>10. ASSUME NEW c \in Checkers, ExpireQueued(c) PROVE \A e \in Episodes : Cancelled(e)'
    <2>1. checker[c].read.ordinal \in Episodes
      BY <1>10, <1>b, CheckFields, EffectIs DEF ExpireQueued, IInv, CheckOK
    <2> QED
      BY <1>10, <1>b, <1>g, <2>1, NoteIs, NoteFields
      DEF ExpireQueued, WriteNote, Give, Cancelled, InFlight
  <1>11. ASSUME NEW c \in Checkers, EnsureStatus(c) PROVE \A e \in Episodes : Cancelled(e)'
    <2>1. checker[c].read.ordinal \in Episodes
      BY <1>11, <1>b, CheckFields, EffectIs DEF EnsureStatus, IInv, CheckOK
    <2> QED
      BY <1>11, <1>b, <1>g, <2>1, NoteIs, NoteFields
      DEF EnsureStatus, WriteNote, Cancelled, InFlight
  <1>12. ASSUME SubmitTurn PROVE \A e \in Episodes : Cancelled(e)'
    <2>1. Here \in Episodes
      BY <1>12, <1>c, <1>d DEF SubmitTurn, Reached
    <2>2. worker'.episode = Here \/ worker'.episode = 0
      BY <1>12, <1>b, <1>e, GoIs DEF SubmitTurn, Refuse, Stop, Pcs
    <2>3. \A e \in Episodes : typed'[e] = typed[e] \/ e = Here
      BY <1>12, <1>b DEF SubmitTurn
    <2>4. note' = note /\ list' = list /\ overtaken' = overtaken
      BY <1>12 DEF SubmitTurn, Refuse
    <2> QED BY <1>f, <1>g, <2>2, <2>3, <2>4 DEF Cancelled, InFlight
  <1>13. ASSUME ClaimNote PROVE \A e \in Episodes : Cancelled(e)'
    <2>1. Here \in Episodes
      BY <1>13, <1>c, <1>d DEF ClaimNote, Reached
    <2>2. worker'.episode = Here \/ worker'.episode = 0
      BY <1>13, <1>b, <1>e, GoIs DEF ClaimNote, Refuse, Stop, Pcs
    <2>3. \A e \in Episodes : note'[e].state = "expired" => note'[e] = note[e]
      BY <1>13, <1>b, <2>1 DEF ClaimNote, Refuse
    <2>4. list' = list /\ typed' = typed /\ overtaken' = overtaken
      BY <1>13 DEF ClaimNote, Refuse
    <2> QED BY <1>f, <1>g, <2>2, <2>3, <2>4 DEF Cancelled, InFlight
  <1>14. ASSUME RecordNote PROVE \A e \in Episodes : Cancelled(e)'
    <2>1. Here \in Episodes
      BY <1>14, <1>c, <1>d DEF RecordNote, Reached
    <2>2. worker'.episode = Here \/ worker'.episode = 0
      BY <1>14, <1>b, <1>e, GoIs DEF RecordNote, Refuse, Stop, Pcs
    <2>3. \A e \in Episodes : note'[e].state = "expired" => note'[e] = note[e]
      BY <1>14, <1>b, <2>1 DEF RecordNote, Refuse
    <2>4. list' = list /\ typed' = typed /\ overtaken' = overtaken
      BY <1>14 DEF RecordNote, Refuse
    <2> QED BY <1>f, <1>g, <2>2, <2>3, <2>4 DEF Cancelled, InFlight
  <1> QED
    BY <1>1, <1>2, <1>3, <1>4, <1>5, <1>6, <1>7, <1>8, <1>9, <1>10, <1>11, <1>12, <1>13, <1>14
    DEF Next, Check, Pass, Claim, Record

LEMMA WaitingKept ==
    ASSUME IInv, Next
    PROVE  \A e \in Episodes : Waiting(e)'
  <1>b. /\ worker \in Workers /\ deadline \in DriftStates /\ note \in [Episodes -> Notifications]
        /\ checker \in [Checkers -> Checks]
        /\ typed \in [Episodes -> {"none"} \union Submitted]
    BY Typed DEF IInv, TypeOK
  <1>c. Reached /\ KnowsNote /\ BoundToClaim /\ HoldsDeadline
    BY DEF IInv, WorkerOK, Reached, KnowsNote, BoundToClaim, HoldsDeadline, Outstanding
  <1>d. worker.episode # 0 => Here \in Episodes
    BY <1>b, WorkerFields
  <1>g. \A e \in Episodes : Waiting(e) /\ Created(e) /\ Ahead(e)
    BY DEF IInv, NoteOK, Waiting, Created, Ahead
  <1>1. ASSUME NEW c \in Checkers,
               Load(c) \/ Observe(c) \/ Refused(c) \/ EnsureEscalation(c)
        PROVE  \A e \in Episodes : Waiting(e)'
    BY <1>1, <1>g DEF Load, Observe, Refused, Give, EnsureEscalation, StepTo, Waiting
  <1>2. ASSUME
               ClaimDue \/ EvidenceMoves \/ ListWork \/ Authority \/ SubmitTurn
               \/ ClaimLoad \/ ClaimFind \/ RecordLoad \/ Crash
        PROVE  \A e \in Episodes : Waiting(e)'
    BY <1>2, <1>g
    DEF ClaimDue, EvidenceMoves, ListWork, Authority, Go, Deliver, Stop, SubmitTurn, Refuse,
        ClaimLoad, ClaimFind, RecordLoad, Crash, Waiting
  <1>3. ASSUME NEW x \in Episodes,
               TranscriptObserves(x) \/ TranscriptCloses(x) \/ Acknowledge(x)
        PROVE  \A e \in Episodes : Waiting(e)'
    BY <1>3, <1>b, <1>g, NoteIs, NoteFields
    DEF TranscriptObserves, NoteMoves, WriteNote, TranscriptCloses, Acknowledge, Submitted,
        Waiting
  <1>4. ASSUME NEW x \in Episodes, TakeUp(x)
        PROVE  \A e \in Episodes : Waiting(e)'
    BY <1>4, <1>g DEF TakeUp, Waiting
  <1>5. ASSUME NEW c \in Checkers, ExpireQueued(c) PROVE \A e \in Episodes : Waiting(e)'
    <2>1. checker[c].read.ordinal \in Episodes
      BY <1>5, <1>b, CheckFields, EffectIs DEF ExpireQueued, IInv, CheckOK
    <2>0. \/ note' = note
          \/ \E s \in {"queued", "expired"} :
                 note' = [note EXCEPT ![checker[c].read.ordinal] =
                             [state |-> s, attempt |-> "queued"]]
      BY <1>5 DEF ExpireQueued, WriteNote, Give
    <2>2. \A e \in Episodes : note'[e] = note[e]
              \/ (note'[e].attempt = "queued" /\ note'[e].state \in {"queued", "expired"})
      BY <1>b, <2>0, <2>1, NoteIs
    <2> QED BY <1>5, <1>g, <2>2 DEF ExpireQueued, Waiting
  <1>6. ASSUME NEW c \in Checkers, EnsureStatus(c) PROVE \A e \in Episodes : Waiting(e)'
    <2>1. checker[c].read.ordinal \in Episodes
      BY <1>6, <1>b, CheckFields, EffectIs DEF EnsureStatus, IInv, CheckOK
    <2>0. \/ note' = note
          \/ \E s \in {"queued", "expired"} :
                 note' = [note EXCEPT ![checker[c].read.ordinal] =
                             [state |-> s, attempt |-> "queued"]]
      BY <1>6 DEF EnsureStatus, WriteNote
    <2>2. \A e \in Episodes : note'[e] = note[e]
              \/ (note'[e].attempt = "queued" /\ note'[e].state \in {"queued", "expired"})
      BY <1>b, <2>0, <2>1, NoteIs
    <2> QED BY <1>6, <1>g, <2>2 DEF EnsureStatus, Waiting
  <1>7. ASSUME NEW c \in Checkers, PersistDrift(c) PROVE \A e \in Episodes : Waiting(e)'
    <2>1. CASE c \in holds
      <3>1. Outcome(deadline, checker[c].seen, deadline') /\ note' = note /\ Shape(deadline)
        BY <1>7, <2>1, PersistIs DEF PersistDrift, IInv, DeadlineOK
      <3>2. \A e \in Episodes :
                deadline'.ordinal = e /\ deadline'.phase = "observing" /\ deadline'.quiet = 1 =>
                    \/ deadline.ordinal = e /\ deadline.phase = "observing" /\ deadline.quiet = 1
                    \/ e > deadline.ordinal
        <4>1. deadline.ordinal \in Nat
          BY <1>b, DriftFields, EpisodeAssumption
        <4> QED BY <3>1, <4>1 DEF Outcome, Rests
      <3> QED BY <1>g, <3>1, <3>2 DEF Waiting, Created, Ahead
    <2>2. CASE c \notin holds
      BY <1>7, <1>g, <2>2, PersistRefused DEF PersistDrift, Waiting
    <2> QED BY <2>1, <2>2
  <1>8. ASSUME ResetEpisode PROVE \A e \in Episodes : Waiting(e)'
    BY <1>8, ResetIs DEF Rests, Waiting
  <1>9. ASSUME ClaimDeadline PROVE \A e \in Episodes : Waiting(e)'
    <2>1. CASE Worker \in holds
      BY <1>9, <2>1, ClaimIs DEF Waiting
    <2>2. CASE Worker \notin holds
      BY <1>9, <1>g, <2>2, ClaimRefused DEF ClaimDeadline, Waiting
    <2> QED BY <2>1, <2>2
  <1>10. ASSUME ClaimNote PROVE \A e \in Episodes : Waiting(e)'
    <2>1. CASE holdsNote
      <3>1. Here \in Episodes /\ ClaimedDrift(Here)
        BY <1>10, <1>c, <1>d, <2>1 DEF ClaimNote, Reached, BoundToClaim
      <3>2. deadline' = deadline /\ deadline.phase = "outstanding"
        BY <1>10, <3>1 DEF ClaimNote, ClaimedDrift, Outstanding
      <3> QED BY <3>2 DEF Waiting
    <2>2. CASE ~holdsNote
      BY <1>10, <1>g, <2>2 DEF ClaimNote, Waiting
    <2> QED BY <2>1, <2>2
  <1>11. ASSUME RecordNote PROVE \A e \in Episodes : Waiting(e)'
    <2>1. CASE holdsNote
      <3>1. Here \in Episodes /\ note[Here].attempt = "claimed"
        BY <1>11, <1>c, <1>d, <2>1 DEF RecordNote, Reached, KnowsNote
      <3>2. deadline' = deadline /\ \A e \in Episodes : e = Here \/ note'[e] = note[e]
        BY <1>11, <1>b, <2>1, <3>1 DEF RecordNote
      <3> QED BY <1>g, <3>1, <3>2 DEF Waiting
    <2>2. CASE ~holdsNote
      BY <1>11, <1>g, <2>2 DEF RecordNote, Waiting
    <2> QED BY <2>1, <2>2
  <1>12. ASSUME RecordDeadline PROVE \A e \in Episodes : Waiting(e)'
    <2>1. CASE Worker \in holds
      BY <1>12, <2>1, RecordIs DEF Rests, Waiting
    <2>2. CASE Worker \notin holds
      BY <1>12, <1>g, <2>2, RecordRefused DEF RecordDeadline, Waiting
    <2> QED BY <2>1, <2>2
  <1> QED
    BY <1>1, <1>2, <1>3, <1>4, <1>5, <1>6, <1>7, <1>8, <1>9, <1>10, <1>11, <1>12
    DEF Next, Check, Pass, Claim, Record

LEMMA HalfDoneKept ==
    ASSUME IInv, Next
    PROVE  \A e \in Episodes : HalfDone(e)'
  <1>b. /\ worker \in Workers /\ deadline \in DriftStates /\ note \in [Episodes -> Notifications]
        /\ checker \in [Checkers -> Checks]
        /\ typed \in [Episodes -> {"none"} \union Submitted]
    BY Typed DEF IInv, TypeOK
  <1>c. Reached /\ KnowsNote /\ BoundToClaim /\ HoldsDeadline
    BY DEF IInv, WorkerOK, Reached, KnowsNote, BoundToClaim, HoldsDeadline, Outstanding
  <1>d. worker.episode # 0 => Here \in Episodes
    BY <1>b, WorkerFields
  <1>e. Idle.pc = "idle" /\ Idle.episode = 0
    BY StartsTyped
  <1>g. \A e \in Episodes : HalfDone(e)
    BY DEF IInv, NoteOK, HalfDone
  <1>1. ASSUME NEW c \in Checkers,
               Load(c) \/ Observe(c) \/ Refused(c) \/ EnsureEscalation(c)
        PROVE  \A e \in Episodes : HalfDone(e)'
    BY <1>1, <1>e, <1>g
    DEF Load, Observe, Refused, Give, EnsureEscalation, StepTo, HalfDone, ClaimedDrift,
        Outstanding
  <1>2. ASSUME ClaimDue \/ EvidenceMoves \/ ListWork \/ Crash
        PROVE  \A e \in Episodes : HalfDone(e)'
    BY <1>2, <1>e, <1>g
    DEF ClaimDue, EvidenceMoves, ListWork, Crash, HalfDone, ClaimedDrift, Outstanding
  <1>3. ASSUME NEW x \in Episodes,
               TranscriptObserves(x) \/ TranscriptCloses(x) \/ Acknowledge(x)
        PROVE  \A e \in Episodes : HalfDone(e)'
    BY <1>3, <1>b, <1>e, <1>g, NoteIs, NoteFields
    DEF TranscriptObserves, NoteMoves, WriteNote, TranscriptCloses, Acknowledge, HalfDone,
        ClaimedDrift, Outstanding
  <1>4. ASSUME NEW x \in Episodes, TakeUp(x)
        PROVE  \A e \in Episodes : HalfDone(e)'
    BY <1>4, <1>e, <1>g DEF TakeUp, Idle, HalfDone, ClaimedDrift, Outstanding
  <1>5. ASSUME Authority \/ SubmitTurn \/ ClaimFind \/ RecordLoad
        PROVE  \A e \in Episodes : HalfDone(e)'
    BY <1>5, <1>e, <1>g, GoIs
    DEF Authority, Deliver, Stop, SubmitTurn, Refuse, ClaimFind, RecordLoad, Pcs, HalfDone,
        ClaimedDrift, Outstanding
  <1>6. ASSUME ClaimLoad
        PROVE  \A e \in Episodes : HalfDone(e)'
    BY <1>6, <1>e, <1>g
    DEF ClaimLoad, Refuse, Stop, Workers, HalfDone, ClaimedDrift, Outstanding
  <1>7. ASSUME NEW c \in Checkers, ExpireQueued(c) PROVE \A e \in Episodes : HalfDone(e)'
    <2>1. checker[c].read.ordinal \in Episodes
      BY <1>7, <1>b, CheckFields, EffectIs DEF ExpireQueued, IInv, CheckOK
    <2>2. \A e \in Episodes : note'[e] = note[e] \/ note'[e].attempt = "queued"
      BY <1>7, <1>b, <2>1, NoteIs DEF ExpireQueued, WriteNote, Give
    <2> QED BY <1>7, <1>g, <2>2 DEF ExpireQueued, Submitted, HalfDone, ClaimedDrift, Outstanding
  <1>8. ASSUME NEW c \in Checkers, EnsureStatus(c) PROVE \A e \in Episodes : HalfDone(e)'
    <2>1. checker[c].read.ordinal \in Episodes
      BY <1>8, <1>b, CheckFields, EffectIs DEF EnsureStatus, IInv, CheckOK
    <2>2. \A e \in Episodes : note'[e] = note[e] \/ note'[e].attempt = "queued"
      BY <1>8, <1>b, <2>1, NoteIs DEF EnsureStatus, WriteNote
    <2> QED BY <1>8, <1>g, <2>2 DEF EnsureStatus, Submitted, HalfDone, ClaimedDrift, Outstanding
  <1>9. ASSUME NEW c \in Checkers, PersistDrift(c) PROVE \A e \in Episodes : HalfDone(e)'
    <2>1. CASE c \in holds
      <3>1. Outcome(deadline, checker[c].seen, deadline')
        BY <1>9, <2>1, PersistIs
      <3>2. \A e : ClaimedDrift(e)' => ClaimedDrift(e)
        BY <3>1 DEF Outcome, Rests, ClaimedDrift, Outstanding, Submitted
      <3> QED BY <1>9, <1>g, <3>2 DEF PersistDrift, HalfDone
    <2>2. CASE c \notin holds
      BY <1>9, <1>g, <2>2, PersistRefused DEF PersistDrift, HalfDone, ClaimedDrift, Outstanding
    <2> QED BY <2>1, <2>2
  <1>10. ASSUME ResetEpisode PROVE \A e \in Episodes : HalfDone(e)'
    BY <1>10, ResetIs DEF Rests, HalfDone, ClaimedDrift, Outstanding
  <1>11. ASSUME ClaimDeadline PROVE \A e \in Episodes : HalfDone(e)'
    <2>1. CASE Worker \in holds
      <3>1. /\ Here \in Episodes /\ deadline.ordinal = Here /\ deadline.status = "queued"
            /\ deadline'.ordinal = Here /\ deadline.phase = "outstanding" /\ note' = note
        BY <1>11, <2>1, ClaimIs DEF ClaimDeadline
      <3>2. note[Here].attempt = "queued"
        BY <3>1 DEF IInv, HalvesAgree, Outstanding
      <3> QED BY <3>1, <3>2 DEF Submitted, HalfDone, ClaimedDrift, Outstanding
    <2>2. CASE Worker \notin holds
      BY <1>11, <1>g, <2>2, ClaimRefused DEF ClaimDeadline, HalfDone, ClaimedDrift, Outstanding
    <2> QED BY <2>1, <2>2
  <1>12. ASSUME ClaimNote PROVE \A e \in Episodes : HalfDone(e)'
    <2>1. CASE holdsNote
      <3>1. Here \in Episodes
        BY <1>12, <1>c, <1>d DEF ClaimNote, Reached
      <3>2. /\ deadline' = deadline /\ halved' = halved /\ worker'.episode = Here
            /\ worker'.pc = "record"
            /\ \A e \in Episodes : e = Here \/ note'[e] = note[e]
        BY <1>12, <1>b, <2>1, <3>1, GoIs DEF ClaimNote, Pcs
      <3>3. note'[Here].attempt \notin Submitted
        BY <1>12, <1>b, <2>1, <3>1 DEF ClaimNote, Submitted
      <3> QED BY <1>12, <1>g, <3>2, <3>3 DEF ClaimNote, HalfDone, ClaimedDrift, Outstanding
    <2>2. CASE ~holdsNote
      BY <1>12, <1>g, <2>2 DEF ClaimNote, Refuse, Stop, HalfDone, ClaimedDrift, Outstanding
    <2> QED BY <2>1, <2>2
  <1>13. ASSUME RecordNote PROVE \A e \in Episodes : HalfDone(e)'
    <2>1. CASE holdsNote
      <3>1. Here \in Episodes
        BY <1>13, <1>c, <1>d DEF RecordNote, Reached
      <3>2. /\ deadline' = deadline /\ halved' = halved /\ worker'.episode = Here
            /\ worker'.pc = "recordDeadline"
            /\ \A e \in Episodes : e = Here \/ note'[e] = note[e]
        BY <1>13, <1>b, <2>1, <3>1, GoIs DEF RecordNote, Pcs
      <3> QED BY <1>13, <1>g, <3>2 DEF RecordNote, HalfDone, ClaimedDrift, Outstanding
    <2>2. CASE ~holdsNote
      BY <1>13, <1>g, <2>2 DEF RecordNote, Refuse, Stop, HalfDone, ClaimedDrift, Outstanding
    <2> QED BY <2>1, <2>2
  <1>14. ASSUME RecordDeadline PROVE \A e \in Episodes : HalfDone(e)'
    <2>1. CASE Worker \in holds
      BY <1>14, <2>1, RecordIs DEF Rests, Submitted, HalfDone, ClaimedDrift, Outstanding
    <2>2. CASE Worker \notin holds
      BY <1>14, <1>g, <2>2, RecordRefused
      DEF RecordDeadline, HalfDone, ClaimedDrift, Outstanding
    <2> QED BY <2>1, <2>2
  <1> QED
    BY <1>1, <1>2, <1>3, <1>4, <1>5, <1>6, <1>7, <1>8, <1>9, <1>10, <1>11, <1>12, <1>13, <1>14
    DEF Next, Check, Pass, Claim, Record

LEMMA NotesKept ==
    ASSUME IInv, Next
    PROVE  \A e \in Episodes : NoteOK(e)'
    BY CreatedKept, AheadKept, WaitingKept, CancelledKept, HalfDoneKept, AnsweredKept,
       KnownKept, TypewrittenKept
    DEF NoteOK, Created, Ahead, Waiting, Cancelled, HalfDone, Answered, Known, Typewritten

(* What was asked of the agent, what was escalated, and what was moved. *)
Asked(e) ==
    e \in asked =>
        \/ Outstanding(deadline, e) \/ e \in overtaken
        \/ typed[e] # "none" \/ note[e].state = "expired"

Escalated(e) == e \in escalated => note[e].attempt \in Submitted

MovedOK(e) ==
    e \in moved =>
        /\ e <= deadline.ordinal
        /\ deadline.ordinal = e =>
               deadline.pending \/ (deadline.phase = "observing" /\ deadline.quiet = 0)

(* Each episode, one lemma for each conjunct of EpisodeOK.                  *)
LEMMA AskedLasts ==
    ASSUME IInv, Next, NEW e \in Episodes, Asked(e), asked' = asked,
           Outstanding(deadline, e) => Outstanding(deadline, e)'
    PROVE  Asked(e)'
  <1>1. overtaken \subseteq overtaken'
    BY HistoriesGrow DEF Grows
  <1> QED BY <1>1, NotesLast, TurnsLast DEF NoteLasts, TurnLasts, Asked

LEMMA AskedKept ==
    ASSUME IInv, Next
    PROVE  \A e \in Episodes : Asked(e)'
  <1>g. \A e \in Episodes : Asked(e)
    BY DEF IInv, EpisodeOK, Asked
  <1>1. ASSUME NEW c \in Checkers,
               Load(c) \/ Observe(c) \/ Refused(c) \/ ExpireQueued(c) \/ EnsureStatus(c)
               \/ EnsureEscalation(c)
        PROVE  \A e \in Episodes : Asked(e)'
    BY <1>1, <1>g, AskedLasts
    DEF Load, Observe, Refused, Give, ExpireQueued, WriteNote, StepTo, EnsureStatus,
        EnsureEscalation, Outstanding
  <1>2. ASSUME
               ClaimDue \/ EvidenceMoves \/ ListWork \/ Authority \/ SubmitTurn
               \/ ClaimLoad \/ ClaimFind \/ ClaimNote \/ RecordLoad \/ RecordNote \/ Crash
        PROVE  \A e \in Episodes : Asked(e)'
    BY <1>2, <1>g, AskedLasts
    DEF ClaimDue, EvidenceMoves, ListWork, Authority, Go, Deliver, Stop, SubmitTurn, Refuse,
        ClaimLoad, ClaimFind, ClaimNote, RecordLoad, RecordNote, Crash, Outstanding
  <1>3. ASSUME NEW x \in Episodes,
               TranscriptObserves(x) \/ TranscriptCloses(x) \/ Acknowledge(x)
               \/ TakeUp(x)
        PROVE  \A e \in Episodes : Asked(e)'
    BY <1>3, <1>g, AskedLasts
    DEF TranscriptObserves, NoteMoves, WriteNote, TranscriptCloses, Acknowledge, TakeUp,
        Outstanding
  <1>4. ASSUME NEW c \in Checkers, PersistDrift(c) PROVE \A e \in Episodes : Asked(e)'
    <2>1. CASE c \in holds
      <3>1. /\ Outcome(deadline, checker[c].seen, deadline') /\ Effected(deadline, checker[c].seen)
            /\ deadline' \in DriftStates /\ Shape(deadline')
            /\ asked' = IF deadline'.status = "queued" THEN asked \union {deadline'.ordinal}
                                                       ELSE asked
            /\ note' = note /\ typed' = typed /\ overtaken' = overtaken
        BY <1>4, <2>1, PersistIs DEF PersistDrift
      <3>2. deadline'.status = "queued" => deadline'.phase = "outstanding"
        BY <3>1, HasOrdinal
      <3>3. \A e \in Episodes :
                Outstanding(deadline, e) =>
                    \/ Outstanding(deadline, e)' \/ e \in overtaken
                    \/ typed[e] # "none" \/ note[e].state = "expired"
        <4>1. deadline.status \in Submitted => typed[deadline.ordinal] # "none"
          BY DEF IInv, DeadlineOK, Told
        <4> QED BY <3>1, <4>1 DEF Outcome, Rests, Effected, Outstanding
      <3> QED BY <1>g, <3>1, <3>2, <3>3 DEF Asked, Outstanding
    <2>2. CASE c \notin holds
      BY <1>4, <1>g, <2>2, PersistRefused, AskedLasts DEF Outstanding
    <2> QED BY <2>1, <2>2
  <1>5. ASSUME ResetEpisode PROVE \A e \in Episodes : Asked(e)'
    BY <1>5, <1>g, ResetIs, AskedLasts DEF Outstanding
  <1>6. ASSUME ClaimDeadline PROVE \A e \in Episodes : Asked(e)'
    <2>1. CASE Worker \in holds
      BY <1>6, <1>g, <2>1, ClaimIs, AskedLasts DEF ClaimDeadline, Outstanding
    <2>2. CASE Worker \notin holds
      BY <1>6, <1>g, <2>2, ClaimRefused, AskedLasts DEF ClaimDeadline, Outstanding
    <2> QED BY <2>1, <2>2
  <1>7. ASSUME RecordDeadline PROVE \A e \in Episodes : Asked(e)'
    <2>1. CASE Worker \in holds
      <3>1. deadline.ordinal = Here /\ typed[Here] \in Submitted
        BY <1>7, <2>1, RecordIs
      <3> QED BY <1>7, <1>g, <3>1 DEF RecordDeadline, Asked, Outstanding, Submitted
    <2>2. CASE Worker \notin holds
      BY <1>7, <1>g, <2>2, RecordRefused, AskedLasts DEF RecordDeadline, Outstanding
    <2> QED BY <2>1, <2>2
  <1> QED
    BY <1>1, <1>2, <1>3, <1>4, <1>5, <1>6, <1>7 DEF Next, Check, Pass, Claim, Record

LEMMA EscalatedKept ==
    ASSUME IInv, Next
    PROVE  \A e \in Episodes : Escalated(e)'
  <1>b. checker \in [Checkers -> Checks]
    BY Typed DEF IInv
  <1>g. \A e \in Episodes : Escalated(e)
    BY DEF IInv, EpisodeOK, Escalated
  <1>h. \A e \in Episodes : NoteLasts(e)
    BY NotesLast
  <1>1. ASSUME NEW c \in Checkers,
               Load(c) \/ Observe(c) \/ Refused(c) \/ ExpireQueued(c) \/ EnsureStatus(c)
               \/ PersistDrift(c)
        PROVE  \A e \in Episodes : Escalated(e)'
    BY <1>1, <1>g, <1>h
    DEF Load, Observe, Refused, Give, ExpireQueued, WriteNote, StepTo, EnsureStatus,
        PersistDrift, CanPersist, Escalated, NoteLasts
  <1>2. ASSUME
               ClaimDue \/ ResetEpisode \/ EvidenceMoves \/ ListWork \/ Authority
               \/ SubmitTurn \/ ClaimLoad \/ ClaimFind \/ ClaimDeadline \/ ClaimNote
               \/ RecordLoad \/ RecordNote \/ RecordDeadline \/ Crash
        PROVE  \A e \in Episodes : Escalated(e)'
    BY <1>2, <1>g, <1>h
    DEF ClaimDue, ResetEpisode, EvidenceMoves, ListWork, Authority, Go, Deliver, Stop,
        SubmitTurn, Refuse, ClaimLoad, ClaimFind, ClaimDeadline, ClaimNote, RecordLoad,
        RecordNote, RecordDeadline, Crash, Escalated, NoteLasts
  <1>3. ASSUME NEW x \in Episodes,
               TranscriptObserves(x) \/ TranscriptCloses(x) \/ Acknowledge(x)
               \/ TakeUp(x)
        PROVE  \A e \in Episodes : Escalated(e)'
    BY <1>3, <1>g, <1>h
    DEF TranscriptObserves, NoteMoves, WriteNote, TranscriptCloses, Acknowledge, TakeUp,
        Escalated, NoteLasts
  <1>4. ASSUME NEW c \in Checkers, EnsureEscalation(c)
        PROVE  \A e \in Episodes : Escalated(e)'
    <2>1. /\ checker[c].read.ordinal \in Episodes
          /\ note[checker[c].read.ordinal].attempt \in Submitted
      BY <1>4, <1>b, CheckFields, EffectIs DEF EnsureEscalation, IInv, CheckOK, Told
    <2> QED BY <1>4, <1>g, <2>1 DEF EnsureEscalation, Escalated
  <1> QED
    BY <1>1, <1>2, <1>3, <1>4 DEF Next, Check, Pass, Claim, Record

LEMMA MovedKept ==
    ASSUME IInv, Next
    PROVE  \A e \in Episodes : MovedOK(e)'
  <1>b. deadline \in DriftStates
    BY Typed DEF IInv
  <1>g. \A e \in Episodes : MovedOK(e)
    BY DEF IInv, EpisodeOK, MovedOK
  <1>1. ASSUME NEW c \in Checkers,
               Load(c) \/ Observe(c) \/ Refused(c) \/ ExpireQueued(c) \/ EnsureStatus(c)
               \/ EnsureEscalation(c)
        PROVE  \A e \in Episodes : MovedOK(e)'
    BY <1>1, <1>g
    DEF Load, Observe, Refused, Give, ExpireQueued, WriteNote, StepTo, EnsureStatus,
        EnsureEscalation, MovedOK
  <1>2. ASSUME
               ClaimDue \/ EvidenceMoves \/ ListWork \/ Authority \/ SubmitTurn
               \/ ClaimLoad \/ ClaimFind \/ ClaimNote \/ RecordLoad \/ RecordNote \/ Crash
        PROVE  \A e \in Episodes : MovedOK(e)'
    BY <1>2, <1>g
    DEF ClaimDue, EvidenceMoves, ListWork, Authority, Go, Deliver, Stop, SubmitTurn, Refuse,
        ClaimLoad, ClaimFind, ClaimNote, RecordLoad, RecordNote, Crash, MovedOK
  <1>3. ASSUME NEW x \in Episodes,
               TranscriptObserves(x) \/ TranscriptCloses(x) \/ Acknowledge(x)
               \/ TakeUp(x)
        PROVE  \A e \in Episodes : MovedOK(e)'
    BY <1>3, <1>g
    DEF TranscriptObserves, NoteMoves, WriteNote, TranscriptCloses, Acknowledge, TakeUp, MovedOK
  <1>4. ASSUME NEW c \in Checkers, PersistDrift(c) PROVE \A e \in Episodes : MovedOK(e)'
    <2>1. CASE c \in holds
      <3>1. /\ Outcome(deadline, checker[c].seen, deadline') /\ Shape(deadline)
            /\ deadline' \in DriftStates
            /\ moved' = IF deadline'.pending THEN moved \union {deadline'.ordinal} ELSE moved
        BY <1>4, <2>1, PersistIs DEF IInv, DeadlineOK
      <3>2. deadline.ordinal \in Nat /\ deadline'.ordinal \in Nat /\ \A e \in Episodes : e \in Nat
        BY <1>b, <3>1, DriftFields, EpisodeAssumption DEF Episodes
      <3> QED BY <1>g, <3>1, <3>2 DEF Outcome, Rests, MovedOK, Shape
    <2>2. CASE c \notin holds
      BY <1>4, <1>g, <2>2, PersistRefused DEF MovedOK
    <2> QED BY <2>1, <2>2
  <1>5. ASSUME ResetEpisode PROVE \A e \in Episodes : MovedOK(e)'
    BY <1>5, <1>g, ResetIs DEF Rests, MovedOK
  <1>6. ASSUME ClaimDeadline PROVE \A e \in Episodes : MovedOK(e)'
    <2>1. CASE Worker \in holds
      BY <1>6, <1>g, <2>1, ClaimIs DEF ClaimDeadline, MovedOK
    <2>2. CASE Worker \notin holds
      BY <1>6, <1>g, <2>2, ClaimRefused DEF ClaimDeadline, MovedOK
    <2> QED BY <2>1, <2>2
  <1>7. ASSUME RecordDeadline PROVE \A e \in Episodes : MovedOK(e)'
    <2>1. CASE Worker \in holds
      BY <1>7, <1>g, <2>1, RecordIs DEF RecordDeadline, Rests, MovedOK
    <2>2. CASE Worker \notin holds
      BY <1>7, <1>g, <2>2, RecordRefused DEF RecordDeadline, MovedOK
    <2> QED BY <2>1, <2>2
  <1> QED
    BY <1>1, <1>2, <1>3, <1>4, <1>5, <1>6, <1>7 DEF Next, Check, Pass, Claim, Record

LEMMA EpisodesKept ==
    ASSUME IInv, Next
    PROVE  \A e \in Episodes : EpisodeOK(e)'
    BY AskedKept, EscalatedKept, MovedKept DEF EpisodeOK, Asked, Escalated, MovedOK, Outstanding

(* The two records, part by part. *)
Bound(e) == note[e].attempt = "claimed" => ClaimedDrift(e)

Queued(e) ==
    Outstanding(deadline, e) /\ deadline.status = "queued" =>
        note[e].attempt = "queued" /\ note[e].state \in {"queued", "expired"}

SaysSo(e) ==
    deadline.ordinal = e /\ deadline.status \in Submitted => note[e].attempt = deadline.status

Overtaken(e) == ClaimedDrift(e) /\ note[e].state = "expired" => e \in overtaken

Left(e) == ClaimedDrift(e) /\ e \in answered => e \in halved

(* What becomes of a claim, and of a queued request. *)
LEMMA PersistClaims ==
    ASSUME IInv, NEW c \in Checkers, PersistDrift(c)
    PROVE  /\ \A e \in Episodes : ClaimedDrift(e)' <=> ClaimedDrift(e)
           /\ UNCHANGED <<note, typed, worker, list, holdsNote, answered, halved, overtaken>>
  <1>1. CASE c \in holds
    <2>1. Outcome(deadline, checker[c].seen, deadline') /\ Shape(deadline)
      BY <1>1, PersistIs DEF IInv, DeadlineOK
    <2> QED
      BY <2>1
      DEF PersistDrift, Outcome, Rests, ClaimedDrift, Outstanding, Submitted, Shape
  <1>2. CASE c \notin holds
    BY <1>2, PersistRefused DEF PersistDrift, ClaimedDrift, Outstanding
  <1> QED BY <1>1, <1>2

(* The two halves, one lemma for each conjunct of HalvesAgree.              *)
LEMMA BoundKept ==
    ASSUME IInv, Next
    PROVE  \A e \in Episodes : Bound(e)'
  <1>b. /\ worker \in Workers /\ deadline \in DriftStates /\ note \in [Episodes -> Notifications]
        /\ checker \in [Checkers -> Checks]
        /\ typed \in [Episodes -> {"none"} \union Submitted]
    BY Typed DEF IInv, TypeOK
  <1>c. Reached /\ KnowsNote /\ BoundToClaim /\ HoldsDeadline
    BY DEF IInv, WorkerOK, Reached, KnowsNote, BoundToClaim, HoldsDeadline, Outstanding
  <1>d. worker.episode # 0 => Here \in Episodes
    BY <1>b, WorkerFields
  <1>g. \A e \in Episodes : Bound(e)
    BY DEF IInv, HalvesAgree, Bound
  <1>1. ASSUME NEW c \in Checkers,
               Load(c) \/ Observe(c) \/ Refused(c) \/ EnsureEscalation(c)
        PROVE  \A e \in Episodes : Bound(e)'
    BY <1>1, <1>g
    DEF Load, Observe, Refused, Give, EnsureEscalation, StepTo, Bound, ClaimedDrift, Outstanding
  <1>2. ASSUME
               ClaimDue \/ EvidenceMoves \/ ListWork \/ Authority \/ SubmitTurn
               \/ ClaimLoad \/ ClaimFind \/ RecordLoad \/ Crash
        PROVE  \A e \in Episodes : Bound(e)'
    BY <1>2, <1>g
    DEF ClaimDue, EvidenceMoves, ListWork, Authority, Go, Deliver, Stop, SubmitTurn, Refuse,
        ClaimLoad, ClaimFind, RecordLoad, Crash, Bound, ClaimedDrift, Outstanding
  <1>3. ASSUME NEW x \in Episodes,
               TranscriptObserves(x) \/ TranscriptCloses(x) \/ Acknowledge(x)
        PROVE  \A e \in Episodes : Bound(e)'
    BY <1>3, <1>b, <1>g, NoteIs, NoteFields
    DEF TranscriptObserves, NoteMoves, WriteNote, TranscriptCloses, Acknowledge, Bound,
        ClaimedDrift, Outstanding
  <1>4. ASSUME NEW x \in Episodes, TakeUp(x)
        PROVE  \A e \in Episodes : Bound(e)'
    BY <1>4, <1>g DEF TakeUp, Bound, ClaimedDrift, Outstanding
  <1>5. ASSUME NEW c \in Checkers, ExpireQueued(c) PROVE \A e \in Episodes : Bound(e)'
    <2>1. checker[c].read.ordinal \in Episodes
      BY <1>5, <1>b, CheckFields, EffectIs DEF ExpireQueued, IInv, CheckOK
    <2>2. \A e \in Episodes : note'[e] = note[e] \/ note'[e].attempt = "queued"
      BY <1>5, <1>b, <2>1, NoteIs DEF ExpireQueued, WriteNote, Give
    <2> QED BY <1>5, <1>g, <2>2 DEF ExpireQueued, Bound, ClaimedDrift, Outstanding
  <1>6. ASSUME NEW c \in Checkers, EnsureStatus(c) PROVE \A e \in Episodes : Bound(e)'
    <2>1. checker[c].read.ordinal \in Episodes
      BY <1>6, <1>b, CheckFields, EffectIs DEF EnsureStatus, IInv, CheckOK
    <2>2. \A e \in Episodes : note'[e] = note[e] \/ note'[e].attempt = "queued"
      BY <1>6, <1>b, <2>1, NoteIs DEF EnsureStatus, WriteNote
    <2> QED BY <1>6, <1>g, <2>2 DEF EnsureStatus, Bound, ClaimedDrift, Outstanding
  <1>7. ASSUME NEW c \in Checkers, PersistDrift(c) PROVE \A e \in Episodes : Bound(e)'
    BY <1>7, <1>g, PersistClaims DEF Bound
  <1>8. ASSUME ResetEpisode PROVE \A e \in Episodes : Bound(e)'
    <2>1. \A e \in Episodes : note[e].attempt # "claimed"
      BY <1>8, <1>g, ResetIs DEF Bound, ClaimedDrift, Outstanding
    <2> QED BY <1>8, <2>1, ResetIs DEF Bound
  <1>9. ASSUME ClaimDeadline PROVE \A e \in Episodes : Bound(e)'
    <2>1. CASE Worker \in holds
      <3>1. \A e \in Episodes : note[e].attempt # "claimed"
        BY <1>9, <1>g, <2>1, ClaimIs DEF Bound, ClaimedDrift, Outstanding
      <3> QED BY <1>9, <3>1 DEF ClaimDeadline, Bound
    <2>2. CASE Worker \notin holds
      BY <1>9, <1>g, <2>2, ClaimRefused DEF ClaimDeadline, Bound, ClaimedDrift, Outstanding
    <2> QED BY <2>1, <2>2
  <1>10. ASSUME ClaimNote PROVE \A e \in Episodes : Bound(e)'
    <2>1. CASE holdsNote
      <3>1. Here \in Episodes /\ ClaimedDrift(Here)
        BY <1>10, <1>c, <1>d, <2>1 DEF ClaimNote, Reached, BoundToClaim
      <3>2. deadline' = deadline /\ \A e \in Episodes : e = Here \/ note'[e] = note[e]
        BY <1>10, <1>b, <2>1, <3>1 DEF ClaimNote
      <3> QED BY <1>g, <3>1, <3>2 DEF Bound, ClaimedDrift, Outstanding
    <2>2. CASE ~holdsNote
      BY <1>10, <1>g, <2>2 DEF ClaimNote, Bound, ClaimedDrift, Outstanding
    <2> QED BY <2>1, <2>2
  <1>11. ASSUME RecordNote PROVE \A e \in Episodes : Bound(e)'
    <2>1. CASE holdsNote
      <3>1. Here \in Episodes /\ typed[Here] \in Submitted /\ note[Here].attempt = "claimed"
        BY <1>11, <1>b, <1>c, <1>d, <2>1 DEF RecordNote, Reached, KnowsNote
      <3>2. /\ deadline' = deadline /\ \A e \in Episodes : e = Here \/ note'[e] = note[e]
            /\ note'[Here].attempt = typed[Here] /\ note'[Here].state \in {"offered", "uncertain"}
        BY <1>11, <1>b, <2>1, <3>1 DEF RecordNote
      <3> QED BY <1>11, <1>g, <3>1, <3>2 DEF Submitted, Bound, ClaimedDrift, Outstanding
    <2>2. CASE ~holdsNote
      BY <1>11, <1>g, <2>2 DEF RecordNote, Bound, ClaimedDrift, Outstanding
    <2> QED BY <2>1, <2>2
  <1>12. ASSUME RecordDeadline PROVE \A e \in Episodes : Bound(e)'
    <2>1. CASE Worker \in holds
      <3>1. \A e \in Episodes : note[e].attempt # "claimed"
        BY <1>12, <1>g, <2>1, RecordIs DEF Bound, Submitted, ClaimedDrift, Outstanding
      <3> QED BY <1>12, <3>1 DEF RecordDeadline, Bound
    <2>2. CASE Worker \notin holds
      BY <1>12, <1>g, <2>2, RecordRefused DEF RecordDeadline, Bound, ClaimedDrift, Outstanding
    <2> QED BY <2>1, <2>2
  <1> QED
    BY <1>1, <1>2, <1>3, <1>4, <1>5, <1>6, <1>7, <1>8, <1>9, <1>10, <1>11, <1>12
    DEF Next, Check, Pass, Claim, Record

LEMMA QueuedKept ==
    ASSUME IInv, Next
    PROVE  \A e \in Episodes : Queued(e)'
  <1>b. /\ worker \in Workers /\ deadline \in DriftStates /\ note \in [Episodes -> Notifications]
        /\ checker \in [Checkers -> Checks]
        /\ typed \in [Episodes -> {"none"} \union Submitted]
    BY Typed DEF IInv, TypeOK
  <1>c. Reached /\ KnowsNote /\ BoundToClaim /\ HoldsDeadline
    BY DEF IInv, WorkerOK, Reached, KnowsNote, BoundToClaim, HoldsDeadline, Outstanding
  <1>d. worker.episode # 0 => Here \in Episodes
    BY <1>b, WorkerFields
  <1>g. \A e \in Episodes : Queued(e)
    BY DEF IInv, HalvesAgree, Queued
  <1>1. ASSUME NEW c \in Checkers,
               Load(c) \/ Observe(c) \/ Refused(c) \/ EnsureEscalation(c)
        PROVE  \A e \in Episodes : Queued(e)'
    BY <1>1, <1>g
    DEF Load, Observe, Refused, Give, EnsureEscalation, StepTo, Queued, Outstanding
  <1>2. ASSUME
               ClaimDue \/ EvidenceMoves \/ ListWork \/ Authority \/ SubmitTurn
               \/ ClaimLoad \/ ClaimFind \/ RecordLoad \/ Crash
        PROVE  \A e \in Episodes : Queued(e)'
    BY <1>2, <1>g
    DEF ClaimDue, EvidenceMoves, ListWork, Authority, Go, Deliver, Stop, SubmitTurn, Refuse,
        ClaimLoad, ClaimFind, RecordLoad, Crash, Queued, Outstanding
  <1>3. ASSUME NEW x \in Episodes,
               TranscriptObserves(x) \/ TranscriptCloses(x) \/ Acknowledge(x)
        PROVE  \A e \in Episodes : Queued(e)'
    BY <1>3, <1>b, <1>g, NoteIs, NoteFields
    DEF TranscriptObserves, NoteMoves, WriteNote, TranscriptCloses, Acknowledge, Submitted,
        Queued, Outstanding
  <1>4. ASSUME NEW x \in Episodes, TakeUp(x)
        PROVE  \A e \in Episodes : Queued(e)'
    BY <1>4, <1>g DEF TakeUp, Queued, Outstanding
  <1>5. ASSUME NEW c \in Checkers, ExpireQueued(c) PROVE \A e \in Episodes : Queued(e)'
    <2>1. checker[c].read.ordinal \in Episodes
      BY <1>5, <1>b, CheckFields, EffectIs DEF ExpireQueued, IInv, CheckOK
    <2>2. \A e \in Episodes : note'[e] = note[e]
              \/ (note'[e].attempt = "queued" /\ note'[e].state \in {"queued", "expired"})
      BY <1>5, <1>b, <2>1, NoteIs DEF ExpireQueued, WriteNote, Give
    <2> QED BY <1>5, <1>g, <2>2 DEF ExpireQueued, Queued, Outstanding
  <1>6. ASSUME NEW c \in Checkers, EnsureStatus(c) PROVE \A e \in Episodes : Queued(e)'
    <2>1. checker[c].read.ordinal \in Episodes
      BY <1>6, <1>b, CheckFields, EffectIs DEF EnsureStatus, IInv, CheckOK
    <2>2. \A e \in Episodes : note'[e] = note[e]
              \/ (note'[e].attempt = "queued" /\ note'[e].state \in {"queued", "expired"})
      BY <1>6, <1>b, <2>1, NoteIs DEF EnsureStatus, WriteNote
    <2> QED BY <1>6, <1>g, <2>2 DEF EnsureStatus, Queued, Outstanding
  <1>7. ASSUME NEW c \in Checkers, PersistDrift(c) PROVE \A e \in Episodes : Queued(e)'
    <2>1. CASE c \in holds
      <3>1. /\ Outcome(deadline, checker[c].seen, deadline') /\ Effected(deadline, checker[c].seen)
            /\ note' = note
        BY <1>7, <2>1, PersistIs DEF PersistDrift
      <3>2. \A e \in Episodes : Waiting(e)
        BY DEF IInv, NoteOK, Waiting
      <3> QED
        BY <1>g, <3>1, <3>2
        DEF Outcome, Rests, Effected, Queued, Waiting, Outstanding, Submitted
    <2>2. CASE c \notin holds
      BY <1>7, <1>g, <2>2, PersistRefused DEF PersistDrift, Queued, Outstanding
    <2> QED BY <2>1, <2>2
  <1>8. ASSUME ResetEpisode PROVE \A e \in Episodes : Queued(e)'
    BY <1>8, ResetIs DEF Rests, Queued, Outstanding
  <1>9. ASSUME ClaimDeadline PROVE \A e \in Episodes : Queued(e)'
    <2>1. CASE Worker \in holds
      BY <1>9, <2>1, ClaimIs DEF Queued
    <2>2. CASE Worker \notin holds
      BY <1>9, <1>g, <2>2, ClaimRefused DEF ClaimDeadline, Queued, Outstanding
    <2> QED BY <2>1, <2>2
  <1>10. ASSUME ClaimNote PROVE \A e \in Episodes : Queued(e)'
    <2>1. CASE holdsNote
      <3>1. Here \in Episodes /\ ClaimedDrift(Here)
        BY <1>10, <1>c, <1>d, <2>1 DEF ClaimNote, Reached, BoundToClaim
      <3>2. deadline' = deadline
        BY <1>10 DEF ClaimNote
      <3> QED BY <3>1, <3>2 DEF Queued, ClaimedDrift
    <2>2. CASE ~holdsNote
      BY <1>10, <1>g, <2>2 DEF ClaimNote, Queued, Outstanding
    <2> QED BY <2>1, <2>2
  <1>11. ASSUME RecordNote PROVE \A e \in Episodes : Queued(e)'
    <2>1. CASE holdsNote
      <3>1. Here \in Episodes /\ typed[Here] \in Submitted /\ note[Here].attempt = "claimed"
        BY <1>11, <1>b, <1>c, <1>d, <2>1 DEF RecordNote, Reached, KnowsNote
      <3>2. /\ deadline' = deadline /\ \A e \in Episodes : e = Here \/ note'[e] = note[e]
            /\ note'[Here].attempt = typed[Here] /\ note'[Here].state \in {"offered", "uncertain"}
        BY <1>11, <1>b, <2>1, <3>1 DEF RecordNote
      <3> QED BY <1>11, <1>g, <3>1, <3>2 DEF Submitted, Queued, Outstanding
    <2>2. CASE ~holdsNote
      BY <1>11, <1>g, <2>2 DEF RecordNote, Queued, Outstanding
    <2> QED BY <2>1, <2>2
  <1>12. ASSUME RecordDeadline PROVE \A e \in Episodes : Queued(e)'
    <2>1. CASE Worker \in holds
      BY <1>12, <2>1, RecordIs DEF Rests, Queued, Outstanding, Submitted
    <2>2. CASE Worker \notin holds
      BY <1>12, <1>g, <2>2, RecordRefused DEF RecordDeadline, Queued, Outstanding
    <2> QED BY <2>1, <2>2
  <1> QED
    BY <1>1, <1>2, <1>3, <1>4, <1>5, <1>6, <1>7, <1>8, <1>9, <1>10, <1>11, <1>12
    DEF Next, Check, Pass, Claim, Record

LEMMA SaysSoKept ==
    ASSUME IInv, Next
    PROVE  \A e \in Episodes : SaysSo(e)'
  <1>g. \A e \in Episodes : SaysSo(e)
    BY DEF IInv, HalvesAgree, SaysSo
  <1>h. \A e \in Episodes : NoteLasts(e)
    BY NotesLast
  <1>1. ASSUME NEW c \in Checkers,
               Load(c) \/ Observe(c) \/ Refused(c) \/ EnsureEscalation(c)
        PROVE  \A e \in Episodes : SaysSo(e)'
    BY <1>1, <1>g DEF Load, Observe, Refused, Give, EnsureEscalation, StepTo, SaysSo
  <1>2. ASSUME
               ClaimDue \/ EvidenceMoves \/ ListWork \/ Authority \/ SubmitTurn
               \/ ClaimLoad \/ ClaimFind \/ RecordLoad \/ Crash
        PROVE  \A e \in Episodes : SaysSo(e)'
    BY <1>2, <1>g
    DEF ClaimDue, EvidenceMoves, ListWork, Authority, Go, Deliver, Stop, SubmitTurn, Refuse,
        ClaimLoad, ClaimFind, RecordLoad, Crash, SaysSo
  <1>3. ASSUME NEW x \in Episodes, TakeUp(x)
        PROVE  \A e \in Episodes : SaysSo(e)'
    BY <1>3, <1>g DEF TakeUp, SaysSo
  <1>4. ASSUME NEW c \in Checkers, ExpireQueued(c) PROVE \A e \in Episodes : SaysSo(e)'
    <2>1. deadline' = deadline
      BY <1>4 DEF ExpireQueued
    <2> QED BY <1>g, <1>h, <2>1 DEF SaysSo, NoteLasts
  <1>5. ASSUME NEW c \in Checkers, EnsureStatus(c) PROVE \A e \in Episodes : SaysSo(e)'
    <2>1. deadline' = deadline
      BY <1>5 DEF EnsureStatus
    <2> QED BY <1>g, <1>h, <2>1 DEF SaysSo, NoteLasts
  <1>6. ASSUME NEW c \in Checkers, PersistDrift(c) PROVE \A e \in Episodes : SaysSo(e)'
    <2>1. CASE c \in holds
      <3>1. Outcome(deadline, checker[c].seen, deadline') /\ note' = note /\ Shape(deadline)
        BY <1>6, <2>1, PersistIs DEF PersistDrift, IInv, DeadlineOK
      <3> QED BY <1>g, <3>1 DEF Outcome, Rests, SaysSo, Submitted, Shape
    <2>2. CASE c \notin holds
      BY <1>6, <1>g, <2>2, PersistRefused DEF PersistDrift, SaysSo
    <2> QED BY <2>1, <2>2
  <1>7. ASSUME ResetEpisode PROVE \A e \in Episodes : SaysSo(e)'
    BY <1>7, ResetIs DEF Rests, SaysSo, Submitted
  <1>8. ASSUME NEW x \in Episodes, TranscriptObserves(x)
        PROVE  \A e \in Episodes : SaysSo(e)'
    <2>1. deadline' = deadline
      BY <1>8 DEF TranscriptObserves, NoteMoves
    <2> QED BY <1>g, <1>h, <2>1 DEF SaysSo, NoteLasts
  <1>9. ASSUME NEW x \in Episodes, TranscriptCloses(x) PROVE \A e \in Episodes : SaysSo(e)'
    <2>1. deadline' = deadline
      BY <1>9 DEF TranscriptCloses, NoteMoves
    <2> QED BY <1>g, <1>h, <2>1 DEF SaysSo, NoteLasts
  <1>10. ASSUME NEW x \in Episodes, Acknowledge(x) PROVE \A e \in Episodes : SaysSo(e)'
    <2>1. deadline' = deadline
      BY <1>10 DEF Acknowledge, NoteMoves
    <2> QED BY <1>g, <1>h, <2>1 DEF SaysSo, NoteLasts
  <1>11. ASSUME ClaimDeadline PROVE \A e \in Episodes : SaysSo(e)'
    <2>1. CASE Worker \in holds
      BY <1>11, <2>1, ClaimIs DEF SaysSo, Submitted
    <2>2. CASE Worker \notin holds
      BY <1>11, <1>g, <2>2, ClaimRefused DEF ClaimDeadline, SaysSo
    <2> QED BY <2>1, <2>2
  <1>12. ASSUME ClaimNote PROVE \A e \in Episodes : SaysSo(e)'
    <2>1. deadline' = deadline
      BY <1>12 DEF ClaimNote
    <2> QED BY <1>g, <1>h, <2>1 DEF SaysSo, NoteLasts
  <1>13. ASSUME RecordNote PROVE \A e \in Episodes : SaysSo(e)'
    <2>1. deadline' = deadline
      BY <1>13 DEF RecordNote
    <2> QED BY <1>g, <1>h, <2>1 DEF SaysSo, NoteLasts
  <1>14. ASSUME RecordDeadline PROVE \A e \in Episodes : SaysSo(e)'
    <2>1. CASE Worker \in holds
      BY <1>14, <2>1, RecordIs DEF RecordDeadline, Rests, SaysSo, Submitted
    <2>2. CASE Worker \notin holds
      BY <1>14, <1>g, <2>2, RecordRefused DEF RecordDeadline, SaysSo
    <2> QED BY <2>1, <2>2
  <1> QED
    BY <1>1, <1>2, <1>3, <1>4, <1>5, <1>6, <1>7, <1>8, <1>9, <1>10, <1>11, <1>12, <1>13, <1>14
    DEF Next, Check, Pass, Claim, Record

LEMMA OvertakenKept ==
    ASSUME IInv, Next
    PROVE  \A e \in Episodes : Overtaken(e)'
  <1>b. /\ worker \in Workers /\ deadline \in DriftStates /\ note \in [Episodes -> Notifications]
        /\ checker \in [Checkers -> Checks]
        /\ typed \in [Episodes -> {"none"} \union Submitted]
    BY Typed DEF IInv, TypeOK
  <1>c. Reached /\ KnowsNote /\ BoundToClaim /\ HoldsDeadline
    BY DEF IInv, WorkerOK, Reached, KnowsNote, BoundToClaim, HoldsDeadline, Outstanding
  <1>d. worker.episode # 0 => Here \in Episodes
    BY <1>b, WorkerFields
  <1>g. \A e \in Episodes : Overtaken(e)
    BY DEF IInv, HalvesAgree, Overtaken
  <1>1. ASSUME NEW c \in Checkers,
               Load(c) \/ Observe(c) \/ Refused(c) \/ EnsureEscalation(c)
        PROVE  \A e \in Episodes : Overtaken(e)'
    BY <1>1, <1>g
    DEF Load, Observe, Refused, Give, EnsureEscalation, StepTo, Overtaken, ClaimedDrift,
        Outstanding
  <1>2. ASSUME
               ClaimDue \/ EvidenceMoves \/ ListWork \/ Authority \/ SubmitTurn
               \/ ClaimLoad \/ ClaimFind \/ RecordLoad \/ Crash
        PROVE  \A e \in Episodes : Overtaken(e)'
    BY <1>2, <1>g
    DEF ClaimDue, EvidenceMoves, ListWork, Authority, Go, Deliver, Stop, SubmitTurn, Refuse,
        ClaimLoad, ClaimFind, RecordLoad, Crash, Overtaken, ClaimedDrift, Outstanding
  <1>3. ASSUME NEW x \in Episodes,
               TranscriptObserves(x) \/ TranscriptCloses(x) \/ Acknowledge(x)
        PROVE  \A e \in Episodes : Overtaken(e)'
    BY <1>3, <1>b, <1>g, NoteIs, NoteFields
    DEF TranscriptObserves, NoteMoves, WriteNote, TranscriptCloses, Acknowledge, Overtaken,
        ClaimedDrift, Outstanding
  <1>4. ASSUME NEW x \in Episodes, TakeUp(x)
        PROVE  \A e \in Episodes : Overtaken(e)'
    BY <1>4, <1>g DEF TakeUp, Overtaken, ClaimedDrift, Outstanding
  <1>5. ASSUME NEW c \in Checkers, ExpireQueued(c) PROVE \A e \in Episodes : Overtaken(e)'
    <2>1. checker[c].read.ordinal \in Episodes
      BY <1>5, <1>b, CheckFields, EffectIs DEF ExpireQueued, IInv, CheckOK
    <2>2. \A e \in Episodes : ClaimedDrift(e) => typed[e] # "none"
      BY DEF IInv, DeadlineOK, ClaimedDrift, Outstanding
    <2>3. /\ deadline' = deadline /\ overtaken \subseteq overtaken'
          /\ \A e \in Episodes : note'[e] = note[e] \/ typed[e] = "none" \/ e \in overtaken'
      BY <1>5, <1>b, <2>1 DEF ExpireQueued, WriteNote, Give
    <2> QED BY <1>g, <2>2, <2>3 DEF Overtaken, ClaimedDrift, Outstanding
  <1>6. ASSUME NEW c \in Checkers, EnsureStatus(c) PROVE \A e \in Episodes : Overtaken(e)'
    <2>1. checker[c].read.ordinal \in Episodes
      BY <1>6, <1>b, CheckFields, EffectIs DEF EnsureStatus, IInv, CheckOK
    <2>2. /\ deadline' = deadline /\ overtaken' = overtaken
          /\ \A e \in Episodes : note'[e].state = "expired" => note'[e] = note[e]
      BY <1>6, <1>b, <2>1 DEF EnsureStatus, WriteNote
    <2> QED BY <1>g, <2>2 DEF Overtaken, ClaimedDrift, Outstanding
  <1>7. ASSUME NEW c \in Checkers, PersistDrift(c) PROVE \A e \in Episodes : Overtaken(e)'
    BY <1>7, <1>g, PersistClaims DEF Overtaken
  <1>8. ASSUME ResetEpisode PROVE \A e \in Episodes : Overtaken(e)'
    BY <1>8, ResetIs DEF Rests, Overtaken, ClaimedDrift, Outstanding
  <1>9. ASSUME ClaimDeadline PROVE \A e \in Episodes : Overtaken(e)'
    <2>1. CASE Worker \in holds
      <3>1. note[Here].state = "expired" => Here \in overtaken
        BY <1>9, <2>1, ClaimIs DEF IInv, NoteOK, InFlight
      <3> QED
        BY <1>9, <2>1, <3>1, ClaimIs
        DEF ClaimDeadline, Overtaken, ClaimedDrift, Outstanding
    <2>2. CASE Worker \notin holds
      BY <1>9, <1>g, <2>2, ClaimRefused DEF ClaimDeadline, Overtaken, ClaimedDrift, Outstanding
    <2> QED BY <2>1, <2>2
  <1>10. ASSUME ClaimNote PROVE \A e \in Episodes : Overtaken(e)'
    <2>1. /\ deadline' = deadline /\ overtaken' = overtaken
          /\ \A e \in Episodes : note'[e].state = "expired" => note'[e] = note[e]
      BY <1>10, <1>b, <1>d, <1>c DEF ClaimNote, Refuse, Reached
    <2> QED BY <1>g, <2>1 DEF Overtaken, ClaimedDrift, Outstanding
  <1>11. ASSUME RecordNote PROVE \A e \in Episodes : Overtaken(e)'
    <2>1. /\ deadline' = deadline /\ overtaken' = overtaken
          /\ \A e \in Episodes : note'[e].state = "expired" => note'[e] = note[e]
      BY <1>11, <1>b, <1>d, <1>c DEF RecordNote, Refuse, Reached
    <2> QED BY <1>g, <2>1 DEF Overtaken, ClaimedDrift, Outstanding
  <1>12. ASSUME RecordDeadline PROVE \A e \in Episodes : Overtaken(e)'
    <2>1. CASE Worker \in holds
      BY <1>12, <2>1, RecordIs DEF Rests, Submitted, Overtaken, ClaimedDrift, Outstanding
    <2>2. CASE Worker \notin holds
      BY <1>12, <1>g, <2>2, RecordRefused
      DEF RecordDeadline, Overtaken, ClaimedDrift, Outstanding
    <2> QED BY <2>1, <2>2
  <1> QED
    BY <1>1, <1>2, <1>3, <1>4, <1>5, <1>6, <1>7, <1>8, <1>9, <1>10, <1>11, <1>12
    DEF Next, Check, Pass, Claim, Record

LEMMA LeftKept ==
    ASSUME IInv, Next
    PROVE  \A e \in Episodes : Left(e)'
  <1>b. /\ worker \in Workers /\ deadline \in DriftStates /\ note \in [Episodes -> Notifications]
        /\ checker \in [Checkers -> Checks]
        /\ typed \in [Episodes -> {"none"} \union Submitted]
    BY Typed DEF IInv, TypeOK
  <1>c. Reached /\ KnowsNote /\ BoundToClaim /\ HoldsDeadline
    BY DEF IInv, WorkerOK, Reached, KnowsNote, BoundToClaim, HoldsDeadline, Outstanding
  <1>d. worker.episode # 0 => Here \in Episodes
    BY <1>b, WorkerFields
  <1>f. 0 \notin Episodes
    BY DEF Episodes
  <1>g. \A e \in Episodes : Left(e)
    BY DEF IInv, HalvesAgree, Left
  <1>1. ASSUME NEW c \in Checkers,
               Load(c) \/ Observe(c) \/ Refused(c) \/ ExpireQueued(c) \/ EnsureStatus(c)
               \/ EnsureEscalation(c)
        PROVE  \A e \in Episodes : Left(e)'
    BY <1>1, <1>g
    DEF Load, Observe, Refused, Give, ExpireQueued, WriteNote, StepTo, EnsureStatus,
        EnsureEscalation, Left, ClaimedDrift, Outstanding
  <1>2. ASSUME
               ClaimDue \/ EvidenceMoves \/ ListWork \/ SubmitTurn \/ ClaimLoad
               \/ ClaimFind \/ ClaimNote \/ RecordNote \/ Crash
        PROVE  \A e \in Episodes : Left(e)'
    BY <1>2, <1>g
    DEF ClaimDue, EvidenceMoves, ListWork, SubmitTurn, Go, Refuse, Stop, ClaimLoad, ClaimFind,
        ClaimNote, RecordNote, Crash, Left, ClaimedDrift, Outstanding
  <1>3. ASSUME NEW x \in Episodes,
               TranscriptObserves(x) \/ TranscriptCloses(x) \/ Acknowledge(x)
               \/ TakeUp(x)
        PROVE  \A e \in Episodes : Left(e)'
    BY <1>3, <1>g
    DEF TranscriptObserves, NoteMoves, WriteNote, TranscriptCloses, Acknowledge, TakeUp, Left,
        ClaimedDrift, Outstanding
  <1>4. ASSUME NEW c \in Checkers, PersistDrift(c) PROVE \A e \in Episodes : Left(e)'
    BY <1>4, <1>g, PersistClaims DEF Left
  <1>5. ASSUME ResetEpisode PROVE \A e \in Episodes : Left(e)'
    BY <1>5, ResetIs DEF Rests, Left, ClaimedDrift, Outstanding
  <1>6. ASSUME Authority PROVE \A e \in Episodes : Left(e)'
    <2>1. /\ deadline' = deadline /\ halved' = halved
          /\ answered' = answered \/ answered' = answered \union {Here}
      BY <1>6 DEF Authority, Refuse, Deliver
    <2>2. Here \in answered' => Here \in answered \/ note[Here].attempt \in Submitted
      BY <1>6, <1>c, <1>d DEF Authority, Refuse, Deliver, Recover, Recorded, Reached
    <2>3. ClaimedDrift(Here) /\ note[Here].attempt \in Submitted => Here \in halved
      BY <1>6, <1>c, <1>d, <1>f DEF Authority, IInv, NoteOK, Reached
    <2> QED BY <1>g, <2>1, <2>2, <2>3 DEF Left, ClaimedDrift, Outstanding
  <1>7. ASSUME ClaimDeadline PROVE \A e \in Episodes : Left(e)'
    <2>1. CASE Worker \in holds
      <3>1. /\ Here \in Episodes /\ deadline'.ordinal = Here /\ Outstanding(deadline, Here)
            /\ deadline.status = "queued" /\ answered' = answered
        BY <1>7, <2>1, ClaimIs DEF ClaimDeadline, Outstanding
      <3>2. note[Here].attempt = "queued"
        BY <3>1 DEF IInv, HalvesAgree
      <3>3. Here \notin answered
        BY <3>1, <3>2 DEF IInv, NoteOK, Submitted
      <3> QED BY <3>1, <3>3 DEF Left, ClaimedDrift, Outstanding
    <2>2. CASE Worker \notin holds
      BY <1>7, <1>g, <2>2, ClaimRefused
      DEF ClaimDeadline, Refuse, Left, ClaimedDrift, Outstanding
    <2> QED BY <2>1, <2>2
  <1>8. ASSUME RecordLoad PROVE \A e \in Episodes : Left(e)'
    <2>1. /\ deadline' = deadline /\ halved' = halved
          /\ answered' = answered \/ answered' = answered \union {Here}
      BY <1>8 DEF RecordLoad, Refuse, Deliver
    <2>2. Here \in answered' => Here \in answered \/ note[Here].attempt \in Submitted
      BY <1>8, <1>b, <1>c, <1>d DEF RecordLoad, Refuse, Deliver, Recover, Recorded, Reached
    <2>3. ClaimedDrift(Here) /\ note[Here].attempt \in Submitted => Here \in halved
      BY <1>8, <1>c, <1>d, <1>f DEF RecordLoad, IInv, NoteOK, Reached
    <2> QED BY <1>g, <2>1, <2>2, <2>3 DEF Left, ClaimedDrift, Outstanding
  <1>9. ASSUME RecordDeadline PROVE \A e \in Episodes : Left(e)'
    <2>1. CASE Worker \in holds
      BY <1>9, <2>1, RecordIs DEF Rests, Submitted, Left, ClaimedDrift, Outstanding
    <2>2. CASE Worker \notin holds
      BY <1>9, <1>g, <2>2, RecordRefused
      DEF RecordDeadline, Refuse, Left, ClaimedDrift, Outstanding
    <2> QED BY <2>1, <2>2
  <1> QED
    BY <1>1, <1>2, <1>3, <1>4, <1>5, <1>6, <1>7, <1>8, <1>9 DEF Next, Check, Pass, Claim, Record

LEMMA HalvesKept ==
    ASSUME IInv, Next
    PROVE  HalvesAgree'
    BY BoundKept, QueuedKept, SaysSoKept, OvertakenKept, LeftKept
    DEF HalvesAgree, Bound, Queued, SaysSo, Overtaken, Left

-----------------------------------------------------------------------------
(* The theorems. *)

(* The initial state, and stuttering.                                       *)
LEMMA Started ==
    ASSUME Init
    PROVE  IInv
  <1>1. /\ Armed \in DriftStates /\ Shape(Armed) /\ Armed.status = "none" /\ Armed.ordinal = 0
        /\ Armed.phase = "observing" /\ Armed.quiet = 0 /\ Armed.closed.how = "none"
    BY StartsTyped DEF Armed, NoClosure
  <1>2. /\ Idle \in Workers /\ Idle.pc = "idle" /\ Idle.episode = 0 /\ ~Idle.replay
        /\ NoCheck \in Checks /\ NoCheck.pc = "idle" /\ NoCheck.read = Armed
    BY StartsTyped
  <1>3. deadline = Armed /\ worker = Idle /\ checker = [c \in Checkers |-> NoCheck]
    BY DEF Init
  <1>4. [state |-> "absent", attempt |-> "queued"] \in Notifications
    BY DEF Notifications
  <1>5. \A e \in Episodes : note[e].state = "absent" /\ note[e].attempt = "queued" /\ typed[e] = "none"
    BY DEF Init
  <1>6. TypeOK
    BY <1>1, <1>2, <1>3, <1>4 DEF Init, TypeOK, Workers, Pcs, Checks
  <1>7. Told(deadline)
    BY <1>1, <1>3 DEF Told, Submitted
  <1>8. deadline.ordinal = 0 /\ 0 \in 0..0 /\ \A e \in Episodes : e # 0
    BY <1>1, <1>3 DEF Episodes
  <1>9. \A c \in Checkers : CheckOK(c)
    BY <1>1, <1>2, <1>3, <1>7, <1>8 DEF Init, CheckOK, Told
  <1>10. DeadlineOK
    BY <1>1, <1>3, <1>7 DEF DeadlineOK
  <1>11. WorkerOK
    BY <1>2, <1>3 DEF Init, WorkerOK, Worker
  <1>12. \A e \in Episodes : NoteOK(e) /\ EpisodeOK(e)
    BY <1>1, <1>2, <1>3, <1>5, <1>8
    DEF Init, NoteOK, EpisodeOK, ClaimedDrift, Outstanding, Submitted
  <1>13. HalvesAgree
    BY <1>1, <1>3, <1>5 DEF HalvesAgree, ClaimedDrift, Outstanding, Submitted
  <1> QED BY <1>6, <1>9, <1>10, <1>11, <1>12, <1>13 DEF IInv

LEMMA Stutters ==
    ASSUME IInv, UNCHANGED vars
    PROVE  IInv'
    BY DEF IInv, TypeOK, CheckOK, Told, DeadlineOK, WorkerOK, NoteOK, EpisodeOK, HalvesAgree,
        ClaimedDrift, Outstanding, InFlight

(* The inductive invariant: what a check knows, what the deadline implies,  *)
(* what the worker knows at each of its steps, and the two records.         *)
THEOREM Inductive == Spec => []IInv
  <1>1. Init => IInv
    BY Started
  <1>2. IInv /\ [Next]_vars => IInv'
    BY TypeKept, ChecksKept, DeadlineKept, WorkerKept, NotesKept, EpisodesKept, HalvesKept,
       Stutters
    DEF IInv
  <1> QED BY <1>1, <1>2, PTL DEF Spec

(* Every variable stays in its domain, for any number of concurrent checks. *)
THEOREM TypeCorrect == Spec => []TypeOK
  <1>1. IInv => TypeOK
    BY DEF IInv
  <1> QED BY <1>1, Inductive, PTL

(* The deadline and the notifications agree, whatever is written between the *)
(* two records of an operation (drift-delivery-claim.ts, submission.ts).    *)
THEOREM Agreement == Spec => []HalvesAgree
  <1>1. IInv => HalvesAgree
    BY DEF IInv
  <1> QED BY <1>1, Inductive, PTL

(* A person is called only on real silence, and movement is remembered      *)
(* (drift-quiet.ts, drift-movement.ts).                                     *)
THEOREM Silence == Spec => []SilenceIsReal
  <1>1. ASSUME IInv
        PROVE  EscalationFollowsRequest
    <2>1. \A e \in Episodes : e \in escalated => note[e].attempt \in Submitted /\ typed[e] # "none"
      BY <1>1 DEF IInv, NoteOK, EpisodeOK
    <2>2. escalated \subseteq Episodes
      BY <1>1 DEF IInv, TypeOK
    <2> QED BY <1>1, <2>1, <2>2 DEF EscalationFollowsRequest, IInv, DeadlineOK, Shape, Told
  <1>2. ASSUME IInv
        PROVE  MovementIsNotForgotten
    <2>1. moved \subseteq Episodes
      BY <1>2 DEF IInv, TypeOK
    <2>2. Shape(deadline)
      BY <1>2 DEF IInv, DeadlineOK
    <2> QED BY <1>2, <2>1, <2>2 DEF MovementIsNotForgotten, IInv, EpisodeOK, Shape, Submitted
  <1>3. IInv => SilenceIsReal
    BY <1>1, <1>2 DEF SilenceIsReal
  <1> QED BY <1>3, Inductive, PTL

(* A cancelled request is not typed and not revived, but for a delivery that *)
(* overtook the cancellation (drift-notifications.ts, delivery.ts).         *)
THEOREM Cancellation == Spec => CancellationHolds
  <1> DEFINE Holds(e) ==
          /\ note[e].state = "expired" => note'[e] = note[e] \/ e \in overtaken
          /\ typed[e] = "none" /\ typed'[e] # "none" /\ e \in asked =>
                 Outstanding(deadline, e) \/ e \in overtaken
  <1>1. ASSUME IInv, Next, NEW e \in Episodes
        PROVE  Holds(e)
    <2>1. note[e].state = "expired" => note'[e] = note[e] \/ e \in overtaken
      BY SMTT(30), <1>1, NotesLast DEF NoteLasts
    <2>2. ASSUME typed[e] = "none", typed'[e] # "none"
          PROVE  worker.episode = e
      BY <1>1, <2>2
      DEF IInv, TypeOK, Next, Check, Pass, Claim, Record, Load, Observe, Refused, ExpireQueued,
          EnsureStatus, EnsureEscalation, PersistDrift, ClaimDue, ResetEpisode,
          TranscriptObserves, TranscriptCloses, Acknowledge, NoteMoves, EvidenceMoves, ListWork,
          TakeUp, Authority, SubmitTurn, ClaimLoad, ClaimFind, ClaimDeadline, ClaimNote,
          RecordLoad, RecordNote, RecordDeadline, Crash
    <2> QED BY <1>1, <2>1, <2>2 DEF IInv, NoteOK, EpisodeOK, InFlight
  <1>2. IInv /\ [Next]_vars => [\A e \in Episodes : Holds(e)]_vars
    BY <1>1
  <1>3. Spec => [][\A e \in Episodes : Holds(e)]_vars
    BY <1>2, Inductive, PTL DEF Spec
  <1> QED BY <1>3 DEF CancellationHolds
=============================================================================
