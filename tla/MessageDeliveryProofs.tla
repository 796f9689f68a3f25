------------------------ MODULE MessageDeliveryProofs ------------------------
(***************************************************************************)
(* A message is handed to the provider at most once, under a claim that is *)
(* its worker's; what is reported as seen was seen; and fresh evidence is  *)
(* never overruled by a deadline: for any number of sends, deliveries,     *)
(* callers, sessions, lines, crashes and failed writes.                    *)
(***************************************************************************)
EXTENDS MessageDelivery, FiniteSetTheorems, TLAPS

JournalType == [state : JournalStates, target : Sessions \cup {None},
                from : Fences, line : Places \cup {None}]
CallType == [at : CallSteps, send : Sends \cup {None}, session : Sessions \cup {None},
             from : Fences, landed : BOOLEAN, result : {None, "ok", "refused", "threw"}]
DeliveryType == [state : DeliveryStates, why : Failures]
IngestType == [at : {"idle", "attach", "bind", "commit", "confirm", "deliver", "wait"},
               session : Sessions \cup {None}, upto : 0 .. MaxLines]

FilesOK ==
    /\ file \in [Sessions -> Seq(Sends \cup {None})]
    /\ \A s \in Sessions : Len(file[s]) <= MaxLines
SendsOK ==
    /\ journal \in [Sends -> JournalType]
    /\ order \in Seq(Sends) /\ effects \in [Sends -> Nat]
CallsOK ==
    /\ call \in [Everyone -> CallType]
    /\ \A k \in Everyone : ~At(k, "idle") => call[k].send \in Sends
ReadingOK ==
    /\ ingested \in [Sessions -> 0 .. MaxLines] /\ current \in Sessions \cup {None}
    /\ ingest \in IngestType
RoutingOK ==
    /\ delivery \in [Deliveries -> DeliveryType]
    /\ pass \in {"idle", "stale", "observe", "deadline", "route", "submit"}
    /\ recent \subseteq Deliveries
    /\ evidence \in [Deliveries -> {"none", "committed", "confirmed"}]
    /\ troubles \in 0 .. MaxTroubles

Types == FilesOK /\ SendsOK /\ CallsOK /\ ReadingOK /\ RoutingOK

(* Sends whose turn nobody has claimed yet.                                 *)
Fresh == {"none", "accepted"}

(* A turn is handed over by the one caller whose claim moved the journal.   *)
OneEffect ==
    /\ \A m \in Sends : effects[m] # 0 => effects[m] = 1 /\ journal[m].state \notin Fresh
    /\ \A k \in Everyone : At(k, "claimed") =>
         effects[call[k].send] = 0 /\ journal[call[k].send].state \notin Fresh
    /\ \A k, l \in Everyone :
         At(k, "claimed") /\ At(l, "claimed") /\ call[k].send = call[l].send => k = l

RouterHolds ==
    ~At(Router, "idle") =>
        /\ pass = "submit" /\ call[Router].send \in Deliveries
        /\ delivery[call[Router].send].state = "claimed"

(* What was confirmed as the pass began stays so, and once observation has  *)
(* run, the deadline finds nothing of it to fail.                           *)
EvidenceHeld ==
    /\ \A d \in Deliveries :
         delivery[d].why = "confirmation-timeout" => delivery[d].state = "failed"
    /\ \A d \in Deliveries : evidence[d] = "confirmed" =>
         /\ journal[d].state = "confirmed"
         /\ pass = "deadline" =>
              delivery[d].state \notin {"submitted-confirmed", "submitted-unconfirmed"}

(* The dispatch order names every send that was claimed, once.              *)
Ordered ==
    /\ \A i, j \in 1 .. Len(order) : order[i] = order[j] => i = j
    /\ \A i \in 1 .. Len(order) : journal[order[i]].state \notin Fresh
    /\ \A m \in Sends : journal[m].state \notin Fresh => \E i \in 1 .. Len(order) : order[i] = m

(* A line is recorded when and only when it confirms.                       *)
LinesOK ==
    \A m \in Sends :
        /\ journal[m].state = "confirmed" => journal[m].line \in Written
        /\ journal[m].state # "confirmed" => journal[m].line = None

IInv ==
    /\ Types /\ OneEffect /\ RouterHolds /\ EvidenceHeld /\ Ordered /\ LinesOK
    /\ ConfirmationsAreHonest

-----------------------------------------------------------------------------
(* Which actions touch what.                                                *)

(* Each part of the state is moved only by the actions named here.         *)
LEMMA Frames ==
    ASSUME Next
    PROVE  /\ file' = file \/ (\E k \in Everyone : Land(k)) \/ \E s \in Sessions : Type(s)
           /\ effects' = effects \/ \E k \in Everyone : StartTurn(k)
           /\ \/ journal' = journal /\ order' = order
              \/ (\E k \in Everyone, m \in Sends : Accept(k, m))
              \/ (\E k \in Everyone : Claim(k) \/ Settle(k)) \/ Bind \/ Confirm
           /\ UNCHANGED <<ingested, current>> \/ Attach \/ Commit
           /\ \/ delivery' = delivery \/ BeginPass \/ Deliver
              \/ CloseStale \/ Observe \/ FailOverdue \/ Report \/ ReportThrow
              \/ \E d \in Deliveries : RouteFails(d) \/ Route(d)
           /\ UNCHANGED <<pass, recent, evidence>> \/ BeginPass \/ Deliver \/ Pass
              \/ ReportFails \/ EndPass \/ Crash \/ \E d \in Deliveries : Route(d)
  <1> USE DEF provider, sends, reading, routing
  <1>1. ASSUME NEW k \in Everyone, NEW m \in Sends, Accept(k, m)
        PROVE  UNCHANGED <<provider, reading, routing>>
    BY <1>1 DEF Accept
  <1>2. ASSUME NEW k \in Everyone, Prepare(k) \/ Return(k) \/ SendFails(k)
        PROVE  UNCHANGED <<provider, sends, reading, routing>>
    BY <1>2 DEF Prepare, Return, SendFails, AcceptFails, ClaimFails, SettleFails
  <1>3. ASSUME NEW k \in Everyone, Claim(k) \/ Settle(k) PROVE UNCHANGED <<provider, reading, routing>>
    BY <1>3 DEF Claim, Settle
  <1>4. ASSUME NEW k \in Everyone, StartTurn(k) PROVE UNCHANGED <<file, sends, reading, routing>>
    BY <1>4 DEF StartTurn
  <1>5. ASSUME NEW k \in Everyone, Land(k) PROVE UNCHANGED <<effects, sends, reading, routing>>
    BY <1>5 DEF Land
  <1>6. ASSUME BeginPass \/ Pass PROVE UNCHANGED <<provider, sends, reading>>
    BY <1>6 DEF BeginPass, Pass, CloseStale, Observe, FailOverdue, Report, ReportThrow
  <1>7. ASSUME ReportFails \/ EndPass PROVE UNCHANGED <<provider, sends, ingested, current, delivery>>
    BY <1>7 DEF ReportFails, EndPass
  <1>8. ASSUME NEW d \in Deliveries, Route(d) PROVE UNCHANGED <<provider, sends, reading>>
    BY <1>8 DEF Route
  <1>9. ASSUME NEW d \in Deliveries, RouteFails(d)
        PROVE  UNCHANGED <<provider, sends, reading, pass, recent, evidence>>
    BY <1>9 DEF RouteFails
  <1>10. ASSUME NEW s \in Sessions, BeginIngest(s)
         PROVE  UNCHANGED <<provider, sends, ingested, current, routing>>
    BY <1>10 DEF BeginIngest
  <1>11. ASSUME NEW s \in Sessions, Type(s) PROVE UNCHANGED <<effects, sends, reading, routing>>
    BY <1>11 DEF Type
  <1>12. ASSUME Attach \/ Commit PROVE UNCHANGED <<provider, sends, routing>>
    BY <1>12 DEF Attach, Commit
  <1>13. ASSUME Bind \/ Confirm PROVE UNCHANGED <<provider, ingested, current, routing>>
    BY <1>13 DEF Bind, Confirm
  <1>14. ASSUME Deliver PROVE UNCHANGED <<provider, sends, ingested, current>>
    BY <1>14 DEF Deliver
  <1>15. ASSUME Crash PROVE UNCHANGED <<provider, sends, ingested, current, delivery>>
    BY <1>15 DEF Crash
  <1> QED BY <1>1, <1>2, <1>3, <1>4, <1>5, <1>6, <1>7, <1>8, <1>9, <1>10, <1>11, <1>12, <1>13,
             <1>14, <1>15 DEF Next, Send, Pass, Ingest

-----------------------------------------------------------------------------
(* Lines are finitely many, and a bound on all of them bounds each file.    *)

(* There are finitely many lines.                                          *)
LEMMA PlacesFinite == IsFiniteSet(Places) /\ IsFiniteSet(Written)
  <1>1. IsFiniteSet(1 .. MaxLines) BY MessageAssumption, FS_Interval DEF MessageAssumption
  <1>2. IsFiniteSet(Places) BY <1>1, MessageAssumption, FS_Product DEF MessageAssumption, Places
  <1> QED BY <1>2, FS_Subset DEF Written

(* Below the bound on all lines, there is room in every session.           *)
LEMMA RoomLeft ==
    ASSUME FilesOK, Cardinality(Written) < MaxLines, NEW s \in Sessions
    PROVE  Len(file[s]) < MaxLines
  <1>0. MaxLines \in Nat /\ Len(file[s]) \in Nat /\ Len(file[s]) <= MaxLines
    BY MessageAssumption DEF MessageAssumption, FilesOK
  <1>1. SUFFICES ASSUME Len(file[s]) = MaxLines PROVE FALSE BY <1>0
  <1> DEFINE place == [i \in 1 .. MaxLines |-> <<s, i>>]
  <1>2. place \in Injection(1 .. MaxLines, Written)
    <2>1. \A i \in 1 .. MaxLines : <<s, i>> \in Written BY <1>0, <1>1 DEF Written, Places
    <2>2. place \in [1 .. MaxLines -> Written] BY <2>1
    <2>3. \A i, j \in 1 .. MaxLines : place[i] = place[j] => i = j OBVIOUS
    <2> QED BY <2>2, <2>3 DEF Injection, IsInjective
  <1>3. Cardinality(1 .. MaxLines) <= Cardinality(Written)
    BY <1>2, PlacesFinite, FS_Injection
  <1>4. Cardinality(1 .. MaxLines) = MaxLines
    <2>1. Cardinality(1 .. MaxLines) = IF 1 > MaxLines THEN 0 ELSE MaxLines - 1 + 1
      BY <1>0, FS_Interval
    <2> QED BY <1>0, <2>1
  <1>5. Cardinality(Written) \in Nat BY PlacesFinite, FS_CardinalityType
  <1> QED BY <1>0, <1>3, <1>4, <1>5

(* No line proves nothing.                                                 *)
LEMMA NoLine == ~Proves({})
  BY FS_EmptySet DEF Proves

(* Exactly one line: there is such a line, and it is the one chosen.        *)
LEMMA OneLine ==
    ASSUME NEW lines \in SUBSET Places
    PROVE  Proves(lines) => LineOf(lines) \in Places /\ lines = {LineOf(lines)}
  <1> SUFFICES ASSUME Proves(lines)
               PROVE  \E p \in Places : lines = {p}
    BY DEF LineOf
  <1>1. IsFiniteSet(lines) BY PlacesFinite, FS_Subset
  <1>2. PICK p : lines = {p} BY <1>1, FS_Singleton DEF Proves
  <1> QED BY <1>2

-----------------------------------------------------------------------------
(* The types are kept.                                                      *)

(* A transcript only grows, by a line, and stays within its bound.          *)
LEMMA FilesKept ==
    ASSUME Types, Next
    PROVE  /\ FilesOK'
           /\ Written \subseteq Written'
           /\ \A p \in Written : Author(p)' = Author(p)
  <1>0. FilesOK BY DEF Types
  <1>1. CASE file' = file
    BY <1>0, <1>1 DEF FilesOK, Written, Author
  <1>2. ASSUME NEW s \in Sessions, NEW x \in Sends \cup {None}, Cardinality(Written) < MaxLines,
               file' = [file EXCEPT ![s] = Append(@, x)]
        PROVE  /\ FilesOK'
               /\ Written \subseteq Written'
               /\ \A p \in Written : Author(p)' = Author(p)
    <2>1. file[s] \in Seq(Sends \cup {None}) /\ Len(file[s]) \in Nat BY <1>0 DEF FilesOK
    <2>2. /\ Append(file[s], x) \in Seq(Sends \cup {None})
          /\ Len(Append(file[s], x)) = Len(file[s]) + 1
          /\ \A i \in 1 .. Len(file[s]) : Append(file[s], x)[i] = file[s][i]
      BY <2>1
    <2>3. MaxLines \in Nat /\ Len(file[s]) < MaxLines
      BY <1>0, <1>2, RoomLeft, MessageAssumption DEF MessageAssumption
    <2>4. Len(Append(file[s], x)) <= MaxLines BY <2>1, <2>2, <2>3
    <2>5. FilesOK' BY <1>0, <1>2, <2>2, <2>4 DEF FilesOK
    <2>6. ASSUME NEW p \in Written PROVE p \in Written' /\ Author(p)' = Author(p)
      <3>1. p \in Places /\ p[1] \in Sessions /\ p[2] \in 1 .. MaxLines /\ p[2] <= Len(file[p[1]])
        BY DEF Written, Places
      <3>2. CASE p[1] = s
        <4>1. file'[p[1]] = Append(file[s], x) BY <1>0, <1>2, <3>2 DEF FilesOK
        <4>2. p[2] \in 1 .. Len(file[s]) BY <2>1, <3>1, <3>2
        <4> QED BY <2>1, <2>2, <3>1, <3>2, <4>1, <4>2 DEF Written, Author
      <3>3. CASE p[1] # s
        <4>1. file'[p[1]] = file[p[1]] BY <1>0, <1>2, <3>1, <3>3 DEF FilesOK
        <4> QED BY <3>1, <4>1 DEF Written, Author
      <3> QED BY <3>2, <3>3
    <2> QED BY <2>5, <2>6
  <1>3. ASSUME NEW k \in Everyone, Land(k)
        PROVE  \E s \in Sessions, x \in Sends \cup {None} :
                 Cardinality(Written) < MaxLines /\ file' = [file EXCEPT ![s] = Append(@, x)]
    BY <1>3 DEF Land, Types, CallsOK, CallType
  <1>4. ASSUME NEW s \in Sessions, Type(s)
        PROVE  Cardinality(Written) < MaxLines /\ file' = [file EXCEPT ![s] = Append(@, None)]
    BY <1>4 DEF Type
  <1> QED BY <1>1, <1>2, <1>3, <1>4, Frames

(* A fence is a place in each session.                                     *)
LEMMA FenceIs ==
    ASSUME Types, NEW s \in Sessions \cup {None} PROVE FenceOf(s) \in Fences
  <1>1. MaxLines \in Nat /\ \A t \in Sessions : Len(file[t]) \in 0 .. MaxLines
    BY MessageAssumption DEF MessageAssumption, Types, FilesOK
  <1>2. \A t \in Sessions : ingested[t] \in 0 .. MaxLines BY DEF Types, ReadingOK
  <1> QED BY <1>1, <1>2 DEF FenceOf, Fences

(* So is the fence of a send that has none yet.                            *)
LEMMA NoFenceIs == NoFence \in Fences
  BY MessageAssumption DEF MessageAssumption, NoFence, Fences

(* Journals, dispatch order and effects keep their types.                  *)
LEMMA SendsKept ==
    ASSUME Types, Next
    PROVE  SendsOK'
  <1>0. /\ SendsOK /\ ReadingOK /\ CallsOK BY DEF Types
  <1>1. effects' \in [Sends -> Nat]
    <2>1. ASSUME NEW k \in Everyone, StartTurn(k) PROVE effects' \in [Sends -> Nat]
      <3>1. call[k].send \in Sends BY <1>0, <2>1 DEF StartTurn, CallsOK, At
      <3>2. effects' = [effects EXCEPT ![call[k].send] = effects[call[k].send] + 1]
        BY <2>1 DEF StartTurn
      <3> QED BY <1>0, <3>1, <3>2 DEF SendsOK
    <2> QED BY <1>0, <2>1, Frames DEF SendsOK
  <1>2. ASSUME NEW k \in Everyone, NEW m \in Sends, Accept(k, m)
        PROVE  journal' \in [Sends -> JournalType] /\ order' = order
    <2>1. /\ order' = order
          /\ \/ journal' = journal
             \/ journal' = [journal EXCEPT ![m].state = "accepted", ![m].target = current]
      BY <1>2 DEF Accept
    <2>2. "accepted" \in JournalStates BY DEF JournalStates
    <2> QED BY <1>0, <2>1, <2>2 DEF SendsOK, ReadingOK, JournalType
  <1>3. ASSUME NEW k \in Everyone, Claim(k)
        PROVE  journal' \in [Sends -> JournalType] /\ order' \in Seq(Sends)
    <2>1. call[k].send \in Sends /\ call[k].from \in Fences
      BY <1>0, <1>3 DEF Claim, CallsOK, CallType, At
    <2>2. CASE UNCHANGED sends BY <1>0, <2>2 DEF SendsOK, sends
    <2>3. CASE /\ journal' = [journal EXCEPT ![call[k].send].state = "dispatching",
                                             ![call[k].send].from = call[k].from]
               /\ order' = Append(order, call[k].send)
      <3>1. "dispatching" \in JournalStates BY DEF JournalStates
      <3>2. order' \in Seq(Sends) BY <1>0, <2>1, <2>3 DEF SendsOK
      <3> QED BY <1>0, <2>1, <2>3, <3>1, <3>2 DEF SendsOK, JournalType
    <2> QED BY <1>3, <2>2, <2>3 DEF Claim
  <1>4. ASSUME NEW k \in Everyone, Settle(k)
        PROVE  journal' \in [Sends -> JournalType] /\ order' = order
    <2>1. SettledState(k) \in JournalStates BY DEF SettledState, JournalStates, Terminal
    <2>2. call[k].send \in Sends BY <1>0, <1>4 DEF Settle, CallsOK, At
    <2>3. /\ order' = order
          /\ \/ journal' = journal
             \/ journal' = [journal EXCEPT ![call[k].send].state = SettledState(k)]
      BY <1>4 DEF Settle
    <2> QED BY <1>0, <2>1, <2>2, <2>3 DEF SendsOK, JournalType
  <1>5. ASSUME Bind PROVE journal' \in [Sends -> JournalType] /\ order' = order
    <2>1. CASE journal' = journal BY <1>0, <1>5, <2>1 DEF Bind, SendsOK
    <2>2. CASE journal' = [m \in Sends |-> Bound(m, ingest.session)]
      <3>1. ingest.session \in Sessions \cup {None} BY <1>0 DEF ReadingOK, IngestType
      <3>2. ASSUME NEW m \in Sends PROVE Bound(m, ingest.session) \in JournalType
        <4>1. journal[m] \in JournalType BY <1>0 DEF SendsOK
        <4>2. "awaiting-transcript" \in JournalStates BY DEF JournalStates
        <4>3. \/ Bound(m, ingest.session) = journal[m]
              \/ Bound(m, ingest.session) =
                   [journal[m] EXCEPT !.target = ingest.session, !.state = "awaiting-transcript"]
              \/ Bound(m, ingest.session) =
                   [journal[m] EXCEPT !.target = ingest.session, !.state = journal[m].state]
          BY DEF Bound
        <4> QED BY <3>1, <4>1, <4>2, <4>3 DEF JournalType
      <3> QED BY <1>5, <2>2, <3>2 DEF Bind
    <2> QED BY <1>5, <2>1, <2>2 DEF Bind
  <1>6. ASSUME Confirm PROVE journal' \in [Sends -> JournalType] /\ order' = order
    <2>1. PICK v \in [Pending -> SUBSET Written] : journal' = [m \in Sends |-> Confirmed(m, v)]
      BY <1>6 DEF Confirm
    <2>2. ASSUME NEW m \in Sends PROVE Confirmed(m, v) \in JournalType
      <3>0. journal[m] \in JournalType BY <1>0 DEF SendsOK
      <3>1. CASE m \notin Pending \/ v[m] = {}
        <4>1. Confirmed(m, v) = journal[m] BY <3>1, NoLine DEF Confirmed
        <4> QED BY <3>0, <4>1
      <3>2. CASE m \in Pending /\ v[m] # {} /\ Proves(v[m])
        <4>1. v[m] \in SUBSET Places BY <2>1, <3>2 DEF Written
        <4>2. LineOf(v[m]) \in Places BY <3>2, <4>1, OneLine
        <4>3. Confirmed(m, v) =
                [journal[m] EXCEPT !.state = "confirmed", !.line = LineOf(v[m])]
          BY <3>2 DEF Confirmed
        <4>4. "confirmed" \in JournalStates BY DEF JournalStates, Terminal
        <4> QED BY <3>0, <4>2, <4>3, <4>4 DEF JournalType
      <3>3. CASE m \in Pending /\ v[m] # {} /\ ~Proves(v[m])
        <4>1. Confirmed(m, v) = [journal[m] EXCEPT !.state = "indeterminate"]
          BY <3>3 DEF Confirmed
        <4>2. "indeterminate" \in JournalStates BY DEF JournalStates, Terminal
        <4> QED BY <3>0, <4>1, <4>2 DEF JournalType
      <3> QED BY <3>1, <3>2, <3>3
    <2> QED BY <1>6, <2>1, <2>2 DEF Confirm
  <1> QED BY <1>0, <1>1, <1>2, <1>3, <1>4, <1>5, <1>6, Frames DEF SendsOK

(* An idle caller is a caller.                                             *)
LEMMA IdleIs == Idle \in CallType
  BY NoFenceIs DEF Idle, CallType, CallSteps

(* A caller moves to another state of a caller.                            *)
LEMMA CallSet ==
    ASSUME CallsOK, NEW k \in Everyone, NEW r \in CallType, r.at # "idle" => r.send \in Sends,
           call' = [call EXCEPT ![k] = r]
    PROVE  CallsOK'
  <1>1. call' \in [Everyone -> CallType] BY DEF CallsOK
  <1>2. \A l \in Everyone : call'[l] = IF l = k THEN r ELSE call[l] BY DEF CallsOK
  <1> QED BY <1>1, <1>2 DEF CallsOK, At

(* A caller that is done, or has thrown, is in a state of a caller.        *)
LEMMA LeaveKeeps ==
    ASSUME CallsOK, NEW k \in Everyone, call[k].send \in Sends, NEW step \in CallSteps, Leave(k, step)
    PROVE  CallsOK'
  <1> DEFINE r == IF k = Router THEN [Idle EXCEPT !.at = step, !.send = call[k].send] ELSE Idle
  <1>1. r \in CallType BY IdleIs DEF CallType
  <1>2. r.at # "idle" => r.send \in Sends BY DEF Idle
  <1>3. call' = [call EXCEPT ![k] = r] BY DEF Leave
  <1> HIDE DEF r
  <1> QED BY <1>1, <1>2, <1>3, CallSet

(* A field or two of a call change.                                         *)
LEMMA CallUpdate ==
    ASSUME CallsOK, NEW k \in Everyone, ~At(k, "idle"),
           NEW at \in CallSteps, NEW session \in Sessions \cup {None}, NEW from \in Fences,
           NEW landed \in BOOLEAN, NEW result \in {None, "ok", "refused", "threw"},
           \/ call' = [call EXCEPT ![k].at = at]
           \/ call' = [call EXCEPT ![k].landed = landed]
           \/ call' = [call EXCEPT ![k].at = at, ![k].from = from]
           \/ call' = [call EXCEPT ![k].at = at, ![k].session = session, ![k].from = from]
           \/ call' = [call EXCEPT ![k].at = at, ![k].landed = landed, ![k].result = result]
    PROVE  CallsOK'
  <1> DEFINE r == call'[k]
  <1>1. call[k] \in CallType /\ call[k].send \in Sends BY DEF CallsOK
  <1>2. \/ r = [call[k] EXCEPT !.at = at]
        \/ r = [call[k] EXCEPT !.landed = landed]
        \/ r = [call[k] EXCEPT !.at = at, !.from = from]
        \/ r = [call[k] EXCEPT !.at = at, !.session = session, !.from = from]
        \/ r = [call[k] EXCEPT !.at = at, !.landed = landed, !.result = result]
    BY DEF CallsOK
  <1>3. call' = [call EXCEPT ![k] = r] BY DEF CallsOK
  <1> HIDE DEF r
  <1>4. r \in CallType /\ r.send \in Sends BY <1>1, <1>2 DEF CallType
  <1> QED BY <1>3, <1>4, CallSet

(* Callers keep their type, and whoever is at work works on a send.        *)
LEMMA CallsKept ==
    ASSUME Types, Next
    PROVE  CallsOK'
  <1>0. CallsOK /\ ReadingOK /\ SendsOK BY DEF Types
  <1>a. {"idle", "accept", "accepted", "prepared", "claimed", "turn", "settle", "report", "threw"}
          \subseteq CallSteps
    BY DEF CallSteps
  <1>b. Router \in Everyone BY DEF Everyone
  <1>1. CASE call' = call BY <1>0, <1>1 DEF CallsOK, At
  <1>2. ASSUME NEW k \in Everyone, call[k].send \in Sends, End(k) \/ Throw(k) PROVE CallsOK'
    BY <1>0, <1>2, <1>a, LeaveKeeps DEF End, Throw
  <1>3. ASSUME NEW k \in Everyone, NEW m \in Sends, Accept(k, m) PROVE CallsOK'
    <2>1. CASE call' = [call EXCEPT ![k] = [Idle EXCEPT !.at = "accepted", !.send = m]]
      <3> DEFINE r == [Idle EXCEPT !.at = "accepted", !.send = m]
      <3>1. r \in CallType BY <1>a, IdleIs DEF CallType
      <3>2. r.send \in Sends BY DEF Idle
      <3> HIDE DEF r
      <3>3. call' = [call EXCEPT ![k] = r] BY <2>1 DEF r
      <3> QED BY <1>0, <3>1, <3>2, <3>3, CallSet
    <2>2. CASE End(k)
      <3>1. CASE k = Router
        <4>1. call[k].send \in Sends \/ k \in Callers
          BY <1>3 DEF Accept, Calls
        <4>2. Router \notin Callers BY MessageAssumption DEF MessageAssumption
        <4> QED BY <1>2, <2>2, <3>1, <4>1, <4>2
      <3>2. CASE k # Router
        <4>1. call' = [call EXCEPT ![k] = Idle] BY <2>2, <3>2 DEF End, Leave
        <4> QED BY <1>0, <4>1, IdleIs, CallSet DEF Idle
      <3> QED BY <3>1, <3>2
    <2> QED BY <1>3, <2>1, <2>2 DEF Accept
  <1>4. ASSUME NEW k \in Everyone, Prepare(k) PROVE CallsOK'
    <2> DEFINE target == journal[call[k].send].target
               session == IF target # None THEN target ELSE current
    <2>1. ~At(k, "idle") /\ call[k].send \in Sends BY <1>0, <1>4 DEF Prepare, At, CallsOK
    <2>2. journal[call[k].send] \in JournalType BY <1>0, <2>1 DEF SendsOK
    <2>3. session \in Sessions \cup {None} BY <1>0, <2>2 DEF JournalType, ReadingOK
    <2>4. call' = [call EXCEPT ![k].at = "prepared", ![k].session = session,
                              ![k].from = FenceOf(session)]
      BY <1>4 DEF Prepare
    <2> HIDE DEF session
    <2>5. FenceOf(session) \in Fences BY <2>3, FenceIs
    <2> QED BY <1>0, <1>a, <2>1, <2>3, <2>4, <2>5, CallUpdate
  <1>5. ASSUME NEW k \in Everyone, Claim(k) PROVE CallsOK'
    <2>1. ~At(k, "idle") /\ call[k].send \in Sends BY <1>0, <1>5 DEF Claim, At, CallsOK
    <2>2. CASE call' = [call EXCEPT ![k].at = "claimed", ![k].from = NoFence]
      BY <1>0, <1>a, <2>1, <2>2, NoFenceIs, CallUpdate
    <2> QED BY <1>2, <1>5, <2>1, <2>2 DEF Claim
  <1>6. ASSUME NEW k \in Everyone, StartTurn(k) \/ Land(k) PROVE CallsOK'
    <2>1. ~At(k, "idle") BY <1>6 DEF StartTurn, Land, At
    <2>2. \/ call' = [call EXCEPT ![k].at = "turn"]
          \/ call' = [call EXCEPT ![k].landed = TRUE]
      BY <1>6 DEF StartTurn, Land, Goto
    <2> QED BY <1>0, <1>a, <2>1, <2>2, NoFenceIs, CallUpdate
  <1>7. ASSUME NEW k \in Everyone, Return(k) PROVE CallsOK'
    <2>1. ~At(k, "idle") BY <1>7 DEF Return, At
    <2>2. PICK r \in {None, "ok", "refused", "threw"} :
             call' = [call EXCEPT ![k].at = "settle", ![k].landed = FALSE, ![k].result = r]
      BY <1>7 DEF Return
    <2> QED BY <1>0, <1>a, <2>1, <2>2, NoFenceIs, CallUpdate
  <1>8. ASSUME NEW k \in Everyone, Settle(k) \/ SendFails(k) PROVE CallsOK'
    <2>1. call[k].send \in Sends
      BY <1>0, <1>8 DEF Settle, SendFails, AcceptFails, ClaimFails, SettleFails, At, CallsOK
    <2>2. End(k) \/ Throw(k)
      BY <1>8 DEF Settle, SendFails, AcceptFails, ClaimFails, SettleFails
    <2> QED BY <1>2, <2>1, <2>2
  <1>9. ASSUME Report \/ ReportThrow \/ ReportFails PROVE CallsOK'
    <2>1. ~At(Router, "idle") BY <1>9 DEF Report, ReportThrow, ReportFails, At
    <2>2. CASE call' = [call EXCEPT ![Router] = Idle]
      BY <1>0, <1>b, <2>2, IdleIs, CallSet DEF Idle
    <2>3. CASE call' = [call EXCEPT ![Router].at = "threw"]
      BY <1>0, <1>a, <1>b, <2>1, <2>3, NoFenceIs, CallUpdate
    <2> QED BY <1>9, <2>2, <2>3 DEF Report, ReportThrow, ReportFails, Goto
  <1>10. ASSUME NEW d \in Deliveries, Route(d) PROVE CallsOK'
    <2> DEFINE r == [Idle EXCEPT !.at = "accept", !.send = d]
    <2>1. d \in Sends BY DEF Sends
    <2>2. r \in CallType BY <1>a, <2>1, IdleIs DEF CallType
    <2>3. r.send \in Sends BY <2>1 DEF Idle
    <2>4. call' = [call EXCEPT ![Router] = r] BY <1>10 DEF Route
    <2> HIDE DEF r
    <2> QED BY <1>0, <1>b, <2>2, <2>3, <2>4, CallSet
  <1>11. ASSUME Crash PROVE CallsOK'
    <2>1. call' = [k \in Everyone |-> Idle] BY <1>11 DEF Crash
    <2> QED BY <2>1, IdleIs DEF CallsOK, At, Idle
  <1>12. ASSUME \/ BeginPass \/ CloseStale \/ Observe \/ FailOverdue \/ EndPass \/ Ingest
                \/ (\E d \in Deliveries : RouteFails(d))
                \/ \E s \in Sessions : BeginIngest(s) \/ Type(s)
         PROVE  call' = call
    BY <1>12 DEF BeginPass, CloseStale, Observe, FailOverdue, EndPass, Ingest, Attach, Bind, Commit,
                 Confirm, Deliver, RouteFails, BeginIngest, Type
  <1> QED BY <1>1, <1>3, <1>4, <1>5, <1>6, <1>7, <1>8, <1>9, <1>10, <1>11, <1>12 DEF Next, Send, Pass

(* Checkpoints, the current session and the drain keep their types.        *)
LEMMA ReadingKept ==
    ASSUME Types, Next
    PROVE  ReadingOK'
  <1>0. ReadingOK /\ FilesOK BY DEF Types
  <1>1. ingested' \in [Sessions -> 0 .. MaxLines] /\ current' \in Sessions \cup {None}
    <2>1. CASE Attach BY <1>0, <2>1 DEF Attach, ReadingOK, IngestType
    <2>2. CASE Commit BY <1>0, <2>2 DEF Commit, ReadingOK, IngestType
    <2> QED BY <1>0, <2>1, <2>2, Frames DEF ReadingOK
  <1>2. NoIngest \in IngestType BY MessageAssumption DEF MessageAssumption, NoIngest, IngestType
  <1>4. ASSUME NEW s \in Sessions, BeginIngest(s) PROVE ingest' \in IngestType
    <2>1. Len(file[s]) \in 0 .. MaxLines
      BY <1>0, MessageAssumption DEF MessageAssumption, FilesOK
    <2> QED BY <1>4, <2>1 DEF BeginIngest, IngestType
  <1>5. ASSUME NEW at \in {"bind", "commit", "confirm", "deliver", "wait"},
               ingest' \in {[ingest EXCEPT !.at = at], [NoIngest EXCEPT !.at = at]}
        PROVE  ingest' \in IngestType
    BY <1>0, <1>2, <1>5 DEF ReadingOK, IngestType
  <1>6. CASE Ingest
    <2>1. \E at \in {"bind", "commit", "confirm", "deliver", "wait"} :
            ingest' \in {[ingest EXCEPT !.at = at], [NoIngest EXCEPT !.at = at]}
      BY <1>6 DEF Ingest, Attach, Bind, Commit, Confirm, Deliver
    <2> QED BY <1>1, <1>5, <2>1 DEF ReadingOK
  <1>7. CASE ReportFails \/ EndPass \/ Crash
    <2>1. ingest' \in {ingest, NoIngest} BY <1>7 DEF ReportFails, EndPass, Crash
    <2> QED BY <1>0, <1>1, <1>2, <2>1 DEF ReadingOK
  <1>8. ASSUME NEW k \in Everyone, Send(k) \/ Land(k) \/ SendFails(k) \/ \E m \in Sends : Accept(k, m)
        PROVE  ingest' = ingest
    BY <1>8 DEF Send, Prepare, Claim, StartTurn, Return, Settle, Land, SendFails, AcceptFails,
                ClaimFails, SettleFails, Accept, reading
  <1>9. ASSUME \/ BeginPass \/ Pass
               \/ (\E d \in Deliveries : RouteFails(d) \/ Route(d))
               \/ \E s \in Sessions : Type(s)
        PROVE  ingest' = ingest
    BY <1>9 DEF BeginPass, Pass, CloseStale, Observe, FailOverdue, Report, ReportThrow, RouteFails,
                Route, Type, reading
  <1>10. ingest' \in IngestType
    BY <1>0, <1>4, <1>6, <1>7, <1>8, <1>9 DEF Next, ReadingOK
  <1> QED BY <1>1, <1>10 DEF ReadingOK

(* Moving several deliveries moves these and no others.                    *)
LEMMA MoveIs ==
    ASSUME RoutingOK, NEW ds \in SUBSET Deliveries, NEW state \in DeliveryStates, NEW why \in Failures,
           MoveAll(ds, state, why)
    PROVE  /\ delivery' \in [Deliveries -> DeliveryType]
           /\ \A d \in ds : delivery'[d] = [state |-> state, why |-> why]
           /\ \A d \in Deliveries \ ds : delivery'[d] = delivery[d]
  BY DEF MoveAll, RoutingOK, DeliveryType

(* Moving one delivery moves no other.                                     *)
LEMMA MoveOneIs ==
    ASSUME RoutingOK, NEW d \in Deliveries, NEW state \in DeliveryStates, NEW why \in Failures,
           Move(d, state, why)
    PROVE  /\ delivery' \in [Deliveries -> DeliveryType]
           /\ delivery'[d] = [state |-> state, why |-> why]
           /\ \A x \in Deliveries \ {d} : delivery'[x] = delivery[x]
  BY DEF Move, RoutingOK, DeliveryType

(* The states and reasons that the actions give are declared ones.         *)
LEMMA StatesAre ==
    /\ {"none", "queued", "claimed", "submitted-confirmed", "submitted-unconfirmed",
        "transcript-observed", "failed"} \subseteq DeliveryStates
    /\ {None, "confirmation-timeout", "routing-failed", "dispatch-failed", "submission-error"}
        \subseteq Failures
  BY DEF DeliveryStates, Failures

(* How a step moves the deliveries.                                         *)
MovesOne ==
    \E d \in Deliveries, state \in DeliveryStates, why \in Failures :
        /\ Move(d, state, why) /\ why # "confirmation-timeout" /\ state # "transcript-observed"
        /\ (At(Router, "idle") /\ pass = "route") \/ At(Router, "idle")'
        /\ pass \in {"route", "submit"}
        /\ pass = "submit" => d = call[Router].send
        /\ evidence' = evidence /\ journal' = journal

(* Deliveries are queued, closed, observed, failed, or one is moved.       *)
LEMMA DeliveriesMove ==
    ASSUME Types, RouterHolds, Next
    PROVE  \/ delivery' = delivery
           \/ \E ds \in SUBSET InState({"none"}) : MoveAll(ds, "queued", None) /\ pass = "idle"
           \/ CloseStale \/ Observe \/ FailOverdue \/ MovesOne
  <1>0. None # "confirmation-timeout" BY MessageAssumption DEF MessageAssumption
  <1>1. CASE BeginPass \/ Deliver
    <2>1. (Reconcile /\ pass = "idle") \/ delivery' = delivery
      BY <1>1 DEF BeginPass, MayBegin, Deliver, StartPass, routing
    <2> QED BY <2>1 DEF Reconcile
  <1>2. CASE Report \/ ReportThrow
    <2> DEFINE d == call[Router].send
    <2>1. d \in Deliveries /\ pass = "submit"
      BY <1>2 DEF RouterHolds, Report, ReportThrow, At
    <2>2. PICK state \in DeliveryStates, why \in Failures :
             /\ SettleClaim(d, state, why) /\ why # "confirmation-timeout"
             /\ state # "transcript-observed"
      <3>1. SubmissionState(d) \in DeliveryStates /\ SubmissionState(d) # "transcript-observed"
        BY StatesAre DEF SubmissionState
      <3> HIDE DEF d
      <3> QED BY <1>0, <1>2, <3>1, StatesAre DEF Report, ReportThrow, d
    <2>3. delivery' = delivery \/ Move(d, state, why) BY <2>2 DEF SettleClaim
    <2>4. /\ call' = [call EXCEPT ![Router] = Idle] /\ evidence' = evidence /\ journal' = journal
      BY <1>2 DEF Report, ReportThrow, sends
    <2>5. At(Router, "idle")'
      <3>1. Router \in Everyone BY DEF Everyone
      <3> QED BY <2>4, <3>1 DEF Types, CallsOK, At, Idle
    <2> HIDE DEF d
    <2> QED BY <2>1, <2>2, <2>3, <2>4, <2>5 DEF MovesOne, d
  <1>3. ASSUME NEW d \in Deliveries, RouteFails(d) \/ Route(d) PROVE MovesOne
    <2>1. /\ pass = "route" /\ evidence' = evidence /\ journal' = journal
          /\ Move(d, "failed", "routing-failed") \/ Move(d, "claimed", None)
      BY <1>3 DEF RouteFails, Route, sends
    <2>2. At(Router, "idle") BY <2>1 DEF RouterHolds
    <2> QED BY <1>0, <2>1, <2>2, StatesAre DEF MovesOne
  <1> QED BY <1>1, <1>2, <1>3, Frames

(* The pass, its deliveries and its evidence keep their types.             *)
LEMMA RoutingKept ==
    ASSUME Types, RouterHolds, Next
    PROVE  RoutingOK'
  <1>0. RoutingOK BY DEF Types
  <1>1. delivery' \in [Deliveries -> DeliveryType]
    <2>1. CASE delivery' = delivery BY <1>0, <2>1 DEF RoutingOK
    <2>2. ASSUME NEW ds \in SUBSET Deliveries, NEW state \in DeliveryStates, NEW why \in Failures,
                 MoveAll(ds, state, why)
          PROVE  delivery' \in [Deliveries -> DeliveryType]
      BY <1>0, <2>2, MoveIs
    <2>3. ASSUME NEW states PROVE InState(states) \subseteq Deliveries BY DEF InState
    <2>4. CASE CloseStale BY <2>2, <2>3, <2>4, StatesAre DEF CloseStale
    <2>5. CASE Observe
      <3>1. Observable \in SUBSET Deliveries BY <2>3 DEF Observable, Submitted
      <3> QED BY <2>2, <2>5, <3>1, StatesAre DEF Observe
    <2>6. CASE FailOverdue
      <3>1. Overdue \subseteq SUBSET Deliveries BY <2>3 DEF Overdue
      <3> QED BY <2>2, <2>6, <3>1, StatesAre DEF FailOverdue
    <2>7. CASE MovesOne BY <1>0, <2>7, MoveOneIs DEF MovesOne
    <2> QED BY <2>1, <2>2, <2>3, <2>4, <2>5, <2>6, <2>7, StatesAre, DeliveriesMove
  <1>2. evidence' \in [Deliveries -> {"none", "committed", "confirmed"}]
    <2>1. CASE StartPass BY <2>1 DEF StartPass, Evident
    <2>2. CASE evidence' = evidence BY <1>0, <2>2 DEF RoutingOK
    <2>3. CASE evidence' = NoEvidence BY <2>3 DEF NoEvidence
    <2>4. evidence' \in {evidence, NoEvidence} \/ StartPass
      BY Frames DEF BeginPass, Deliver, Pass, CloseStale, Observe, FailOverdue, Report, ReportThrow,
                    ReportFails, EndPass, Crash, Route, routing
    <2> QED BY <2>1, <2>2, <2>3, <2>4
  <1>3. pass' \in {"idle", "stale", "observe", "deadline", "route", "submit"} /\ recent' \subseteq Deliveries
    <2>1. CASE UNCHANGED <<pass, recent>> BY <1>0, <2>1 DEF RoutingOK
    <2>2. UNCHANGED <<pass, recent>> \/ (pass' \in {"idle", "stale", "observe", "deadline", "route", "submit"}
                                         /\ recent' \in {recent, {}}) \/ CloseStale
      BY Frames DEF BeginPass, Deliver, StartPass, Pass, Observe, FailOverdue, Report, ReportThrow,
                    ReportFails, EndPass, Crash, Route, routing
    <2>3. CASE CloseStale BY <2>3 DEF CloseStale, InState
    <2> QED BY <1>0, <2>1, <2>2, <2>3 DEF RoutingOK
  <1>4. troubles' \in 0 .. MaxTroubles
    <2>1. MaxTroubles \in Nat /\ troubles \in 0 .. MaxTroubles
      BY SMTT(30), <1>0, MessageAssumption DEF MessageAssumption, RoutingOK
    <2>2. ASSUME NEW k \in Everyone, Send(k) \/ Land(k) \/ SendFails(k) \/ \E m \in Sends : Accept(k, m)
          PROVE  troubles' = troubles \/ Trouble
      BY <2>2 DEF Send, Prepare, Claim, StartTurn, Return, Settle, Land, SendFails, AcceptFails,
                  ClaimFails, SettleFails, Accept
    <2>3. ASSUME \/ BeginPass \/ Pass \/ ReportFails \/ EndPass \/ Ingest \/ Crash
                 \/ (\E d \in Deliveries : RouteFails(d) \/ Route(d))
                 \/ \E s \in Sessions : BeginIngest(s) \/ Type(s)
          PROVE  troubles' = troubles \/ Trouble
      BY <2>3 DEF BeginPass, Pass, CloseStale, Observe, FailOverdue, Report, ReportThrow, ReportFails,
                  EndPass, Ingest, Attach, Bind, Commit, Confirm, Deliver, Crash, RouteFails, Route,
                  BeginIngest, Type
    <2> QED BY <2>1, <2>2, <2>3 DEF Next, Trouble
  <1> QED BY <1>1, <1>2, <1>3, <1>4 DEF RoutingOK

(* All types are kept.                                                     *)
LEMMA TypesKept ==
    ASSUME Types, RouterHolds, Next
    PROVE  Types'
  BY FilesKept, SendsKept, CallsKept, ReadingKept, RoutingKept DEF Types

-----------------------------------------------------------------------------
(* How a step moves a journal.                                              *)

Claims(k) ==
    LET m == call[k].send IN
    /\ At(k, "prepared") /\ m \in Sends /\ journal[m].state = "accepted"
    /\ journal' = [journal EXCEPT ![m].state = "dispatching", ![m].from = call[k].from]
    /\ order' = Append(order, m)
    /\ call' = [call EXCEPT ![k].at = "claimed", ![k].from = NoFence]
    /\ effects' = effects

(* Neither claimed nor confirmed by the step: its line stays, and it stays  *)
(* on its side of the claim.                                                *)
Onward(m) ==
    /\ journal'[m].state \in Fresh <=> journal[m].state \in Fresh
    /\ journal[m].state = "confirmed" => journal'[m] = journal[m]
    /\ journal'[m].state = "confirmed" => journal[m].state = "confirmed"
    /\ journal'[m].line = journal[m].line

(* Journals move onward, one of them is claimed, or a pass confirms.       *)
LEMMA JournalsMove ==
    ASSUME Types, Next
    PROVE  \/ (\A m \in Sends : Onward(m)) /\ order' = order
           \/ \E k \in Everyone : Claims(k)
           \/ Confirm
  <1>0. SendsOK /\ CallsOK BY DEF Types
  <1>1. CASE journal' = journal /\ order' = order BY <1>1 DEF Onward
  <1>2. ASSUME NEW k \in Everyone, NEW n \in Sends, Accept(k, n), journal' # journal
        PROVE  (\A m \in Sends : Onward(m)) /\ order' = order
    <2>1. /\ journal[n].state = "none" /\ order' = order
          /\ journal' = [journal EXCEPT ![n].state = "accepted", ![n].target = current]
      BY <1>2 DEF Accept
    <2>2. /\ \A m \in Sends \ {n} : journal'[m] = journal[m]
          /\ journal'[n].state = "accepted" /\ journal'[n].line = journal[n].line
      BY <1>0, <2>1 DEF SendsOK, JournalType
    <2> QED BY <2>1, <2>2 DEF Onward, Fresh
  <1>3. ASSUME NEW k \in Everyone, Claim(k), ~(journal' = journal /\ order' = order) PROVE Claims(k)
    BY <1>0, <1>3 DEF Claim, Claims, CallsOK, At, sends, provider
  <1>4. ASSUME NEW k \in Everyone, Settle(k), journal' # journal
        PROVE  (\A m \in Sends : Onward(m)) /\ order' = order
    <2> DEFINE n == call[k].send
    <2>0. n \in Sends BY <1>0, <1>4 DEF Settle, CallsOK, At
    <2>1. /\ journal[n].state = "dispatching" /\ order' = order
          /\ journal' = [journal EXCEPT ![n].state = SettledState(k)]
      BY <1>4 DEF Settle
    <2>2. SettledState(k) \notin Fresh \cup {"confirmed"} BY DEF SettledState, Fresh
    <2> HIDE DEF n
    <2>3. /\ \A m \in Sends \ {n} : journal'[m] = journal[m]
          /\ journal'[n].state = SettledState(k) /\ journal'[n].line = journal[n].line
      BY <1>0, <2>0, <2>1 DEF SendsOK, JournalType
    <2> QED BY <2>1, <2>2, <2>3 DEF Onward, Fresh
  <1>5. ASSUME Bind, journal' # journal
        PROVE  (\A m \in Sends : Onward(m)) /\ order' = order
    <2>1. order' = order /\ journal' = [m \in Sends |-> Bound(m, ingest.session)]
      BY <1>5 DEF Bind
    <2>2. ASSUME NEW m \in Sends PROVE Onward(m)
      <3>0. journal[m] \in JournalType /\ journal'[m] = Bound(m, ingest.session)
        BY <1>0, <2>1 DEF SendsOK
      <3>1. CASE ~Live(m) BY <3>0, <3>1 DEF Bound, Onward
      <3>2. CASE Live(m)
        <4>1. journal[m].state # "confirmed" BY <3>2 DEF Live, Terminal
        <4>2. \/ journal'[m] = [journal[m] EXCEPT !.target = ingest.session, !.state = journal[m].state]
              \/ /\ journal[m].state = "awaiting-session-assignment"
                 /\ journal'[m] = [journal[m] EXCEPT !.target = ingest.session,
                                                     !.state = "awaiting-transcript"]
          BY <3>0, <3>2 DEF Bound
        <4>3. /\ journal'[m].line = journal[m].line
              /\ \/ journal'[m].state = journal[m].state
                 \/ /\ journal[m].state = "awaiting-session-assignment"
                    /\ journal'[m].state = "awaiting-transcript"
          BY <3>0, <4>2 DEF JournalType
        <4> QED BY <4>1, <4>3 DEF Onward, Fresh
      <3> QED BY <3>1, <3>2
    <2> QED BY <2>1, <2>2
  <1>6. (Bind \/ \E k \in Everyone : Settle(k) \/ \E m \in Sends : Accept(k, m)) => order' = order
    BY DEF Bind, Settle, Accept
  <1> QED BY <1>1, <1>2, <1>3, <1>4, <1>5, <1>6, Frames

(* What a confirmation pass does to a send.                                 *)
Proven(m, v) ==
    /\ m \in Pending /\ Proves(v[m]) /\ v[m] = {LineOf(v[m])} /\ LineOf(v[m]) \in Written
    /\ journal'[m] = [journal[m] EXCEPT !.state = "confirmed", !.line = LineOf(v[m])]

(* A confirmation pass proves a send with one line or moves it onward.     *)
LEMMA ConfirmIs ==
    ASSUME Types, Confirm
    PROVE  /\ order' = order /\ call' = call /\ effects' = effects /\ file' = file
           /\ \E v \in [Pending -> SUBSET Written] :
                Consistent(v) /\ \A m \in Sends : Onward(m) \/ Proven(m, v)
  <1>0. SendsOK BY DEF Types
  <1>1. PICK v \in [Pending -> SUBSET Written] :
           Consistent(v) /\ journal' = [m \in Sends |-> Confirmed(m, v)]
    BY DEF Confirm
  <1>2. ASSUME NEW m \in Sends PROVE Onward(m) \/ Proven(m, v)
    <2>0. journal[m] \in JournalType /\ journal'[m] = Confirmed(m, v) BY <1>0, <1>1 DEF SendsOK
    <2>1. CASE m \notin Pending \/ v[m] = {}
      <3>1. Confirmed(m, v) = journal[m] BY <2>1, NoLine DEF Confirmed
      <3> QED BY <2>0, <3>1 DEF Onward
    <2>2. CASE m \in Pending /\ v[m] # {} /\ Proves(v[m])
      <3>1. v[m] \in SUBSET Places /\ v[m] \subseteq Written BY <1>1, <2>2 DEF Written
      <3>2. v[m] = {LineOf(v[m])} BY <2>2, <3>1, OneLine
      <3>3. LineOf(v[m]) \in Written BY <3>1, <3>2
      <3>4. Confirmed(m, v) = [journal[m] EXCEPT !.state = "confirmed", !.line = LineOf(v[m])]
        BY <2>2 DEF Confirmed
      <3> QED BY <2>0, <2>2, <3>2, <3>3, <3>4 DEF Proven
    <2>3. CASE m \in Pending /\ v[m] # {} /\ ~Proves(v[m])
      <3>1. journal'[m] = [journal[m] EXCEPT !.state = "indeterminate"]
        BY <2>0, <2>3 DEF Confirmed
      <3>2. journal[m].state = "awaiting-transcript" BY <2>3 DEF Pending
      <3>3. journal'[m].state = "indeterminate" /\ journal'[m].line = journal[m].line
        BY <2>0, <3>1 DEF JournalType
      <3> QED BY <3>2, <3>3 DEF Onward, Fresh
    <2> QED BY <2>1, <2>2, <2>3
  <1>3. order' = order /\ call' = call /\ effects' = effects /\ file' = file
    BY DEF Confirm, provider
  <1> QED BY <1>1, <1>2, <1>3

(* A proven send is confirmed; its target and fence stay.                  *)
LEMMA ProvenIs ==
    ASSUME Types, NEW m \in Sends, NEW v, Proven(m, v)
    PROVE  /\ journal[m].state = "awaiting-transcript" /\ journal'[m].state = "confirmed"
           /\ journal'[m].line = LineOf(v[m])
           /\ journal'[m].target = journal[m].target /\ journal'[m].from = journal[m].from
  BY DEF Types, SendsOK, JournalType, Proven, Pending

(* A claim takes a journal to dispatching, and its caller to its turn.     *)
LEMMA ClaimsIs ==
    ASSUME Types, NEW k \in Everyone, Claims(k)
    PROVE  /\ call[k].send \in Sends
           /\ journal'[call[k].send].state = "dispatching"
           /\ journal'[call[k].send].line = journal[call[k].send].line
           /\ \A m \in Sends \ {call[k].send} : journal'[m] = journal[m]
           /\ call'[k].at = "claimed" /\ call'[k].send = call[k].send
           /\ \A l \in Everyone \ {k} : call'[l] = call[l]
  BY DEF Types, SendsOK, CallsOK, CallType, JournalType, Claims

(* A send stays on its side of the claim, unless it is claimed.             *)
LEMMA FreshStays ==
    ASSUME Types, Next
    PROVE  /\ \A m \in Sends : journal[m].state \notin Fresh => journal'[m].state \notin Fresh
           /\ \A m \in Sends : (journal[m].state \in Fresh /\ journal'[m].state \notin Fresh) =>
                 \E k \in Everyone : Claims(k) /\ call[k].send = m
  <1>1. CASE (\A m \in Sends : Onward(m)) /\ order' = order BY <1>1 DEF Onward
  <1>2. ASSUME NEW k \in Everyone, Claims(k), NEW m \in Sends
        PROVE  /\ journal[m].state \notin Fresh => journal'[m].state \notin Fresh
               /\ (journal[m].state \in Fresh /\ journal'[m].state \notin Fresh) => call[k].send = m
    BY <1>2, ClaimsIs DEF Fresh
  <1>3. CASE Confirm
    <2>1. PICK v \in [Pending -> SUBSET Written] : \A m \in Sends : Onward(m) \/ Proven(m, v)
      BY <1>3, ConfirmIs
    <2>2. ASSUME NEW m \in Sends, Proven(m, v)
          PROVE  journal[m].state \notin Fresh /\ journal'[m].state \notin Fresh
      BY <2>2, ProvenIs DEF Fresh
    <2> QED BY <2>1, <2>2 DEF Onward
  <1> QED BY <1>1, <1>2, <1>3, JournalsMove

(* The dispatch order stays an order of the claimed sends.                 *)
LEMMA OrderedKept ==
    ASSUME Types, Ordered, Next
    PROVE  Ordered'
  <1>0. order \in Seq(Sends) /\ Len(order) \in Nat /\ \A i \in 1 .. Len(order) : order[i] \in Sends
    <2>1. order \in Seq(Sends) BY DEF Types, SendsOK
    <2> QED BY <2>1
  <1>1. CASE order' = order
    <2>1. \A m \in Sends : journal'[m].state \notin Fresh <=> journal[m].state \notin Fresh
      <3>1. ASSUME NEW k \in Everyone, Claims(k) PROVE FALSE
        <4>1. order' = Append(order, call[k].send) /\ call[k].send \in Sends BY <3>1 DEF Claims
        <4> QED BY <1>0, <1>1, <4>1
      <3> QED BY <3>1, FreshStays
    <2> QED BY <1>0, <1>1, <2>1 DEF Ordered
  <1>2. ASSUME NEW k \in Everyone, Claims(k) PROVE Ordered'
    <2> DEFINE n == call[k].send
               m == Len(order)
    <2>1. /\ n \in Sends /\ journal[n].state \in Fresh /\ journal'[n].state \notin Fresh
          /\ order' = Append(order, n)
      BY <1>2, ClaimsIs DEF Claims, Fresh
    <2> HIDE DEF n
    <2>2. /\ m \in Nat /\ Len(order') = m + 1 /\ order'[m + 1] = n
          /\ \A i \in 1 .. m : order'[i] = order[i] /\ order[i] \in Sends
      BY <1>0, <2>1
    <2>3. \A i \in 1 .. m : journal[order[i]].state \notin Fresh /\ order[i] # n
      BY <2>1 DEF Ordered
    <2>4. \A x \in Sends : journal'[x].state \notin Fresh => x = n \/ journal[x].state \notin Fresh
      BY <1>2, ClaimsIs DEF n
    <2>5. \A x \in Sends : journal[x].state \notin Fresh => \E i \in 1 .. m : order[i] = x
      BY DEF Ordered
    <2>6. \A i, j \in 1 .. m : order[i] = order[j] => i = j BY DEF Ordered
    <2> HIDE DEF m
    <2>7. 1 .. m + 1 = (1 .. m) \cup {m + 1} BY <2>2
    <2>8. \A i, j \in 1 .. Len(order') : order'[i] = order'[j] => i = j
      BY <2>2, <2>3, <2>6, <2>7
    <2>9. \A i \in 1 .. Len(order') : journal'[order'[i]].state \notin Fresh
      BY <2>1, <2>2, <2>3, <2>7, FreshStays
    <2>10. \A x \in Sends : journal'[x].state \notin Fresh => \E i \in 1 .. Len(order') : order'[i] = x
      BY <2>2, <2>4, <2>5, <2>7
    <2> QED BY <2>8, <2>9, <2>10 DEF Ordered
  <1>3. CASE Confirm BY <1>1, <1>3, ConfirmIs
  <1> QED BY <1>1, <1>2, <1>3, JournalsMove

(* Nobody but its claimant comes to the point of handing a turn over.       *)
LEMMA ClaimedMove ==
    ASSUME Types, Next, NEW k \in Everyone, At(k, "claimed")'
    PROVE  (At(k, "claimed") /\ call'[k].send = call[k].send) \/ Claims(k)
  <1>0. CallsOK BY DEF Types
  <1>1. CASE call' = call BY <1>1 DEF At
  <1>2. ASSUME NEW l \in Everyone, NEW r, call' = [call EXCEPT ![l] = r], r.at # "claimed"
        PROVE  At(k, "claimed") /\ call'[k].send = call[k].send
    BY <1>0, <1>2 DEF CallsOK, At
  <1>3. ASSUME NEW l \in Everyone, call[l].at # "claimed",
               \/ call' = [call EXCEPT ![l].landed = TRUE]
               \/ \E at \in CallSteps \ {"claimed"} : call' = [call EXCEPT ![l].at = at]
        PROVE  At(k, "claimed") /\ call'[k].send = call[k].send
    BY <1>0, <1>3 DEF CallsOK, CallType, At
  <1>4. ASSUME NEW l \in Everyone, NEW step \in CallSteps \ {"claimed"}, Leave(l, step)
        PROVE  At(k, "claimed") /\ call'[k].send = call[k].send
    <2> DEFINE r == IF l = Router THEN [Idle EXCEPT !.at = step, !.send = call[l].send] ELSE Idle
    <2>1. r.at # "claimed" BY DEF Idle
    <2>2. call' = [call EXCEPT ![l] = r] BY <1>4 DEF Leave
    <2> QED BY <1>2, <2>1, <2>2
  <1>5. {"idle", "accepted", "prepared", "turn", "settle", "report", "threw"} \subseteq CallSteps
    BY DEF CallSteps
  <1>6. ASSUME NEW l \in Everyone, NEW m \in Sends, Accept(l, m)
        PROVE  At(k, "claimed") /\ call'[k].send = call[k].send
    <2>1. [Idle EXCEPT !.at = "accepted", !.send = m].at # "claimed" BY DEF Idle
    <2> QED BY <1>2, <1>4, <1>5, <1>6, <2>1 DEF Accept, End
  <1>7. ASSUME NEW l \in Everyone, Prepare(l)
        PROVE  At(k, "claimed") /\ call'[k].send = call[k].send
    BY <1>0, <1>7 DEF Prepare, CallsOK, CallType, At
  <1>8. ASSUME NEW l \in Everyone, Claim(l)
        PROVE  (At(k, "claimed") /\ call'[k].send = call[k].send) \/ Claims(k)
    <2>1. CASE End(l) \/ Throw(l) BY <1>4, <1>5, <2>1 DEF End, Throw
    <2>2. CASE ~(End(l) \/ Throw(l))
      <3>1. Claims(l) BY <1>0, <1>8, <2>2 DEF Claim, Claims, CallsOK, At, sends, provider
      <3>2. CASE k = l BY <3>1, <3>2
      <3>3. CASE k # l
        <4>1. call'[k] = call[k] BY <3>1, <3>3, ClaimsIs
        <4> QED BY <4>1 DEF At
      <3> QED BY <3>2, <3>3
    <2> QED BY <2>1, <2>2
  <1>9. ASSUME NEW l \in Everyone, StartTurn(l)
        PROVE  At(k, "claimed") /\ call'[k].send = call[k].send
    BY <1>0, <1>9 DEF StartTurn, Goto, CallsOK, CallType, At
  <1>10. ASSUME NEW l \in Everyone, Land(l)
         PROVE  At(k, "claimed") /\ call'[k].send = call[k].send
    BY <1>0, <1>10 DEF Land, CallsOK, CallType, At
  <1>11. ASSUME NEW l \in Everyone, Return(l)
         PROVE  At(k, "claimed") /\ call'[k].send = call[k].send
    BY <1>0, <1>11 DEF Return, CallsOK, CallType, At
  <1>12. ASSUME NEW l \in Everyone, Settle(l) \/ SendFails(l)
         PROVE  At(k, "claimed") /\ call'[k].send = call[k].send
    <2>1. End(l) \/ Throw(l)
      BY <1>12 DEF Settle, SendFails, AcceptFails, ClaimFails, SettleFails
    <2> QED BY <1>4, <1>5, <2>1 DEF End, Throw
  <1>13. ASSUME Report \/ ReportThrow \/ ReportFails
         PROVE  At(k, "claimed") /\ call'[k].send = call[k].send
    <2>1. Router \in Everyone BY DEF Everyone
    <2>2. \/ call' = [call EXCEPT ![Router] = Idle]
          \/ call' = [call EXCEPT ![Router].at = "threw"] /\ call[Router].at = "report"
      BY <1>13 DEF Report, ReportThrow, ReportFails, Goto, At
    <2>3. Idle.at # "claimed" BY DEF Idle
    <2> QED BY <1>2, <1>3, <1>5, <2>1, <2>2, <2>3
  <1>14. ASSUME NEW d \in Deliveries, Route(d)
         PROVE  At(k, "claimed") /\ call'[k].send = call[k].send
    <2>1. Router \in Everyone BY DEF Everyone
    <2>2. [Idle EXCEPT !.at = "accept", !.send = d].at # "claimed" BY DEF Idle
    <2> QED BY <1>2, <1>14, <2>1, <2>2 DEF Route
  <1>15. ASSUME Crash PROVE FALSE
    BY <1>15 DEF Crash, At, Idle
  <1>16. ASSUME \/ BeginPass \/ CloseStale \/ Observe \/ FailOverdue \/ EndPass \/ Ingest
                \/ (\E d \in Deliveries : RouteFails(d))
                \/ \E s \in Sessions : BeginIngest(s) \/ Type(s)
         PROVE  call' = call
    BY <1>16 DEF BeginPass, CloseStale, Observe, FailOverdue, EndPass, Ingest, Attach, Bind, Commit,
                 Confirm, Deliver, RouteFails, BeginIngest, Type
  <1> QED BY <1>1, <1>6, <1>7, <1>8, <1>9, <1>10, <1>11, <1>12, <1>13, <1>14, <1>15, <1>16
      DEF Next, Send, Pass

(* A claim hands over one turn.                                            *)
LEMMA OneEffectKept ==
    ASSUME Types, OneEffect, Next
    PROVE  OneEffect'
  <1>0. CallsOK /\ SendsOK /\ CallsOK' BY CallsKept DEF Types
  <1>1. CASE effects' = effects
    <2>1. \A m \in Sends : effects'[m] # 0 => effects'[m] = 1 /\ journal'[m].state \notin Fresh
      BY <1>1, FreshStays DEF OneEffect
    <2>2. ASSUME NEW k \in Everyone, At(k, "claimed")'
          PROVE  effects'[call'[k].send] = 0 /\ journal'[call'[k].send].state \notin Fresh
      <3>1. CASE At(k, "claimed") /\ call'[k].send = call[k].send
        <4>1. call[k].send \in Sends BY <1>0, <3>1 DEF CallsOK, At
        <4>2. effects[call[k].send] = 0 /\ journal[call[k].send].state \notin Fresh
          BY <3>1 DEF OneEffect
        <4> QED BY <1>1, <3>1, <4>1, <4>2, FreshStays
      <3>2. CASE Claims(k)
        <4>1. call[k].send \in Sends /\ journal[call[k].send].state \in Fresh
          BY <3>2 DEF Claims, Fresh
        <4>2. effects[call[k].send] = 0 BY <4>1 DEF OneEffect
        <4> QED BY <1>1, <3>2, <4>1, <4>2, ClaimsIs DEF Fresh
      <3> QED BY <2>2, <3>1, <3>2, ClaimedMove
    <2>3. ASSUME NEW k \in Everyone, NEW l \in Everyone, Claims(k), k # l, At(l, "claimed")',
                 call'[k].send = call'[l].send
          PROVE  FALSE
      <3>1. /\ call'[l] = call[l] /\ call'[k].send = call[k].send
            /\ journal[call[k].send].state \in Fresh
        BY <2>3, ClaimsIs DEF Claims, Fresh
      <3>2. journal[call[l].send].state \notin Fresh BY <2>3, <3>1 DEF OneEffect, At
      <3> QED BY <2>3, <3>1, <3>2
    <2>4. ASSUME NEW k \in Everyone, NEW l \in Everyone, At(k, "claimed")', At(l, "claimed")',
                 call'[k].send = call'[l].send
          PROVE  k = l
      <3>1. CASE Claims(k) BY <2>3, <2>4, <3>1
      <3>2. CASE Claims(l) BY <2>3, <2>4, <3>2
      <3>3. CASE /\ At(k, "claimed") /\ call'[k].send = call[k].send
                 /\ At(l, "claimed") /\ call'[l].send = call[l].send
        BY <2>4, <3>3 DEF OneEffect
      <3> QED BY <2>4, <3>1, <3>2, <3>3, ClaimedMove
    <2> QED BY <2>1, <2>2, <2>4 DEF OneEffect, At
  <1>2. ASSUME NEW k \in Everyone, StartTurn(k) PROVE OneEffect'
    <2> DEFINE n == call[k].send
    <2>1. /\ At(k, "claimed") /\ journal' = journal
          /\ effects' = [effects EXCEPT ![n] = effects[n] + 1]
          /\ call' = [call EXCEPT ![k].at = "turn"]
      BY <1>2 DEF StartTurn, Goto, sends
    <2>2. n \in Sends /\ effects[n] = 0 /\ journal[n].state \notin Fresh
      BY <1>0, <2>1 DEF OneEffect, CallsOK, At
    <2>3. call'[k].at = "turn" /\ \A l \in Everyone \ {k} : call'[l] = call[l]
      BY <1>0, <2>1 DEF CallsOK, CallType
    <2>4. \A l \in Everyone \ {k} : At(l, "claimed") => call[l].send # n
      BY <2>1 DEF OneEffect
    <2> HIDE DEF n
    <2>5. effects'[n] = 1 /\ \A m \in Sends \ {n} : effects'[m] = effects[m]
      BY <1>0, <2>1, <2>2 DEF SendsOK
    <2>6. \A m \in Sends : effects'[m] # 0 => effects'[m] = 1 /\ journal'[m].state \notin Fresh
      BY <2>1, <2>2, <2>5 DEF OneEffect
    <2>7. ASSUME NEW l \in Everyone, At(l, "claimed")'
          PROVE  /\ l # k /\ At(l, "claimed") /\ call'[l] = call[l]
                 /\ effects'[call'[l].send] = 0 /\ journal'[call'[l].send].state \notin Fresh
      <3>1. l # k /\ call'[l] = call[l] BY <2>3, <2>7 DEF At
      <3>2. At(l, "claimed") BY <2>7, <3>1 DEF At
      <3>3. call[l].send \in Sends /\ call[l].send # n BY <1>0, <2>4, <3>1, <3>2 DEF CallsOK, At
      <3> QED BY <2>1, <2>5, <3>1, <3>2, <3>3 DEF OneEffect
    <2> QED BY <2>6, <2>7 DEF OneEffect, At
  <1> QED BY <1>1, <1>2, Frames

-----------------------------------------------------------------------------
(* The pass keeps its claim while it is inside a send.                      *)

(* Inside a send the pass stays where it is, with its delivery.            *)
LEMMA RouterMove ==
    ASSUME Types, RouterHolds, Next, ~At(Router, "idle")', ~\E d \in Deliveries : Route(d)
    PROVE  /\ ~At(Router, "idle") /\ call'[Router].send = call[Router].send
           /\ pass' = pass
  <1>0. CallsOK /\ Router \in Everyone BY DEF Types, Everyone
  <1>1. CASE ~At(Router, "idle")
    <2>0. pass = "submit" BY SMTT(30), <1>1 DEF RouterHolds
    <2>1. ASSUME NEW k \in Everyone, k # Router,
                 Send(k) \/ Land(k) \/ SendFails(k) \/ \E m \in Sends : Accept(k, m)
          PROVE  call'[Router] = call[Router]
      BY <1>0, <2>1 DEF Send, Prepare, Claim, StartTurn, Goto, Return, Settle, Land, SendFails,
                        AcceptFails, ClaimFails, SettleFails, Accept, End, Throw, Leave, CallsOK
    <2>2. ASSUME Leave(Router, "report") \/ Leave(Router, "threw")
          PROVE  call'[Router].send = call[Router].send
      BY <1>0, <2>2 DEF Leave, CallsOK, Idle
    <2>3. ASSUME NEW m \in Sends, Accept(Router, m) PROVE call'[Router].send = call[Router].send
      <3>1. m = call[Router].send
        <4>1. Router \notin Callers BY MessageAssumption DEF MessageAssumption
        <4> QED BY <2>3, <4>1 DEF Accept, Calls
      <3>2. CASE call' = [call EXCEPT ![Router] = [Idle EXCEPT !.at = "accepted", !.send = m]]
        BY <1>0, <3>1, <3>2 DEF CallsOK, Idle
      <3>3. CASE End(Router) BY <2>2, <3>3 DEF End
      <3> QED BY <2>3, <3>2, <3>3 DEF Accept
    <2>4. ASSUME Settle(Router) \/ SendFails(Router) PROVE call'[Router].send = call[Router].send
      BY <2>2, <2>4 DEF Settle, SendFails, AcceptFails, ClaimFails, SettleFails, End, Throw
    <2>5. ASSUME Claim(Router) PROVE call'[Router].send = call[Router].send
      BY <1>0, <2>2, <2>5 DEF Claim, End, Throw, CallsOK, CallType
    <2>6. ASSUME Prepare(Router) \/ StartTurn(Router) \/ Land(Router) \/ Return(Router)
          PROVE  call'[Router].send = call[Router].send
      BY <1>0, <2>6 DEF Prepare, StartTurn, Goto, Land, Return, CallsOK, CallType
    <2>7. ASSUME NEW k \in Everyone, Send(k) \/ Land(k) \/ SendFails(k) \/ \E m \in Sends : Accept(k, m)
          PROVE  call'[Router].send = call[Router].send /\ pass' = pass
      <3>1. call'[Router].send = call[Router].send
        <4>1. CASE k = Router BY <2>3, <2>4, <2>5, <2>6, <2>7, <4>1 DEF Send
        <4>2. CASE k # Router BY SMTT(30), <2>1, <2>7, <4>2
        <4> QED BY <4>1, <4>2
      <3>2. pass' = pass
        BY <2>7 DEF Send, Prepare, Claim, StartTurn, Return, Settle, Land, SendFails, AcceptFails,
                    ClaimFails, SettleFails, Accept, routing
      <3> QED BY <3>1, <3>2
    <2>8. ASSUME Report \/ ReportThrow \/ ReportFails
          PROVE  call'[Router].send = call[Router].send /\ pass' = pass
      <3>1. call' # [call EXCEPT ![Router] = Idle] BY <1>0 DEF CallsOK, At, Idle
      <3>2. call' = [call EXCEPT ![Router].at = "threw"] /\ pass' = pass
        BY <2>8, <3>1 DEF Report, ReportThrow, ReportFails, Goto
      <3> QED BY <1>0, <3>2 DEF CallsOK, CallType
    <2>9. ASSUME Crash PROVE FALSE BY <1>0, <2>9 DEF Crash, At, Idle
    <2>10. ASSUME \/ BeginPass \/ CloseStale \/ Observe \/ FailOverdue \/ EndPass \/ Ingest
                  \/ (\E d \in Deliveries : RouteFails(d))
                  \/ \E s \in Sessions : BeginIngest(s) \/ Type(s)
           PROVE  call' = call /\ pass' = pass
      BY <2>0, <2>10 DEF BeginPass, MayBegin, CloseStale, Observe, FailOverdue, EndPass, Ingest,
                 Attach, Bind, Commit, Confirm, Deliver, RouteFails, BeginIngest, Type, routing
    <2> QED BY <1>1, <2>7, <2>8, <2>9, <2>10 DEF Next, Pass
  <1>2. CASE At(Router, "idle")
    <2>1. ASSUME NEW k \in Everyone, k # Router,
                 Send(k) \/ Land(k) \/ SendFails(k) \/ \E m \in Sends : Accept(k, m)
          PROVE  call'[Router] = call[Router]
      BY <1>0, <2>1 DEF Send, Prepare, Claim, StartTurn, Goto, Return, Settle, Land, SendFails,
                        AcceptFails, ClaimFails, SettleFails, Accept, End, Throw, Leave, CallsOK
    <2>2. ASSUME Send(Router) \/ Land(Router) \/ SendFails(Router) \/ \E m \in Sends : Accept(Router, m)
          PROVE  FALSE
      <3>1. Router \notin Callers BY MessageAssumption DEF MessageAssumption
      <3> QED BY <1>2, <2>2, <3>1 DEF Send, Prepare, Claim, StartTurn, Return, Settle, Land, SendFails,
                 AcceptFails, ClaimFails, SettleFails, Accept, Calls, At
    <2>3. ASSUME Report \/ ReportThrow \/ ReportFails PROVE FALSE
      BY <1>2, <2>3 DEF Report, ReportThrow, ReportFails, At
    <2>4. ASSUME Crash PROVE FALSE BY <1>0, <2>4 DEF Crash, At, Idle
    <2>5. ASSUME \/ BeginPass \/ CloseStale \/ Observe \/ FailOverdue \/ EndPass \/ Ingest
                 \/ (\E d \in Deliveries : RouteFails(d))
                 \/ \E s \in Sessions : BeginIngest(s) \/ Type(s)
          PROVE  call' = call
      BY <2>5 DEF BeginPass, CloseStale, Observe, FailOverdue, EndPass, Ingest, Attach, Bind, Commit,
                  Confirm, Deliver, RouteFails, BeginIngest, Type
    <2> QED BY <1>2, <2>1, <2>2, <2>3, <2>4, <2>5 DEF Next, Pass, At
  <1> QED BY <1>1, <1>2

(* The pass keeps its claim.                                               *)
LEMMA RouterKept ==
    ASSUME Types, RouterHolds, Next
    PROVE  RouterHolds'
  <1>0. CallsOK /\ RoutingOK /\ Router \in Everyone BY DEF Types, Everyone
  <1>1. ASSUME NEW d \in Deliveries, Route(d) PROVE RouterHolds'
    <2>1. /\ pass' = "submit" /\ Move(d, "claimed", None)
          /\ call' = [call EXCEPT ![Router] = [Idle EXCEPT !.at = "accept", !.send = d]]
      BY <1>1 DEF Route
    <2>2. call'[Router].send = d BY <1>0, <2>1 DEF CallsOK, Idle
    <2>3. "claimed" \in DeliveryStates /\ None \in Failures BY StatesAre
    <2>4. delivery'[d] = [state |-> "claimed", why |-> None] BY <1>0, <2>1, <2>3, MoveOneIs
    <2> QED BY <2>1, <2>2, <2>4 DEF RouterHolds
  <1>2. CASE ~At(Router, "idle")' /\ ~\E d \in Deliveries : Route(d)
    <2>1. /\ ~At(Router, "idle") /\ call'[Router].send = call[Router].send /\ pass' = pass
      BY <1>2, RouterMove
    <2>2. /\ pass = "submit" /\ call[Router].send \in Deliveries
          /\ delivery[call[Router].send].state = "claimed"
      BY <2>1 DEF RouterHolds
    <2>3. delivery' = delivery
      <3>1. ~CloseStale /\ ~Observe /\ ~FailOverdue
        BY <2>2 DEF CloseStale, Observe, FailOverdue
      <3>2. ~MovesOne BY <1>2, <2>2 DEF MovesOne
      <3> QED BY <2>2, <3>1, <3>2, DeliveriesMove
    <2> QED BY <2>1, <2>2, <2>3 DEF RouterHolds
  <1>3. CASE At(Router, "idle")' BY <1>3 DEF RouterHolds
  <1> QED BY <1>1, <1>2, <1>3

-----------------------------------------------------------------------------
(* Evidence of the pass.                                                    *)

(* Confirmed is final, and the confirmed lines stay what they are.          *)
LEMMA ConfirmedStays ==
    ASSUME Types, Next, NEW m \in Sends, journal[m].state = "confirmed"
    PROVE  journal'[m] = journal[m]
  <1>1. CASE \E k \in Everyone : Claims(k)
    <2>1. PICK k \in Everyone : Claims(k) BY <1>1
    <2>2. journal[call[k].send].state = "accepted" BY <2>1 DEF Claims
    <2> QED BY <2>1, <2>2, ClaimsIs
  <1>2. CASE Confirm
    <2>1. PICK v \in [Pending -> SUBSET Written] : Onward(m) \/ Proven(m, v) BY <1>2, ConfirmIs
    <2>2. ~Proven(m, v) BY ProvenIs
    <2> QED BY <2>1, <2>2 DEF Onward
  <1> QED BY <1>1, <1>2, JournalsMove DEF Onward

(* The evidence of the pass holds on.                                      *)
LEMMA EvidenceKept ==
    ASSUME Types, RouterHolds, EvidenceHeld, Next
    PROVE  EvidenceHeld'
  <1>0. /\ RoutingOK /\ None # "confirmation-timeout" /\ Deliveries \subseteq Sends
        /\ delivery \in [Deliveries -> DeliveryType]
    BY MessageAssumption DEF MessageAssumption, Types, Sends, RoutingOK
  <1> DEFINE Honest(d) == delivery[d].why = "confirmation-timeout" => delivery[d].state = "failed"
             HonestNext(d) == delivery'[d].why = "confirmation-timeout" => delivery'[d].state = "failed"
             Out(d) == delivery[d].state \notin {"submitted-confirmed", "submitted-unconfirmed"}
             OutNext(d) == delivery'[d].state \notin {"submitted-confirmed", "submitted-unconfirmed"}
  <1>1. ASSUME NEW d \in Deliveries PROVE HonestNext(d)
    <2>0. Honest(d) BY DEF EvidenceHeld
    <2>1. ASSUME NEW ds \in SUBSET Deliveries, NEW state \in DeliveryStates, NEW why \in Failures,
                 MoveAll(ds, state, why), why = "confirmation-timeout" => state = "failed"
          PROVE  HonestNext(d)
      <3>1. delivery'[d] = [state |-> state, why |-> why] \/ delivery'[d] = delivery[d]
        BY <1>0, <2>1, MoveIs
      <3> QED BY <2>0, <2>1, <3>1
    <2>2. CASE MovesOne
      <3>1. PICK x \in Deliveries, state \in DeliveryStates, why \in Failures :
               Move(x, state, why) /\ why # "confirmation-timeout"
        BY <2>2 DEF MovesOne
      <3>2. delivery'[d] = [state |-> state, why |-> why] \/ delivery'[d] = delivery[d]
        BY <1>0, <3>1, MoveOneIs
      <3> QED BY <2>0, <3>1, <3>2
    <2>3. \A states : InState(states) \subseteq Deliveries BY DEF InState
    <2>4. CASE CloseStale
      <3>1. PICK ds \in SUBSET Deliveries : MoveAll(ds, "submitted-unconfirmed", None)
        BY <2>3, <2>4 DEF CloseStale
      <3>2. "submitted-unconfirmed" \in DeliveryStates /\ None \in Failures BY StatesAre
      <3> QED BY <1>0, <2>1, <3>1, <3>2
    <2>5. CASE Observe
      <3>1. MoveAll(Observable, "transcript-observed", None) BY <2>5 DEF Observe
      <3>2. "transcript-observed" \in DeliveryStates /\ None \in Failures BY StatesAre
      <3>3. Observable \in SUBSET Deliveries BY <2>3 DEF Observable, Submitted
      <3> QED BY <1>0, <2>1, <3>1, <3>2, <3>3
    <2>6. CASE FailOverdue
      <3>1. PICK ds \in SUBSET Deliveries : MoveAll(ds, "failed", "confirmation-timeout")
        BY <2>3, <2>6 DEF FailOverdue, Overdue
      <3>2. "failed" \in DeliveryStates /\ "confirmation-timeout" \in Failures BY StatesAre
      <3> QED BY <2>1, <3>1, <3>2
    <2>7. ASSUME NEW ds \in SUBSET InState({"none"}), MoveAll(ds, "queued", None)
          PROVE  HonestNext(d)
      <3>1. "queued" \in DeliveryStates /\ None \in Failures BY StatesAre
      <3> QED BY <1>0, <2>1, <2>3, <2>7, <3>1
    <2>8. CASE delivery' = delivery BY <2>0, <2>8
    <2> HIDE DEF HonestNext
    <2> QED BY <2>2, <2>4, <2>5, <2>6, <2>7, <2>8, DeliveriesMove
  <1>2. ASSUME NEW d \in Deliveries, evidence'[d] = "confirmed" PROVE journal'[d].state = "confirmed"
    <2>1. CASE StartPass
      <3>1. journal[d].state = "confirmed" BY <1>2, <2>1 DEF StartPass, Evident
      <3> QED BY <1>0, <3>1, ConfirmedStays
    <2>2. CASE evidence' = evidence
      <3>1. journal[d].state = "confirmed" BY <1>2, <2>2 DEF EvidenceHeld
      <3> QED BY <1>0, <3>1, ConfirmedStays
    <2>3. CASE evidence' = NoEvidence BY <1>2, <2>3 DEF NoEvidence
    <2>4. evidence' \in {evidence, NoEvidence} \/ StartPass
      BY Frames DEF BeginPass, Deliver, Pass, CloseStale, Observe, FailOverdue, Report, ReportThrow,
                    ReportFails, EndPass, Crash, Route, routing
    <2> QED BY <2>1, <2>2, <2>3, <2>4
  <1>3. ASSUME NEW d \in Deliveries, evidence'[d] = "confirmed", pass' = "deadline" PROVE OutNext(d)
    <2>1. CASE Observe
      <3>1. evidence' = evidence /\ MoveAll(Observable, "transcript-observed", None)
        BY <2>1 DEF Observe
      <3>2. journal[d].state = "confirmed" BY <1>3, <3>1 DEF EvidenceHeld
      <3>3. CASE d \in Submitted
        <4>1. d \in Observable /\ Observable \in SUBSET Deliveries
          BY <3>2, <3>3 DEF Observable, Submitted, InState
        <4>2. "transcript-observed" \in DeliveryStates /\ None \in Failures BY StatesAre
        <4>3. delivery'[d] = [state |-> "transcript-observed", why |-> None]
          BY <1>0, <3>1, <4>1, <4>2, MoveIs
        <4> QED BY <4>3
      <3>4. CASE d \notin Submitted
        <4>1. d \notin Observable /\ Observable \in SUBSET Deliveries
          BY <3>4 DEF Observable, Submitted, InState
        <4>2. "transcript-observed" \in DeliveryStates /\ None \in Failures BY StatesAre
        <4>3. delivery'[d] = delivery[d] BY <1>0, <3>1, <4>1, <4>2, MoveIs
        <4> QED BY <3>4, <4>3 DEF Submitted, InState
      <3> QED BY <3>3, <3>4
    <2>2. CASE pass = "deadline" /\ evidence' = evidence /\ delivery' = delivery
      BY <1>3, <2>2 DEF EvidenceHeld
    <2>3. Observe \/ (pass = "deadline" /\ UNCHANGED <<pass, recent, evidence>>)
      BY <1>3, Frames DEF BeginPass, Deliver, StartPass, Pass, CloseStale, FailOverdue, Report,
                          ReportThrow, ReportFails, EndPass, Crash, Route, routing
    <2>4. CASE pass = "deadline" /\ UNCHANGED <<pass, recent, evidence>>
      <3>1. ~CloseStale /\ ~Observe /\ ~FailOverdue
        BY <2>4 DEF CloseStale, Observe, FailOverdue
      <3>2. ~MovesOne BY <2>4 DEF MovesOne
      <3>3. delivery' = delivery BY <2>4, <3>1, <3>2, DeliveriesMove
      <3> QED BY <2>2, <2>4, <3>3
    <2> QED BY <2>1, <2>3, <2>4
  <1> QED BY <1>1, <1>2, <1>3 DEF EvidenceHeld

-----------------------------------------------------------------------------
(* Confirmations are honest.                                                *)

(* A recorded line is a written one.                                        *)
LEMMA LinesOKKept ==
    ASSUME Types, LinesOK, Next
    PROVE  LinesOK'
  <1>0. Written \subseteq Written' BY FilesKept
  <1>1. ASSUME NEW m \in Sends, Onward(m)
        PROVE  /\ journal'[m].state = "confirmed" => journal'[m].line \in Written'
               /\ journal'[m].state # "confirmed" => journal'[m].line = None
    BY <1>0, <1>1 DEF LinesOK, Onward
  <1>2. ASSUME NEW k \in Everyone, Claims(k), NEW m \in Sends
        PROVE  /\ journal'[m].state = "confirmed" => journal'[m].line \in Written'
               /\ journal'[m].state # "confirmed" => journal'[m].line = None
    <2>1. CASE m = call[k].send
      <3>1. journal[m].state = "accepted" BY <1>2, <2>1 DEF Claims
      <3> QED BY <1>2, <2>1, <3>1, ClaimsIs DEF LinesOK
    <2>2. CASE m # call[k].send BY <1>0, <1>2, <2>2, ClaimsIs DEF LinesOK
    <2> QED BY <2>1, <2>2
  <1>3. ASSUME NEW m \in Sends, NEW v, Proven(m, v)
        PROVE  /\ journal'[m].state = "confirmed" => journal'[m].line \in Written'
               /\ journal'[m].state # "confirmed" => journal'[m].line = None
    <2>1. LineOf(v[m]) \in Written BY <1>3 DEF Proven
    <2>2. journal'[m].state = "confirmed" /\ journal'[m].line = LineOf(v[m]) BY <1>3, ProvenIs
    <2> QED BY <1>0, <2>1, <2>2
  <1>4. CASE Confirm
    <2>1. PICK v \in [Pending -> SUBSET Written] : \A m \in Sends : Onward(m) \/ Proven(m, v)
      BY <1>4, ConfirmIs
    <2> QED BY <1>1, <1>3, <2>1 DEF LinesOK
  <1>5. CASE \A m \in Sends : Onward(m) BY <1>1, <1>5 DEF LinesOK
  <1>6. CASE \E k \in Everyone : Claims(k) BY <1>2, <1>6 DEF LinesOK
  <1> QED BY <1>4, <1>5, <1>6, JournalsMove

(* What a pass finds for a send is none of the lines used up before.        *)
LEMMA NotUsed ==
    ASSUME NEW v, Consistent(v), NEW m \in Pending
    PROVE  \A p \in v[m] : p \in Written \ UsedLines /\ Eligible(p, m)
  BY DEF Consistent, Evidence

(* Of two sends that a pass confirms, one comes first and takes its line.   *)
LEMMA Apart ==
    ASSUME Types, Ordered, NEW v, Consistent(v), NEW m \in Pending, NEW x \in Pending, m # x,
           Proves(v[m]), Proves(v[x])
    PROVE  v[m] \cap v[x] = {}
  <1>0. Len(order) \in Nat BY DEF Types, SendsOK
  <1>1. ASSUME NEW y \in Pending PROVE Place(y) \in 1 .. Len(order) /\ order[Place(y)] = y
    <2>1. y \in Sends /\ journal[y].state \notin Fresh BY DEF Pending, Fresh
    <2>2. \E i \in 1 .. Len(order) : order[i] = y BY <2>1 DEF Ordered
    <2> QED BY <2>2 DEF Place
  <1>2. Place(m) \in Nat /\ Place(x) \in Nat /\ Place(m) # Place(x) BY <1>0, <1>1
  <1>3. ASSUME NEW y \in Pending, NEW z \in Pending, Place(z) < Place(y), Proves(v[z])
        PROVE  v[y] \cap v[z] = {}
    <2>1. z \in Before(y) BY <1>3 DEF Before
    <2> DEFINE used == UsedLines \cup UNION {v[w] : w \in {u \in Before(y) : Proves(v[u])}}
    <2>2. v[z] \subseteq used BY <1>3, <2>1
    <2>3. v[y] = Evidence(y, used) BY DEF Consistent
    <2> HIDE DEF used
    <2> QED BY <2>2, <2>3 DEF Evidence
  <1>4. CASE Place(m) < Place(x) BY <1>3, <1>4
  <1>5. CASE Place(x) < Place(m) BY <1>3, <1>5
  <1> QED BY <1>2, <1>4, <1>5

(* Within a pass by order, across passes by the used lines.                *)
LEMMA LineConfirmsOneKept ==
    ASSUME Types, Ordered, LinesOK, LineConfirmsOne, Next
    PROVE  LineConfirmsOne'
  <1>0. None \notin Places BY MessageAssumption DEF MessageAssumption, Places
  <1>1. CASE \A m \in Sends : journal'[m].line = journal[m].line
    BY <1>1 DEF LineConfirmsOne
  <1>2. CASE Confirm
    <2>1. PICK v \in [Pending -> SUBSET Written] :
             Consistent(v) /\ \A m \in Sends : Onward(m) \/ Proven(m, v)
      BY <1>2, ConfirmIs
    <2>2. ASSUME NEW m \in Sends, NEW x \in Sends, m # x, Proven(m, v), Proven(x, v)
          PROVE  journal'[m].line # journal'[x].line
      <3>1. v[m] \cap v[x] = {} BY <2>1, <2>2, Apart DEF Proven
      <3>2. LineOf(v[m]) # LineOf(v[x]) BY <2>2, <3>1 DEF Proven
      <3> QED BY <2>2, <3>2, ProvenIs
    <2>3. ASSUME NEW m \in Sends, NEW x \in Sends, Proven(m, v), Onward(x)
          PROVE  journal'[m].line # journal'[x].line
      <3>1. LineOf(v[m]) \in Places /\ LineOf(v[m]) \notin UsedLines
        BY <2>1, <2>3, NotUsed DEF Proven, Written
      <3>2. journal[x].line \in UsedLines \cup {None} BY DEF UsedLines
      <3> QED BY <1>0, <2>3, <3>1, <3>2, ProvenIs DEF Onward
    <2>4. ASSUME NEW m \in Sends, NEW x \in Sends, m # x, journal'[m].line # None
          PROVE  journal'[m].line # journal'[x].line
      <3>1. CASE Onward(m) /\ Onward(x) BY <2>4, <3>1 DEF LineConfirmsOne, Onward
      <3>2. CASE Proven(m, v) /\ Proven(x, v) BY <2>2, <2>4, <3>2
      <3>3. CASE Proven(m, v) /\ Onward(x) BY <2>3, <3>3
      <3>4. CASE Onward(m) /\ Proven(x, v) BY <2>3, <3>4
      <3> QED BY <2>1, <3>1, <3>2, <3>3, <3>4
    <2> QED BY <2>4 DEF LineConfirmsOne
  <1>3. ASSUME NEW k \in Everyone, Claims(k)
        PROVE  \A m \in Sends : journal'[m].line = journal[m].line
    BY <1>3, ClaimsIs
  <1>4. (\A m \in Sends : Onward(m)) => \A m \in Sends : journal'[m].line = journal[m].line
    BY DEF Onward
  <1> QED BY <1>1, <1>2, <1>3, <1>4, JournalsMove

(* A confirmed send reached the transcript, or a lookalike of it did.       *)
LEMMA LandedKept ==
    ASSUME Types, LinesOK, ConfirmedIsLandedUnlessLookalike, Next
    PROVE  ConfirmedIsLandedUnlessLookalike'
  <1>0. /\ Written \subseteq Written'
        /\ \A p \in Written : file'[p[1]][p[2]] = file[p[1]][p[2]]
    BY FilesKept DEF Author
  <1> DEFINE Held(m) == Author(journal[m].line) = m \/ HasLookalike(m)
             HeldNext(m) ==
                \/ file'[journal'[m].line[1]][journal'[m].line[2]] = m
                \/ \E p \in Written' :
                     /\ p[1] = journal'[m].target /\ p[2] > journal'[m].from[p[1]]
                     /\ file'[p[1]][p[2]] # m /\ Text(file'[p[1]][p[2]]) = Text(m)
  <1>1. ASSUME NEW m \in Sends, journal[m].state = "confirmed" PROVE HeldNext(m)
    <2>1. journal'[m] = journal[m] /\ journal[m].line \in Written
      BY <1>1, ConfirmedStays DEF LinesOK
    <2>2. CASE Author(journal[m].line) = m BY <1>0, <2>1, <2>2 DEF Author
    <2>3. CASE HasLookalike(m)
      <3>1. PICK p \in Written :
               /\ p[1] = journal[m].target /\ p[2] > journal[m].from[p[1]]
               /\ file[p[1]][p[2]] # m /\ Text(file[p[1]][p[2]]) = Text(m)
        BY <2>3 DEF HasLookalike, Author
      <3>2. p \in Written' /\ file'[p[1]][p[2]] = file[p[1]][p[2]] BY <1>0
      <3> QED BY <2>1, <3>1, <3>2
    <2>4. Held(m) BY <1>1 DEF ConfirmedIsLandedUnlessLookalike
    <2> HIDE DEF HeldNext
    <2> QED BY <2>2, <2>3, <2>4
  <1>2. ASSUME NEW m \in Sends, NEW v, Consistent(v), Proven(m, v) PROVE HeldNext(m)
    <2> DEFINE p == LineOf(v[m])
    <2>1. /\ p \in Written /\ p \in v[m] /\ m \in Pending /\ journal'[m].line = p
          /\ journal'[m].target = journal[m].target /\ journal'[m].from = journal[m].from
      BY <1>2, ProvenIs DEF Proven
    <2>2. Eligible(p, m) BY <1>2, <2>1, NotUsed
    <2> HIDE DEF p
    <2>3. /\ p[1] = journal[m].target /\ p[2] > journal[m].from[p[1]]
          /\ Text(file[p[1]][p[2]]) = Text(m)
      BY <2>2 DEF Eligible, Author
    <2>4. p \in Written' /\ file'[p[1]][p[2]] = file[p[1]][p[2]] BY <1>0, <2>1
    <2> QED BY <2>1, <2>3, <2>4
  <1>3. ASSUME NEW m \in Sends, journal'[m].state = "confirmed" PROVE HeldNext(m)
    <2> HIDE DEF HeldNext
    <2>1. ASSUME NEW k \in Everyone, Claims(k) PROVE journal[m].state = "confirmed"
      BY <1>3, <2>1, ClaimsIs
    <2>2. CASE Confirm BY <1>1, <1>2, <1>3, <2>2, ConfirmIs DEF Onward
    <2> QED BY <1>1, <1>3, <2>1, <2>2, JournalsMove DEF Onward
  <1> QED BY <1>3 DEF ConfirmedIsLandedUnlessLookalike, HasLookalike, Author

(* Only observation reports a delivery as seen, on its send's confirmation. *)
LEMMA ObservedKept ==
    ASSUME Types, RouterHolds, ObservedIsConfirmed, Next
    PROVE  ObservedIsConfirmed'
  <1>0. RoutingOK /\ Deliveries \subseteq Sends BY DEF Types, Sends
  <1>1. ASSUME NEW d \in Deliveries, journal[d].state = "confirmed"
        PROVE  journal'[d].state = "confirmed"
    BY <1>0, <1>1, ConfirmedStays
  <1>2. ASSUME NEW d \in Deliveries, delivery'[d].state = "transcript-observed"
        PROVE  journal[d].state = "confirmed"
    <2>1. CASE delivery'[d] = delivery[d] BY <1>2, <2>1 DEF ObservedIsConfirmed
    <2>2. ASSUME NEW ds \in SUBSET Deliveries, NEW state \in DeliveryStates \ {"transcript-observed"},
                 NEW why \in Failures, MoveAll(ds, state, why)
          PROVE  journal[d].state = "confirmed"
      <3>1. delivery'[d] = [state |-> state, why |-> why] \/ delivery'[d] = delivery[d]
        BY <1>0, <2>2, MoveIs
      <3> QED BY <1>2, <2>1, <2>2, <3>1
    <2>3. \A states : InState(states) \subseteq Deliveries BY DEF InState
    <2>4. CASE MovesOne
      <3>1. PICK x \in Deliveries, state \in DeliveryStates, why \in Failures :
               Move(x, state, why) /\ state # "transcript-observed"
        BY <2>4 DEF MovesOne
      <3>2. delivery'[d] = [state |-> state, why |-> why] \/ delivery'[d] = delivery[d]
        BY <1>0, <3>1, MoveOneIs
      <3> QED BY <1>2, <2>1, <3>1, <3>2
    <2>5. CASE Observe
      <3>1. MoveAll(Observable, "transcript-observed", None) BY <2>5 DEF Observe
      <3>2. Observable \in SUBSET Deliveries BY <2>3 DEF Observable, Submitted
      <3>3. CASE d \in Observable BY <3>3 DEF Observable
      <3>4. CASE d \notin Observable
        <4>1. delivery'[d] = delivery[d] BY <1>0, <3>1, <3>2, <3>4, MoveIs, StatesAre
        <4> QED BY <2>1, <4>1
      <3> QED BY <3>3, <3>4
    <2>6. CASE CloseStale BY <2>2, <2>3, <2>6, StatesAre DEF CloseStale
    <2>7. CASE FailOverdue
      <3>1. Overdue \subseteq SUBSET Deliveries BY <2>3 DEF Overdue
      <3> QED BY <2>2, <2>7, <3>1, StatesAre DEF FailOverdue
    <2>8. ASSUME NEW ds \in SUBSET InState({"none"}), MoveAll(ds, "queued", None)
          PROVE  journal[d].state = "confirmed"
      BY <2>2, <2>3, <2>8, StatesAre
    <2> QED BY <2>1, <2>4, <2>5, <2>6, <2>7, <2>8, DeliveriesMove
  <1> QED BY <1>1, <1>2 DEF ObservedIsConfirmed

-----------------------------------------------------------------------------
(* What the invariant says of a state stays true while nothing changes.     *)
LEMMA Stutter ==
    ASSUME IInv, UNCHANGED vars
    PROVE  IInv'
  <1> USE DEF vars, provider, sends, reading, routing
  <1>1. Types'
    BY DEF IInv, Types, FilesOK, SendsOK, CallsOK, ReadingOK, RoutingOK, At
  <1>2. OneEffect' /\ RouterHolds' /\ EvidenceHeld'
    BY DEF IInv, OneEffect, RouterHolds, EvidenceHeld, At
  <1>3. Ordered' BY DEF IInv, Ordered
  <1>4. LinesOK' BY DEF IInv, LinesOK, Written
  <1>5. ConfirmationsAreHonest'
    BY DEF IInv, ConfirmationsAreHonest, LineConfirmsOne, ConfirmedIsLandedUnlessLookalike,
           ObservedIsConfirmed, HasLookalike, Author, Written
  <1> QED BY <1>1, <1>2, <1>3, <1>4, <1>5 DEF IInv

(* It is true at the start.                                                *)
LEMMA Initially == Init => IInv
  <1> SUFFICES ASSUME Init PROVE IInv OBVIOUS
  <1>0. MaxLines \in Nat /\ MaxTroubles \in Nat /\ None # "confirmation-timeout"
    BY MessageAssumption DEF MessageAssumption
  <1>1. NoJournal \in JournalType
    BY NoFenceIs DEF NoJournal, JournalType, JournalStates
  <1>2. Types
    <2>1. FilesOK BY <1>0 DEF Init, FilesOK
    <2>2. SendsOK BY <1>1 DEF Init, SendsOK
    <2>3. CallsOK BY IdleIs DEF Init, CallsOK, At, Idle
    <2>4. ReadingOK BY <1>0 DEF Init, ReadingOK, IngestType, NoIngest
    <2>5. RoutingOK BY <1>0, StatesAre DEF Init, RoutingOK, DeliveryType, NoEvidence
    <2> QED BY <2>1, <2>2, <2>3, <2>4, <2>5 DEF Types
  <1>3. OneEffect BY DEF Init, OneEffect, At, Idle
  <1>4. RouterHolds BY DEF Init, RouterHolds, At, Idle, Everyone
  <1>5. EvidenceHeld BY <1>0 DEF Init, EvidenceHeld, NoEvidence
  <1>6. Ordered BY DEF Init, Ordered, Fresh, NoJournal
  <1>7. LinesOK BY DEF Init, LinesOK, NoJournal
  <1>8. ConfirmationsAreHonest
    BY DEF Init, ConfirmationsAreHonest, LineConfirmsOne, ConfirmedIsLandedUnlessLookalike,
           ObservedIsConfirmed, NoJournal
  <1> QED BY <1>2, <1>3, <1>4, <1>5, <1>6, <1>7, <1>8 DEF IInv

(* The inductive invariant: types, one effect per claim, the claim the pass *)
(* holds, the evidence it started from, the order of dispatch and the lines *)
(* that confirm, with what is claimed of them.                              *)
THEOREM Inductive == Spec => []IInv
  <1>1. ASSUME IInv, Next PROVE IInv'
    <2> USE <1>1 DEF IInv, ConfirmationsAreHonest
    <2>1. Types' BY TypesKept
    <2>2. OneEffect' BY OneEffectKept
    <2>3. RouterHolds' BY RouterKept
    <2>4. EvidenceHeld' BY EvidenceKept
    <2>5. Ordered' BY OrderedKept
    <2>6. LinesOK' BY LinesOKKept
    <2>7. LineConfirmsOne' BY LineConfirmsOneKept
    <2>8. ConfirmedIsLandedUnlessLookalike' BY LandedKept
    <2>9. ObservedIsConfirmed' BY ObservedKept
    <2> QED BY <2>1, <2>2, <2>3, <2>4, <2>5, <2>6, <2>7, <2>8, <2>9
  <1>2. IInv /\ [Next]_vars => IInv' BY <1>1, Stutter
  <1> QED BY <1>2, Initially, PTL DEF Spec

(* Every reachable state has the types of contract/records and the bounds.  *)
THEOREM TypeCorrect == Spec => []TypeOK
  <1>1. IInv => TypeOK
    BY DEF IInv, Types, FilesOK, SendsOK, CallsOK, ReadingOK, RoutingOK, TypeOK, JournalType, CallType,
           DeliveryType, IngestType
  <1> QED BY <1>1, Inductive, PTL

(* However many callers, retries and crashes: a message leaves the process  *)
(* at most once, and the delivery pass sends only under a claim that nobody *)
(* has closed or failed (dispatch.ts, delivery/router.ts).                  *)
THEOREM SentOnce == Spec => []SentOnceUnderClaim
  <1>1. IInv => OneEffectPerSend
    <2> SUFFICES ASSUME IInv, NEW m \in Sends PROVE effects[m] <= 1 BY DEF OneEffectPerSend
    <2>1. effects[m] \in Nat BY DEF IInv, Types, SendsOK
    <2>2. effects[m] = 0 \/ effects[m] = 1 BY DEF IInv, OneEffect
    <2> QED BY <2>1, <2>2
  <1>2. IInv => ClaimIsHeld BY DEF IInv, RouterHolds, ClaimIsHeld
  <1> QED BY <1>1, <1>2, Inductive, PTL DEF SentOnceUnderClaim

(* No line confirms two sends, a confirmed send reached the transcript      *)
(* unless a line like it did, and a delivery is reported seen only on the   *)
(* confirmation of its own send (send-confirmation.ts, maintenance.ts).     *)
THEOREM Honest == Spec => []ConfirmationsAreHonest
  <1>1. IInv => ConfirmationsAreHonest BY DEF IInv
  <1> QED BY <1>1, Inductive, PTL

(* A deadline never overrules evidence that was there when the pass began   *)
(* (maintenance.ts: observation runs before the deadline).                  *)
THEOREM FreshWins == Spec => FreshEvidenceWinsUnlessRaced
  <1>1. ASSUME IInv, Next, NEW d \in Deliveries, Fails(d) PROVE evidence[d] # "confirmed"
    <2>0. RoutingOK /\ Types /\ RouterHolds BY <1>1 DEF IInv, Types
    <2>1. delivery[d].state # "failed" /\ delivery'[d].why = "confirmation-timeout"
      BY <1>1 DEF Fails
    <2>2. delivery'[d] # delivery[d] BY <1>1, <2>1 DEF IInv, EvidenceHeld
    <2>3. \A states : InState(states) \subseteq Deliveries BY DEF InState
    <2>4. None # "confirmation-timeout" BY MessageAssumption DEF MessageAssumption
    <2>5. ASSUME NEW ds \in SUBSET Deliveries, NEW state \in DeliveryStates, MoveAll(ds, state, None)
          PROVE  FALSE
      <3>1. None \in Failures BY StatesAre
      <3>2. delivery'[d] = [state |-> state, why |-> None] \/ delivery'[d] = delivery[d]
        BY <2>0, <2>5, <3>1, MoveIs
      <3> QED BY <2>1, <2>2, <2>4, <3>2
    <2>6. ~MovesOne
      <3> SUFFICES ASSUME MovesOne PROVE FALSE OBVIOUS
      <3>1. PICK x \in Deliveries, state \in DeliveryStates, why \in Failures :
               Move(x, state, why) /\ why # "confirmation-timeout"
        BY DEF MovesOne
      <3>2. delivery'[d] = [state |-> state, why |-> why] \/ delivery'[d] = delivery[d]
        BY <2>0, <3>1, MoveOneIs
      <3> QED BY <2>1, <2>2, <3>1, <3>2
    <2>7. ~CloseStale BY <2>3, <2>5, StatesAre DEF CloseStale
    <2>8. ~Observe
      <3>1. Observable \in SUBSET Deliveries BY <2>3 DEF Observable, Submitted
      <3> QED BY <2>5, <3>1, StatesAre DEF Observe
    <2>9. ~\E ds \in SUBSET InState({"none"}) : MoveAll(ds, "queued", None)
      BY <2>3, <2>5, StatesAre
    <2>10. FailOverdue BY <1>1, <2>0, <2>2, <2>6, <2>7, <2>8, <2>9, DeliveriesMove
    <2>11. pass = "deadline" /\ delivery[d].state = "submitted-unconfirmed"
      <3>1. PICK late \in Overdue : MoveAll(late, "failed", "confirmation-timeout")
        BY <2>10 DEF FailOverdue
      <3>2. late \in SUBSET Deliveries /\ late \subseteq InState({"submitted-unconfirmed"})
        BY <2>3 DEF Overdue
      <3>3. d \in late BY <2>0, <2>2, <3>1, <3>2, MoveIs, StatesAre
      <3> QED BY <2>10, <3>2, <3>3 DEF FailOverdue, InState
    <2> QED BY <1>1, <2>11 DEF IInv, EvidenceHeld
  <1>2. ASSUME IInv, UNCHANGED vars, NEW d \in Deliveries, Fails(d) PROVE FALSE
    BY <1>2 DEF vars, routing, Fails, IInv, EvidenceHeld
  <1>3. IInv /\ [Next]_vars => [\A d \in Deliveries : Fails(d) => evidence[d] # "confirmed"]_vars
    BY <1>1, <1>2
  <1> QED BY <1>3, Inductive, PTL DEF Spec, FreshEvidenceWinsUnlessRaced
=============================================================================
