------------------------- MODULE TerminalInputProofs -------------------------
(***************************************************************************)
(* Whoever types into the terminal is the one who may: one generation of   *)
(* the lease, one owner of the boundary, every notification and turn once, *)
(* and records that tell the truth about it: for any number of controllers,*)
(* notifications, turns, leases, writes and faults.                        *)
(***************************************************************************)
EXTENDS TerminalInput, TLAPS

Present == {"attached", "stale"}

(* The operation under way, and whom it is about.                           *)
Lanes ==
    {Idle} \cup [step : {"detach", "grant"}, who : Controllers]
    \cup [step : {"typeNotice", "confirm", "finish"}, who : Notices]
    \cup [step : {"typeTurn", "submit", "submitUnsure", "barrier"}, who : Turns]
    \cup [step : {"controlC"}, who : Turns \cup Plain]
In(step, who) == lane = [step |-> step, who |-> who]

NoticeType == [outcome : {"none", "unconfirmed", "confirmed"}, pos : Nat]
TurnType == [effect : Effects, barrier : Barriers, by : Nat, pos : Nat]
InputType == [source : {"write", "notice", "turn", "interrupt"},
              who : {None} \cup Notices \cup Turns \cup Plain, gen : Nat, pos : Nat]

Types ==
    /\ session \in {"live", "exited", "closed"}
    /\ lane \in Lanes
    /\ attachment \in [Controllers -> Attachments] /\ draft \subseteq Controllers
    /\ leases \in Seq(Controllers \cup {None})
    /\ reservation \in [Notices -> {"none", "reserved", "committed", "cancelled"}]
    /\ notice \in [Notices -> NoticeType]
    /\ turn \in [Turns -> TurnType]
    /\ activeTurn \in {None} \cup Turns \cup Plain
    /\ nextSeq \in Nat
    /\ typed \in Seq(InputType)
    /\ crossed \subseteq {"turn", "draft"}
    /\ faults \in 0 .. MaxFaults

(* The newest lease at most is active, its holder has not left, and nobody  *)
(* holds one while an operation that took it away is under way.             *)
LeasesOK ==
    /\ \A g \in ActiveLeases :
         g = Len(leases) /\ (session = "live" => attachment[leases[g]] \in Present)
    /\ \A c \in Controllers : In("detach", c) => attachment[c] \in Present /\ HeldBy(c) = {}
    /\ \A c \in Controllers : In("grant", c) => (session = "live" => attachment[c] \in Present)
    /\ lane.step \in {"grant", "barrier", "controlC"} => ActiveLeases = {}

(* What was typed for a notification agrees with its attempt and with the   *)
(* step its commit is at.                                                   *)
NoticeOK(n) ==
    /\ WasTyped("notice", n) => notice[n].outcome # "none"
    /\ reservation[n] = "cancelled" => notice[n].outcome = "none"
    /\ reservation[n] = "committed" => notice[n].outcome # "none"
    /\ notice[n].outcome = "confirmed" => WasTyped("notice", n)
    /\ In("typeNotice", n) =>
         notice[n].outcome = "unconfirmed" /\ ~WasTyped("notice", n) /\ reservation[n] = "reserved"
    /\ In("confirm", n) =>
         notice[n].outcome = "unconfirmed" /\ WasTyped("notice", n) /\ reservation[n] = "reserved"
    /\ In("finish", n) => notice[n].outcome # "none" /\ reservation[n] = "reserved"
NoticesOK == \A n \in Notices : NoticeOK(n)

(* The same of a provider turn.                                             *)
TurnOK(t) ==
    /\ WasTyped("turn", t) => turn[t].effect \in {"executing", "confirmed", "unconfirmed"}
    /\ turn[t].effect = "confirmed" => WasTyped("turn", t)
    /\ turn[t].effect = "executing" => turn[t].barrier = "reserved"
    /\ In("typeTurn", t) => turn[t].effect = "executing" /\ ~WasTyped("turn", t)
    /\ In("submit", t) => turn[t].effect = "executing" /\ WasTyped("turn", t)
    /\ In("submitUnsure", t) => turn[t].effect = "executing"
    /\ In("barrier", t) => turn[t].barrier = "active"
TurnsOK == \A t \in Turns : TurnOK(t)

(* A lease is granted while the boundary is free, and nobody but who is     *)
(* here has a draft.                                                        *)
BoundaryOK ==
    /\ At("grant") => BoundaryIsFree
    /\ \A c \in draft : attachment[c] \in Present
    /\ BoundaryHasOneOwnerUnlessCrossed

(* No generation typed is ahead of the leases, except an interrupt's, whose *)
(* next lease nobody has yet.                                               *)
GenerationsOK ==
    /\ \A i \in 1 .. Len(typed) : typed[i].source \in {"write", "interrupt"} =>
         \/ typed[i].gen <= Len(leases)
         \/ typed[i].gen = Len(leases) + 1 /\ ActiveLeases = {}
    /\ OldGenerationsAreFenced

IInv ==
    Types /\ LeasesOK /\ NoticesOK /\ TurnsOK /\ TypedOnce /\ BoundaryOK /\ GenerationsOK

-----------------------------------------------------------------------------
(* The steps, by what they are about.                                       *)

Visits ==
    \/ FinishDetach
    \/ \E c \in Controllers : Attach(c) \/ SetDraft(c) \/ MarkStale(c) \/ SeenAgain(c)
Handovers ==
    \/ Grant \/ (\E c \in Controllers : Detach(c) \/ Acquire(c))
    \/ (\E g \in 1 .. Len(leases) : Release(g) \/ Lapse(g))
    \/ \E x \in Turns \cup Plain : Interrupt(x)
Keystrokes ==
    \/ TypeNotice \/ TypeTurn \/ ControlC
    \/ \E c \in Controllers, g \in 1 .. Len(leases) : Write(c, g)
NoticeSteps ==
    \/ Confirm \/ FinishNotice
    \/ \E n \in Notices : Reserve(n) \/ CancelNotice(n) \/ AdoptNotice(n) \/ CommitNotice(n)
TurnSteps ==
    \/ TypeTurnWithoutProcess \/ Submit \/ CommitBarrier
    \/ \E t \in Turns :
         \/ \E by \in 0 .. Len(leases) : Prepare(t, by)
         \/ Execute(t) \/ ExecuteAgain(t) \/ CancelPrepared(t) \/ Settle(t) \/ CloseUnproven(t)
Surroundings ==
    \/ EndTurn \/ Abandon \/ Exit \/ Terminate \/ Crash
    \/ \E x \in Plain : BeginPlain(x)

(* These are all the steps there are.                                       *)
LEMMA Steps ==
    ASSUME Next
    PROVE  Visits \/ Handovers \/ Keystrokes \/ NoticeSteps \/ TurnSteps \/ Surroundings
  BY DEF Next, Visits, Handovers, Keystrokes, NoticeSteps, TurnSteps, Surroundings

(* Each moves a part of the state only.                                     *)
LEMMA Frames ==
    /\ Visits => UNCHANGED <<leases, claims, process, stream>>
    /\ Handovers => UNCHANGED <<people, claims, process, stream, crossed>>
    /\ Keystrokes => UNCHANGED <<session, people, leases, claims, crossed>>
    /\ NoticeSteps => UNCHANGED <<people, leases, turn, process, stream>>
    /\ TurnSteps => UNCHANGED <<session, people, leases, reservation, notice, stream>>
    /\ Surroundings => UNCHANGED <<leases, claims, stream, crossed>>
  <1> USE DEF claims, process, people, stream, history
  <1>1. Visits => UNCHANGED <<leases, claims, process, stream>>
    BY DEF Visits, FinishDetach, Attach, SetDraft, MarkStale, SeenAgain
  <1>2. Handovers => UNCHANGED <<people, claims, process, stream, crossed>>
    BY DEF Handovers, Grant, Detach, Acquire, Release, Lapse, Interrupt
  <1>3. Keystrokes => UNCHANGED <<session, people, leases, claims, crossed>>
    BY DEF Keystrokes, TypeNotice, TypeTurn, ControlC, Write, Fault
  <1>4. NoticeSteps => UNCHANGED <<people, leases, turn, process, stream>>
    BY DEF NoticeSteps, Confirm, FinishNotice, Reserve, CancelNotice, AdoptNotice, CommitNotice
  <1>5. TurnSteps => UNCHANGED <<session, people, leases, reservation, notice, stream>>
    BY DEF TurnSteps, TypeTurnWithoutProcess, Submit, CommitBarrier, Prepare, Execute, ExecuteAgain,
           CancelPrepared, Settle, CloseUnproven
  <1>6. Surroundings => UNCHANGED <<leases, claims, stream, crossed>>
    BY DEF Surroundings, EndTurn, Abandon, Exit, Terminate, Crash, BeginPlain, Fault
  <1> QED BY <1>1, <1>2, <1>3, <1>4, <1>5, <1>6

-----------------------------------------------------------------------------
(* How the operation under way comes about.                                 *)

(* A lane is read off its step.                                             *)
LEMMA LaneIs ==
    ASSUME lane \in Lanes
    PROVE  /\ At("detach") \/ At("grant") => lane.who \in Controllers
           /\ At("typeNotice") \/ At("confirm") \/ At("finish") => lane.who \in Notices
           /\ At("typeTurn") \/ At("submit") \/ At("submitUnsure") \/ At("barrier") =>
                lane.who \in Turns
           /\ At("controlC") => lane.who \in Turns \cup Plain
           /\ lane = [step |-> lane.step, who |-> lane.who]
  BY DEF Lanes, At, Idle

(* Where the lane goes.                                                     *)
LEMMA LaneMoves ==
    ASSUME Next, lane \in Lanes
    PROVE  \/ lane' = lane \/ lane' = Idle
           \/ \E c \in Controllers :
                \/ Detach(c) /\ lane' = [step |-> "detach", who |-> c]
                \/ Acquire(c) /\ lane' = [step |-> "grant", who |-> c]
           \/ \E n \in Notices :
                \/ CommitNotice(n) /\ lane' = [step |-> "typeNotice", who |-> n]
                \/ TypeNotice /\ In("typeNotice", n) /\ lane' = [step |-> "confirm", who |-> n]
                \/ TypeNotice /\ In("typeNotice", n) /\ lane' = [step |-> "finish", who |-> n]
                \/ Confirm /\ In("confirm", n) /\ lane' = [step |-> "finish", who |-> n]
           \/ \E t \in Turns :
                \/ Execute(t) /\ lane' = [step |-> "typeTurn", who |-> t]
                \/ TypeTurn /\ In("typeTurn", t) /\ lane' = [step |-> "submit", who |-> t]
                \/ TypeTurn /\ In("typeTurn", t) /\ lane' = [step |-> "submitUnsure", who |-> t]
                \/ Interrupt(t) /\ lane' = [step |-> "barrier", who |-> t]
                \/ CommitBarrier /\ In("barrier", t) /\ lane' = [step |-> "controlC", who |-> t]
           \/ \E x \in Plain : Interrupt(x) /\ lane' = [step |-> "controlC", who |-> x]
  <1> USE DEF Goto, Done
  <1>1. CASE Visits BY <1>1 DEF Visits, FinishDetach, Attach, SetDraft, MarkStale, SeenAgain, LoseDetach
  <1>2. CASE Handovers
    BY <1>2 DEF Handovers, Grant, Detach, Acquire, Release, Lapse, Interrupt
  <1>3. CASE Keystrokes
    BY <1>3, LaneIs DEF Keystrokes, TypeNotice, TypeTurn, ControlC, Write, In, At
  <1>4. CASE NoticeSteps
    BY <1>4, LaneIs DEF NoticeSteps, Confirm, FinishNotice, Reserve, CancelNotice, AdoptNotice,
                        CommitNotice, In, At
  <1>5. CASE TurnSteps
    <2>1. CASE CommitBarrier BY <2>1, LaneIs DEF CommitBarrier, In, At
    <2>2. CASE \E t \in Turns : Execute(t) BY <2>2 DEF Execute
    <2>3. CASE \E t \in Turns : Settle(t)
      BY <2>3 DEF Settle
    <2> QED BY <1>5, <2>1, <2>2, <2>3 DEF TurnSteps, TypeTurnWithoutProcess, Submit, Prepare, ExecuteAgain,
                                     CancelPrepared, CloseUnproven
  <1>6. CASE Surroundings
    BY <1>6 DEF Surroundings, EndTurn, Abandon, Exit, Terminate, Crash, BeginPlain
  <1> QED BY <1>1, <1>2, <1>3, <1>4, <1>5, <1>6, Steps

(* So what the lane is at, it was at before or has just begun.              *)
LEMMA LaneComesFrom ==
    ASSUME Next, lane \in Lanes
    PROVE  /\ lane' \in Lanes
           /\ \A c \in Controllers : In("detach", c)' => In("detach", c) \/ Detach(c)
           /\ \A c \in Controllers : In("grant", c)' => In("grant", c) \/ Acquire(c)
           /\ \A n \in Notices : In("typeNotice", n)' => In("typeNotice", n) \/ CommitNotice(n)
           /\ \A n \in Notices : In("confirm", n)' =>
                In("confirm", n) \/ (TypeNotice /\ In("typeNotice", n))
           /\ \A n \in Notices : In("finish", n)' =>
                \/ In("finish", n) \/ (TypeNotice /\ In("typeNotice", n))
                \/ (Confirm /\ In("confirm", n))
           /\ \A t \in Turns : In("typeTurn", t)' => In("typeTurn", t) \/ Execute(t)
           /\ \A t \in Turns : In("submit", t)' => In("submit", t) \/ (TypeTurn /\ In("typeTurn", t))
           /\ \A t \in Turns : In("submitUnsure", t)' =>
                In("submitUnsure", t) \/ (TypeTurn /\ In("typeTurn", t))
           /\ \A t \in Turns : In("barrier", t)' => In("barrier", t) \/ Interrupt(t)
  <1>a. \A step, who : In(step, who)' => lane'.step = step /\ lane'.who = who BY DEF In
  <1>b. \A step, who : In(step, who)' /\ lane' = lane => In(step, who) BY DEF In
  <1>c. \/ lane' = lane \/ lane'.step = "idle"
        \/ lane'.step = "detach" /\ Detach(lane'.who)
        \/ lane'.step = "grant" /\ Acquire(lane'.who)
        \/ lane'.step = "typeNotice" /\ CommitNotice(lane'.who)
        \/ lane'.step = "confirm" /\ TypeNotice /\ In("typeNotice", lane'.who)
        \/ lane'.step = "finish" /\ TypeNotice /\ In("typeNotice", lane'.who)
        \/ lane'.step = "finish" /\ Confirm /\ In("confirm", lane'.who)
        \/ lane'.step = "typeTurn" /\ Execute(lane'.who)
        \/ lane'.step = "submit" /\ TypeTurn /\ In("typeTurn", lane'.who)
        \/ lane'.step = "submitUnsure" /\ TypeTurn /\ In("typeTurn", lane'.who)
        \/ lane'.step = "barrier" /\ Interrupt(lane'.who)
        \/ lane'.step = "controlC"
    BY LaneMoves DEF Idle
  <1>1. lane' \in Lanes BY LaneMoves DEF Lanes
  <1>2. \A c \in Controllers : In("detach", c)' => In("detach", c) \/ Detach(c)
    BY <1>a, <1>b, <1>c
  <1>3. \A c \in Controllers : In("grant", c)' => In("grant", c) \/ Acquire(c)
    BY <1>a, <1>b, <1>c
  <1>4. \A n \in Notices : In("typeNotice", n)' => In("typeNotice", n) \/ CommitNotice(n)
    BY <1>a, <1>b, <1>c
  <1>5. \A n \in Notices : In("confirm", n)' => In("confirm", n) \/ (TypeNotice /\ In("typeNotice", n))
    BY <1>a, <1>b, <1>c
  <1>6. \A n \in Notices : In("finish", n)' =>
           \/ In("finish", n) \/ (TypeNotice /\ In("typeNotice", n)) \/ (Confirm /\ In("confirm", n))
    BY <1>a, <1>b, <1>c
  <1>7. \A t \in Turns : In("typeTurn", t)' => In("typeTurn", t) \/ Execute(t)
    BY <1>a, <1>b, <1>c
  <1>8. \A t \in Turns : In("submit", t)' => In("submit", t) \/ (TypeTurn /\ In("typeTurn", t))
    BY <1>a, <1>b, <1>c
  <1>9. \A t \in Turns : In("submitUnsure", t)' => In("submitUnsure", t) \/ (TypeTurn /\ In("typeTurn", t))
    BY <1>a, <1>b, <1>c
  <1>10. \A t \in Turns : In("barrier", t)' => In("barrier", t) \/ Interrupt(t)
    BY <1>a, <1>b, <1>c
  <1> QED BY <1>1, <1>2, <1>3, <1>4, <1>5, <1>6, <1>7, <1>8, <1>9, <1>10

-----------------------------------------------------------------------------
(* Types.                                                                   *)

(* Ending leases shortens no history and makes none active.                 *)
LEMMA EndIs ==
    ASSUME leases \in Seq(Controllers \cup {None}), NEW gs, leases' = End(gs)
    PROVE  /\ leases' \in Seq(Controllers \cup {None})
           /\ Len(leases') = Len(leases)
           /\ ActiveLeases' = ActiveLeases \ gs
           /\ \A g \in ActiveLeases' : leases'[g] = leases[g]
  <1>1. /\ Len(leases) \in Nat
        /\ \A g \in 1 .. Len(leases) : leases[g] \in Controllers \cup {None}
    OBVIOUS
  <1> DEFINE ended == [g \in 1 .. Len(leases) |-> IF g \in gs THEN None ELSE leases[g]]
  <1>2. leases' = ended BY DEF End
  <1>3. ended \in Seq(Controllers \cup {None}) /\ Len(ended) = Len(leases)
    BY <1>1
  <1>4. \A g \in 1 .. Len(leases) : ended[g] = IF g \in gs THEN None ELSE leases[g]
    OBVIOUS
  <1> HIDE DEF ended
  <1> QED BY <1>2, <1>3, <1>4 DEF ActiveLeases

(* A grant adds one lease at the end.                                       *)
LEMMA GrantIs ==
    ASSUME leases \in Seq(Controllers \cup {None}), NEW c \in Controllers,
           leases' = Append(leases, c)
    PROVE  /\ leases' \in Seq(Controllers \cup {None})
           /\ Len(leases') = Len(leases) + 1
           /\ ActiveLeases' = ActiveLeases \cup {Len(leases')}
           /\ leases'[Len(leases')] = c /\ \A g \in ActiveLeases : leases'[g] = leases[g]
  <1>1. Len(leases) \in Nat /\ c # None BY TerminalAssumption DEF TerminalAssumption
  <1>2. /\ leases' \in Seq(Controllers \cup {None})
        /\ Len(leases') = Len(leases) + 1 /\ leases'[Len(leases) + 1] = c
        /\ \A g \in 1 .. Len(leases) : leases'[g] = leases[g]
    OBVIOUS
  <1>3. 1 .. Len(leases') = (1 .. Len(leases)) \cup {Len(leases')} BY <1>1, <1>2
  <1> QED BY <1>1, <1>2, <1>3 DEF ActiveLeases

(* How the leases move.                                                     *)
LEMMA LeasesMove ==
    ASSUME Types, Next
    PROVE  \/ leases' = leases
           \/ \E gs : leases' = End(gs) /\ Handovers
           \/ \E c \in Controllers : Grant /\ In("grant", c) /\ leases' = Append(leases, c)
  <1>1. CASE Handovers
    <2>1. CASE Grant
      <3>1. At("grant") /\ leases' = Append(leases, lane.who) BY <2>1 DEF Grant
      <3> QED BY <2>1, <3>1, LaneIs DEF Types, In, At
    <2> QED BY <1>1, <2>1 DEF Handovers, Detach, Acquire, Release, Lapse, Interrupt
  <1> QED BY <1>1, Steps, Frames

(* The leases keep their type.                                              *)
LEMMA LeasesTyped ==
    ASSUME Types, Next
    PROVE  leases' \in Seq(Controllers \cup {None})
  <1>1. leases \in Seq(Controllers \cup {None}) BY DEF Types
  <1> QED BY <1>1, LeasesMove, EndIs, GrantIs

(* What is typed comes at the end.                                          *)
LEMMA Typing ==
    ASSUME typed \in Seq(InputType), NEW x \in InputType, typed' = Append(typed, x)
    PROVE  /\ typed' \in Seq(InputType)
           /\ Len(typed) \in Nat /\ Len(typed') = Len(typed) + 1 /\ typed'[Len(typed')] = x
           /\ 1 .. Len(typed') = (1 .. Len(typed)) \cup {Len(typed')}
           /\ \A i \in 1 .. Len(typed) : typed'[i] = typed[i]
           /\ \A source, y : WasTyped(source, y)' <=>
                WasTyped(source, y) \/ (x.source = source /\ x.who = y)
  <1>1. Len(typed) \in Nat OBVIOUS
  <1>2. /\ typed' \in Seq(InputType)
        /\ Len(typed') = Len(typed) + 1 /\ typed'[Len(typed) + 1] = x
        /\ \A i \in 1 .. Len(typed) : typed'[i] = typed[i]
    OBVIOUS
  <1>3. 1 .. Len(typed') = (1 .. Len(typed)) \cup {Len(typed')} BY <1>1, <1>2
  <1> HIDE DEF InputType
  <1> QED BY <1>1, <1>2, <1>3 DEF WasTyped

(* What a step types.                                                       *)
LEMMA TypedIs ==
    ASSUME Types, Next
    PROVE  \/ typed' = typed
           \/ \E g \in ActiveLeases :
                /\ typed' = Append(typed, Input("write", None, g, nextSeq))
                /\ Input("write", None, g, nextSeq) \in InputType
           \/ \E n \in Notices, pos \in Nat :
                /\ TypeNotice /\ In("typeNotice", n) /\ In("confirm", n)'
                /\ typed' = Append(typed, Input("notice", n, 0, pos))
                /\ Input("notice", n, 0, pos) \in InputType
           \/ \E t \in Turns, by \in Nat, pos \in Nat :
                /\ TypeTurn /\ In("typeTurn", t) /\ In("submit", t)'
                /\ typed' = Append(typed, Input("turn", t, by, pos))
                /\ Input("turn", t, by, pos) \in InputType
           \/ \E x \in Turns \cup Plain :
                /\ ControlC /\ typed' = Append(typed, Input("interrupt", x, Len(leases) + 1, 0))
                /\ Input("interrupt", x, Len(leases) + 1, 0) \in InputType
  <1>0. Len(leases) \in Nat /\ nextSeq \in Nat BY DEF Types
  <1>1. ASSUME NEW c \in Controllers, NEW g \in 1 .. Len(leases), Write(c, g)
        PROVE  /\ g \in ActiveLeases /\ typed' = Append(typed, Input("write", None, g, nextSeq))
               /\ Input("write", None, g, nextSeq) \in InputType
    BY <1>0, <1>1 DEF Write, HeldBy, ActiveLeases, Type, Input, InputType
  <1>2. ASSUME TypeNotice, typed' # typed
        PROVE  \E n \in Notices, pos \in Nat :
                 /\ In("typeNotice", n) /\ In("confirm", n)'
                 /\ typed' = Append(typed, Input("notice", n, 0, pos))
                 /\ Input("notice", n, 0, pos) \in InputType
    <2>0. lane.who \in Notices /\ In("typeNotice", lane.who) BY <1>2, LaneIs DEF TypeNotice, Types, In, At
    <2>1. PICK n \in Notices : n = lane.who /\ In("typeNotice", n) BY <2>0
    <2>2. notice[n].pos \in Nat BY <2>1 DEF Types, NoticeType
    <2>3. /\ typed' = Append(typed, Input("notice", n, 0, notice[n].pos))
          /\ lane' = [step |-> "confirm", who |-> n]
      BY <1>2, <2>1 DEF TypeNotice, Type, Goto
    <2>4. Input("notice", n, 0, notice[n].pos) \in InputType BY <2>1, <2>2 DEF Input, InputType
    <2>5. In("confirm", n)' BY <2>3 DEF In
    <2> QED BY <2>1, <2>2, <2>3, <2>4, <2>5
  <1>3. ASSUME TypeTurn, typed' # typed
        PROVE  \E t \in Turns, by \in Nat, pos \in Nat :
                 /\ In("typeTurn", t) /\ In("submit", t)'
                 /\ typed' = Append(typed, Input("turn", t, by, pos))
                 /\ Input("turn", t, by, pos) \in InputType
    <2>0. lane.who \in Turns /\ In("typeTurn", lane.who) BY <1>3, LaneIs DEF TypeTurn, Types, In, At
    <2>1. PICK t \in Turns : t = lane.who /\ In("typeTurn", t) BY <2>0
    <2>2. turn[t].by \in Nat /\ turn[t].pos \in Nat BY <2>1 DEF Types, TurnType
    <2>3. /\ typed' = Append(typed, Input("turn", t, turn[t].by, turn[t].pos))
          /\ lane' = [step |-> "submit", who |-> t]
      BY <1>3, <2>1 DEF TypeTurn, Type, Goto
    <2>4. Input("turn", t, turn[t].by, turn[t].pos) \in InputType
      BY <2>1, <2>2 DEF Input, InputType
    <2>5. In("submit", t)' BY <2>3 DEF In
    <2> QED BY <2>1, <2>2, <2>3, <2>4, <2>5
  <1>4. ASSUME ControlC
        PROVE  \E x \in Turns \cup Plain :
                 /\ typed' = Append(typed, Input("interrupt", x, Len(leases) + 1, 0))
                 /\ Input("interrupt", x, Len(leases) + 1, 0) \in InputType
    <2>1. lane.who \in Turns \cup Plain BY <1>4, LaneIs DEF ControlC, Types
    <2>2. typed' = Append(typed, Input("interrupt", lane.who, Len(leases) + 1, 0))
      BY <1>4 DEF ControlC, Type
    <2>3. Input("interrupt", lane.who, Len(leases) + 1, 0) \in InputType
      BY <1>0, <2>1 DEF Input, InputType
    <2> QED BY <2>1, <2>2, <2>3
  <1> QED BY <1>1, <1>2, <1>3, <1>4, Steps, Frames DEF Keystrokes, stream

(* Records of notifications and turns keep their types.                     *)
LEMMA ClaimsTyped ==
    ASSUME Types, Next
    PROVE  /\ reservation' \in [Notices -> {"none", "reserved", "committed", "cancelled"}]
           /\ notice' \in [Notices -> NoticeType]
           /\ turn' \in [Turns -> TurnType]
  <1>0. nextSeq \in Nat /\ Len(leases) \in Nat BY DEF Types
  <1>1. reservation' \in [Notices -> {"none", "reserved", "committed", "cancelled"}]
    <2>1. CASE NoticeSteps
      <3>1. At("finish") => lane.who \in Notices BY LaneIs DEF Types
      <3> QED BY <2>1, <3>1 DEF NoticeSteps, Confirm, FinishNotice, Reserve, CancelNotice, AdoptNotice,
                             CommitNotice, Types
    <2> QED BY <2>1, Steps, Frames DEF claims, Types
  <1>2. notice' \in [Notices -> NoticeType]
    <2>1. CASE NoticeSteps
      <3>1. CASE notice' = notice BY <3>1 DEF Types
      <3>2. ASSUME NEW n \in Notices, CommitNotice(n) PROVE notice' \in [Notices -> NoticeType]
        BY <1>0, <3>2 DEF CommitNotice, Types, NoticeType
      <3>3. CASE Confirm
        <4>1. PICK n \in Notices : n = lane.who BY <3>3, LaneIs DEF Confirm, Types
        <4>2. notice' \in {notice, [notice EXCEPT ![n].outcome = "confirmed"]}
          BY <3>3, <4>1 DEF Confirm
        <4> QED BY ZenonT(60), <4>2 DEF Types, NoticeType
      <3> QED BY <2>1, <3>1, <3>2, <3>3 DEF NoticeSteps, FinishNotice, Reserve, CancelNotice, AdoptNotice
    <2> QED BY <2>1, Steps, Frames DEF claims, Types
  <1>3. turn' \in [Turns -> TurnType]
    <2>0. ASSUME NEW t \in Turns, NEW effect \in Effects, NEW barrier \in Barriers,
                 SetTurn(t, effect, barrier)
          PROVE  turn' \in [Turns -> TurnType]
      BY <2>0 DEF SetTurn, Types, TurnType
    <2>1. {"prepared", "executing", "confirmed", "unconfirmed", "rejected"} \subseteq Effects
      BY DEF Effects
    <2>2. {"reserved", "active", "interrupted", "completed", "unproven", "released"} \subseteq Barriers
      BY DEF Barriers, OpenBarriers
    <2>3. CASE TurnSteps
      <3>1. At("typeTurn") \/ At("submit") \/ At("submitUnsure") \/ At("barrier") => lane.who \in Turns
        BY LaneIs DEF Types
      <3>2. ASSUME NEW t \in Turns, NEW by \in 0 .. Len(leases), Prepare(t, by)
            PROVE  turn' \in [Turns -> TurnType]
        BY <1>0, <2>1, <2>2, <3>2 DEF Prepare, Types, TurnType
      <3>3. ASSUME NEW t \in Turns, Execute(t) \/ ExecuteAgain(t) \/ CancelPrepared(t)
            PROVE  turn' \in [Turns -> TurnType]
        BY <2>0, <2>1, <2>2, <3>3 DEF Execute, ExecuteAgain, CancelPrepared
      <3>4. ASSUME NEW t \in Turns, Settle(t) \/ CloseUnproven(t)
            PROVE  turn' \in [Turns -> TurnType]
        <4>1. PICK barrier \in {"completed", "unproven"} : turn' = [turn EXCEPT ![t].barrier = barrier]
          BY <3>4 DEF Settle, CloseUnproven
        <4> QED BY <2>2, <4>1 DEF Types, TurnType
      <3>5. CASE CommitBarrier
        <4>1. PICK t \in Turns : t = lane.who BY <3>1, <3>5 DEF CommitBarrier
        <4>2. turn' = [turn EXCEPT ![t].barrier = "interrupted"] BY <3>5, <4>1 DEF CommitBarrier
        <4> QED BY <2>2, <4>2 DEF Types, TurnType
      <3>6. CASE TypeTurnWithoutProcess \/ Submit
        BY <2>0, <2>1, <2>2, <3>1, <3>6 DEF TypeTurnWithoutProcess, Submit, At
      <3> QED BY <2>3, <3>2, <3>3, <3>4, <3>5, <3>6 DEF TurnSteps
    <2> QED BY <2>3, Steps, Frames DEF claims, Types
  <1> QED BY <1>1, <1>2, <1>3

(* All of the state keeps its type.                                         *)
LEMMA TypesKept ==
    ASSUME Types, Next
    PROVE  Types'
  <1>0. nextSeq \in Nat /\ MaxFaults \in Nat BY TerminalAssumption DEF TerminalAssumption, Types
  <1>1. lane' \in Lanes BY LaneComesFrom DEF Types
  <1>2. attachment' \in [Controllers -> Attachments] /\ draft' \subseteq Controllers
    <2>1. CASE Visits
      <3>1. At("detach") => lane.who \in Controllers BY LaneIs DEF Types
      <3>2. {"attached", "stale", "detached"} \subseteq Attachments BY DEF Attachments
      <3> QED BY <2>1, <3>1, <3>2 DEF Visits, FinishDetach, Attach, SetDraft, MarkStale, SeenAgain, Types
    <2>2. CASE Surroundings
      <3>1. CASE Crash BY <3>1 DEF Crash, Types, Attachments
      <3> QED BY <2>2, <3>1 DEF Surroundings, EndTurn, Abandon, Exit, Terminate, BeginPlain, people, Types
    <2> QED BY <2>1, <2>2, Steps, Frames DEF people, Types
  <1>3. session' \in {"live", "exited", "closed"} /\ activeTurn' \in {None} \cup Turns \cup Plain
    <2>1. CASE Surroundings
      BY <2>1 DEF Surroundings, EndTurn, Abandon, Exit, Terminate, Crash, BeginPlain, process, Types
    <2>2. CASE Keystrokes
      <3>1. At("typeTurn") => lane.who \in Turns BY LaneIs DEF Types
      <3> QED BY <2>2, <3>1 DEF Keystrokes, TypeNotice, TypeTurn, ControlC, Write, process, Types
    <2>3. CASE TurnSteps
      BY <2>3 DEF TurnSteps, TypeTurnWithoutProcess, Submit, CommitBarrier, Prepare, Execute,
                  ExecuteAgain, CancelPrepared, Settle, CloseUnproven, process, Types
    <2> QED BY <2>1, <2>2, <2>3, Steps, Frames DEF process, Types
  <1>4. nextSeq' \in Nat
    <2>1. nextSeq' = nextSeq \/ nextSeq' = nextSeq + 1
      BY Steps, Frames DEF Keystrokes, TypeNotice, TypeTurn, ControlC, Write, stream
    <2> QED BY <1>0, <2>1
  <1>5. typed' \in Seq(InputType)
    <2>1. typed \in Seq(InputType) BY DEF Types
    <2> QED BY <2>1, Typing, TypedIs
  <1>6. crossed' \subseteq {"turn", "draft"}
    <2>1. CASE Visits
      BY <2>1 DEF Visits, FinishDetach, Attach, SetDraft, MarkStale, SeenAgain, history, Types
    <2>2. CASE NoticeSteps
      BY <2>2 DEF NoticeSteps, Confirm, FinishNotice, Reserve, CancelNotice, AdoptNotice, CommitNotice,
                  ClaimEnds, Fault, history, Types
    <2>3. CASE TurnSteps
      BY <2>3 DEF TurnSteps, TypeTurnWithoutProcess, Submit, CommitBarrier, Prepare, Execute,
                  ExecuteAgain, CancelPrepared, Settle, CloseUnproven, ClaimEnds, history, Types
    <2> QED BY <2>1, <2>2, <2>3, Steps, Frames DEF Types
  <1>7. faults' \in 0 .. MaxFaults
    <2>1. CASE faults' = faults BY <2>1 DEF Types
    <2>2. CASE Fault BY <1>0, <2>2 DEF Fault, MayFail, Types
    <2>3. Visits \/ Handovers => faults' = faults
      BY DEF Visits, FinishDetach, Attach, SetDraft, MarkStale, SeenAgain, Handovers, Grant, Detach,
             Acquire, Release, Lapse, Interrupt, history
    <2>4. Keystrokes \/ Surroundings => faults' = faults \/ Fault
      BY DEF Keystrokes, TypeNotice, TypeTurn, ControlC, Write, Surroundings, EndTurn, Abandon, Exit,
             Terminate, Crash, BeginPlain, history
    <2>5. NoticeSteps => faults' = faults \/ Fault
      BY DEF NoticeSteps, Confirm, FinishNotice, Reserve, CancelNotice, AdoptNotice, CommitNotice,
             ClaimEnds, history
    <2>6. TurnSteps => faults' = faults
      BY DEF TurnSteps, TypeTurnWithoutProcess, Submit, CommitBarrier, Prepare, Execute, ExecuteAgain,
             CancelPrepared, Settle, CloseUnproven, ClaimEnds, history
    <2> QED BY <2>1, <2>2, <2>3, <2>4, <2>5, <2>6, Steps
  <1> QED BY <1>1, <1>2, <1>3, <1>4, <1>5, <1>6, <1>7, LeasesTyped, ClaimsTyped DEF Types

-----------------------------------------------------------------------------
(* One generation of the lease.                                             *)

(* Who is here stays while the session is live, unless his own detach ends. *)
LEMMA PresentStays ==
    ASSUME Types, Next, session' = "live", NEW c \in Controllers, attachment[c] \in Present,
           ~In("detach", c)
    PROVE  session = "live" /\ attachment'[c] \in Present
  <1>0. attachment \in [Controllers -> Attachments] BY DEF Types
  <1>1. CASE Visits
    <2>1. session' = session BY <1>1, Frames DEF process
    <2>2. CASE FinishDetach
      <3>1. lane.who # c BY <2>2, LaneIs DEF FinishDetach, At, In, Types
      <3> QED BY <1>0, <2>1, <2>2, <3>1 DEF FinishDetach
    <2> QED BY <1>0, <1>1, <2>1, <2>2 DEF Visits, Attach, SetDraft, MarkStale, SeenAgain, Present
  <1>2. CASE Surroundings
    BY <1>2 DEF Surroundings, EndTurn, Abandon, Exit, Terminate, Crash, BeginPlain, people, process
  <1> QED BY <1>1, <1>2, Steps, Frames DEF people, process

(* No step leaves an older lease active, nor one whose holder has left.     *)
LEMMA LeasesOKKept ==
    ASSUME Types, LeasesOK, Next
    PROVE  LeasesOK'
  <1>0. /\ leases \in Seq(Controllers \cup {None}) /\ lane \in Lanes /\ Types'
        /\ Len(leases) \in Nat
    BY TypesKept DEF Types
  <1>1. ASSUME NEW g \in ActiveLeases'
        PROVE  g = Len(leases') /\ (session' = "live" => attachment'[leases'[g]] \in Present)
    <2>1. ASSUME g \in ActiveLeases, leases'[g] = leases[g], Len(leases') = Len(leases),
                 session' = "live"
          PROVE  attachment'[leases'[g]] \in Present
      <3>1. leases[g] \in Controllers BY <1>0, <2>1 DEF ActiveLeases
      <3>2. ~In("detach", leases[g]) BY <2>1, <3>1 DEF LeasesOK, HeldBy
      <3>3. session = "live" \/ session' # "live"
        BY Steps, Frames DEF Surroundings, EndTurn, Abandon, Exit, Terminate, Crash, BeginPlain, process,
                             NoticeSteps
      <3>4. attachment[leases[g]] \in Present BY <2>1, <3>3 DEF LeasesOK
      <3> QED BY <2>1, <3>1, <3>2, <3>4, PresentStays
    <2>2. CASE leases' = leases
      <3>1. g \in ActiveLeases BY <1>1, <2>2 DEF ActiveLeases
      <3> QED BY <2>1, <2>2, <3>1 DEF LeasesOK
    <2>3. CASE \E gs : leases' = End(gs)
      <3>1. /\ g \in ActiveLeases /\ leases'[g] = leases[g] /\ Len(leases') = Len(leases)
        BY <1>0, <1>1, <2>3, EndIs
      <3> QED BY <2>1, <3>1 DEF LeasesOK
    <2>4. ASSUME NEW c \in Controllers, Grant, In("grant", c), leases' = Append(leases, c)
          PROVE  g = Len(leases') /\ (session' = "live" => attachment'[leases'[g]] \in Present)
      <3>1. ActiveLeases = {} BY <2>4 DEF LeasesOK, Grant, At
      <3>2. g = Len(leases') /\ leases'[g] = c BY <1>0, <1>1, <2>4, <3>1, GrantIs
      <3>3. session' = session /\ attachment' = attachment BY <2>4 DEF Grant, people, process
      <3> QED BY <2>4, <3>2, <3>3 DEF LeasesOK
    <2> QED BY <2>2, <2>3, <2>4, LeasesMove
  <1>2. ASSUME NEW c \in Controllers, In("detach", c)'
        PROVE  attachment'[c] \in Present /\ HeldBy(c)' = {}
    <2>1. CASE Detach(c)
      <3>1. leases' = End(HeldBy(c)) /\ attachment' = attachment /\ attachment[c] \in Present
        BY <2>1 DEF Detach, people, Present
      <3>2. ActiveLeases' = ActiveLeases \ HeldBy(c) /\ \A g \in ActiveLeases' : leases'[g] = leases[g]
        BY <1>0, <3>1, EndIs
      <3> QED BY <3>1, <3>2 DEF HeldBy
    <2>2. CASE In("detach", c)
      <3>1. attachment[c] \in Present /\ HeldBy(c) = {} /\ lane' = lane /\ At("detach")
        BY <1>2, <2>2 DEF LeasesOK, In, At
      <3>2. ~Crash /\ ~FinishDetach BY <3>1 DEF Crash, FinishDetach, Done, Idle, At
      <3>3. attachment'[c] \in Present
        <4>1. CASE Visits
          <5>1. ASSUME NEW x \in Controllers, MarkStale(x) \/ SeenAgain(x)
                PROVE  attachment'[c] = attachment[c]
            <6>1. x # c
              <7>1. LoseDetach(x) /\ lane' # Idle
                BY <2>2, <3>1, <5>1 DEF MarkStale, SeenAgain, In, Idle
              <7> QED BY <2>2, <7>1 DEF LoseDetach, In
            <6> QED BY <5>1, <6>1 DEF MarkStale, SeenAgain, Types
          <5>2. ~Free BY <3>1 DEF Free, Idle, At
          <5> QED BY <3>1, <3>2, <4>1, <5>1, <5>2 DEF Visits, Attach, SetDraft
        <4>2. CASE Surroundings
          BY <3>1, <3>2, <4>2 DEF Surroundings, EndTurn, Abandon, Exit, Terminate, BeginPlain, people
        <4> QED BY <3>1, <4>1, <4>2, Steps, Frames DEF people
      <3>4. leases' = leases \/ \E gs : leases' = End(gs)
        BY <3>1, LeasesMove DEF Grant, At
      <3>5. HeldBy(c)' = {}
        <4>1. CASE leases' = leases BY <3>1, <4>1 DEF HeldBy, ActiveLeases
        <4>2. CASE \E gs : leases' = End(gs)
          <5>1. ActiveLeases' \subseteq ActiveLeases /\ \A g \in ActiveLeases' : leases'[g] = leases[g]
            BY <1>0, <4>2, EndIs
          <5> QED BY <3>1, <5>1 DEF HeldBy
        <4> QED BY <3>4, <4>1, <4>2
      <3> QED BY <3>3, <3>5
    <2> QED BY <1>0, <1>2, <2>1, <2>2, LaneComesFrom
  <1>3. ASSUME NEW c \in Controllers, In("grant", c)', session' = "live"
        PROVE  attachment'[c] \in Present
    <2>1. CASE Acquire(c) BY <2>1 DEF Acquire, people, Present
    <2>2. CASE In("grant", c)
      <3>1. ~In("detach", c) BY <2>2 DEF In
      <3>2. session = "live" \/ session' # "live"
        BY Steps, Frames DEF Surroundings, EndTurn, Abandon, Exit, Terminate, Crash, BeginPlain, process,
                             NoticeSteps
      <3>3. attachment[c] \in Present BY <1>3, <2>2, <3>2 DEF LeasesOK
      <3> QED BY <1>3, <3>1, <3>3, PresentStays
    <2> QED BY <1>0, <1>3, <2>1, <2>2, LaneComesFrom
  <1>4. ASSUME lane'.step \in {"grant", "barrier", "controlC"} PROVE ActiveLeases' = {}
    <2>1. ASSUME NEW c \in Controllers, Acquire(c) PROVE ActiveLeases' = {}
      <3>1. leases' = End(ActiveLeases) BY <2>1 DEF Acquire, Revocable
      <3> QED BY <1>0, <3>1, EndIs
    <2>2. ASSUME NEW x \in Turns \cup Plain, Interrupt(x) PROVE ActiveLeases' = {}
      <3>1. leases' = End(ActiveLeases) BY <2>2 DEF Interrupt, Fenced
      <3> QED BY <1>0, <3>1, EndIs
    <2>3. ASSUME lane.step \in {"grant", "barrier", "controlC"}, ~Grant
          PROVE  ActiveLeases' = {}
      <3>1. ActiveLeases = {} BY <2>3 DEF LeasesOK
      <3>2. CASE leases' = leases BY <3>1, <3>2 DEF ActiveLeases
      <3>3. CASE \E gs : leases' = End(gs) BY <1>0, <3>1, <3>3, EndIs
      <3> QED BY <2>3, <3>2, <3>3, LeasesMove
    <2>4. Grant => lane' = Idle BY DEF Grant, Done
    <2>5. \/ lane' = lane \/ (\E c \in Controllers : Acquire(c)) \/ (CommitBarrier /\ At("barrier"))
          \/ \E x \in Turns \cup Plain : Interrupt(x)
      BY <1>0, <1>4, LaneMoves DEF Idle, CommitBarrier
    <2>6. CommitBarrier => ~Grant BY DEF CommitBarrier, Grant, At
    <2> QED BY <1>4, <2>1, <2>2, <2>3, <2>4, <2>5, <2>6 DEF Idle, At
  <1> QED BY <1>1, <1>2, <1>3, <1>4 DEF LeasesOK, At

-----------------------------------------------------------------------------
(* What was typed and what is recorded of it.                               *)

(* Only TypeNotice types a notification, and only TypeTurn a turn.          *)
LEMMA TypedOf ==
    ASSUME Types, Next
    PROVE  /\ \A n \in Notices : WasTyped("notice", n)' <=>
                WasTyped("notice", n) \/ (TypeNotice /\ In("typeNotice", n) /\ In("confirm", n)')
           /\ \A t \in Turns : WasTyped("turn", t)' <=>
                WasTyped("turn", t) \/ (TypeTurn /\ In("typeTurn", t) /\ In("submit", t)')
  <1>0. typed \in Seq(InputType) BY DEF Types
  <1>1. CASE typed' = typed
    <2>1. \A source, x : WasTyped(source, x)' <=> WasTyped(source, x) BY <1>1 DEF WasTyped
    <2>2. ASSUME NEW n \in Notices, TypeNotice, In("confirm", n)', In("typeNotice", n) PROVE FALSE
      <3>1. typed' = Append(typed, Input("notice", lane.who, 0, notice[lane.who].pos))
        BY <2>2 DEF TypeNotice, Goto, In, Type
      <3> QED BY <1>0, <1>1, <3>1
    <2>3. ASSUME NEW t \in Turns, TypeTurn, In("submit", t)', In("typeTurn", t) PROVE FALSE
      <3>1. typed' = Append(typed, Input("turn", lane.who, turn[lane.who].by, turn[lane.who].pos))
        BY <2>3 DEF TypeTurn, Goto, In, Type
      <3> QED BY <1>0, <1>1, <3>1
    <2> QED BY <2>1, <2>2, <2>3
  <1>2. ASSUME NEW x \in InputType, typed' = Append(typed, x), x.source \notin {"notice", "turn"},
               ~TypeNotice, ~TypeTurn
        PROVE  /\ \A n \in Notices : WasTyped("notice", n)' <=> WasTyped("notice", n)
               /\ \A t \in Turns : WasTyped("turn", t)' <=> WasTyped("turn", t)
    BY <1>0, <1>2, Typing
  <1>3. ASSUME NEW m \in Notices, NEW pos \in Nat, TypeNotice, In("typeNotice", m), In("confirm", m)',
               typed' = Append(typed, Input("notice", m, 0, pos)),
               Input("notice", m, 0, pos) \in InputType
        PROVE  /\ \A n \in Notices : WasTyped("notice", n)' <=> WasTyped("notice", n) \/ n = m
               /\ \A n \in Notices : In("typeNotice", n) => n = m
               /\ \A t \in Turns : WasTyped("turn", t)' <=> WasTyped("turn", t)
               /\ ~TypeTurn
    BY <1>0, <1>3, Typing DEF Input, In, TypeTurn, At
  <1>4. ASSUME NEW u \in Turns, NEW by \in Nat, NEW pos \in Nat, TypeTurn, In("typeTurn", u), In("submit", u)',
               typed' = Append(typed, Input("turn", u, by, pos)),
               Input("turn", u, by, pos) \in InputType
        PROVE  /\ \A t \in Turns : WasTyped("turn", t)' <=> WasTyped("turn", t) \/ t = u
               /\ \A t \in Turns : In("typeTurn", t) => t = u
               /\ \A n \in Notices : WasTyped("notice", n)' <=> WasTyped("notice", n)
               /\ ~TypeNotice
    BY <1>0, <1>4, Typing DEF Input, In, TypeNotice, At
  <1>5. \A g : Input("write", None, g, nextSeq).source = "write" BY DEF Input
  <1>6. \A x : Input("interrupt", x, Len(leases) + 1, 0).source = "interrupt" BY DEF Input
  <1>7. ControlC => ~TypeNotice /\ ~TypeTurn BY DEF ControlC, TypeNotice, TypeTurn, At
  <1>8. ASSUME TypeNotice, typed' # typed
        PROVE  typed' = Append(typed, Input("notice", lane.who, 0, notice[lane.who].pos))
    BY <1>8 DEF TypeNotice, Type
  <1>9. ASSUME TypeTurn, typed' # typed
        PROVE  typed' = Append(typed, Input("turn", lane.who, turn[lane.who].by, turn[lane.who].pos))
    BY <1>9 DEF TypeTurn, Type
  <1>10. ASSUME NEW x, NEW y, typed' = Append(typed, x), typed' = Append(typed, y)
         PROVE  x = y
    <2>1. Append(typed, x)[Len(typed) + 1] = x /\ Append(typed, y)[Len(typed) + 1] = y
      BY <1>0
    <2> QED BY <1>10, <2>1
  <1>11. ASSUME NEW g \in ActiveLeases, typed' = Append(typed, Input("write", None, g, nextSeq)),
                Input("write", None, g, nextSeq) \in InputType
         PROVE  /\ \A n \in Notices : WasTyped("notice", n)' <=> WasTyped("notice", n)
                /\ \A t \in Turns : WasTyped("turn", t)' <=> WasTyped("turn", t)
                /\ ~TypeNotice /\ ~TypeTurn
    <2>1. typed' # typed BY <1>0, <1>11
    <2>2. ~TypeNotice /\ ~TypeTurn
      BY <1>5, <1>8, <1>9, <1>10, <1>11, <2>1 DEF Input
    <2> QED BY <1>2, <1>5, <1>11, <2>2
  <1>12. ASSUME NEW x \in Turns \cup Plain, ControlC,
                typed' = Append(typed, Input("interrupt", x, Len(leases) + 1, 0)),
                Input("interrupt", x, Len(leases) + 1, 0) \in InputType
         PROVE  /\ \A n \in Notices : WasTyped("notice", n)' <=> WasTyped("notice", n)
                /\ \A t \in Turns : WasTyped("turn", t)' <=> WasTyped("turn", t)
                /\ ~TypeNotice /\ ~TypeTurn
    BY <1>2, <1>6, <1>7, <1>12
  <1>13. CASE \E g \in ActiveLeases : typed' = Append(typed, Input("write", None, g, nextSeq))
                                    /\ Input("write", None, g, nextSeq) \in InputType
    BY <1>11, <1>13
  <1>14. CASE \E x \in Turns \cup Plain :
                /\ ControlC /\ typed' = Append(typed, Input("interrupt", x, Len(leases) + 1, 0))
                /\ Input("interrupt", x, Len(leases) + 1, 0) \in InputType
    BY <1>12, <1>14
  <1>15. CASE \E n \in Notices, pos \in Nat :
                /\ TypeNotice /\ In("typeNotice", n) /\ In("confirm", n)'
                /\ typed' = Append(typed, Input("notice", n, 0, pos))
                /\ Input("notice", n, 0, pos) \in InputType
    <2>1. PICK m \in Notices, pos \in Nat :
                /\ TypeNotice /\ In("typeNotice", m) /\ In("confirm", m)'
                /\ typed' = Append(typed, Input("notice", m, 0, pos))
                /\ Input("notice", m, 0, pos) \in InputType
      BY <1>15
    <2> QED BY <1>3, <2>1
  <1>16. CASE \E t \in Turns, by \in Nat, pos \in Nat :
                /\ TypeTurn /\ In("typeTurn", t) /\ In("submit", t)'
                /\ typed' = Append(typed, Input("turn", t, by, pos))
                /\ Input("turn", t, by, pos) \in InputType
    <2>1. PICK u \in Turns, by \in Nat, pos \in Nat :
                /\ TypeTurn /\ In("typeTurn", u) /\ In("submit", u)'
                /\ typed' = Append(typed, Input("turn", u, by, pos))
                /\ Input("turn", u, by, pos) \in InputType
      BY <1>16
    <2> QED BY <1>4, <2>1
  <1> QED BY <1>1, <1>13, <1>14, <1>15, <1>16, TypedIs

(* How a notification moves.                                                *)
LEMMA NoticeMoves ==
    ASSUME Types, Next, NEW n \in Notices
    PROVE  \/ notice'[n] = notice[n] /\ reservation'[n] = reservation[n]
           \/ Free /\ lane' = lane /\ notice'[n] = notice[n] /\ reservation'[n] = "reserved"
           \/ /\ Free /\ lane' = lane /\ notice'[n] = notice[n] /\ reservation'[n] = "cancelled"
              /\ notice[n].outcome = "none"
           \/ /\ Free /\ lane' = lane /\ notice'[n] = notice[n] /\ reservation'[n] = "committed"
              /\ notice[n].outcome # "none"
           \/ CommitNotice(n)
           \/ /\ In("confirm", n) /\ In("finish", n)' /\ reservation'[n] = reservation[n]
              /\ notice'[n].outcome \in {notice[n].outcome, "confirmed"}
           \/ /\ In("finish", n) /\ lane' = Idle /\ notice'[n] = notice[n]
              /\ reservation'[n] = "committed"
  <1>0. /\ reservation \in [Notices -> {"none", "reserved", "committed", "cancelled"}]
        /\ notice \in [Notices -> NoticeType] /\ lane \in Lanes
    BY DEF Types
  <1>1. CASE notice' = notice /\ reservation' = reservation BY <1>1
  <1>2. ASSUME NEW m \in Notices, Reserve(m)
        PROVE  /\ Free /\ lane' = lane /\ notice' = notice
               /\ reservation' = [reservation EXCEPT ![m] = "reserved"]
    BY <1>2 DEF Reserve
  <1>3. ASSUME NEW m \in Notices, CancelNotice(m)
        PROVE  /\ Free /\ lane' = lane /\ notice' = notice /\ notice[m].outcome = "none"
               /\ reservation' = [reservation EXCEPT ![m] = "cancelled"]
    BY <1>3 DEF CancelNotice, MayCancel
  <1>4. ASSUME NEW m \in Notices, AdoptNotice(m)
        PROVE  /\ Free /\ lane' = lane /\ notice' = notice /\ notice[m].outcome # "none"
               /\ reservation' = [reservation EXCEPT ![m] = "committed"]
    BY <1>4 DEF AdoptNotice, HasAttempt
  <1>5. ASSUME NEW m \in Notices, CommitNotice(m), m # n
        PROVE  notice'[n] = notice[n] /\ reservation'[n] = reservation[n]
    BY <1>0, <1>5 DEF CommitNotice
  <1>6. CASE Confirm
    <2>1. PICK m \in Notices : m = lane.who /\ In("confirm", m)
      BY <1>0, <1>6, LaneIs DEF Confirm, In, At
    <2>2. /\ notice' \in {notice, [notice EXCEPT ![m].outcome = "confirmed"]}
          /\ reservation' = reservation /\ lane' = [step |-> "finish", who |-> m]
      BY <1>6, <2>1 DEF Confirm, Goto
    <2>3. In("finish", m)' BY <2>2 DEF In
    <2>4. CASE m = n
      <3>1. notice'[n].outcome \in {notice[n].outcome, "confirmed"} BY <1>0, <2>2, <2>4 DEF NoticeType
      <3> QED BY <2>1, <2>2, <2>3, <2>4, <3>1
    <2>5. CASE m # n BY <1>0, <2>2, <2>5
    <2> QED BY <2>4, <2>5
  <1>7. CASE FinishNotice
    <2>1. PICK m \in Notices : m = lane.who /\ In("finish", m)
      BY <1>0, <1>7, LaneIs DEF FinishNotice, In, At
    <2>2. /\ notice' = notice /\ lane' = Idle
          /\ reservation' = [reservation EXCEPT ![m] = "committed"]
      BY <1>7, <2>1 DEF FinishNotice, Done
    <2> QED BY <1>0, <2>1, <2>2
  <1>8. ~NoticeSteps => notice' = notice /\ reservation' = reservation
    BY Steps, Frames DEF claims
  <1> QED BY <1>0, <1>1, <1>2, <1>3, <1>4, <1>5, <1>6, <1>7, <1>8 DEF NoticeSteps

(* No step parts a notification from what was typed for it.                 *)
LEMMA NoticesOKKept ==
    ASSUME Types, NoticesOK, Next
    PROVE  NoticesOK'
  <1> SUFFICES ASSUME NEW n \in Notices PROVE NoticeOK(n)'
    BY DEF NoticesOK
  <1>0. lane \in Lanes /\ NoticeOK(n) BY DEF Types, NoticesOK
  <1>1. \A step : Free /\ lane' = lane /\ In(step, n)' => step = "idle"
    BY DEF Free, In, Idle
  <1>2. CASE CommitNotice(n)
    <2>1. /\ Free /\ notice[n].outcome = "none" /\ reservation[n] = "reserved"
          /\ reservation' = reservation /\ lane' = [step |-> "typeNotice", who |-> n]
          /\ notice' = [notice EXCEPT ![n] = [outcome |-> "unconfirmed", pos |-> nextSeq]]
      BY <1>2 DEF CommitNotice, HasAttempt, Goto
    <2>2. notice'[n].outcome = "unconfirmed" BY <2>1 DEF Types
    <2>3. ~In("confirm", n)' /\ ~In("finish", n)' BY <2>1 DEF In
    <2>4. ~WasTyped("notice", n) /\ ~WasTyped("notice", n)'
      <3>1. ~TypeNotice BY <2>1 DEF TypeNotice, Free, At, Idle
      <3> QED BY <1>0, <2>1, <3>1, TypedOf DEF NoticeOK
    <2> QED BY <2>1, <2>2, <2>3, <2>4 DEF NoticeOK
  <1>3. CASE notice'[n] = notice[n] /\ reservation'[n] = reservation[n] /\ ~CommitNotice(n)
    <2>1. WasTyped("notice", n)' => notice'[n].outcome # "none"
      BY <1>0, <1>3, TypedOf DEF NoticeOK
    <2>2. notice'[n].outcome = "confirmed" => WasTyped("notice", n)'
      BY <1>0, <1>3, TypedOf DEF NoticeOK
    <2>3. In("typeNotice", n)' =>
            /\ notice'[n].outcome = "unconfirmed" /\ ~WasTyped("notice", n)'
            /\ reservation'[n] = "reserved"
      <3>1. In("typeNotice", n)' => In("typeNotice", n) /\ ~In("confirm", n)'
        BY <1>0, <1>3, LaneComesFrom DEF In
      <3> QED BY <1>0, <1>3, <3>1, TypedOf DEF NoticeOK
    <2>4. In("confirm", n)' =>
            /\ notice'[n].outcome = "unconfirmed" /\ WasTyped("notice", n)'
            /\ reservation'[n] = "reserved"
      BY <1>0, <1>3, TypedOf, LaneComesFrom DEF NoticeOK
    <2>5. In("finish", n)' => notice'[n].outcome # "none" /\ reservation'[n] = "reserved"
      <3>1. In("finish", n)' => In("finish", n) \/ In("typeNotice", n) \/ In("confirm", n)
        BY <1>0, LaneComesFrom
      <3> QED BY <1>0, <1>3, <3>1 DEF NoticeOK
    <2> QED BY <1>0, <1>3, <2>1, <2>2, <2>3, <2>4, <2>5 DEF NoticeOK
  <1>4. CASE /\ Free /\ lane' = lane /\ notice'[n] = notice[n]
             /\ \/ reservation'[n] = "reserved"
                \/ reservation'[n] = "cancelled" /\ notice[n].outcome = "none"
                \/ reservation'[n] = "committed" /\ notice[n].outcome # "none"
    <2>1. WasTyped("notice", n)' <=> WasTyped("notice", n)
      <3>1. ~TypeNotice BY <1>4 DEF TypeNotice, Free, At, Idle
      <3> QED BY <3>1, TypedOf
    <2>2. ~In("typeNotice", n)' /\ ~In("confirm", n)' /\ ~In("finish", n)' BY <1>1, <1>4
    <2> QED BY <1>0, <1>4, <2>1, <2>2 DEF NoticeOK
  <1>5. CASE /\ In("confirm", n) /\ In("finish", n)' /\ reservation'[n] = reservation[n]
             /\ notice'[n].outcome \in {notice[n].outcome, "confirmed"}
    <2>1. WasTyped("notice", n) /\ WasTyped("notice", n)' BY <1>0, <1>5, TypedOf DEF NoticeOK
    <2>2. ~In("typeNotice", n)' /\ ~In("confirm", n)' BY <1>5 DEF In
    <2> QED BY <1>0, <1>5, <2>1, <2>2 DEF NoticeOK
  <1>6. CASE /\ In("finish", n) /\ lane' = Idle /\ notice'[n] = notice[n]
             /\ reservation'[n] = "committed"
    <2>1. ~In("typeNotice", n)' /\ ~In("confirm", n)' /\ ~In("finish", n)'
      BY <1>6 DEF In, Idle
    <2>2. WasTyped("notice", n)' <=> WasTyped("notice", n) BY <2>1, TypedOf
    <2> QED BY <1>0, <1>6, <2>1, <2>2 DEF NoticeOK
  <1> QED BY <1>2, <1>3, <1>4, <1>5, <1>6, NoticeMoves

(* How a provider turn moves.                                               *)
LEMMA TurnMoves ==
    ASSUME Types, Next, NEW t \in Turns
    PROVE  \/ turn'[t] = turn[t]
           \/ /\ \E by \in 0 .. Len(leases) : Prepare(t, by) /\ turn'[t].by = by
              /\ Free /\ lane' = lane /\ turn[t].effect = "none"
              /\ turn'[t].effect = "prepared" /\ turn'[t].barrier = "reserved"
           \/ /\ turn'[t].by = turn[t].by
              /\ \/ /\ Free /\ In("typeTurn", t)' /\ turn[t].effect = "prepared"
                    /\ turn[t].barrier = "reserved"
                    /\ turn'[t].effect = "executing" /\ turn'[t].barrier = "reserved"
                 \/ /\ Free /\ lane' = lane /\ turn[t].effect = "executing"
                    /\ turn'[t].effect = "unconfirmed" /\ turn'[t].barrier = "active"
                 \/ /\ Free /\ lane' = lane /\ turn[t].effect = "prepared"
                    /\ turn'[t].effect = "rejected" /\ turn'[t].barrier = "released"
                 \/ /\ Free /\ lane' = lane /\ turn[t].barrier \in {"active", "interrupted"}
                    /\ turn'[t].effect = turn[t].effect /\ turn'[t].barrier \in {"completed", "unproven"}
                 \/ /\ In("typeTurn", t) \/ In("submitUnsure", t)
                    /\ lane' = Idle
                    /\ turn'[t].effect = "unconfirmed" /\ turn'[t].barrier = "active"
                 \/ /\ In("submit", t) /\ lane' = Idle
                    /\ turn'[t].effect = "confirmed" /\ turn'[t].barrier = "active"
                 \/ /\ In("barrier", t) /\ In("controlC", t)'
                    /\ turn'[t].effect = turn[t].effect /\ turn'[t].barrier = "interrupted"
  <1>0. turn \in [Turns -> TurnType] /\ lane \in Lanes BY DEF Types
  <1>1. CASE turn' = turn BY <1>1
  <1>2. ASSUME NEW u \in Turns, NEW r, turn' = [turn EXCEPT ![u] = r]
        PROVE  turn'[t] = IF t = u THEN r ELSE turn[t]
    BY <1>0, <1>2
  <1>3. ASSUME NEW u \in Turns, NEW e, NEW b, SetTurn(u, e, b)
        PROVE  /\ t # u => turn'[t] = turn[t]
               /\ t = u => turn'[t].effect = e /\ turn'[t].barrier = b /\ turn'[t].by = turn[t].by
    BY <1>0, <1>3 DEF SetTurn, TurnType
  <1>4. ASSUME NEW u \in Turns, NEW b, turn' = [turn EXCEPT ![u].barrier = b]
        PROVE  /\ t # u => turn'[t] = turn[t]
               /\ t = u => /\ turn'[t].effect = turn[t].effect /\ turn'[t].barrier = b
                           /\ turn'[t].by = turn[t].by
    BY <1>0, <1>4 DEF TurnType
  <1>5. ASSUME NEW u \in Turns, NEW by \in 0 .. Len(leases), Prepare(u, by)
        PROVE  \/ turn'[t] = turn[t]
               \/ /\ t = u /\ turn'[t].by = by /\ Free /\ lane' = lane /\ turn[t].effect = "none"
                  /\ turn'[t].effect = "prepared" /\ turn'[t].barrier = "reserved"
    <2>1. turn' = [turn EXCEPT ![u] = [effect |-> "prepared", barrier |-> "reserved",
                                       by |-> by, pos |-> nextSeq]]
      BY <1>5 DEF Prepare
    <2> QED BY <1>0, <1>5, <2>1 DEF Prepare
  <1>6. ASSUME NEW u \in Turns, Execute(u)
        PROVE  \/ turn'[t] = turn[t]
               \/ /\ t = u /\ turn'[t].by = turn[t].by /\ Free /\ In("typeTurn", t)'
                  /\ turn[t].effect = "prepared" /\ turn[t].barrier = "reserved"
                  /\ turn'[t].effect = "executing" /\ turn'[t].barrier = "reserved"
    <2>1. SetTurn(u, "executing", "reserved") /\ Free /\ In("typeTurn", u)' /\ IsPrepared(u)
      BY <1>6 DEF Execute, Goto, In
    <2> QED BY <1>3, <2>1 DEF IsPrepared
  <1>7. ASSUME NEW u \in Turns, ExecuteAgain(u)
        PROVE  \/ turn'[t] = turn[t]
               \/ /\ turn'[t].by = turn[t].by /\ Free /\ lane' = lane /\ turn[t].effect = "executing"
                  /\ turn'[t].effect = "unconfirmed" /\ turn'[t].barrier = "active"
    BY <1>3, <1>7 DEF ExecuteAgain
  <1>8. ASSUME NEW u \in Turns, CancelPrepared(u)
        PROVE  \/ turn'[t] = turn[t]
               \/ /\ turn'[t].by = turn[t].by /\ Free /\ lane' = lane /\ turn[t].effect = "prepared"
                  /\ turn'[t].effect = "rejected" /\ turn'[t].barrier = "released"
    BY <1>3, <1>8 DEF CancelPrepared, IsPrepared
  <1>9. ASSUME NEW u \in Turns, Settle(u) \/ CloseUnproven(u)
        PROVE  \/ turn'[t] = turn[t]
               \/ /\ turn'[t].by = turn[t].by
                  /\ Free /\ lane' = lane /\ turn[t].barrier \in {"active", "interrupted"}
                  /\ turn'[t].effect = turn[t].effect /\ turn'[t].barrier \in {"completed", "unproven"}
    <2>1. PICK b \in {"completed", "unproven"} : turn' = [turn EXCEPT ![u].barrier = b]
      BY <1>9 DEF Settle, CloseUnproven
    <2>2. Free /\ lane' = lane /\ turn[u].barrier \in {"active", "interrupted"}
      BY <1>9 DEF Settle, CloseUnproven
    <2> QED BY <1>4, <2>1, <2>2
  <1>10. CASE TypeTurnWithoutProcess
    <2>1. PICK u \in Turns : u = lane.who /\ In("typeTurn", u)
      BY <1>0, <1>10, LaneIs DEF TypeTurnWithoutProcess, In, At
    <2>2. SetTurn(u, "unconfirmed", "active") /\ lane' = Idle
      BY <1>10, <2>1 DEF TypeTurnWithoutProcess, Done
    <2> QED BY <1>3, <2>1, <2>2
  <1>11. CASE Submit
    <2>1. PICK u \in Turns : u = lane.who BY <1>0, <1>11, LaneIs DEF Submit, At
    <2>2. CASE At("submit")
      <3>1. In("submit", u) BY <1>0, <2>1, <2>2, LaneIs DEF In, At
      <3>2. SetTurn(u, "confirmed", "active") /\ lane' = Idle
        BY <1>11, <2>1, <2>2 DEF Submit, Done
      <3> QED BY <1>3, <3>1, <3>2
    <2>3. CASE ~At("submit")
      <3>1. In("submitUnsure", u) BY <1>0, <1>11, <2>1, <2>3, LaneIs DEF In, At, Submit
      <3>2. SetTurn(u, "unconfirmed", "active") /\ lane' = Idle
        BY <1>11, <2>1, <2>3 DEF Submit, Done
      <3> QED BY <1>3, <3>1, <3>2
    <2> QED BY <2>2, <2>3
  <1>12. CASE CommitBarrier
    <2>1. PICK u \in Turns : u = lane.who /\ In("barrier", u)
      BY <1>0, <1>12, LaneIs DEF CommitBarrier, In, At
    <2>2. turn' = [turn EXCEPT ![u].barrier = "interrupted"] /\ lane' = [step |-> "controlC", who |-> u]
      BY <1>12, <2>1 DEF CommitBarrier, Goto
    <2>3. In("controlC", u)' BY <2>2 DEF In
    <2> QED BY <1>4, <2>1, <2>2, <2>3
  <1>13. ~TurnSteps => turn' = turn BY Steps, Frames DEF claims
  <1> QED BY <1>1, <1>5, <1>6, <1>7, <1>8, <1>9, <1>10, <1>11, <1>12, <1>13 DEF TurnSteps

(* No step parts a provider turn from what was typed for it.                *)
LEMMA TurnsOKKept ==
    ASSUME Types, TurnsOK, Next
    PROVE  TurnsOK'
  <1> SUFFICES ASSUME NEW t \in Turns PROVE TurnOK(t)'
    BY DEF TurnsOK
  <1>0. lane \in Lanes /\ TurnOK(t) BY DEF Types, TurnsOK
  <1>1. ASSUME Free, lane' = lane
        PROVE  /\ ~In("typeTurn", t)' /\ ~In("submit", t)' /\ ~In("submitUnsure", t)' /\ ~In("barrier", t)'
               /\ WasTyped("turn", t)' <=> WasTyped("turn", t)
    <2>1. ~TypeTurn BY <1>1 DEF TypeTurn, Free, At, Idle
    <2> QED BY <1>1, <2>1, TypedOf DEF Free, In, Idle
  <1>2. ASSUME lane' = Idle
        PROVE  /\ ~In("typeTurn", t)' /\ ~In("submit", t)' /\ ~In("submitUnsure", t)' /\ ~In("barrier", t)'
               /\ WasTyped("turn", t)' <=> WasTyped("turn", t)
    BY <1>2, TypedOf DEF In, Idle
  <1>3. CASE turn'[t] = turn[t]
    <2>1. WasTyped("turn", t)' => turn'[t].effect \in {"executing", "confirmed", "unconfirmed"}
      BY <1>0, <1>3, TypedOf DEF TurnOK
    <2>2. In("typeTurn", t)' => turn'[t].effect = "executing" /\ ~WasTyped("turn", t)'
      <3>1. ASSUME Execute(t) PROVE FALSE
        <4>1. turn[t].effect = "prepared" /\ SetTurn(t, "executing", "reserved")
          BY <3>1 DEF Execute, IsPrepared
        <4>2. turn'[t].effect = "executing" BY <4>1 DEF SetTurn, Types, TurnType
        <4> QED BY <1>3, <4>1, <4>2
      <3>2. In("typeTurn", t)' => In("typeTurn", t) /\ ~In("submit", t)'
        BY <1>0, <3>1, LaneComesFrom DEF In
      <3> QED BY <1>0, <1>3, <3>2, TypedOf DEF TurnOK
    <2>3. In("submit", t)' => turn'[t].effect = "executing" /\ WasTyped("turn", t)'
      BY <1>0, <1>3, LaneComesFrom, TypedOf DEF TurnOK
    <2>4. In("submitUnsure", t)' => turn'[t].effect = "executing"
      BY <1>0, <1>3, LaneComesFrom DEF TurnOK
    <2>5. In("barrier", t)' => turn'[t].barrier = "active"
      <3>1. ASSUME Interrupt(t), In("barrier", t)' PROVE turn[t].barrier = "active"
        <4>1. t \notin Plain BY TerminalAssumption DEF TerminalAssumption
        <4> QED BY <3>1, <4>1 DEF Interrupt, IsActiveTurn
      <3> QED BY <1>0, <1>3, <3>1, LaneComesFrom DEF TurnOK
    <2>6. turn'[t].effect = "confirmed" => WasTyped("turn", t)' BY <1>0, <1>3, TypedOf DEF TurnOK
    <2> QED BY <1>0, <1>3, <2>1, <2>2, <2>3, <2>4, <2>5, <2>6 DEF TurnOK
  <1>4. CASE /\ Free /\ lane' = lane /\ turn[t].effect \in {"none", "prepared"}
             /\ \/ turn'[t].effect = "prepared" /\ turn'[t].barrier = "reserved"
                \/ turn'[t].effect = "rejected" /\ turn'[t].barrier = "released"
    BY <1>0, <1>1, <1>4 DEF TurnOK
  <1>5. CASE /\ Free /\ In("typeTurn", t)' /\ turn[t].effect = "prepared"
             /\ turn'[t].effect = "executing" /\ turn'[t].barrier = "reserved"
    <2>1. ~WasTyped("turn", t)'
      <3>1. ~In("submit", t)' BY <1>5 DEF In
      <3> QED BY <1>0, <1>5, <3>1, TypedOf DEF TurnOK
    <2>2. ~In("submit", t)' /\ ~In("submitUnsure", t)' /\ ~In("barrier", t)' BY <1>5 DEF In
    <2> QED BY <1>5, <2>1, <2>2 DEF TurnOK
  <1>6. CASE /\ Free /\ lane' = lane /\ turn[t].effect = "executing"
             /\ turn'[t].effect = "unconfirmed" /\ turn'[t].barrier = "active"
    BY <1>0, <1>1, <1>6 DEF TurnOK
  <1>7. CASE /\ Free /\ lane' = lane /\ turn[t].barrier \in {"active", "interrupted"}
             /\ turn'[t].effect = turn[t].effect /\ turn'[t].barrier \in {"completed", "unproven"}
    BY <1>0, <1>1, <1>7 DEF TurnOK
  <1>8. CASE /\ In("typeTurn", t) \/ In("submitUnsure", t)
             /\ lane' = Idle /\ turn'[t].effect = "unconfirmed" /\ turn'[t].barrier = "active"
    BY <1>0, <1>2, <1>8 DEF TurnOK
  <1>9. CASE /\ In("submit", t) /\ lane' = Idle
             /\ turn'[t].effect = "confirmed" /\ turn'[t].barrier = "active"
    BY <1>0, <1>2, <1>9 DEF TurnOK
  <1>10. CASE /\ In("barrier", t) /\ In("controlC", t)'
              /\ turn'[t].effect = turn[t].effect /\ turn'[t].barrier = "interrupted"
    <2>1. ~In("typeTurn", t)' /\ ~In("submit", t)' /\ ~In("submitUnsure", t)' /\ ~In("barrier", t)'
      BY <1>10 DEF In
    <2>2. WasTyped("turn", t)' <=> WasTyped("turn", t) BY <2>1, TypedOf
    <2> QED BY <1>0, <1>10, <2>1, <2>2 DEF TurnOK
  <1> QED BY <1>3, <1>4, <1>5, <1>6, <1>7, <1>8, <1>9, <1>10, TurnMoves

(* What is typed is typed for the first time.                               *)
LEMMA TypedOnceKept ==
    ASSUME Types, NoticesOK, TurnsOK, TypedOnce, Next
    PROVE  TypedOnce'
  <1>0. typed \in Seq(InputType) /\ Len(typed) \in Nat BY DEF Types
  <1>1. CASE typed' = typed BY <1>1 DEF TypedOnce
  <1>2. ASSUME NEW x \in InputType, typed' = Append(typed, x),
               x.source \in {"notice", "turn"} => ~WasTyped(x.source, x.who)
        PROVE  TypedOnce'
    <2>1. /\ typed'[Len(typed')] = x /\ Len(typed') \notin 1 .. Len(typed)
          /\ 1 .. Len(typed') = (1 .. Len(typed)) \cup {Len(typed')}
          /\ \A i \in 1 .. Len(typed) : typed'[i] = typed[i]
      BY <1>0, <1>2, Typing
    <2>2. \A i \in 1 .. Len(typed) :
            typed[i].source \in {"notice", "turn"} /\ typed[i].source = x.source => typed[i].who # x.who
      BY <1>2 DEF WasTyped
    <2> QED BY <2>1, <2>2 DEF TypedOnce
  <1>3. ASSUME NEW g, Input("write", None, g, nextSeq) \in InputType,
               typed' = Append(typed, Input("write", None, g, nextSeq))
        PROVE  TypedOnce'
    <2>1. Input("write", None, g, nextSeq).source = "write" BY DEF Input
    <2> QED BY <1>2, <1>3, <2>1
  <1>4. ASSUME NEW x, Input("interrupt", x, Len(leases) + 1, 0) \in InputType,
               typed' = Append(typed, Input("interrupt", x, Len(leases) + 1, 0))
        PROVE  TypedOnce'
    <2>1. Input("interrupt", x, Len(leases) + 1, 0).source = "interrupt" BY DEF Input
    <2> QED BY <1>2, <1>4, <2>1
  <1>5. ASSUME NEW n \in Notices, NEW pos, In("typeNotice", n), Input("notice", n, 0, pos) \in InputType,
               typed' = Append(typed, Input("notice", n, 0, pos))
        PROVE  TypedOnce'
    <2>1. Input("notice", n, 0, pos).source = "notice" /\ Input("notice", n, 0, pos).who = n
      BY DEF Input
    <2>2. ~WasTyped("notice", n) BY <1>5 DEF NoticesOK, NoticeOK
    <2> QED BY <1>2, <1>5, <2>1, <2>2
  <1>6. ASSUME NEW t \in Turns, NEW by, NEW pos, In("typeTurn", t), Input("turn", t, by, pos) \in InputType,
               typed' = Append(typed, Input("turn", t, by, pos))
        PROVE  TypedOnce'
    <2>1. Input("turn", t, by, pos).source = "turn" /\ Input("turn", t, by, pos).who = t
      BY DEF Input
    <2>2. ~WasTyped("turn", t) BY <1>6 DEF TurnsOK, TurnOK
    <2> QED BY <1>2, <1>6, <2>1, <2>2
  <1> QED BY <1>1, <1>3, <1>4, <1>5, <1>6, TypedIs

-----------------------------------------------------------------------------
(* One owner of the boundary.                                               *)

(* A reservation is new only where Reserve made it.                         *)
LEMMA ReservedMoves ==
    ASSUME Types, NoticesOK, Next
    PROVE  Reserved' \subseteq Reserved \/ \E n \in Notices : Reserve(n) /\ Reserved' = {n}
  <1>0. reservation \in [Notices -> {"none", "reserved", "committed", "cancelled"}] BY DEF Types
  <1>1. ASSUME NEW n \in Notices, Reserve(n) PROVE Reserved' = {n}
    <2>1. Reserved = {} /\ reservation' = [reservation EXCEPT ![n] = "reserved"]
      BY <1>1 DEF Reserve, BoundaryIsFree
    <2> QED BY <1>0, <2>1 DEF Reserved
  <1>2. ASSUME \A n \in Notices : ~Reserve(n) PROVE Reserved' \subseteq Reserved
    <2>1. CASE NoticeSteps
      <3>1. At("finish") => lane.who \in Notices BY LaneIs DEF Types
      <3> QED BY <1>0, <1>2, <2>1, <3>1 DEF NoticeSteps, Confirm, FinishNotice, CancelNotice, AdoptNotice,
                                           CommitNotice, Reserved
    <2> QED BY <2>1, Steps, Frames DEF claims, Reserved
  <1> QED BY <1>1, <1>2

(* A turn is newly open only where Prepare opened it.                       *)
LEMMA OpenMoves ==
    ASSUME Types, TurnsOK, Next
    PROVE  \/ \A t \in OpenTurns' : t \in OpenTurns /\ turn'[t].by = turn[t].by
           \/ \E t \in Turns, by \in 0 .. Len(leases) :
                Prepare(t, by) /\ OpenTurns' \subseteq {t} /\ turn'[t].by = by
  <1>0. turn \in [Turns -> TurnType] BY DEF Types
  <1>1. ASSUME NEW u \in Turns, NEW by \in 0 .. Len(leases), Prepare(u, by)
        PROVE  OpenTurns' \subseteq {u} /\ turn'[u].by = by
    <2>1. /\ OpenTurns = {}
          /\ turn' = [turn EXCEPT ![u] = [effect |-> "prepared", barrier |-> "reserved",
                                          by |-> by, pos |-> nextSeq]]
      BY <1>1 DEF Prepare
    <2> QED BY <1>0, <2>1 DEF OpenTurns
  <1>2. ASSUME \A u \in Turns, by \in 0 .. Len(leases) : ~Prepare(u, by), NEW t \in OpenTurns'
        PROVE  t \in OpenTurns /\ turn'[t].by = turn[t].by
    <2>1. t \in Turns /\ turn'[t].barrier \in OpenBarriers BY <1>2 DEF OpenTurns
    <2>2. TurnOK(t) BY <2>1 DEF TurnsOK
    <2>3. "completed" \notin OpenBarriers /\ "unproven" \notin OpenBarriers /\ "released" \notin OpenBarriers
          /\ {"reserved", "active", "interrupted"} \subseteq OpenBarriers
      BY DEF OpenBarriers
    <2>4. turn'[t].by = turn[t].by /\ turn[t].barrier \in OpenBarriers
      BY <1>2, <2>1, <2>2, <2>3, TurnMoves DEF TurnOK
    <2> QED BY <2>1, <2>4 DEF OpenTurns
  <1> QED BY <1>1, <1>2

(* Nobody becomes the holder of a lease while the boundary is claimed.      *)
LEMMA ActiveMoves ==
    ASSUME Types, At("grant") => BoundaryIsFree, Next
    PROVE  \/ ActiveLeases' \subseteq ActiveLeases
           \/ BoundaryIsFree /\ Reserved' = Reserved /\ OpenTurns' = OpenTurns
  <1>0. leases \in Seq(Controllers \cup {None}) BY DEF Types
  <1>1. CASE Grant BY <1>1 DEF Grant, claims, Reserved, OpenTurns
  <1>2. CASE leases' = leases BY <1>2 DEF ActiveLeases
  <1>3. CASE \E gs : leases' = End(gs) BY <1>0, <1>3, EndIs
  <1> QED BY <1>1, <1>2, <1>3, LeasesMove

(* A draft in the way is a new one, written while the boundary was free, or *)
(* one that came back, and is remembered as such unless the boundary is.    *)
LEMMA DraftsMove ==
    ASSUME Types, \A c \in draft : attachment[c] \in Present, Next
    PROVE  /\ \/ AttachedDrafts' \subseteq AttachedDrafts
              \/ BoundaryIsFree /\ UNCHANGED claims
              \/ "draft" \in crossed'
           /\ \A c \in draft' : attachment'[c] \in Present
  <1>0. attachment \in [Controllers -> Attachments] /\ draft \subseteq Controllers BY DEF Types
  <1>1. ASSUME NEW c \in Controllers, Attach(c)
        PROVE  AttachedDrafts' \subseteq AttachedDrafts /\ \A d \in draft' : attachment'[d] \in Present
    <2>1. /\ attachment[c] = "none" /\ attachment' = [attachment EXCEPT ![c] = "attached"]
          /\ draft' = draft
      BY <1>1 DEF Attach
    <2>2. c \notin draft BY <2>1 DEF Present
    <2> QED BY <1>0, <2>1, <2>2 DEF AttachedDrafts
  <1>2. ASSUME NEW c \in Controllers, SetDraft(c)
        PROVE  /\ AttachedDrafts' \subseteq AttachedDrafts \/ (BoundaryIsFree /\ UNCHANGED claims)
               /\ \A d \in draft' : attachment'[d] \in Present
    BY <1>0, <1>2 DEF SetDraft, AttachedDrafts, Present
  <1>3. ASSUME NEW c \in Controllers, MarkStale(c)
        PROVE  AttachedDrafts' \subseteq AttachedDrafts /\ \A d \in draft' : attachment'[d] \in Present
    <2>1. attachment' = [attachment EXCEPT ![c] = "stale"] /\ draft' = draft
      BY <1>3 DEF MarkStale
    <2> QED BY <1>0, <2>1 DEF AttachedDrafts, Present
  <1>4. ASSUME NEW c \in Controllers, SeenAgain(c)
        PROVE  /\ \/ AttachedDrafts' \subseteq AttachedDrafts
                  \/ BoundaryIsFree /\ UNCHANGED claims
                  \/ "draft" \in crossed'
               /\ \A d \in draft' : attachment'[d] \in Present
    <2>1. attachment' = [attachment EXCEPT ![c] = "attached"] /\ draft' = draft /\ UNCHANGED claims
      BY <1>4 DEF SeenAgain
    <2>2. c \notin draft => AttachedDrafts' \subseteq AttachedDrafts
      BY <1>0, <2>1 DEF AttachedDrafts
    <2>3. c \in draft /\ ~BoundaryIsFree => "draft" \in crossed'
      BY <1>4 DEF SeenAgain, ReturnsWithDraft
    <2> QED BY <1>0, <2>1, <2>2, <2>3 DEF Present
  <1>5. CASE FinishDetach
    <2>1. PICK c \in Controllers : c = lane.who BY <1>5, LaneIs DEF FinishDetach, Types
    <2>2. attachment' = [attachment EXCEPT ![c] = "detached"] /\ draft' = draft \ {c}
      BY <1>5, <2>1 DEF FinishDetach
    <2> QED BY <1>0, <2>2 DEF AttachedDrafts
  <1>6. CASE Crash
    <2>1. CASE session = "live" BY <1>6, <2>1 DEF Crash, AttachedDrafts
    <2>2. CASE session # "live"
      <3>1. attachment' = [c \in Controllers |-> attachment[c]] /\ draft' = draft
        BY <1>6, <2>2 DEF Crash
      <3>2. \A c \in Controllers : attachment'[c] = attachment[c] BY <3>1
      <3> QED BY <1>0, <3>1, <3>2 DEF AttachedDrafts
    <2> QED BY <2>1, <2>2
  <1>7. UNCHANGED people => AttachedDrafts' = AttachedDrafts /\ \A c \in draft' : attachment'[c] \in Present
    BY DEF people, AttachedDrafts
  <1>8. Surroundings => Crash \/ UNCHANGED people
    BY DEF Surroundings, EndTurn, Abandon, Exit, Terminate, BeginPlain
  <1> QED BY <1>1, <1>2, <1>3, <1>4, <1>5, <1>6, <1>7, <1>8, Steps, Frames DEF Visits

(* What is remembered of crossings is forgotten only with the boundary free.*)
LEMMA CrossedMoves ==
    ASSUME Types, Next
    PROVE  /\ "draft" \notin crossed' => "draft" \notin crossed \/ BoundaryIsFree'
           /\ "turn" \notin crossed' => "turn" \notin crossed
           /\ \A t \in Turns, by \in 0 .. Len(leases) :
                Prepare(t, by) /\ "turn" \notin crossed' => Reserved = {}
  <1>1. ClaimEnds => /\ "draft" \notin crossed' => "draft" \notin crossed \/ BoundaryIsFree'
                     /\ "turn" \notin crossed' => "turn" \notin crossed
    BY DEF ClaimEnds
  <1>2. crossed \subseteq crossed' \/ ClaimEnds
    <2>1. Visits => crossed \subseteq crossed'
      BY DEF Visits, FinishDetach, Attach, SetDraft, MarkStale, SeenAgain, history
    <2>2. NoticeSteps => crossed \subseteq crossed' \/ ClaimEnds
      BY DEF NoticeSteps, Confirm, FinishNotice, Reserve, CancelNotice, AdoptNotice, CommitNotice,
             Fault, history
    <2>3. TurnSteps => crossed \subseteq crossed' \/ ClaimEnds
      BY DEF TurnSteps, TypeTurnWithoutProcess, Submit, CommitBarrier, Prepare, Execute, ExecuteAgain,
             CancelPrepared, Settle, CloseUnproven, history
    <2> QED BY <2>1, <2>2, <2>3, Steps, Frames
  <1>3. \A t \in Turns, by \in 0 .. Len(leases) :
          Prepare(t, by) /\ "turn" \notin crossed' => Reserved = {}
    BY DEF Prepare
  <1> QED BY <1>1, <1>2, <1>3

(* Through every step the boundary has one owner.                           *)
LEMMA BoundaryOKKept ==
    ASSUME Types, LeasesOK, NoticesOK, TurnsOK, BoundaryOK, Next
    PROVE  BoundaryOK'
  <1>0. /\ \A c \in draft : attachment[c] \in Present
        /\ At("grant") => BoundaryIsFree
        /\ BoundaryHasOneOwnerUnlessCrossed /\ Len(leases) \in Nat
    BY DEF BoundaryOK, Types
  <1>1. ASSUME At("grant")' PROVE BoundaryIsFree'
    <2>1. ASSUME NEW c \in Controllers, Acquire(c) PROVE BoundaryIsFree'
      BY <2>1 DEF Acquire, claims, BoundaryIsFree, Reserved, OpenTurns
    <2>2. CASE lane' = lane /\ At("grant")
      <3>1. ~Free BY <2>2 DEF Free, Idle, At
      <3>2. \A n \in Notices : ~Reserve(n) BY <3>1 DEF Reserve
      <3>3. \A t \in Turns, by \in 0 .. Len(leases) : ~Prepare(t, by) BY <3>1 DEF Prepare
      <3>4. BoundaryIsFree BY <1>0, <2>2
      <3> QED BY <3>2, <3>3, <3>4, ReservedMoves, OpenMoves DEF BoundaryIsFree
    <2>3. (lane' = lane /\ At("grant")) \/ \E c \in Controllers : Acquire(c)
      <3>1. lane' # Idle /\ lane'.step = "grant" BY <1>1 DEF At, Idle
      <3>2. lane \in Lanes BY DEF Types
      <3> QED BY <3>1, <3>2, LaneMoves DEF At
    <2> QED BY <2>1, <2>2, <2>3
  <1>2. \A c \in draft' : attachment'[c] \in Present BY <1>0, DraftsMove
  <1>3. ASSUME NEW n \in Notices, Reserve(n), Reserved' = {n} PROVE BoundaryHasOneOwnerUnlessCrossed'
    <2>1. /\ OpenTurns = {} /\ ActiveLeases = {} /\ AttachedDrafts = {}
          /\ UNCHANGED <<people, leases, turn>>
      BY <1>3 DEF Reserve, BoundaryIsFree
    <2>2. OpenTurns' = {} BY <2>1 DEF OpenTurns
    <2>3. ActiveLeases' = {} BY <2>1 DEF ActiveLeases
    <2>4. AttachedDrafts' = {} BY <2>1 DEF AttachedDrafts, people
    <2> QED BY <1>3, <2>2, <2>3, <2>4 DEF BoundaryHasOneOwnerUnlessCrossed
  <1>4. ASSUME NEW t \in Turns, NEW by \in 0 .. Len(leases), Prepare(t, by), OpenTurns' \subseteq {t},
               turn'[t].by = by
        PROVE  BoundaryHasOneOwnerUnlessCrossed'
    <2>1. /\ by \in Authorities /\ UNCHANGED <<people, leases, reservation>>
      BY <1>4 DEF Prepare
    <2>2. Reserved' = Reserved BY <2>1 DEF Reserved
    <2>3. ActiveLeases' = ActiveLeases BY <2>1 DEF ActiveLeases
    <2>4. AttachedDrafts' = AttachedDrafts BY <2>1 DEF AttachedDrafts, people
    <2>5. ActiveLeases \subseteq {by}
      <3>1. by \in ActiveLeases \/ ActiveLeases = {} BY <2>1 DEF Authorities
      <3>2. \A g \in ActiveLeases : g = Len(leases) BY DEF LeasesOK
      <3> QED BY <3>1, <3>2
    <2>6. by = 0 => AttachedDrafts = {}
      <3>1. 0 \notin ActiveLeases BY DEF ActiveLeases
      <3> QED BY <2>1, <3>1 DEF Authorities
    <2>7. "turn" \notin crossed' => Reserved = {} BY <1>4, CrossedMoves
    <2>8. "draft" \notin crossed' => "draft" \notin crossed BY <1>4 DEF Prepare
    <2> QED BY <1>0, <1>4, <2>2, <2>3, <2>4, <2>5, <2>6, <2>7, <2>8
            DEF BoundaryHasOneOwnerUnlessCrossed
  <1>5. ASSUME Reserved' \subseteq Reserved,
               \A t \in OpenTurns' : t \in OpenTurns /\ turn'[t].by = turn[t].by
        PROVE  BoundaryHasOneOwnerUnlessCrossed'
    <2>1. BoundaryIsFree => Reserved' = {} /\ OpenTurns' = {} BY <1>5 DEF BoundaryIsFree
    <2>2. BoundaryIsFree' => Reserved' = {} /\ OpenTurns' = {} BY DEF BoundaryIsFree
    <2>3. CASE Reserved' = {} /\ OpenTurns' = {} BY <2>3 DEF BoundaryHasOneOwnerUnlessCrossed
    <2>4. CASE ~(Reserved' = {} /\ OpenTurns' = {})
      <3>1. ActiveLeases' \subseteq ActiveLeases BY <1>0, <2>1, <2>4, ActiveMoves
      <3>2. AttachedDrafts' \subseteq AttachedDrafts \/ "draft" \in crossed'
        BY <1>0, <2>1, <2>4, DraftsMove
      <3>3. "draft" \notin crossed' => "draft" \notin crossed BY <2>2, <2>4, CrossedMoves
      <3>4. "turn" \notin crossed' => "turn" \notin crossed BY CrossedMoves
      <3> QED BY <1>0, <1>5, <3>1, <3>2, <3>3, <3>4 DEF BoundaryHasOneOwnerUnlessCrossed
    <2> QED BY <2>3, <2>4
  <1>6. BoundaryHasOneOwnerUnlessCrossed' BY <1>3, <1>4, <1>5, ReservedMoves, OpenMoves
  <1> QED BY <1>1, <1>2, <1>6 DEF BoundaryOK

(* A write carries the newest generation, so none typed before is later.    *)
LEMMA GenerationsOKKept ==
    ASSUME Types, LeasesOK, GenerationsOK, Next
    PROVE  GenerationsOK'
  <1> DEFINE Fenceable(x) == x.source \in {"write", "interrupt"}
             Fine(x) == x.gen <= Len(leases) \/ (x.gen = Len(leases) + 1 /\ ActiveLeases = {})
  <1>0. /\ typed \in Seq(InputType) /\ leases \in Seq(Controllers \cup {None})
        /\ Len(leases) \in Nat /\ Len(typed) \in Nat
        /\ \A i \in 1 .. Len(typed) : typed[i] \in InputType /\ typed[i].gen \in Nat
    <2>1. typed \in Seq(InputType) /\ leases \in Seq(Controllers \cup {None}) BY DEF Types
    <2>2. Len(leases) \in Nat /\ Len(typed) \in Nat BY <2>1
    <2>3. \A i \in 1 .. Len(typed) : typed[i] \in InputType BY <2>1
    <2> QED BY <2>1, <2>2, <2>3 DEF InputType
  <1>1. CASE typed' = typed
    <2>1. \/ Len(leases') = Len(leases) /\ ActiveLeases' \subseteq ActiveLeases
          \/ Len(leases') = Len(leases) + 1
      <3>1. CASE leases' = leases BY <3>1 DEF ActiveLeases
      <3>2. CASE \E gs : leases' = End(gs) BY <1>0, <3>2, EndIs
      <3>3. CASE \E c \in Controllers : leases' = Append(leases, c) BY <1>0, <3>3, GrantIs
      <3> QED BY <3>1, <3>2, <3>3, LeasesMove
    <2>2. \A i \in 1 .. Len(typed') : Fenceable(typed'[i]) => typed'[i].gen <= Len(leases')
                                      \/ (typed'[i].gen = Len(leases') + 1 /\ ActiveLeases' = {})
      BY <1>0, <1>1, <2>1 DEF GenerationsOK
    <2>3. OldGenerationsAreFenced' BY <1>1 DEF GenerationsOK, OldGenerationsAreFenced
    <2> QED BY <2>2, <2>3 DEF GenerationsOK
  <1>2. ASSUME NEW x \in InputType, typed' = Append(typed, x),
               Fenceable(x) => Fine(x),
               x.source = "write" => x.gen = Len(leases) /\ ActiveLeases # {}
        PROVE  GenerationsOK'
    <2>1. /\ typed'[Len(typed')] = x /\ Len(typed') = Len(typed) + 1
          /\ 1 .. Len(typed') = (1 .. Len(typed)) \cup {Len(typed')}
          /\ \A i \in 1 .. Len(typed) : typed'[i] = typed[i]
      BY <1>0, <1>2, Typing
    <2>2. leases' = leases /\ ActiveLeases' = ActiveLeases
      <3>1. typed' # typed BY <1>0, <2>1
      <3>2. ~Handovers BY <3>1, Frames DEF stream
      <3>3. leases' = leases BY <3>2, LeasesMove DEF Handovers
      <3> QED BY <3>3 DEF ActiveLeases
    <2>3. \A i \in 1 .. Len(typed') : Fenceable(typed'[i]) => typed'[i].gen <= Len(leases')
                                      \/ (typed'[i].gen = Len(leases') + 1 /\ ActiveLeases' = {})
      BY <1>2, <2>1, <2>2 DEF GenerationsOK
    <2>4. ASSUME NEW i \in 1 .. Len(typed'), NEW j \in 1 .. Len(typed'), i < j,
                 Fenceable(typed'[i]), typed'[j].source = "write"
          PROVE  typed'[i].gen <= typed'[j].gen
      <3>1. i \in 1 .. Len(typed) BY <1>0, <2>1, <2>4
      <3>2. CASE j \in 1 .. Len(typed)
        BY <2>1, <2>4, <3>1, <3>2 DEF GenerationsOK, OldGenerationsAreFenced
      <3>3. CASE j = Len(typed') BY <1>0, <1>2, <2>1, <2>4, <3>1, <3>3 DEF GenerationsOK
      <3> QED BY <2>1, <3>2, <3>3
    <2>5. OldGenerationsAreFenced' BY <2>4 DEF OldGenerationsAreFenced
    <2> QED BY <2>3, <2>5 DEF GenerationsOK
  <1>3. ASSUME NEW g \in ActiveLeases, Input("write", None, g, nextSeq) \in InputType,
               typed' = Append(typed, Input("write", None, g, nextSeq))
        PROVE  GenerationsOK'
    <2>1. g = Len(leases) BY <1>3 DEF LeasesOK
    <2>2. Input("write", None, g, nextSeq).gen = g BY DEF Input
    <2> QED BY <1>0, <1>2, <1>3, <2>1, <2>2
  <1>4. ASSUME NEW x, Input("interrupt", x, Len(leases) + 1, 0) \in InputType, ControlC,
               typed' = Append(typed, Input("interrupt", x, Len(leases) + 1, 0))
        PROVE  GenerationsOK'
    <2>1. ActiveLeases = {} BY <1>4 DEF LeasesOK, ControlC, At
    <2>2. /\ Input("interrupt", x, Len(leases) + 1, 0).gen = Len(leases) + 1
          /\ Input("interrupt", x, Len(leases) + 1, 0).source = "interrupt"
      BY DEF Input
    <2> QED BY <1>2, <1>4, <2>1, <2>2
  <1>5. ASSUME NEW source \in {"notice", "turn"}, NEW who, NEW gen, NEW pos,
               Input(source, who, gen, pos) \in InputType, typed' = Append(typed, Input(source, who, gen, pos))
        PROVE  GenerationsOK'
    <2>1. Input(source, who, gen, pos).source = source BY DEF Input
    <2> QED BY <1>2, <1>5, <2>1
  <1> HIDE DEF Fenceable, Fine
  <1> QED BY <1>1, <1>3, <1>4, <1>5, TypedIs

-----------------------------------------------------------------------------
(* The theorems.                                                            *)

(* It all holds of a new session.                                           *)
LEMMA Initially ==
    ASSUME Init
    PROVE  IInv
  <1>1. leases = << >> /\ typed = << >> /\ lane = Idle /\ crossed = {} /\ draft = {} BY DEF Init
  <1>2. ActiveLeases = {} /\ Len(typed) = 0 /\ Len(leases) = 0 BY <1>1 DEF ActiveLeases
  <1>3. Types
    <2>1. /\ attachment \in [Controllers -> Attachments]
          /\ notice \in [Notices -> NoticeType] /\ turn \in [Turns -> TurnType]
      BY DEF Init, Attachments, NoticeType, TurnType, Effects, Barriers
    <2> QED BY <1>1, <2>1, TerminalAssumption DEF Init, Types, Lanes, TerminalAssumption
  <1>4. Reserved = {} /\ OpenTurns = {} BY DEF Init, Reserved, OpenTurns, OpenBarriers
  <1>5. \A source, x : ~WasTyped(source, x) BY <1>2 DEF WasTyped
  <1>6. \A step, who : step # "idle" => ~In(step, who) /\ ~At(step) BY <1>1 DEF In, At, Idle
  <1>7. LeasesOK BY <1>1, <1>2, <1>6 DEF LeasesOK, Idle
  <1>8. NoticesOK BY <1>5, <1>6 DEF NoticesOK, NoticeOK, Init
  <1>9. TurnsOK BY <1>5, <1>6 DEF TurnsOK, TurnOK, Init
  <1>10. TypedOnce /\ GenerationsOK BY <1>2 DEF TypedOnce, GenerationsOK, OldGenerationsAreFenced
  <1>11. BoundaryOK
    BY <1>1, <1>2, <1>4, <1>6 DEF BoundaryOK, BoundaryHasOneOwnerUnlessCrossed, BoundaryIsFree
  <1> QED BY <1>3, <1>7, <1>8, <1>9, <1>10, <1>11 DEF IInv

(* A step that changes nothing keeps the invariant.                         *)
LEMMA Stutter ==
    ASSUME IInv, UNCHANGED vars
    PROVE  IInv'
  <1> USE DEF vars
  <1>1. Types' /\ TypedOnce' BY DEF IInv, Types, TypedOnce
  <1>2. ActiveLeases' = ActiveLeases /\ Reserved' = Reserved /\ OpenTurns' = OpenTurns
        /\ AttachedDrafts' = AttachedDrafts
    BY DEF ActiveLeases, Reserved, OpenTurns, AttachedDrafts
  <1>3. LeasesOK' BY <1>2 DEF IInv, LeasesOK, HeldBy, In
  <1>4. \A source, x : WasTyped(source, x)' <=> WasTyped(source, x) BY DEF WasTyped
  <1>5. NoticesOK' BY <1>4 DEF IInv, NoticesOK, NoticeOK, In
  <1>6. TurnsOK' BY <1>4 DEF IInv, TurnsOK, TurnOK, In
  <1>7. BoundaryOK' BY <1>2 DEF IInv, BoundaryOK, BoundaryHasOneOwnerUnlessCrossed, BoundaryIsFree, At
  <1>8. GenerationsOK' BY <1>2 DEF IInv, GenerationsOK, OldGenerationsAreFenced
  <1> QED BY <1>1, <1>3, <1>5, <1>6, <1>7, <1>8 DEF IInv

(* The invariant holds throughout.                                          *)
THEOREM Inductive == Spec => []IInv
  <1>1. IInv /\ Next => IInv'
    BY TypesKept, LeasesOKKept, NoticesOKKept, TurnsOKKept, TypedOnceKept, BoundaryOKKept,
       GenerationsOKKept DEF IInv
  <1>2. IInv /\ [Next]_vars => IInv' BY <1>1, Stutter
  <1> QED BY Initially, <1>2, PTL DEF Spec

(* Every record and every live field has one of the values its type allows. *)
THEOREM TypeCorrect == Spec => []TypeOK
  <1>1. ASSUME IInv PROVE TypeOK
    <2>1. lane \in [step : LaneSteps, who : {None} \cup Controllers \cup Notices \cup Turns \cup Plain]
      BY <1>1 DEF IInv, Types, Lanes, Idle, LaneSteps
    <2> QED BY <1>1, <2>1 DEF IInv, Types, NoticeType, TurnType, InputType, TypeOK
  <1> QED BY <1>1, Inductive, PTL

(* One generation of the lease writes at a time: an active lease is the     *)
(* newest, of a controller that has not left, and nothing of an earlier     *)
(* generation follows what a later one typed (leases.ts, interrupt.ts).     *)
THEOREM OneGeneration == Spec => []OneGenerationWrites
  <1>1. ASSUME IInv PROVE OneGenerationWrites
    BY <1>1 DEF IInv, LeasesOK, GenerationsOK, OneGenerationWrites, LeaseIsCurrent, Present
  <1> QED BY <1>1, Inductive, PTL

(* Lease, notification, turn and draft keep each other out of the boundary, *)
(* but for the two crossings the code allows (notification-boundary.ts).    *)
THEOREM Boundary == Spec => []BoundaryHasOneOwnerUnlessCrossed
  <1>1. IInv => BoundaryHasOneOwnerUnlessCrossed BY DEF IInv, BoundaryOK
  <1> QED BY <1>1, Inductive, PTL

(* Every notification and every turn is typed once at most, and what the    *)
(* records say of it is so.                                                 *)
THEOREM Keyboard == Spec => []KeyboardIsRecorded
  <1>1. ASSUME IInv PROVE KeyboardIsRecorded
    <2>1. ASSUME NEW n \in Notices
          PROVE  /\ reservation[n] = "cancelled" => ~WasTyped("notice", n)
                 /\ reservation[n] = "committed" => HasAttempt(n)
                 /\ notice[n].outcome = "confirmed" => WasTyped("notice", n)
      BY <1>1 DEF IInv, NoticesOK, NoticeOK, HasAttempt
    <2>2. ASSUME NEW t \in Turns
          PROVE  /\ turn[t].effect \in {"none", "prepared", "rejected"} => ~WasTyped("turn", t)
                 /\ turn[t].effect = "confirmed" => WasTyped("turn", t)
      BY <1>1 DEF IInv, TurnsOK, TurnOK
    <2> QED BY <1>1, <2>1, <2>2 DEF IInv, KeyboardIsRecorded, RecordsAreTrue
  <1> QED BY <1>1, Inductive, PTL
=============================================================================
