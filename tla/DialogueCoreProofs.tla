------------------------- MODULE DialogueCoreProofs -------------------------
(***************************************************************************)
(* Theorems about the decisions of a call, for every threshold, every      *)
(* setting of a channel and any number of turns: whatever the language     *)
(* models say.                                                             *)
(***************************************************************************)
EXTENDS DialogueCore, TLAPS

-----------------------------------------------------------------------------
(* What the gates hand on. *)

CloseTiers == PaidTiers \cup {"callback"}

Decision ==
  [act : Acts, slot : Slots \cup {None}, tier : CloseTiers \cup {None},
   concession : Concessions, confidence : Confidences,
   loop_break : BOOLEAN, loop_terminal : BOOLEAN, imminent : BOOLEAN]

\* No gate has tagged the decision yet.
Untagged(d) == ~d.loop_break /\ ~d.loop_terminal /\ ~d.imminent

\* e keeps what the proposal d says of a concession, and of its tags.
SameTags(d, e) == /\ e.concession = d.concession /\ e.confidence = d.confidence
                  /\ e.loop_break = d.loop_break /\ e.loop_terminal = d.loop_terminal
                  /\ e.imminent = d.imminent
\* Three ways a gate changes a decision.
LEMMA RedirectType ==
  ASSUME NEW d \in Decision, NEW a \in Acts, NEW s \in Slots \cup {None},
         NEW t \in CloseTiers \cup {None}
  PROVE  /\ Become(d, a, s, t) \in Decision
         /\ Become(d, a, s, t).act = a /\ Become(d, a, s, t).slot = s
         /\ Become(d, a, s, t).tier = t
         /\ SameTags(d, Become(d, a, s, t))
  BY DEF Become, Decision, SameTags

LEMMA HandOffType ==
  ASSUME NEW d \in Decision
  PROVE  /\ HandOff(d) \in Decision
         /\ HandOff(d).act = "escalate" /\ HandOff(d).tier = None /\ HandOff(d).imminent
         /\ HandOff(d).concession = "none"
         /\ HandOff(d).loop_break = d.loop_break /\ HandOff(d).loop_terminal = d.loop_terminal
  BY DEF HandOff, Decision, Acts, Concessions

LEMMA FreeCloseType ==
  ASSUME NEW d \in Decision
  PROVE  /\ FreeClose(d) \in Decision
         /\ FreeClose(d).act = "attempt_close" /\ FreeClose(d).tier = "callback"
         /\ FreeClose(d).concession = "none"
         /\ FreeClose(d).loop_break = d.loop_break
         /\ FreeClose(d).loop_terminal = d.loop_terminal
         /\ FreeClose(d).imminent = d.imminent
  BY DEF FreeClose, Decision, Acts, Concessions, CloseTiers

\* What the prospect's question makes of an act.
LEMMA AnswerOrType ==
  ASSUME NEW b, NEW a \in Acts
  PROVE  AnswerOr(b, a) \in {"answer_via_kb", a} /\ AnswerOr(b, a) \in Acts
  BY DEF AnswerOr, Acts

\* The gates of discovery: they do not tag, escalate or close; a question they
\* let pass is about an open slot, and one about the learner is not presumed.
LEMMA DiscoveryGates ==
  ASSUME NEW d \in Decision, NEW b, BeliefOK(b), NEW k,
         k = EstablishWhoFirst(NoRepeatDiscovery(SkipKnown(d, b), b), b)
  PROVE  /\ k \in Decision /\ SameTags(d, k)
         /\ (k.act = "escalate") <=> (d.act = "escalate")
         /\ k.act = "attempt_close" => d.act = "attempt_close"
         /\ k.slot \in {d.slot, "who_for", None}
         /\ Asks(k) => /\ b.asked[k.slot] < Threshold.max_slot_asks
                       /\ k.slot \notin b.declined \ {"who_for"}
         /\ (k.act = "ask" /\ k.slot \in LearnerSlots) =>
              \/ b.established \/ LearnerSlots \cap b.locked # {}
              \/ ~(b.asked["who_for"] < Threshold.max_slot_asks)
  <1> DEFINE s == SkipKnown(d, b)
             n == NoRepeatDiscovery(s, b)
  <1>1. /\ s \in Decision /\ SameTags(d, s) /\ s.slot = d.slot /\ s.tier = d.tier
        /\ s.act = d.act \/ (d.act = "ask" /\ s.act = "confirm_known")
        /\ Asks(s) => ~Locked(b, s.slot)
    BY DEF SkipKnown, Decision, SameTags, Acts, Asks
  <1> HIDE DEF s
  <1>2. /\ n \in Decision /\ SameTags(d, n) /\ n.slot \in {d.slot, None}
        /\ n.act = s.act \/ (s.act = "ask" /\ n.act \in {"answer_via_kb", "pitch"})
        /\ Asks(n) => /\ n.slot \notin b.declined
                      /\ ~(b.asked[n.slot] >= Threshold.max_slot_asks)
    <2> DEFINE nag == /\ Asks(s) /\ ~Locked(b, s.slot)
                      /\ s.slot \in b.declined \/ b.asked[s.slot] >= Threshold.max_slot_asks
    <2>1. CASE ~nag
      BY <1>1, <2>1 DEF NoRepeatDiscovery, SameTags, Asks
    <2>2. CASE nag
      <3>1. n = Become(s, AnswerOr(b, "pitch"), None, None) /\ s.act = "ask"
        BY <2>2 DEF NoRepeatDiscovery, Asks
      <3> QED BY <1>1, <3>1, AnswerOrType, RedirectType DEF SameTags, Acts, Asks
    <2> QED BY <2>1, <2>2
  <1>3. Asks(n) => b.asked[n.slot] < Threshold.max_slot_asks
    BY <1>2, ThresholdAssumption DEF Asks, BeliefOK, Decision
  <1> HIDE DEF n
  <1>4. k = EstablishWhoFirst(n, b)
    BY DEF n, s
  <1> DEFINE who == /\ ~b.established
                    /\ LearnerSlots \cap b.locked = {}
                    /\ \/ n.act = "ask" /\ n.slot \in LearnerSlots
                       \/ n.act \in {"pitch", "attempt_close"} /\ b.denied
                    /\ b.asked["who_for"] < Threshold.max_slot_asks
  <1>5. CASE ~who
    <2>1. k = n
      BY <1>4, <1>5 DEF EstablishWhoFirst
    <2> QED BY <1>1, <1>2, <1>3, <1>5, <2>1 DEF SameTags
  <1>6. CASE who /\ b.question # None
    <2>1. k = [n EXCEPT !.act = "answer_via_kb", !.slot = None]
      BY <1>4, <1>6 DEF EstablishWhoFirst
    <2>2. k \in Decision /\ k.act = "answer_via_kb" /\ k.slot = None /\ SameTags(n, k)
      BY <1>2, <2>1 DEF Decision, Acts, SameTags
    <2> QED BY <1>1, <1>2, <1>6, <2>2 DEF SameTags, Asks
  <1>7. CASE who /\ b.question = None
    <2>1. k = Become(n, "ask", "who_for", None)
      BY <1>4, <1>7 DEF EstablishWhoFirst
    <2>2. k \in Decision /\ k.act = "ask" /\ k.slot = "who_for" /\ SameTags(n, k)
      BY <1>2, <2>1, SlotsAssumption, RedirectType DEF Acts
    <2> QED BY <1>1, <1>2, <1>7, <2>2 DEF SameTags, LearnerSlots
  <1> QED BY <1>5, <1>6, <1>7

\* The gates for what the prospect just said, and the price gate: a question
\* that recurs is answered, or pitched at behind the price gate.
LEMMA InputGates ==
  ASSUME NEW d \in Decision, NEW b, BeliefOK(b), NEW h, NEW k,
         k = PriceGate(MustClearObjection(AddressDirectInput(d, b, h), b), b)
  PROVE  /\ k \in Decision /\ SameTags(d, k)
         /\ (k.act = "escalate") <=> (d.act = "escalate")
         /\ k.act = "ask" => d.act = "ask" /\ k.slot = d.slot
         /\ k.act = "attempt_close" => b.objection = None /\ ~Recurring(b, h)
         /\ Recurring(b, h) => (k.act = "pitch" => d.slot = "budget")
  <1> DEFINE a == AddressDirectInput(d, b, h)
             m == MustClearObjection(a, b)
  <1>1. /\ a \in Decision /\ SameTags(d, a)
        /\ (a.act = "escalate") <=> (d.act = "escalate")
        /\ a.act = "ask" => d.act = "ask" /\ a.slot = d.slot
        /\ Recurring(b, h) =>
             /\ a.act \notin {"ask", "confirm_known", "attempt_close", "pitch"}
             /\ (a.act = "answer_via_kb" /\ a.slot = "budget") => d.slot = "budget"
    <2>1. CASE /\ d.act \notin {"ask", "confirm_known", "pitch"}
               /\ ~(Recurring(b, h) /\ d.act = "attempt_close")
      BY <2>1 DEF AddressDirectInput, SameTags
    <2>2. CASE a = d /\ ~Recurring(b, h)
      BY <2>2 DEF SameTags
    <2>3. CASE /\ a = [d EXCEPT !.act = "answer_via_kb", !.tier = None]
               /\ d.act # "escalate"
      BY <2>3 DEF Decision, Acts, SameTags
    <2>4. CASE /\ d.act # "escalate"
               /\ \E act \in {"answer_via_kb", "handle_objection"} : a = Become(d, act, None, None)
      <3>1. PICK act \in {"answer_via_kb", "handle_objection"} : a = Become(d, act, None, None)
        BY <2>4
      <3> QED BY <2>4, <3>1, RedirectType, NoneAssumption DEF Acts
    <2>5. CASE /\ d.act # "escalate" /\ ~Recurring(b, h)
               /\ \E act \in {"confirm_known", "pitch"}, s \in Slots \cup {None} :
                    a = Become(d, act, s, None)
      BY <2>5, RedirectType DEF Acts
    <2> QED
      BY <2>1, <2>2, <2>3, <2>4, <2>5
      DEF AddressDirectInput, AnswerDirectQuestion, Recurring, DirectQuestion, Locked, BeliefOK
  <1> HIDE DEF a
  <1>2. /\ m \in Decision /\ SameTags(d, m)
        /\ m.act = a.act \/ (m.act = "handle_objection" /\ a.act = "attempt_close")
        /\ m.act = "attempt_close" => b.objection = None
        /\ m.slot = a.slot
    BY <1>1 DEF MustClearObjection, Decision, SameTags, Acts
  <1> HIDE DEF m
  <1>3. k = PriceGate(m, b)
    BY DEF a, m
  <1>4. /\ k \in Decision /\ SameTags(d, k)
        /\ \/ k = m
           \/ /\ k.act = "pitch" /\ m.slot = "budget"
              /\ m.act \in {"ask", "answer_via_kb", "confirm_known"}
    <2>1. CASE OpensPrice(m) /\ ~PriceGateOpen(b)
      <3>1. k = Become(m, "pitch", None, None)
        BY <1>3, <2>1 DEF PriceGate
      <3> QED BY <1>2, <2>1, <3>1, RedirectType DEF OpensPrice, SameTags, Acts
    <2>2. CASE ~(OpensPrice(m) /\ ~PriceGateOpen(b))
      BY <1>2, <1>3, <2>2 DEF PriceGate
    <2> QED BY <2>1, <2>2
  <1> QED BY <1>1, <1>2, <1>4

LEMMA CloseableType ==
  ASSUME NEW b, NEW k \in BOOLEAN
  PROVE  CloseableTier(b, k) \in CloseTiers \cup {None}
  BY DEF CloseableTier, CloseTiers, PaidTiers

\* The gates of closing: they open a close on no objection, unless a question
\* recurs, never a blind paid one, and none under pressure.
LEMMA CloseGates ==
  ASSUME NEW d \in Decision, NEW b, NEW h, NEW k,
         k = PushinessCap(CloseFloor(AdvanceToClose(d, b, h), b), b, h)
  PROVE  /\ k \in Decision /\ SameTags(d, k)
         /\ (k.act = "escalate") <=> (d.act = "escalate")
         /\ k.act = "ask" => d.act = "ask" /\ k.slot = d.slot
         /\ k.act = "attempt_close" =>
              /\ d.act = "attempt_close" \/ (b.objection = None /\ ~Recurring(b, h))
              /\ PaidCloseIsBlind(b) => k.tier = "callback"
         /\ (k.act = "pitch" /\ Recurring(b, h)) => d.act = "pitch"
         /\ h.pressure >= Threshold.pushiness_pressure_count_cap => k.act \notin PressureActs
  <1> DEFINE a == AdvanceToClose(d, b, h)
             f == CloseFloor(a, b)
  <1>1. /\ a \in Decision /\ SameTags(d, a)
        /\ \/ a = d
           \/ /\ a.act = "attempt_close" /\ b.objection = None /\ ~Recurring(b, h)
              /\ d.act \in {"answer_via_kb", "confirm_known", "pitch", "ask"}
    <2>1. CASE a = d
      BY <2>1 DEF SameTags
    <2>2. CASE /\ a = Become(d, "attempt_close", None, CloseableTier(b, FALSE))
               /\ b.objection = None /\ ~Recurring(b, h)
               /\ d.act \in {"answer_via_kb", "confirm_known", "pitch", "ask"}
      <3>1. CloseableTier(b, FALSE) \in CloseTiers \cup {None}
        BY CloseableType
      <3> DEFINE t == CloseableTier(b, FALSE)
      <3>2. t \in CloseTiers \cup {None} /\ a = Become(d, "attempt_close", None, t)
        BY <2>2, <3>1
      <3> HIDE DEF t, a
      <3>3. a \in Decision /\ a.act = "attempt_close" /\ SameTags(d, a)
        BY <3>2, RedirectType DEF Acts
      <3>4. /\ b.objection = None /\ ~Recurring(b, h)
            /\ d.act \in {"answer_via_kb", "confirm_known", "pitch", "ask"}
        BY <2>2
      <3> QED BY <3>3, <3>4
    <2> QED BY <2>1, <2>2 DEF AdvanceToClose
  <1> HIDE DEF a
  <1>2. /\ f \in Decision /\ SameTags(d, f)
        /\ (f.act = "attempt_close" /\ PaidCloseIsBlind(b)) => f.tier = "callback"
        /\ f = a \/ (a.act = "attempt_close" /\ f.act = AnswerOr(b, "pitch"))
    <2>1. CASE f = a /\ ~(a.act = "attempt_close" /\ a.tier # "callback" /\ PaidCloseIsBlind(b))
      BY <1>1, <2>1
    <2>2. CASE f = Become(a, AnswerOr(b, "pitch"), None, None) /\ a.act = "attempt_close"
      BY <1>1, <2>2, AnswerOrType, RedirectType DEF SameTags, Acts
    <2> QED BY <2>1, <2>2 DEF CloseFloor
  <1> HIDE DEF f
  <1>3. k = PushinessCap(f, b, h)
    BY DEF a, f
  <1>4. /\ k \in Decision /\ SameTags(d, k)
        /\ \/ k = f
           \/ f.act \in PressureActs /\ k.act \in {"answer_via_kb", "confirm_known"}
        /\ h.pressure >= Threshold.pushiness_pressure_count_cap => k.act \notin PressureActs
    <2>1. CASE k = f /\ ~(/\ f.act \in PressureActs
                         /\ h.pressure >= Threshold.pushiness_pressure_count_cap)
      BY <1>2, <2>1
    <2>2. CASE /\ k = [f EXCEPT !.act = AnswerOr(b, "confirm_known"), !.tier = None]
               /\ f.act \in PressureActs
      <3>1. AnswerOr(b, "confirm_known") \in {"answer_via_kb", "confirm_known"}
        BY DEF AnswerOr
      <3>2. k \in Decision /\ k.act = AnswerOr(b, "confirm_known") /\ SameTags(f, k)
        BY <1>2, <2>2, <3>1 DEF Decision, Acts, SameTags
      <3> QED BY <1>2, <2>2, <3>1, <3>2 DEF PressureActs, SameTags
    <2> QED BY <1>3, <2>1, <2>2 DEF PushinessCap
  <1>5. (Recurring(b, h) /\ a.act = "attempt_close") => AnswerOr(b, "pitch") = "answer_via_kb"
    BY DEF Recurring, AnswerOr
  <1>6. AnswerOr(b, "pitch") \in {"answer_via_kb", "pitch"}
    BY DEF AnswerOr
  <1> QED BY <1>1, <1>2, <1>4, <1>5, <1>6 DEF PressureActs

\* The loop breaker: it acts on a reactive act alone; what it makes of it is
\* tagged, and is a hand-off once a soft commitment was made.
LEMMA BreakGate ==
  ASSUME NEW d \in Decision, Untagged(d), NEW b, NEW h, NEW k,
         k = BreakNoProgressLoop(d, b, h)
  PROVE  /\ k \in Decision /\ k.concession \in {d.concession, "none"}
         /\ k.confidence = d.confidence
         /\ \/ k = d /\ ~(d.act \in ReactiveActs /\ (b.terminal_fired \/ Stalled(b)))
            \/ /\ k.act = "escalate" /\ k.loop_break /\ k.loop_terminal /\ k.imminent
               /\ d.act \in ReactiveActs
            \/ /\ k.act \in {"attempt_close", "answer_via_kb"} /\ d.act \in ReactiveActs
               /\ k.loop_break /\ ~k.loop_terminal /\ ~k.imminent
               /\ ~b.break_fired /\ ~b.terminal_fired
               /\ (k.act = "attempt_close" /\ PaidCloseIsBlind(b)) => k.tier \notin PaidTiers
  <1>1. ASSUME NEW e, e = Terminal(d)
        PROVE  /\ e \in Decision /\ e.concession = "none" /\ e.confidence = d.confidence
               /\ e.act = "escalate" /\ e.loop_break /\ e.loop_terminal /\ e.imminent
    <2>1. HandOff(d) \in Decision /\ HandOff(d).act = "escalate" /\ HandOff(d).imminent
          /\ HandOff(d).concession = "none" /\ HandOff(d).confidence = d.confidence
      BY HandOffType DEF HandOff, Decision
    <2> QED BY <1>1, <2>1 DEF Terminal, Decision
  <1>2. CASE k = d /\ ~(d.act \in ReactiveActs /\ (b.terminal_fired \/ Stalled(b)))
    BY <1>2
  <1>3. CASE k = Terminal(d) /\ d.act \in ReactiveActs
    BY <1>1, <1>3
  <1>4. CASE /\ k = SoftCommit(d, b, h) /\ d.act \in ReactiveActs
             /\ ~b.break_fired /\ ~b.terminal_fired
    <2> DEFINE tier  == CloseableTier(b, b.objection # None)
               blind == tier \in PaidTiers /\ PaidCloseIsBlind(b)
    <2>1. CASE tier # None
      <3> DEFINE t == IF blind THEN "callback" ELSE tier
      <3>1. k = [FreeClose(d) EXCEPT !.tier = t, !.loop_break = TRUE]
        BY <1>4, <2>1 DEF SoftCommit
      <3>2. t \in CloseTiers
        BY <2>1, CloseableType DEF CloseTiers
      <3>3. (t \in PaidTiers) => ~PaidCloseIsBlind(b)
        BY DEF PaidTiers
      <3>4. FreeClose(d) \in Decision /\ FreeClose(d).act = "attempt_close"
            /\ FreeClose(d).concession = "none" /\ FreeClose(d).confidence = d.confidence
            /\ ~FreeClose(d).loop_terminal /\ ~FreeClose(d).imminent
        BY FreeCloseType DEF FreeClose, Decision, Untagged
      <3> HIDE DEF t, blind, tier
      <3>5. /\ k \in Decision /\ k.act = "attempt_close" /\ k.tier = t /\ k.loop_break
            /\ k.concession = "none" /\ k.confidence = d.confidence
            /\ ~k.loop_terminal /\ ~k.imminent
        BY <3>1, <3>2, <3>4 DEF Decision
      <3> QED BY <1>4, <3>3, <3>5
    <2>2. CASE tier = None /\ k = Terminal(d)
      BY <1>1, <1>4, <2>2
    <2>3. CASE tier = None /\ k = [Become(d, "answer_via_kb", None, None) EXCEPT !.loop_break = TRUE]
      <3>1. /\ Become(d, "answer_via_kb", None, None) \in Decision
            /\ Become(d, "answer_via_kb", None, None).act = "answer_via_kb"
            /\ SameTags(d, Become(d, "answer_via_kb", None, None))
        BY RedirectType DEF Acts
      <3> HIDE DEF tier
      <3>2. /\ k \in Decision /\ k.act = "answer_via_kb" /\ k.loop_break
            /\ k.concession = d.concession /\ k.confidence = d.confidence
            /\ ~k.loop_terminal /\ ~k.imminent
        BY <2>3, <3>1 DEF Decision, SameTags, Untagged
      <3> QED BY <1>4, <3>2
    <2> QED BY <1>4, <2>1, <2>2, <2>3 DEF SoftCommit
  <1> QED BY <1>2, <1>3, <1>4 DEF BreakNoProgressLoop

\* The last gates: an escalation without a reason does not leave them, unless
\* the loop breaker made it, and a refused budget leaves the low rungs alone.
LEMMA ExitGates ==
  ASSUME NEW d \in Decision, NEW b, NEW h, ~EscalationReason(d, b, h), NEW k,
         k = OfferLowCommitmentOnBudget(
               EscalateOnlyIfWarranted(NoAuthorityPrefersCallback(d, b, h), b, h), b)
  PROVE  /\ k \in Decision /\ k.concession \in {d.concession, "none"}
         /\ k.loop_break = d.loop_break /\ k.loop_terminal = d.loop_terminal
         /\ k.imminent = d.imminent
         /\ BudgetRefused(b) => (k.act = "escalate" \/ k.tier \in {"callback", "consultation"})
         /\ \/ k = d /\ (d.act = "escalate" => d.loop_terminal /\ ~NoAuthority(b))
            \/ k.act = "attempt_close" /\ k.tier = "callback"
                 /\ (d.act = "escalate" /\ d.loop_terminal => NoAuthority(b))
            \/ /\ d.act = "escalate" /\ ~d.loop_terminal /\ ~NoAuthority(b)
               /\ k.act = AnswerOr(b, "pitch") /\ k.slot = None /\ k.tier = None
  <1> DEFINE n == NoAuthorityPrefersCallback(d, b, h)
             e == EscalateOnlyIfWarranted(n, b, h)
  <1>1. /\ n \in Decision /\ ~EscalationReason(n, b, h)
        /\ n.concession \in {d.concession, "none"}
        /\ n.loop_break = d.loop_break /\ n.loop_terminal = d.loop_terminal
        /\ n.imminent = d.imminent
        /\ \/ n = d /\ (d.act = "escalate" => ~NoAuthority(b))
           \/ /\ n.act = "attempt_close" /\ n.tier = "callback"
              /\ d.act = "escalate" /\ NoAuthority(b)
    <2>1. CASE d.act = "escalate" /\ NoAuthority(b)
      <3>1. n = FreeClose(d)
        BY <2>1 DEF NoAuthorityPrefersCallback
      <3>2. "none" # "over" /\ (EscalationReason(n, b, h) =>
              n.concession = "over" \/ EscalationReason(d, b, h))
        BY DEF EscalationReason
      <3> HIDE DEF n
      <3> QED BY <2>1, <3>1, <3>2, FreeCloseType
    <2>2. CASE ~(d.act = "escalate" /\ NoAuthority(b))
      BY <2>2 DEF NoAuthorityPrefersCallback
    <2> QED BY <2>1, <2>2
  <1> HIDE DEF n
  <1>2. /\ e \in Decision
        /\ e.concession \in {d.concession, "none"}
        /\ e.loop_break = d.loop_break /\ e.loop_terminal = d.loop_terminal
        /\ e.imminent = d.imminent
        /\ \/ e = n /\ (n.act = "escalate" => n.loop_terminal)
           \/ /\ n.act = "escalate" /\ ~n.loop_terminal /\ ~NoAuthority(b)
              /\ e.act = AnswerOr(b, "pitch") /\ e.slot = None /\ e.tier = None
           \/ /\ n.act = "escalate" /\ ~n.loop_terminal /\ NoAuthority(b)
    <2>1. CASE n.act = "escalate" /\ ~n.loop_terminal /\ ~NoAuthority(b)
      <3> DEFINE r == Become(n, AnswerOr(b, "pitch"), None, None)
      <3>1. /\ r \in Decision /\ r.act = AnswerOr(b, "pitch")
            /\ r.slot = None /\ r.tier = None /\ SameTags(n, r)
        BY <1>1, AnswerOrType, RedirectType DEF Acts
      <3>2. e = [r EXCEPT !.concession = "none"]
        BY <1>1, <2>1 DEF EscalateOnlyIfWarranted
      <3> HIDE DEF r, e
      <3>3. /\ e \in Decision /\ e.act = r.act /\ e.slot = r.slot /\ e.tier = r.tier
            /\ e.concession = "none"
            /\ e.loop_break = r.loop_break /\ e.loop_terminal = r.loop_terminal
            /\ e.imminent = r.imminent
        BY <3>1, <3>2 DEF Decision, Concessions
      <3> QED BY <1>1, <2>1, <3>1, <3>3 DEF SameTags
    <2>2. CASE n.act = "escalate" /\ ~n.loop_terminal /\ NoAuthority(b)
      <3>1. e = FreeClose(n)
        BY <1>1, <2>2 DEF EscalateOnlyIfWarranted
      <3> QED BY <1>1, <2>2, <3>1, FreeCloseType
    <2>3. CASE ~(n.act = "escalate" /\ ~n.loop_terminal)
      BY <1>1, <2>3 DEF EscalateOnlyIfWarranted
    <2> QED BY <2>1, <2>2, <2>3
  <1> HIDE DEF e
  <1>3. /\ e.act = "escalate" => e = d /\ d.loop_terminal /\ ~NoAuthority(b)
        /\ \/ e = d
           \/ e.act = "attempt_close" /\ e.tier = "callback" /\ NoAuthority(b)
           \/ /\ d.act = "escalate" /\ ~d.loop_terminal /\ ~NoAuthority(b)
              /\ e.act = AnswerOr(b, "pitch") /\ e.slot = None /\ e.tier = None
    <2>1. AnswerOr(b, "pitch") # "escalate"
      BY DEF AnswerOr
    <2> QED BY <1>1, <1>2, <2>1
  <1>4. k = OfferLowCommitmentOnBudget(e, b)
    BY DEF n, e
  <1>5. CASE k = e /\ (e.act = "escalate" \/ e.tier \in {"callback", "consultation"} \/ ~BudgetRefused(b))
    BY <1>2, <1>3, <1>5
  <1>6. CASE k = FreeClose(e) /\ e.act # "escalate"
    BY <1>2, <1>3, <1>6, FreeCloseType
  <1> QED BY <1>4, <1>5, <1>6 DEF OfferLowCommitmentOnBudget

\* An escalation of the first or the last gate.
LEMMA TriggerType ==
  ASSUME NEW d \in Decision, NEW b, NEW h
  PROVE  /\ EscalationReason(d, b, h) =>
              LET e == EscalationTriggers(d, b, h)
              IN  e \in Decision /\ e.act = "escalate" /\ e.imminent
                  /\ e.loop_break = d.loop_break /\ e.loop_terminal = d.loop_terminal
         /\ ~EscalationReason(d, b, h) => EscalationTriggers(d, b, h) = d
  BY DEF EscalationTriggers, Decision, Acts

-----------------------------------------------------------------------------
(* What the chain as a whole makes of a proposal. *)

\* A paid close is not blind, an objection is not closed over, and a refused
\* budget is respected.
Earned(d, b) ==
  /\ PaidCloseIsBlind(b) => ~(d.act = "attempt_close" /\ d.tier \in PaidTiers)
  /\ (b.objection # None /\ d.act = "attempt_close") => (d.tier = "callback" \/ d.loop_break)
  /\ BudgetRefused(b) => (d.act = "escalate" \/ d.tier \in {"callback", "consultation"})

\* What is left of the escalation p the model wished for without a reason.
Declined(p, d, b, h) ==
  /\ p.act = "escalate" /\ ~NoAuthority(b)
  /\ ~EscalationReason(GroundConcession(p, b), b, h)
  /\ d.act = AnswerOr(b, "pitch") /\ d.slot = None /\ d.tier = None

\* A stall is broken, once softly, and for good by a hand-off; p is the proposal.
Broken(p, d, b, h) ==
  /\ (Stalled(b) /\ d.act \in ReactiveActs) => (d.loop_break \/ Declined(p, d, b, h))
  /\ (b.break_fired /\ d.loop_break) =>
       /\ d.loop_terminal
       /\ \/ d.act = "escalate"
          \/ d.act = "attempt_close" /\ d.tier = "callback" /\ NoAuthority(b)
  /\ (b.terminal_fired /\ d.act \in ReactiveActs) => Declined(p, d, b, h)

\* A hand-off has a reason and is shown.
Warranted(p, d, b, h) ==
  /\ d.act = "escalate" =>
       /\ d.imminent
       /\ \/ EscalationReason(GroundConcession(p, b), b, h)
          \/ HostileOrExtremeBail(b)
          \/ d.loop_terminal
  /\ d.imminent => (d.act = "escalate" \/ NoAuthority(b))

\* A question that recurs is not pressed over, and there is no third pressure.
Unpressed(p, d, b, h) ==
  /\ (Recurring(b, h) /\ d.act \in PressureActs) =>
       \/ d.loop_break \/ d.tier = "callback"
       \/ d.act = "pitch" /\ p.slot = "budget"
  /\ (h.pressure >= Threshold.pushiness_pressure_count_cap /\ d.act \in PressureActs) =>
       \/ d.act = "attempt_close" /\ (d.tier = "callback" \/ (d.loop_break /\ ~b.break_fired))
       \/ d.act = "pitch" /\ Declined(p, d, b, h)

\* A question of discovery is open, not declined and not presumed.
Courteous(d, b) ==
  /\ Asks(d) => /\ b.asked[d.slot] < Threshold.max_slot_asks
                /\ d.slot \notin b.declined \ {"who_for"}
  /\ (d.act = "ask" /\ d.slot \in LearnerSlots) =>
       \/ b.established \/ LearnerSlots \cap b.locked # {}
       \/ ~(b.asked["who_for"] < Threshold.max_slot_asks)

Allowed(p, d, b, h) ==
  /\ d \in Decision
  /\ Earned(d, b) /\ Broken(p, d, b, h) /\ Warranted(p, d, b, h)
  /\ Unpressed(p, d, b, h) /\ Courteous(d, b)

\* A hand-off that is shown, for a reason that no loop gave, is allowed.
LEMMA HandOffAllowed ==
  ASSUME NEW p, NEW d \in Decision, NEW b, NEW h, d.act = "escalate", d.imminent, ~d.loop_break,
         EscalationReason(GroundConcession(p, b), b, h) \/ HostileOrExtremeBail(b)
  PROVE  Allowed(p, d, b, h)
  BY DEF Allowed, Earned, Broken, Warranted, Unpressed, Courteous, Asks, ReactiveActs, PressureActs

LEMMA ChainAllowed ==
  ASSUME NEW p \in Decision, NEW b, BeliefOK(b), NEW h,
         NEW d \in Decision, Untagged(d), d.act = p.act, d.slot = p.slot,
         d = GroundConcession(p, b),
         ~EscalationReason(d, b, h)
  PROVE  Allowed(p, Chain(d, b, h), b, h)
  <1> DEFINE k == EstablishWhoFirst(NoRepeatDiscovery(SkipKnown(d, b), b), b)
             i == PriceGate(MustClearObjection(AddressDirectInput(k, b, h), b), b)
             c == PushinessCap(CloseFloor(AdvanceToClose(i, b, h), b), b, h)
             l == BreakNoProgressLoop(c, b, h)
             z == OfferLowCommitmentOnBudget(
                    EscalateOnlyIfWarranted(NoAuthorityPrefersCallback(l, b, h), b, h), b)
  <1>1. Chain(d, b, h) = EscalationTriggers(z, b, h)
    BY DEF Chain
  <1>2. /\ k \in Decision /\ SameTags(d, k)
        /\ (k.act = "escalate") <=> (d.act = "escalate")
        /\ k.act = "attempt_close" => d.act = "attempt_close"
        /\ k.slot \in {d.slot, "who_for", None}
        /\ Courteous(k, b)
    BY DiscoveryGates DEF Courteous
  <1> HIDE DEF k
  <1>3. /\ i \in Decision /\ SameTags(k, i)
        /\ (i.act = "escalate") <=> (k.act = "escalate")
        /\ i.act = "ask" => k.act = "ask" /\ i.slot = k.slot
        /\ i.act = "attempt_close" => b.objection = None /\ ~Recurring(b, h)
        /\ Recurring(b, h) => (i.act = "pitch" => k.slot = "budget")
    BY <1>2, InputGates
  <1> HIDE DEF i
  <1>4. /\ c \in Decision /\ SameTags(i, c)
        /\ (c.act = "escalate") <=> (i.act = "escalate")
        /\ c.act = "ask" => i.act = "ask" /\ c.slot = i.slot
        /\ c.act = "attempt_close" =>
              /\ i.act = "attempt_close" \/ (b.objection = None /\ ~Recurring(b, h))
              /\ PaidCloseIsBlind(b) => c.tier = "callback"
        /\ (c.act = "pitch" /\ Recurring(b, h)) => i.act = "pitch"
        /\ h.pressure >= Threshold.pushiness_pressure_count_cap => c.act \notin PressureActs
    BY <1>3, CloseGates
  <1> HIDE DEF c
  <1>5. Untagged(c) /\ c.concession = d.concession
    BY <1>2, <1>3, <1>4 DEF SameTags, Untagged
  <1>6. /\ l \in Decision /\ l.concession \in {c.concession, "none"}
        /\ \/ l = c /\ ~(c.act \in ReactiveActs /\ (b.terminal_fired \/ Stalled(b)))
           \/ /\ l.act = "escalate" /\ l.loop_break /\ l.loop_terminal /\ l.imminent
              /\ c.act \in ReactiveActs
           \/ /\ l.act \in {"attempt_close", "answer_via_kb"} /\ c.act \in ReactiveActs
              /\ l.loop_break /\ ~l.loop_terminal /\ ~l.imminent
              /\ ~b.break_fired /\ ~b.terminal_fired
              /\ (l.act = "attempt_close" /\ PaidCloseIsBlind(b)) => l.tier \notin PaidTiers
    BY <1>4, <1>5, BreakGate
  <1> HIDE DEF l
  <1>7. ~EscalationReason(l, b, h)
    BY <1>5, <1>6 DEF EscalationReason
  <1>8. /\ z \in Decision /\ z.concession \in {l.concession, "none"}
        /\ z.loop_break = l.loop_break /\ z.loop_terminal = l.loop_terminal
        /\ z.imminent = l.imminent
        /\ BudgetRefused(b) => (z.act = "escalate" \/ z.tier \in {"callback", "consultation"})
        /\ \/ z = l /\ (l.act = "escalate" => l.loop_terminal /\ ~NoAuthority(b))
           \/ z.act = "attempt_close" /\ z.tier = "callback"
                /\ (l.act = "escalate" /\ l.loop_terminal => NoAuthority(b))
           \/ /\ l.act = "escalate" /\ ~l.loop_terminal /\ ~NoAuthority(b)
              /\ z.act = AnswerOr(b, "pitch") /\ z.slot = None /\ z.tier = None
    BY <1>6, <1>7, ExitGates
  <1> HIDE DEF z
  <1>9. EscalationTriggers(z, b, h) = z
    <2>1. ~EscalationReason(z, b, h)
      BY <1>7, <1>8 DEF EscalationReason
    <2> QED BY <1>8, <2>1, TriggerType
  <1>10. AnswerOr(b, "pitch") \in {"answer_via_kb", "pitch"}
         /\ (Recurring(b, h) => AnswerOr(b, "pitch") = "answer_via_kb")
    BY DEF AnswerOr, Recurring
  <1>11. Earned(z, b)
    <2>1. ("callback" \notin PaidTiers) /\ (z.act = "attempt_close" => z.act # AnswerOr(b, "pitch"))
      BY <1>10 DEF PaidTiers
    <2>2. PaidCloseIsBlind(b) => ~(z.act = "attempt_close" /\ z.tier \in PaidTiers)
      BY <1>4, <1>6, <1>8, <2>1
    <2>3. (b.objection # None /\ z.act = "attempt_close") => (z.tier = "callback" \/ z.loop_break)
      BY <1>3, <1>4, <1>6, <1>8, <2>1
    <2> QED BY <1>8, <2>2, <2>3 DEF Earned
  <1> DEFINE turned == l.act = "escalate" /\ ~l.loop_terminal /\ z.act = AnswerOr(b, "pitch")
  <1>12. turned => Declined(p, z, b, h)
    <2>1. l.act = "escalate" /\ ~l.loop_terminal => p.act = "escalate"
      BY <1>2, <1>3, <1>4, <1>6
    <2>2. turned => /\ ~NoAuthority(b) /\ z.slot = None /\ z.tier = None
      BY <1>8, <1>10
    <2> QED BY <2>1, <2>2 DEF Declined
  <1>13. Broken(p, z, b, h)
    <2>1. (Stalled(b) /\ z.act \in ReactiveActs) => (z.loop_break \/ turned)
      BY <1>5, <1>6, <1>8 DEF ReactiveActs, Untagged
    <2>2. (b.break_fired /\ z.loop_break) =>
            /\ z.loop_terminal
            /\ z.act = "escalate" \/ (z.act = "attempt_close" /\ z.tier = "callback" /\ NoAuthority(b))
      BY <1>5, <1>6, <1>8 DEF Untagged
    <2>3. (b.terminal_fired /\ z.act \in ReactiveActs) => turned
      BY <1>6, <1>8 DEF ReactiveActs
    <2> QED BY <1>12, <2>1, <2>2, <2>3 DEF Broken
  <1>14. Warranted(p, z, b, h)
    BY <1>5, <1>6, <1>8, <1>10 DEF Warranted, Untagged
  <1>15. Unpressed(p, z, b, h)
    <2>1. (Recurring(b, h) /\ z.act \in PressureActs) =>
            \/ z.loop_break \/ z.tier = "callback"
            \/ z.act = "pitch" /\ p.slot = "budget"
      BY <1>2, <1>3, <1>4, <1>5, <1>6, <1>8, <1>10, NoneAssumption DEF PressureActs
    <2>2. (h.pressure >= Threshold.pushiness_pressure_count_cap /\ z.act \in PressureActs) =>
            \/ z.act = "attempt_close" /\ (z.tier = "callback" \/ (z.loop_break /\ ~b.break_fired))
            \/ z.act = "pitch" /\ turned
      BY <1>4, <1>6, <1>8, <1>10 DEF PressureActs
    <2> QED BY <1>12, <2>1, <2>2 DEF Unpressed
  <1>16. Courteous(z, b)
    <2>1. z.act = "ask" => k.act = "ask" /\ z.slot = k.slot
      BY <1>3, <1>4, <1>6, <1>8, <1>10
    <2> QED BY <1>2, <2>1 DEF Courteous, Asks
  <1> QED BY <1>1, <1>8, <1>9, <1>11, <1>13, <1>14, <1>15, <1>16 DEF Allowed

\* Whatever is proposed, what the gates make of it is allowed.
LEMMA GatesAllow ==
  ASSUME NEW p \in Decision, Untagged(p), NEW b, BeliefOK(b), NEW h
  PROVE  Allowed(p, ApplyGates(p, b, h), b, h)
  <1> DEFINE d == GroundConcession(p, b)
             e == DeEscalate(d, b)
  <1>1. /\ d \in Decision /\ Untagged(d) /\ d.act = p.act /\ d.slot = p.slot
        /\ d = GroundConcession(p, b)
    BY DEF GroundConcession, Decision, Untagged, Concessions
  <1> DEFINE reason == EscalationReason(d, b, h)
  <1>2. CASE reason
    <2>1. ApplyGates(p, b, h) = EscalationTriggers(d, b, h)
      BY <1>2 DEF ApplyGates
    <2> HIDE DEF d
    <2>2. /\ EscalationTriggers(d, b, h) \in Decision
          /\ EscalationTriggers(d, b, h).act = "escalate"
          /\ EscalationTriggers(d, b, h).imminent
          /\ EscalationTriggers(d, b, h).loop_break = d.loop_break
      BY <1>1, <1>2, TriggerType
    <2>3. EscalationReason(GroundConcession(p, b), b, h)
      BY <1>2 DEF d
    <2> HIDE DEF reason
    <2> QED BY <1>1, <2>1, <2>2, <2>3, HandOffAllowed DEF Untagged
  <1>3. CASE ~reason /\ HostileOrExtremeBail(b) /\ e.act = "escalate"
    <2>1. ApplyGates(p, b, h) = [e EXCEPT !.imminent = TRUE]
      BY <1>3 DEF ApplyGates
    <2> HIDE DEF d
    <2>2. e \in Decision /\ ~e.loop_break
      BY <1>1, HandOffType DEF DeEscalate, Untagged
    <2> HIDE DEF e
    <2> DEFINE r == [e EXCEPT !.imminent = TRUE]
    <2>3. r \in Decision /\ r.act = "escalate" /\ r.imminent /\ ~r.loop_break
      BY <1>3, <2>2 DEF Decision
    <2> HIDE DEF r, reason
    <2>4. Allowed(p, r, b, h)
      BY <1>3, <2>3, HandOffAllowed
    <2> QED BY <2>1, <2>4 DEF r
  <1>4. CASE ~reason /\ ~(HostileOrExtremeBail(b) /\ e.act = "escalate")
    <2>1. ApplyGates(p, b, h) = Chain(d, b, h)
      BY <1>4 DEF ApplyGates
    <2> HIDE DEF d, e
    <2> QED BY <1>1, <1>4, <2>1, ChainAllowed
  <1> QED BY <1>2, <1>3, <1>4

-----------------------------------------------------------------------------
(* The belief over the turns of a call. *)

\* No slot was asked for too often, and a learner that counts as established
\* was told of: the facts that the promises about discovery rest on.
BeliefInv(b) ==
  /\ BeliefOK(b)
  /\ \A s \in Slots : b.asked[s] <= Threshold.max_slot_asks
  /\ b.established => b.who_for \/ LearnerSlots \cap b.locked # {}

\* The inductive invariant: of the committed belief and of the one in flight.
IInv ==
  /\ channel \in DOMAIN Settings
  /\ BeliefInv(belief)
  /\ heard # None => BeliefInv(heard.belief)
  /\ history.act \in Acts \cup {None}
  /\ None \notin history.topics

LEMMA FreshInv == BeliefInv(Fresh)
  <1>1. Neutral \in Levels
    BY DEF Neutral, Levels
  <1>2. [s \in Slots |-> 0] \in [Slots -> Nat]
    OBVIOUS
  <1>3. BeliefOK(Fresh)
    BY <1>1, <1>2 DEF BeliefOK, Fresh, LoopBreakK, Confidences
  <1>4. \A s \in Slots : Fresh.asked[s] <= Threshold.max_slot_asks
    BY ThresholdAssumption DEF Fresh
  <1> QED BY <1>3, <1>4 DEF BeliefInv, Fresh

\* dst.update keeps the belief proper: a learner is established by a text that
\* tells who it is for, or by a fact about the learner.
LEMMA UpdateInv ==
  ASSUME NEW b, BeliefInv(b), NEW topics, NEW t \in Utterances(topics), NEW label,
         NEW levels \in Levels, NEW act
  PROVE  BeliefInv(Update(b, t, label, levels, act))
  <1> DEFINE i == Intent(label, t)
             e == ExtractSlots(b, t, act)
             w == LearnerRead(e, t)
             n == DeclinedSlots(e, t, act)
             o == LiveObjection(i.objection, label, t)
             u == Update(b, t, label, levels, act)
  <1>1. /\ e.locked \subseteq Slots /\ b.locked \subseteq e.locked
        /\ DOMAIN e = DOMAIN Fresh
        /\ e.declined = b.declined /\ e.drivers = b.drivers /\ e.asked = b.asked
        /\ e.pending = b.pending /\ e.recent = b.recent /\ e.confidence = b.confidence
        /\ e.imminent = b.imminent /\ e.hostile = b.hostile
        /\ e.established = b.established /\ e.denied = b.denied /\ e.who_for = b.who_for
        /\ e.break_fired = b.break_fired /\ e.terminal_fired = b.terminal_fired
    BY SlotsAssumption DEF ExtractSlots, BeliefInv, BeliefOK, Utterances, Fresh
  <1> HIDE DEF e
  <1>2. /\ w[1] \in BOOLEAN /\ w[2] \in BOOLEAN /\ w[3] \in BOOLEAN
        /\ w[1] => w[3] \/ LearnerSlots \cap e.locked # {}
    BY <1>1 DEF LearnerRead, BeliefInv, BeliefOK, LearnerSlots
  <1>3. n \subseteq Slots
    BY <1>1 DEF DeclinedSlots, BeliefInv, BeliefOK
  <1> HIDE DEF i, w, n
  <1>4. u = [e EXCEPT
        !.drivers     = levels,
        !.turn_count  = AtMost(@ + 1, Threshold.min_turns_before_close),
        !.user_act    = i.act,
        !.objection   = LiveObjection(i.objection, label, t),
        !.question    = i.question,
        !.refusals    = IF Refuses(label, t)
                        THEN AtMost(@ + 1, Threshold.budget_refusals_before_callback) ELSE @,
        !.hostile     = @ \/ t.hostile,
        !.established = w[1],
        !.denied      = w[2],
        !.who_for     = w[3],
        !.declined    = n]
    BY DEF Update, i, e, w, n
  <1> HIDE DEF u, o
  <1>5. /\ DOMAIN u = DOMAIN Fresh
        /\ u.locked = e.locked /\ u.asked = e.asked /\ u.pending = e.pending
        /\ u.recent = e.recent /\ u.confidence = e.confidence /\ u.imminent = e.imminent
        /\ u.break_fired = e.break_fired /\ u.terminal_fired = e.terminal_fired
        /\ u.drivers = levels /\ u.declined = n
        /\ u.hostile = (e.hostile \/ t.hostile)
        /\ u.established = w[1] /\ u.denied = w[2] /\ u.who_for = w[3]
    BY <1>1, <1>4 DEF Fresh
  <1>6. u.hostile \in BOOLEAN
    BY <1>5
  <1>7. BeliefInv(u)
    BY <1>1, <1>2, <1>3, <1>5, <1>6 DEF BeliefInv, BeliefOK
  <1> QED BY <1>7 DEF u

\* The bookkeeping of an allowed decision keeps the belief proper: only an open
\* question is counted, and one that was asked too often is not open.
LEMMA DecidedInv ==
  ASSUME NEW b, BeliefInv(b), NEW d \in Decision, Courteous(d, b)
  PROVE  BeliefInv(Decided(b, d))
  <1> DEFINE a == RecordAskedSlot(b, d)
             r == RecordRecentAct(a, d)
             z == Decided(b, d)
  <1>1. /\ DOMAIN a = DOMAIN Fresh
        /\ a.asked \in [Slots -> Nat] /\ a.pending \in Slots \cup {None}
        /\ \A s \in Slots : a.asked[s] <= Threshold.max_slot_asks
        /\ a.locked = b.locked /\ a.declined = b.declined /\ a.drivers = b.drivers
        /\ a.recent = b.recent /\ a.confidence = b.confidence
        /\ a.imminent = b.imminent /\ a.hostile = b.hostile
        /\ a.established = b.established /\ a.denied = b.denied /\ a.who_for = b.who_for
        /\ a.break_fired = b.break_fired /\ a.terminal_fired = b.terminal_fired
    <2>1. CASE Asks(d)
      <3>1. d.slot \in Slots /\ b.asked[d.slot] < Threshold.max_slot_asks
        BY <2>1 DEF Asks, Courteous, Decision
      <3>2. a = [b EXCEPT !.asked[d.slot] = @ + 1, !.pending = d.slot]
        BY <2>1 DEF RecordAskedSlot
      <3>3. /\ [b.asked EXCEPT ![d.slot] = @ + 1] \in [Slots -> Nat]
            /\ \A s \in Slots : [b.asked EXCEPT ![d.slot] = @ + 1][s] <= Threshold.max_slot_asks
        BY <3>1, ThresholdAssumption DEF BeliefInv, BeliefOK
      <3> HIDE DEF a
      <3> QED BY <3>1, <3>2, <3>3 DEF BeliefInv, BeliefOK, Fresh
    <2>2. CASE ~Asks(d)
      <3>1. a = [b EXCEPT !.pending = None]
        BY <2>2 DEF RecordAskedSlot
      <3> QED BY <3>1 DEF BeliefInv, BeliefOK, Fresh
    <2> QED BY <2>1, <2>2
  <1> HIDE DEF a
  <1>2. /\ DOMAIN r = DOMAIN Fresh
        /\ r.recent \in 0 .. LoopBreakK
        /\ r.asked = a.asked /\ r.pending = a.pending
        /\ r.locked = a.locked /\ r.declined = a.declined /\ r.drivers = a.drivers
        /\ r.confidence = a.confidence
        /\ r.imminent = a.imminent /\ r.hostile = a.hostile
        /\ r.established = a.established /\ r.denied = a.denied /\ r.who_for = a.who_for
        /\ r.break_fired = a.break_fired /\ r.terminal_fired = a.terminal_fired
    BY <1>1 DEF RecordRecentAct, AtMost, LoopBreakK, BeliefInv, BeliefOK, Fresh
  <1>3. z = [r EXCEPT
     !.user_act = None, !.objection = None, !.question = None,
     !.confidence     = IF d.confidence # None THEN d.confidence ELSE @,
     !.imminent       = @ \/ d.imminent,
     !.snapshot       = ProgressSnapshot(b),
     !.break_fired    = @ \/ d.loop_break,
     !.terminal_fired = @ \/ d.loop_terminal]
    BY DEF Decided, r, a
  <1> HIDE DEF r, z
  <1>4. /\ DOMAIN z = DOMAIN Fresh
        /\ z.recent = r.recent /\ z.asked = r.asked /\ z.pending = r.pending
        /\ z.locked = r.locked /\ z.declined = r.declined /\ z.drivers = r.drivers
        /\ z.confidence \in {r.confidence, d.confidence}
        /\ z.imminent = (r.imminent \/ d.imminent) /\ z.hostile = r.hostile
        /\ z.established = r.established /\ z.denied = r.denied /\ z.who_for = r.who_for
        /\ z.break_fired = (r.break_fired \/ d.loop_break)
        /\ z.terminal_fired = (r.terminal_fired \/ d.loop_terminal)
    BY <1>2, <1>3 DEF Fresh
  <1>5. z.imminent \in BOOLEAN /\ z.break_fired \in BOOLEAN /\ z.terminal_fired \in BOOLEAN
    BY <1>4
  <1>6. d.confidence \in Confidences
    BY DEF Decision
  <1>7. BeliefInv(z)
    BY <1>1, <1>2, <1>4, <1>5, <1>6 DEF BeliefInv, BeliefOK
  <1> QED BY <1>7 DEF z

\* A proposal is parsed into a decision without tags.
LEMMA ParseType ==
  ASSUME channel \in DOMAIN Settings, NEW r \in Setting.replies
  PROVE  Parse(r) \in Decision /\ Untagged(Parse(r))
  <1>1. CASE r = None \/ r.act \notin Acts
    BY <1>1 DEF Parse, Proposal, Decision, Untagged, Acts, Concessions, Confidences
  <1>2. CASE r # None /\ r.act \in Acts
    <2>1. r.slot \in Slots \cup {None} /\ r.concession \in Concessions /\ r.confidence \in Confidences
      BY <1>2, SettingsAssumption DEF Setting
    <2> DEFINE t == IF r.act # "attempt_close" THEN None
                    ELSE IF r.tier \in PaidTiers \cup {"callback"} THEN r.tier ELSE "consultation"
    <2>2. t \in CloseTiers \cup {None}
      BY DEF CloseTiers, PaidTiers
    <2>3. Parse(r) = Proposal(r.act, r.slot, t, r.concession, r.confidence)
      BY <1>2 DEF Parse
    <2> HIDE DEF t
    <2> QED BY <1>2, <2>1, <2>2, <2>3 DEF Proposal, Decision, Untagged
  <1> QED BY <1>1, <1>2

\* Every decision the gates can make on the turn in flight is allowed.
LEMMA GatedAllowed ==
  ASSUME IInv, heard # None, NEW r \in Setting.replies
  PROVE  Allowed(Parse(r), Gated(r), heard.belief, Seen)
  <1>1. BeliefOK(heard.belief)
    BY DEF IInv, BeliefInv
  <1>2. Parse(r) \in Decision /\ Untagged(Parse(r))
    BY ParseType DEF IInv
  <1> QED BY <1>1, <1>2, GatesAllow DEF Gated

-----------------------------------------------------------------------------
(* The invariant. *)

LEMMA InitInv == Init => IInv
  BY FreshInv DEF Init, IInv, Silence

LEMMA NextInv == IInv /\ [Next]_vars => IInv'
  <1> SUFFICES ASSUME IInv, [Next]_vars PROVE IInv'
    OBVIOUS
  <1>1. ASSUME NEW t \in Setting.texts, NEW label \in Setting.labels,
               NEW levels \in Setting.moods \cup {belief.drivers}, Hear(t, label, levels)
        PROVE  IInv'
    <2>1. \E topics : t \in Utterances(topics)
      BY SettingsAssumption DEF IInv, Setting
    <2>2. levels \in Levels
      BY SettingsAssumption DEF IInv, BeliefInv, BeliefOK, Setting
    <2>3. BeliefInv(Update(belief, t, label, levels, history.act))
      BY <2>1, <2>2, UpdateInv DEF IInv
    <2>4. heard'.belief = Update(belief, t, label, levels, history.act)
      BY <1>1 DEF Hear
    <2> QED BY <1>1, <2>3, <2>4 DEF IInv, Hear
  <1>2. ASSUME NEW r \in Setting.replies, Decide(r)
        PROVE  IInv'
    <2>1. heard # None /\ BeliefInv(heard.belief)
      BY <1>2 DEF Decide, IInv
    <2>2. Gated(r) \in Decision /\ Courteous(Gated(r), heard.belief)
      BY <2>1, GatedAllowed DEF Allowed
    <2>3. BeliefInv(Decided(heard.belief, Gated(r)))
      BY <2>1, <2>2, DecidedInv
    <2>4. /\ belief' = Decided(heard.belief, Gated(r)) /\ history' = Logged(Gated(r))
          /\ heard' = None /\ channel' = channel
      BY <1>2 DEF Decide
    <2>5. None \notin UserTopics
      BY DEF UserTopics, IInv
    <2>6. history'.act = Gated(r).act /\ history'.topics = UserTopics
      BY <2>4 DEF Logged
    <2> QED BY <2>2, <2>3, <2>4, <2>5, <2>6 DEF IInv, Decision
  <1>3. CASE UNCHANGED vars
    BY <1>3 DEF vars, IInv
  <1> QED BY <1>1, <1>2, <1>3 DEF Next

LEMMA Invariance == Spec => []IInv
  BY InitInv, NextInv, PTL DEF Spec

-----------------------------------------------------------------------------
(* The promises. *)

\* A belief keeps its fields over any number of turns: core/belief_state.py.
THEOREM TypeCorrect == Spec => []TypeOK
  <1>1. IInv => TypeOK
    BY DEF IInv, BeliefInv, TypeOK
  <1> QED BY <1>1, Invariance, PTL

\* Whatever the models say, a paid close is offered only after something was
\* learned, no objection is closed over but by the loop breaker, and a budget
\* that was refused twice is respected: close_floor, must_clear_objection and
\* offer_low_commitment_on_budget hold through the chain that follows them.
THEOREM ClosesEarned == Spec => []ClosesAreEarned
  <1>1. IInv => ClosesAreEarned
    <2> SUFFICES ASSUME IInv, heard # None, NEW r \in Setting.replies
                 PROVE  Earned(Gated(r), heard.belief)
      BY DEF ClosesAreEarned, Always, Earned
    <2> QED BY GatedAllowed DEF Allowed
  <1> QED BY <1>1, Invariance, PTL

\* A stall of three reactive acts is broken, softly once and then by a hand-off
\* that stands: break_no_progress_loop, through the gates that follow it.  The
\* turn on which an escalation of the model is turned down is the exception.
THEOREM LoopsBroken == Spec => []LoopsAreBroken
  <1>1. IInv => LoopsAreBroken
    <2> SUFFICES ASSUME IInv, heard # None, NEW r \in Setting.replies
                 PROVE  Broken(Parse(r), Gated(r), heard.belief, Seen)
      BY DEF LoopsAreBroken, Always, Broken, TurnedDown, Declined
    <2> QED BY GatedAllowed DEF Allowed
  <1> QED BY <1>1, Invariance, PTL

\* The agent hands off for a reason, and shows it: escalation_triggers,
\* de_escalate_or_escalate and the gates that turn an escalation down.
THEOREM HandOffsWarranted == Spec => []HandOffsAreWarranted
  <1>1. IInv => HandOffsAreWarranted
    <2> SUFFICES ASSUME IInv, heard # None, NEW r \in Setting.replies
                 PROVE  Warranted(Parse(r), Gated(r), heard.belief, Seen)
      BY DEF HandOffsAreWarranted, Always, Warranted
    <2> QED BY GatedAllowed DEF Allowed
  <1> QED BY <1>1, Invariance, PTL

\* Where the history holds the utterance, a question that was asked before is
\* not pressed over: address_direct_input and advance_to_close.
THEOREM ReaskedAnswered == Spec => []ReaskedIsAnswered
  <1>1. IInv => ReaskedIsAnswered
    <2> SUFFICES ASSUME IInv, heard # None, NEW r \in Setting.replies, Setting.history_holds,
                        heard.belief.user_act \in DirectQuestion,
                        heard.belief.question \in UserTopics \ TerseTopics
                 PROVE  \/ Gated(r).act \notin PressureActs
                        \/ Gated(r).loop_break \/ Gated(r).tier = "callback"
                        \/ Gated(r).act = "pitch" /\ Parse(r).slot = "budget"
      BY DEF ReaskedIsAnswered, Always
    <2>1. None \notin UserTopics /\ Seen.prior = UserTopics
      BY DEF IInv, UserTopics, Seen
    <2>2. Recurring(heard.belief, Seen)
      BY <2>1 DEF Recurring, QuestionRecurs
    <2> QED BY <2>2, GatedAllowed DEF Allowed, Unpressed
  <1> QED BY <1>1, Invariance, PTL

\* At the cap only the free rung, the breaker's one commitment and the pitch of an
\* escalation turned down are still acts of pressure: pushiness_cap, through the
\* gates that follow it.
THEOREM PressureBounded == Spec => []PressureIsBounded
  <1>1. IInv => PressureIsBounded
    <2> SUFFICES ASSUME IInv, heard # None, NEW r \in Setting.replies,
                        history.pressure = Threshold.pushiness_pressure_count_cap,
                        Gated(r).act \in PressureActs
                 PROVE  \/ /\ Gated(r).act = "attempt_close"
                           /\ \/ Gated(r).tier = "callback"
                              \/ Gated(r).loop_break /\ ~heard.belief.break_fired
                        \/ Gated(r).act = "pitch" /\ TurnedDown(r, Gated(r), heard.belief)
      BY DEF PressureIsBounded, Always
    <2>1. Seen.pressure >= Threshold.pushiness_pressure_count_cap
      BY ThresholdAssumption DEF Seen
    <2> QED BY <2>1, GatedAllowed DEF Allowed, Unpressed, TurnedDown, Declined
  <1> QED BY <1>1, Invariance, PTL

\* No slot is asked for more often than allowed, over a whole call, nor again
\* once it was declined: no_repeat_discovery and the counters it reads.
THEOREM DiscoveryCourteous == Spec => []DiscoveryDoesNotNag
  <1>1. IInv => DiscoveryDoesNotNag
    <2> SUFFICES ASSUME IInv, heard # None, NEW r \in Setting.replies,
                        NEW s \in heard.belief.declined \ {"who_for"},
                        Asks(Gated(r)), Gated(r).slot = s
                 PROVE  FALSE
      BY DEF DiscoveryDoesNotNag, Always, IInv, BeliefInv
    <2> QED BY GatedAllowed DEF Allowed, Courteous
  <1> QED BY <1>1, Invariance, PTL

\* A question about the learner presumes none: establish_who_first, and what
\* dst.update remembers of who the tutoring is for.
THEOREM LearnerNotPresumed == Spec => []LearnerIsNotPresumed
  <1>1. IInv => LearnerIsNotPresumed
    <2> SUFFICES ASSUME IInv, heard # None, NEW r \in Setting.replies,
                        Gated(r).act = "ask", Gated(r).slot \in LearnerSlots
                 PROVE  \/ heard.belief.who_for \/ LearnerSlots \cap heard.belief.locked # {}
                        \/ heard.belief.asked["who_for"] = Threshold.max_slot_asks
      BY DEF LearnerIsNotPresumed, Always
    <2>1. \/ heard.belief.established \/ LearnerSlots \cap heard.belief.locked # {}
          \/ ~(heard.belief.asked["who_for"] < Threshold.max_slot_asks)
      BY GatedAllowed DEF Allowed, Courteous
    <2>2. /\ heard.belief.asked["who_for"] \in Nat
          /\ heard.belief.asked["who_for"] <= Threshold.max_slot_asks
          /\ heard.belief.established =>
               heard.belief.who_for \/ LearnerSlots \cap heard.belief.locked # {}
      BY SlotsAssumption DEF IInv, BeliefInv, BeliefOK
    <2> QED BY <2>1, <2>2, ThresholdAssumption
  <1> QED BY <1>1, Invariance, PTL
=============================================================================
