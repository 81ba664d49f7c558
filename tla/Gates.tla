-------------------------------- MODULE Gates --------------------------------
(***************************************************************************)
(* The deterministic gates of core/gates.py, each a function of a proposed *)
(* decision d, the belief b and the history h, and the chain apply_gates.  *)
(*                                                                         *)
(* A decision is a record: act, slot (target_slot), tier, concession and   *)
(* confidence are the model's proposal; loop_break and loop_terminal are   *)
(* the tags of decision.meta, imminent is whether a gate has set           *)
(* belief.escalation_imminent.                                             *)
(*                                                                         *)
(* A history is what the gates read of it: prior, the topics of the user   *)
(* turns before the last one; act, pressure and low, the last agent act,   *)
(* the length of the trailing run of pressure acts and that of             *)
(* low-confidence turns, counted up to the thresholds.                     *)
(***************************************************************************)
EXTENDS Belief

CONSTANTS
  Discovery,   \* the discovery sequence of the playbook
  PriceTopics, \* the topics that are price questions
  TerseTopics  \* the topics that share no content word with an earlier turn

PaidTiers     == {"consultation", "trial", "enrollment"}
PressureActs  == {"attempt_close", "pitch"}
ReactiveActs  == {"ask", "confirm_known", "pitch", "answer_via_kb", "handle_objection"}
DirectQuestion == {"question", "price_inquiry"}
LoopBreakK    == 3
IntentEpsilon == 3

Become(d, act, slot, tier) == [d EXCEPT !.act = act, !.slot = slot, !.tier = tier]

AnswerOr(b, act) == IF b.question # None THEN "answer_via_kb" ELSE act

HandOff(d) == [d EXCEPT !.act = "escalate", !.slot = None, !.tier = None,
                        !.concession = "none", !.imminent = TRUE]

FreeClose(d) == [d EXCEPT !.act = "attempt_close", !.slot = None, !.tier = "callback",
                          !.concession = "none"]

(***************************************************************************)
(* The reasons to escalate.                                                *)
(***************************************************************************)
\* The confidence of the belief and those of the history, newest first.
LowConfidenceStreak(b, h) == IF b.confidence = "low" THEN 1 + h.low ELSE 0

EscalationReason(d, b, h) ==
  \/ d.concession = "over"
  \/ b.user_act \in {"human_request", "compliance"}
  \/ LowConfidenceStreak(b, h) >= Threshold.escalate_low_confidence_turns

\* A concession outside price talk is dropped.  The refusals are recorded under
\* another key than the one read here, so they do not count.
GroundConcession(d, b) ==
  IF b.user_act = "price_inquiry" \/ b.objection = "price"
  THEN d ELSE [d EXCEPT !.concession = "none"]

EscalationTriggers(d, b, h) ==
  IF EscalationReason(d, b, h)
  THEN [d EXCEPT !.act = "escalate", !.tier = None, !.imminent = TRUE]
  ELSE d

HostileOrExtremeBail(b) ==
  b.hostile \/ b.drivers.bail >= Threshold.extreme_bail_deescalate

DeEscalate(d, b) ==
  IF d.act \in {"attempt_close", "pitch", "ask", "confirm_known", "handle_objection"}
  THEN HandOff(d) ELSE d

(***************************************************************************)
(* Discovery.                                                              *)
(***************************************************************************)
Asks(d) == d.act = "ask" /\ d.slot # None

SkipKnown(d, b) ==
  IF Asks(d) /\ Locked(b, d.slot) THEN [d EXCEPT !.act = "confirm_known"] ELSE d

\* Faulty: one ask too many.
FaultyNoRepeatDiscovery(d, b) ==
  IF /\ Asks(d)
     /\ ~Locked(b, d.slot)
     /\ d.slot \in b.declined \/ b.asked[d.slot] > Threshold.max_slot_asks
  THEN Become(d, AnswerOr(b, "pitch"), None, None)
  ELSE d

NoRepeatDiscovery(d, b) ==
  IF /\ Asks(d)
     /\ ~Locked(b, d.slot)
     /\ d.slot \in b.declined \/ b.asked[d.slot] >= Threshold.max_slot_asks
  THEN Become(d, AnswerOr(b, "pitch"), None, None)
  ELSE d

EstablishWhoFirst(d, b) ==
  IF /\ ~b.established
     /\ LearnerSlots \cap b.locked = {}
     /\ \/ d.act = "ask" /\ d.slot \in LearnerSlots
        \/ d.act \in {"pitch", "attempt_close"} /\ b.denied
     /\ b.asked["who_for"] < Threshold.max_slot_asks
  THEN IF b.question # None
       THEN [d EXCEPT !.act = "answer_via_kb", !.slot = None]
       ELSE Become(d, "ask", "who_for", None)
  ELSE d

(***************************************************************************)
(* What the prospect just said comes first.                                *)
(***************************************************************************)
\* The question shares its content with an earlier turn, or is a price
\* question after another.
QuestionRecurs(b, h) ==
  \/ b.question \in h.prior \ TerseTopics
  \/ /\ b.user_act = "price_inquiry"
     /\ b.question \in TerseTopics
     /\ h.prior \cap PriceTopics # {}

Recurring(b, h) ==
  b.question # None /\ b.user_act \in DirectQuestion /\ QuestionRecurs(b, h)

AnswerDirectQuestion(d, b, h) ==
  IF d.act = "pitch" /\ h.act = "answer_via_kb" /\ ~Recurring(b, h)
  THEN d ELSE [d EXCEPT !.act = "answer_via_kb", !.tier = None]

AddressDirectInput(d, b, h) ==
  IF Recurring(b, h) /\ d.act = "attempt_close" THEN Become(d, "answer_via_kb", None, None)
  ELSE IF d.act \notin {"ask", "confirm_known", "pitch"} THEN d
  ELSE IF b.objection # None THEN Become(d, "handle_objection", None, None)
  ELSE IF b.user_act = "confirm_request"
       THEN Become(d, "confirm_known",
                   IF Locked(b, "callback_window") THEN "callback_window" ELSE None, None)
  ELSE IF b.question # None /\ b.user_act \in DirectQuestion THEN AnswerDirectQuestion(d, b, h)
  ELSE IF d.act # "pitch" /\ b.drivers.bail >= Threshold.pushiness_cap
       THEN Become(d, "pitch", None, None)
  ELSE d

MustClearObjection(d, b) ==
  IF d.act = "attempt_close" /\ b.objection # None
  THEN [d EXCEPT !.act = "handle_objection", !.tier = None] ELSE d

(***************************************************************************)
(* Price.                                                                  *)
(***************************************************************************)
Required(b) == Cardinality((Discovery \ {"budget"}) \cap b.locked)

OpensPrice(d) ==
  d.act \in {"ask", "answer_via_kb", "confirm_known"} /\ d.slot = "budget"

PriceGateOpen(b) ==
  \/ b.user_act = "price_inquiry" \/ b.question \in PriceTopics \ TerseTopics
  \/ b.drivers.trust >= Threshold.trust_gate_open_price
  \/ /\ Threshold.discovery_slots_required > 0
     /\ Required(b) >= Threshold.discovery_slots_required

PriceGate(d, b) ==
  IF OpensPrice(d) /\ ~PriceGateOpen(b) THEN Become(d, "pitch", None, None) ELSE d

(***************************************************************************)
(* Closing.                                                                *)
(***************************************************************************)
BudgetRefused(b) == b.refusals >= Threshold.budget_refusals_before_callback

\* The tier a belief is ready to be closed at, None when it is not ready.
CloseableTier(b, breakthrough) ==
  IF b.drivers.sens >= Threshold.callback_price_sensitivity \/ BudgetRefused(b) THEN "callback"
  ELSE IF /\ b.drivers.trust >= Threshold.close_ready_trial_trust
          /\ b.drivers.intent >= Threshold.close_ready_trial_intent THEN "trial"
  ELSE IF b.drivers.trust >= Threshold.close_ready_trust \/ breakthrough THEN "consultation"
  ELSE None

\* Faulty: a question that recurs does not hold the close back.
FaultyAdvanceToClose(d, b, h) ==
  IF /\ b.turn_count >= Threshold.min_turns_before_close
     /\ b.user_act # "social_aside"
     /\ d.act \in {"answer_via_kb", "confirm_known", "pitch", "ask"}
     /\ b.objection = None
     /\ CloseableTier(b, FALSE) # None
  THEN Become(d, "attempt_close", None, CloseableTier(b, FALSE))
  ELSE d

AdvanceToClose(d, b, h) ==
  IF /\ b.turn_count >= Threshold.min_turns_before_close
     /\ b.user_act # "social_aside"
     /\ ~Recurring(b, h)
     /\ d.act \in {"answer_via_kb", "confirm_known", "pitch", "ask"}
     /\ b.objection = None
     /\ CloseableTier(b, FALSE) # None
  THEN Become(d, "attempt_close", None, CloseableTier(b, FALSE))
  ELSE d

\* Nothing learned and no readiness signalled.
PaidCloseIsBlind(b) ==
  /\ Required(b) < Threshold.discovery_slots_before_close
  /\ b.drivers.intent <= Neutral.intent

\* Faulty: the free consultation passes as well as the callback.
FaultyCloseFloor(d, b) ==
  IF d.act = "attempt_close" /\ d.tier \notin {"callback", "consultation"} /\ PaidCloseIsBlind(b)
  THEN Become(d, AnswerOr(b, "pitch"), None, None) ELSE d

CloseFloor(d, b) ==
  IF d.act = "attempt_close" /\ d.tier # "callback" /\ PaidCloseIsBlind(b)
  THEN Become(d, AnswerOr(b, "pitch"), None, None) ELSE d

\* Faulty: only the model's reading of the mood backs the pressure off.
FaultyPushinessCap(d, b, h) ==
  IF d.act \in PressureActs /\ b.drivers.bail >= Threshold.pushiness_cap
  THEN [d EXCEPT !.act = AnswerOr(b, "confirm_known"), !.tier = None]
  ELSE d

PushinessCap(d, b, h) ==
  IF /\ d.act \in PressureActs
     /\ \/ b.drivers.bail >= Threshold.pushiness_cap
        \/ h.pressure >= Threshold.pushiness_pressure_count_cap
  THEN [d EXCEPT !.act = AnswerOr(b, "confirm_known"), !.tier = None]
  ELSE d

(***************************************************************************)
(* The loop breaker.                                                       *)
(***************************************************************************)
ProgressSnapshot(b) ==
  [locked |-> Cardinality(b.locked), objection |-> b.objection, intent |-> b.drivers.intent]

MadeProgress(b) ==
  \/ b.snapshot = None
  \/ Cardinality(b.locked) > b.snapshot.locked
  \/ b.snapshot.objection # None /\ b.objection = None
  \/ b.drivers.intent - b.snapshot.intent > IntentEpsilon

Stalled(b) == b.recent = LoopBreakK /\ ~MadeProgress(b)

Terminal(d) == [HandOff(d) EXCEPT !.loop_break = TRUE, !.loop_terminal = TRUE]

\* A soft commitment: a close (never a blind paid one) or a bottom-line answer.
SoftCommit(d, b, h) ==
  LET tier  == CloseableTier(b, b.objection # None)
      blind == tier \in PaidTiers /\ PaidCloseIsBlind(b)
  IN  IF tier # None
      THEN [FreeClose(d) EXCEPT !.tier = IF blind THEN "callback" ELSE tier, !.loop_break = TRUE]
      ELSE IF EscalationReason(d, b, h) THEN Terminal(d)
      ELSE [Become(d, "answer_via_kb", None, None) EXCEPT !.loop_break = TRUE]

\* Faulty: a second stall gets the soft commitment again.
FaultyBreakNoProgressLoop(d, b, h) ==
  IF d.act \notin ReactiveActs \/ ~(b.terminal_fired \/ Stalled(b)) THEN d
  ELSE IF b.terminal_fired THEN Terminal(d)
  ELSE SoftCommit(d, b, h)

BreakNoProgressLoop(d, b, h) ==
  IF d.act \notin ReactiveActs \/ ~(b.terminal_fired \/ Stalled(b)) THEN d
  ELSE IF b.terminal_fired \/ b.break_fired THEN Terminal(d)
  ELSE SoftCommit(d, b, h)

(***************************************************************************)
(* Escalations without a reason, and the budget.                           *)
(***************************************************************************)
\* The caller speaks for somebody else ("for my nephew").
NoAuthority(b) == b.objection = "decision_maker" \/ b.question = "third_party"

NoAuthorityPrefersCallback(d, b, h) ==
  IF d.act = "escalate" /\ NoAuthority(b) /\ ~EscalationReason(d, b, h)
  THEN FreeClose(d) ELSE d

\* Faulty: the model's own wish to escalate is followed.
FaultyEscalateOnlyIfWarranted(d, b, h) ==
  IF d.act = "escalate" /\ ~d.loop_terminal /\ ~EscalationReason(d, b, h) /\ NoAuthority(b)
  THEN FreeClose(d) ELSE d

EscalateOnlyIfWarranted(d, b, h) ==
  IF d.act = "escalate" /\ ~d.loop_terminal /\ ~EscalationReason(d, b, h)
  THEN IF NoAuthority(b) THEN FreeClose(d)
       ELSE [Become(d, AnswerOr(b, "pitch"), None, None) EXCEPT !.concession = "none"]
  ELSE d

OfferLowCommitmentOnBudget(d, b) ==
  IF \/ d.act = "escalate"
     \/ d.act = "attempt_close" /\ d.tier \in {"callback", "consultation"}
     \/ ~BudgetRefused(b)
  THEN d ELSE FreeClose(d)

(***************************************************************************)
(* The chain.                                                              *)
(***************************************************************************)
Chain(d, b, h) ==
  LET known    == EstablishWhoFirst(NoRepeatDiscovery(SkipKnown(d, b), b), b)
      heard    == PriceGate(MustClearObjection(AddressDirectInput(known, b, h), b), b)
      closed   == PushinessCap(CloseFloor(AdvanceToClose(heard, b, h), b), b, h)
      broken   == BreakNoProgressLoop(closed, b, h)
      handed   == EscalateOnlyIfWarranted(NoAuthorityPrefersCallback(broken, b, h), b, h)
  IN  EscalationTriggers(OfferLowCommitmentOnBudget(handed, b), b, h)

ApplyGates(p, b, h) ==
  LET d == GroundConcession(p, b)
      e == DeEscalate(d, b)
  IN  IF EscalationReason(d, b, h) THEN EscalationTriggers(d, b, h)
      ELSE IF HostileOrExtremeBail(b) /\ e.act = "escalate" THEN [e EXCEPT !.imminent = TRUE]
      ELSE Chain(d, b, h)
=============================================================================
