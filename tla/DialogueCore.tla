---------------------------- MODULE DialogueCore ----------------------------
(***************************************************************************)
(* The decisions of one call: core/respond.py: _decide_turn, which every   *)
(* channel runs for every utterance.  A turn is two awaits of a language   *)
(* model, so two actions: Hear (dst.update) and Decide (policy.decide with *)
(* its gates, and the bookkeeping that the gates of later turns read).     *)
(* Neither model is trusted: any label, any levels and any proposal.       *)
(*                                                                         *)
(* A channel has its setting: what may be said on it, and history_holds,   *)
(* which tells the channels apart: self-play appends the prospect's turn   *)
(* to the history before the agent decides, the session orchestrator of    *)
(* the voice and demo channels when the turn is committed.                 *)
(***************************************************************************)
EXTENDS Gates

\* Per channel [history_holds, texts, labels, moods, replies]: whether the history
\* holds the utterance being answered; utterances, as the regular expressions of
\* dst.py see them; what the model may say of one, None: a failed call or a reply
\* without an intent; driver levels its deltas may lead to; and what the policy's
\* model may answer.
CONSTANT Settings

Acts == {"confirm_known", "ask", "answer_via_kb", "pitch", "handle_objection",
         "attempt_close", "escalate", "disqualify"}

\* Within the band of max_concession_band or over it; below low_confidence_level
\* or not, None when the model gives no number.
Concessions == {"none", "over"}
Confidences == {"low", "high", None}

ASSUME SettingsAssumption ==
  \A c \in DOMAIN Settings :
    LET s == Settings[c] IN
    /\ s.history_holds \in BOOLEAN
    /\ s.texts \subseteq Utterances({t.about : t \in s.texts})
    /\ s.moods \subseteq Levels
    /\ \A r \in s.replies \ {None} :
         r.slot \in Slots \cup {None} /\ r.concession \in Concessions /\ r.confidence \in Confidences
ASSUME SlotsAssumption == {"who_for", "grade_level"} \subseteq Slots
ASSUME NoneAssumption == None \notin Slots \cup {"budget"}
\* Both are read with int().
ASSUME ThresholdAssumption ==
  {Threshold.max_slot_asks, Threshold.pushiness_pressure_count_cap} \subseteq Nat

VARIABLES
  channel,  \* the channel of the call
  belief,   \* the committed belief
  history,  \* the committed turns, as the gates read them
  heard     \* the turn being decided: its belief and its topic, else None

vars == <<channel, belief, history, heard>>

Setting == Settings[channel]

Silence == [topics |-> {}, last |-> None, act |-> None, pressure |-> 0, low |-> 0]

Init == channel \in DOMAIN Settings /\ belief = Fresh /\ history = Silence /\ heard = None

(***************************************************************************)
(* What the gates see of the history: all user turns but the last of the   *)
(* list, which they take to be the one being answered.                     *)
(***************************************************************************)
UserTopics == IF history.last = None THEN history.topics ELSE history.topics \cup {history.last}

Seen == [prior    |-> IF Setting.history_holds THEN UserTopics ELSE history.topics,
         act      |-> history.act,
         pressure |-> history.pressure,
         low      |-> history.low]

(***************************************************************************)
(* policy._parse_proposal: a reply that is no known act becomes a pitch, a *)
(* close has a tier, nothing else does.                                    *)
(***************************************************************************)
Proposal(act, slot, tier, concession, confidence) ==
  [act |-> act, slot |-> slot, tier |-> tier, concession |-> concession,
   confidence |-> confidence, loop_break |-> FALSE, loop_terminal |-> FALSE, imminent |-> FALSE]

Parse(r) ==
  IF r = None \/ r.act \notin Acts
  THEN Proposal("pitch", None, None, "none", None)
  ELSE Proposal(r.act, r.slot,
                IF r.act # "attempt_close" THEN None
                ELSE IF r.tier \in PaidTiers \cup {"callback"} THEN r.tier ELSE "consultation",
                r.concession, r.confidence)

Gated(r) == ApplyGates(Parse(r), heard.belief, Seen)

(***************************************************************************)
(* The bookkeeping of a decision d on the belief it was made on.           *)
(***************************************************************************)
RecordAskedSlot(b, d) ==
  IF Asks(d) THEN [b EXCEPT !.asked[d.slot] = @ + 1, !.pending = d.slot]
  ELSE [b EXCEPT !.pending = None]

\* Faulty: the window of recent acts is never trimmed.
FaultyRecordRecentAct(b, d) ==
  [b EXCEPT !.recent = IF d.act \in ReactiveActs THEN @ + 1 ELSE 0]

RecordRecentAct(b, d) ==
  [b EXCEPT !.recent = IF d.act \in ReactiveActs THEN AtMost(@ + 1, LoopBreakK) ELSE 0]

\* (The next update overwrites user_act, objection and question unread.)
Decided(b, d) ==
  [RecordRecentAct(RecordAskedSlot(b, d), d) EXCEPT
     !.user_act = None, !.objection = None, !.question = None,
     !.confidence     = IF d.confidence # None THEN d.confidence ELSE @,
     !.imminent       = @ \/ d.imminent,
     !.snapshot       = ProgressSnapshot(b),
     !.break_fired    = @ \/ d.loop_break,
     !.terminal_fired = @ \/ d.loop_terminal]

\* The two turns a channel appends when the reply is committed.
Logged(d) ==
  [topics   |-> UserTopics,
   last     |-> heard.about,
   act      |-> d.act,
   pressure |-> IF d.act \in PressureActs
                THEN AtMost(history.pressure + 1, Threshold.pushiness_pressure_count_cap) ELSE 0,
   low      |-> IF d.confidence = "low"
                THEN AtMost(history.low + 1, Threshold.escalate_low_confidence_turns) ELSE 0]

(***************************************************************************)
(* The two halves of a turn.                                               *)
(***************************************************************************)
Hear(t, label, levels) ==
  /\ heard = None
  /\ heard' = [belief |-> Update(belief, t, label, levels, history.act), about |-> t.about]
  /\ UNCHANGED <<channel, belief, history>>

Decide(r) ==
  /\ heard # None
  /\ \E d \in {Gated(r)} :
       /\ belief' = Decided(heard.belief, d)
       /\ history' = Logged(d)
  /\ heard' = None
  /\ UNCHANGED channel

Next ==
  \/ \E t \in Setting.texts, label \in Setting.labels,
        levels \in Setting.moods \cup {belief.drivers} : Hear(t, label, levels)
  \/ \E r \in Setting.replies : Decide(r)

Spec == Init /\ [][Next]_vars
-----------------------------------------------------------------------------
(***************************************************************************)
(* Properties.  Those of a decision say, of every turn that is being       *)
(* decided, that whatever the model replies the gated decision is allowed. *)
(***************************************************************************)
\* Beliefs and histories have the fields of their classes.
BeliefOK(b) ==
  /\ DOMAIN b = DOMAIN Fresh
  /\ b.locked \subseteq Slots /\ b.declined \subseteq Slots
  /\ b.drivers \in Levels
  /\ b.asked \in [Slots -> Nat] /\ b.pending \in Slots \cup {None}
  /\ b.recent \in 0 .. LoopBreakK
  /\ b.confidence \in Confidences
  /\ {b.imminent, b.hostile, b.established, b.denied, b.who_for,
      b.break_fired, b.terminal_fired} \subseteq BOOLEAN

TypeOK ==
  /\ BeliefOK(belief)
  /\ heard # None => BeliefOK(heard.belief)
  /\ history.act \in Acts \cup {None}

\* What holds of every decision the gates can make on the turn being decided.
Always(P(_, _, _)) == heard # None => \A r \in Setting.replies : P(r, Gated(r), heard.belief)

\* A paid tier is offered only to a prospect of whom something was learned or
\* who showed readiness; an objection is closed over only by the loop breaker
\* or with the free rung; and who refused twice for lack of money is only ever
\* offered the low rungs, or handed off.
ClosesAreEarned ==
  LET Earned(r, d, b) ==
        /\ PaidCloseIsBlind(b) => ~(d.act = "attempt_close" /\ d.tier \in PaidTiers)
        /\ b.objection # None /\ d.act = "attempt_close" => (d.tier = "callback" \/ d.loop_break)
        /\ BudgetRefused(b) => (d.act = "escalate" \/ d.tier \in {"callback", "consultation"})
  IN  Always(Earned)

\* What escalate_only_if_warranted makes of an escalation that the model wished
\* for without a reason: an answer, or a pitch.  Of all that leaves the gates this
\* alone has not passed the loop breaker and the cap on pressure.
TurnedDown(r, d, b) ==
  /\ Parse(r).act = "escalate" /\ ~NoAuthority(b)
  /\ ~EscalationReason(GroundConcession(Parse(r), b), b, Seen)
  /\ d.act = AnswerOr(b, "pitch") /\ d.slot = None /\ d.tier = None

\* Three reactive acts without progress are not followed by a fourth one that
\* is not tagged as the break; once it has broken a loop, the breaker only hands
\* off, or offers the callback to who cannot decide; and after that hand-off no
\* act is reactive.  An escalation turned down escapes the first and the last.
LoopsAreBroken ==
  LET Broken(r, d, b) ==
        /\ Stalled(b) /\ d.act \in ReactiveActs => (d.loop_break \/ TurnedDown(r, d, b))
        /\ b.break_fired /\ d.loop_break =>
             /\ d.loop_terminal
             /\ \/ d.act = "escalate"
                \/ d.act = "attempt_close" /\ d.tier = "callback" /\ NoAuthority(b)
        /\ b.terminal_fired /\ d.act \in ReactiveActs => TurnedDown(r, d, b)
  IN  Always(Broken)

\* The agent hands off for a reason only (an extreme turn, hostility, a loop
\* it has already tried to break), and the belief that the monitor shows says
\* so whenever it does.
HandOffsAreWarranted ==
  LET Warranted(r, d, b) ==
        /\ d.act = "escalate" =>
             /\ d.imminent
             /\ \/ EscalationReason(GroundConcession(Parse(r), b), b, Seen)
                \/ HostileOrExtremeBail(b)
                \/ d.loop_terminal
        /\ d.imminent => (d.act = "escalate" \/ NoAuthority(b))
  IN  Always(Warranted)

\* In self-play, a question that was asked before is not met with a paid close,
\* nor with a pitch that does not come from the price gate.  (The other history
\* lacks the turn, and the gate takes the previous one for it.)
ReaskedIsAnswered ==
  LET Answered(r, d, b) ==
        (/\ Setting.history_holds
         /\ b.user_act \in DirectQuestion /\ b.question \in UserTopics \ TerseTopics) =>
          \/ d.act \notin PressureActs
          \/ d.loop_break \/ d.tier = "callback"
          \/ d.act = "pitch" /\ Parse(r).slot = "budget"
  IN  Always(Answered)

\* An act of pressure that follows as many as the cap allows is the free rung,
\* the one commitment the loop breaker makes in a call, or the pitch that is left
\* of an escalation turned down: no close of the model's, and no other pitch.
PressureIsBounded ==
  LET Bounded(r, d, b) ==
        (history.pressure = Threshold.pushiness_pressure_count_cap /\ d.act \in PressureActs) =>
          \/ d.act = "attempt_close" /\ (d.tier = "callback" \/ (d.loop_break /\ ~b.break_fired))
          \/ d.act = "pitch" /\ TurnedDown(r, d, b)
  IN  Always(Bounded)

\* No slot is asked for a third time in a call, and one the prospect declined
\* is not asked for again (but for who the tutoring is for).
DiscoveryDoesNotNag ==
  LET Dropped(r, d, b) == \A s \in b.declined \ {"who_for"} : ~(Asks(d) /\ d.slot = s)
  IN  /\ \A s \in Slots : belief.asked[s] <= Threshold.max_slot_asks
      /\ Always(Dropped)

\* A question about the learner follows an answer to who the tutoring is for,
\* or a fact about the learner, or two attempts to find out.
LearnerIsNotPresumed ==
  LET Known(r, d, b) ==
        \/ b.who_for \/ LearnerSlots \cap b.locked # {}
        \/ b.asked["who_for"] = Threshold.max_slot_asks
        \/ ~(d.act = "ask" /\ d.slot \in LearnerSlots)
  IN  Always(Known)

\* "Escalates only after N consecutive low-confidence turns": of the decisions
\* made and of the one proposed.
LowConfidenceIsARun ==
  LET Run(r, d, b) ==
        (/\ d.act = "escalate" /\ ~d.loop_terminal /\ ~HostileOrExtremeBail(b)
         /\ d.concession # "over" /\ b.user_act \notin {"human_request", "compliance"}) =>
          history.low + (IF r # None /\ r.confidence = "low" THEN 1 ELSE 0)
            >= Threshold.escalate_low_confidence_turns
  IN  Always(Run)
=============================================================================
