------------------------------ MODULE Prospect ------------------------------
(***************************************************************************)
(* The simulated prospect of sim/prospect.py and its twin of a recorded    *)
(* call, sim/twin.py.  A language model speaks for the prospect and        *)
(* proposes how its feelings move; whether it walks or commits is decided  *)
(* here.  Feelings are percentages.  (Urgency moves with the others and    *)
(* decides nothing; the objections raised and the disqualifier exchanges   *)
(* shape the prompt only.)                                                 *)
(*                                                                         *)
(* A persona has the initial feelings, a budget and a ceiling, the highest *)
(* tier it can commit to; arc is <<>>, or for a twin the feelings of the   *)
(* recorded call, turn by turn.                                            *)
(***************************************************************************)
EXTENDS Integers, Sequences

CONSTANT None

Ladder == <<"callback", "consultation", "trial", "enrollment">>
Tiers  == {Ladder[i] : i \in DOMAIN Ladder}

Soft == {"trust", "need", "intent"}

Percent == 0 .. 100
Mood    == [trust: Percent, need: Percent, intent: Percent]
Persona == [trust: Percent, need: Percent, patience: Percent, budget: Percent,
            ceiling: Tiers \cup {"none"}, arc: Seq(Mood)]

\* What the model may propose: any number, or nothing that can be read.
Delta == [trust: Int, need: Int, intent: Int] \cup {None}

MaxWarming == 14
MaxCooling == 20

Lesser(m, n)  == IF m < n THEN m ELSE n
Greater(m, n) == IF m > n THEN m ELSE n

Clamp(n)      == Lesser(Greater(n, 0), 100)
ClampDelta(d) == Lesser(Greater(d, -MaxCooling), MaxWarming)

(***************************************************************************)
(* Who starts the call.                                                    *)
(***************************************************************************)
InitialState(p) ==
  [trust |-> p.trust, need |-> p.need, intent |-> 10, patience |-> p.patience,
   walked |-> FALSE, committed |-> None, turns |-> 0]

\* The tier a recorded call reached, from the label of its outcome.
CommittedTier(outcome) ==
  CASE outcome = "consult_booked"     -> "consultation"
    [] outcome = "trial_booked"       -> "trial"
    [] outcome = "enrolled"           -> "enrollment"
    [] outcome = "callback_scheduled" -> "callback"
    [] OTHER                          -> None

TwinPersona(outcome, arc) ==
  LET tier == CommittedTier(outcome)
  IN  [trust |-> arc[1].trust, need |-> arc[1].need, patience |-> 70, arc |-> arc,
       budget  |-> IF tier \in Tiers \ {"callback"} THEN 80 ELSE 20,
       ceiling |-> IF tier # None THEN tier ELSE "enrollment"]

\* A twin starts from the first recorded feelings, the intent included.
Opening(p) ==
  IF p.arc = <<>> THEN InitialState(p)
  ELSE [InitialState(p) EXCEPT !.intent = p.arc[1].intent]

(***************************************************************************)
(* How feelings move.                                                      *)
(***************************************************************************)
\* The intent that conviction alone supports, for who can pay at all.
Conviction(s, p) ==
  IF p.budget < 20 THEN 0 ELSE Lesser(40, Clamp(s.trust + s.need - 90))

Warmed(s, deltas) ==
  [s EXCEPT !.trust  = Clamp(@ + ClampDelta(deltas.trust)),
            !.need   = Clamp(@ + ClampDelta(deltas.need)),
            !.intent = Clamp(@ + ClampDelta(deltas.intent))]

\* Faulty: the proposed deltas are taken as they come.
FaultyApplySoftDeltas(s, p, deltas) ==
  [s EXCEPT !.trust  = Clamp(@ + deltas.trust),
            !.need   = Clamp(@ + deltas.need),
            !.intent = Clamp(@ + deltas.intent)]

\* The clamped deltas, then the pull of the conviction; never a push down.
ApplySoftDeltas(s, p, deltas) ==
  LET w      == Warmed(s, deltas)
      target == Conviction(w, p)
  IN  [w EXCEPT !.intent = IF target > @ THEN @ + Lesser(MaxWarming, target - @) ELSE @]

\* Faulty: nothing keeps the patience from going below zero.
FaultyDepletePatience(s, act) ==
  LET pushed == act \in {"attempt_close", "pitch"} /\ s.trust < 50
  IN  [s EXCEPT !.patience = @ - IF pushed THEN 21 ELSE 3]

DepletePatience(s, act) ==
  LET pushed == act \in {"attempt_close", "pitch"} /\ s.trust < 50
  IN  [s EXCEPT !.patience = Clamp(@ - IF pushed THEN 21 ELSE 3)]

(***************************************************************************)
(* The buy gate.                                                           *)
(***************************************************************************)
Rank(tier) == CHOOSE i \in DOMAIN Ladder : Ladder[i] = tier

CeilingRank(p) == IF p.ceiling = "none" THEN 0 ELSE Rank(p.ceiling)

Floor == [enrollment   |-> [need |-> 70, trust |-> 70, intent |-> 70, budget |-> 60],
          trial        |-> [need |-> 55, trust |-> 55, intent |-> 55, budget |-> 40],
          consultation |-> [need |-> 40, trust |-> 40, intent |-> 40, budget |-> 20],
          callback     |-> [need |-> 0,  trust |-> 20, intent |-> 15, budget |-> 0]]

Meets(s, p, tier) ==
  p.budget >= Floor[tier].budget /\ \A f \in Soft : s[f] >= Floor[tier][f]

\* The tier a close offers; nothing else offers one.
Offered(move) ==
  IF move.act # "attempt_close" THEN None
  ELSE IF move.tier = None THEN "consultation" ELSE move.tier

BuyGate(s, p, offer) ==
  IF offer \in Tiers /\ Rank(offer) <= CeilingRank(p) /\ Meets(s, p, offer) THEN offer ELSE None

(***************************************************************************)
(* ProspectSimulator.respond to the agent's last move.  deltas is None     *)
(* when the model answers with no usable JSON.                             *)
(***************************************************************************)
Respond(s, p, move, deltas) ==
  LET tired == [DepletePatience(s, move.act) EXCEPT !.turns = @ + 1]
      moved == IF deltas = None THEN tired ELSE ApplySoftDeltas(tired, p, deltas)
  IN  IF tired.patience = 0 /\ tired.committed = None
      THEN [tired EXCEPT !.walked = TRUE]
      ELSE [moved EXCEPT !.committed = BuyGate(moved, p, Offered(move))]

\* GenerativeTwin.respond: then half the way to the recorded feelings of the
\* turn, those of the last turn when the call goes on for longer.
Anchor(s, p) ==
  LET target == p.arc[Lesser(s.turns, Len(p.arc))]
      half(f) == Clamp(s[f] + (target[f] - s[f]) \div 2)
  IN  [s EXCEPT !.trust = half("trust"), !.need = half("need"), !.intent = half("intent")]

Answer(s, p, move, deltas) ==
  LET t == Respond(s, p, move, deltas) IN IF p.arc = <<>> THEN t ELSE Anchor(t, p)
=============================================================================
