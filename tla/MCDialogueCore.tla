--------------------------- MODULE MCDialogueCore ---------------------------
(***************************************************************************)
(* Small instances of DialogueCore for TLC.                                *)
(***************************************************************************)
EXTENDS DialogueCore, TLC

\* champion_v0.yaml and the defaults of gates.py, but for two that are scaled to
\* the instance: min_turns_before_close is 2 (4 in gates.py), and
\* discovery_slots_required is 1 (5 in champion_v0.yaml): there, as here, it is
\* every slot of the discovery sequence but the budget.
MCThreshold ==
  [trust_gate_open_price |-> 50, pushiness_cap |-> 70, pushiness_pressure_count_cap |-> 2,
   escalate_low_confidence_turns |-> 2, discovery_slots_required |-> 1,
   budget_refusals_before_callback |-> 2, close_ready_trust |-> 60,
   close_ready_trial_trust |-> 70, close_ready_trial_intent |-> 55,
   min_turns_before_close |-> 2, callback_price_sensitivity |-> 75,
   discovery_slots_before_close |-> 1, extreme_bail_deescalate |-> 90, max_slot_asks |-> 2]

MCDiscovery == {"grade_level", "budget"}

Mood(trust, intent, sens, bail) == [trust |-> trust, intent |-> intent, sens |-> sens, bail |-> bail]

Chat == [about |-> "chat", asks |-> FALSE, person |-> "none", cues |-> {}, complaint |-> None,
         price |-> FALSE, shape |-> "plain", refusal |-> FALSE, hostile |-> FALSE,
         learner |-> "none", disclosure |-> FALSE, declines |-> FALSE, reveals |-> {}, bare |-> FALSE]

Question == [Chat EXCEPT !.about = "proof", !.asks = TRUE]

\* "Just the number", asked again and again, by a caller who names a budget.
TerseQuestion == [Chat EXCEPT !.about = "number", !.asks = TRUE, !.price = TRUE,
                              !.reveals = {"budget"}]

Label(act, objection, sees_question, refusal) ==
  [act |-> act, objection |-> objection, sees_question |-> sees_question, refusal |-> refusal]

Reply(act, slot, tier, concession, confidence) ==
  [act |-> act, slot |-> slot, tier |-> tier, concession |-> concession, confidence |-> confidence]

Asking(slot) == Reply("ask", slot, None, "none", "high")

\* Closes, objections, refusals, loops and hand-offs.
ClosingTexts ==
  {Question,
   [Chat EXCEPT !.refusal = TRUE, !.complaint = "price"],
   [Chat EXCEPT !.complaint = "decision_maker", !.cues = {"decision_maker"}],
   [Chat EXCEPT !.reveals = {"grade_level"}],
   [Chat EXCEPT !.hostile = TRUE],
   [Chat EXCEPT !.person = "strict"]}

ClosingLabels == {None, Label("question", "decision_maker", TRUE, FALSE)}

ClosingReplies ==
  {None,
   Reply("answer_via_kb", "budget", None, "none", "low"),
   Reply("attempt_close", None, None, "over", "high"),
   Reply("attempt_close", None, "trial", "none", "high"),
   Reply("escalate", None, None, "none", "high")}

ClosingMoods == {Mood(40, 50, 50, 50), Mood(70, 60, 50, 50), Mood(60, 50, 50, 80)}

\* Asks, denials, declines, facts given unasked and a request to confirm.
DiscoveryTexts ==
  {Chat, TerseQuestion,
   [Chat EXCEPT !.bare = TRUE],
   [Chat EXCEPT !.declines = TRUE],
   [Chat EXCEPT !.shape = "confirm_request"],
   [Chat EXCEPT !.learner = "denied"],
   [Chat EXCEPT !.learner = "established", !.reveals = {"grade_level"}]}

DiscoveryLabels == {None}

DiscoveryReplies ==
  {Asking("grade_level"), Asking("budget"), Asking("who_for"),
   Reply("answer_via_kb", None, None, "none", "high"),
   Reply("attempt_close", None, "consultation", "none", "high")}

DiscoveryMoods == {Mood(40, 50, 50, 50)}

Script(history_holds, texts, labels, moods, replies) ==
  [history_holds |-> history_holds, texts |-> texts, labels |-> labels, moods |-> moods,
   replies |-> replies]

Closing(history_holds) ==
  Script(history_holds, ClosingTexts, ClosingLabels, ClosingMoods, ClosingReplies)

Discovering(history_holds) ==
  Script(history_holds, DiscoveryTexts, DiscoveryLabels, DiscoveryMoods, DiscoveryReplies)

MCSettings == [self_play |-> Closing(TRUE), demo |-> Discovering(FALSE)]

MCSelfPlay == [self_play |-> Closing(TRUE)]
=============================================================================
