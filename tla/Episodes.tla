------------------------------ MODULE Episodes ------------------------------
(***************************************************************************)
(* src/api/persistence.py: what is written to a call's single episode row. *)
(* Every write replaces the whole row (memory.store.save_episode upserts   *)
(* every column), so a row is a snapshot of a session taken by its writer. *)
(***************************************************************************)
EXTENDS VoiceSession

\* live_heartbeat is stamped by live upserts only; "recorded" by the final save only.
Outcomes == {"in_progress", "enrolled", "trial_booked", "consult_booked", "callback_booked",
             "escalated", "disqualified", "abandoned", "released"}
BookedOutcomes == {"enrolled", "trial_booked", "consult_booked", "callback_booked"}
Recordeds == {"unset", "yes", "no"}

Episode == [outcome: Outcomes, history: Histories, heartbeat: BOOLEAN,
            recorded: Recordeds]

ASSUME NoRowAssumption == None \notin Episode

ClosedAs(tier) ==
  CASE tier = "enrollment" -> "enrolled"
    [] tier = "trial"      -> "trial_booked"
    [] tier = "callback"   -> "callback_booked"
    [] OTHER               -> "consult_booked"

\* derive_outcome: reads the LAST committed act only.
DeriveOutcome(act, tier) ==
  CASE act = "attempt_close" -> ClosedAs(tier)
    [] act = "escalate"      -> "escalated"
    [] act = "disqualify"    -> "disqualified"
    [] OTHER                 -> "in_progress"

\* Faulty: the row stores the tier itself as its outcome.
LiveEpisodeRawTier(s, tier) ==
  [outcome   |-> tier,
   history   |-> s.history, heartbeat |-> TRUE,
   recorded  |-> "unset"]

\* persist_call_live: a tier of "none" leaves the row in progress.
LiveEpisode(s, tier) ==
  [outcome   |-> IF tier = "none" THEN "in_progress" ELSE DeriveOutcome("attempt_close", tier),
   history   |-> s.history, heartbeat |-> TRUE,
   recorded  |-> "unset"]

\* episode_from_session as persist_call_end calls it; override "in_progress"
\* stands for no override.
FinalEpisode(s, can_record, tier, override) ==
  LET derived == DeriveOutcome(LastAct(s.history), tier)
  IN  [outcome   |-> IF derived = "in_progress" THEN override ELSE derived,
       history   |-> s.history, heartbeat |-> FALSE,
       recorded  |-> IF can_record THEN "yes" ELSE "no"]
=============================================================================
