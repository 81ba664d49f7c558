------------------------------- MODULE Belief -------------------------------
(***************************************************************************)
(* The belief of core/belief_state.py and its per-turn update,             *)
(* core/dst.py: update.                                                    *)
(*                                                                         *)
(* A text is what the regular expressions of dst.py find in an utterance:  *)
(* the topic it is about, whether it asks, the cues it carries.  A label   *)
(* is what the language model says of the same utterance, which may be     *)
(* anything; None is a call that failed or a reply without an intent.      *)
(* Driver levels are percentages.                                          *)
(***************************************************************************)
EXTENDS Integers, FiniteSets

CONSTANTS
  Slots,      \* the slots that are extracted or asked for
  Threshold,  \* AgentConfig.thresholds, the levels in percent
  None        \* Python's None

LearnerSlots == {"grade_level", "subject", "goal", "timeline", "prior_tutoring"}

Objections == {"price", "efficacy_doubt", "diy_free", "timing", "decision_maker"}

\* The acts of a prospect that another reading of the text may override.
WeakActs == {"question", "statement", None}

Levels == [trust : 0 .. 100, intent : 0 .. 100, sens : 0 .. 100, bail : 0 .. 100]

AtMost(n, bound) == IF n > bound THEN bound ELSE n

(***************************************************************************)
(* A fresh belief.  locked are the slots at or above the lock confidence   *)
(* (which no merge lowers); recent is the length of the reactive run at    *)
(* the end of meta["recent_acts"]; snapshot is meta["progress_snapshot"].  *)
(* turn_count, refusals and recent are counted up to the threshold they    *)
(* are compared with.                                                      *)
(***************************************************************************)
Neutral == [trust |-> 50, intent |-> 50, sens |-> 50, bail |-> 50]

Fresh ==
  [locked |-> {}, drivers |-> Neutral, objection |-> None, user_act |-> None,
   question |-> None, turn_count |-> 0, confidence |-> None, imminent |-> FALSE,
   refusals |-> 0, hostile |-> FALSE, established |-> FALSE, denied |-> FALSE,
   who_for |-> FALSE, declined |-> {}, pending |-> None,
   asked |-> [s \in Slots |-> 0], recent |-> 0, snapshot |-> None,
   break_fired |-> FALSE, terminal_fired |-> FALSE]

Locked(b, s) == s \in b.locked

(***************************************************************************)
(* What the regular expressions read in an utterance: the topic it is      *)
(* about and whether it asks; whether it asks for a person (a cue, or the  *)
(* strict form); the objections it has a cue for and the first complaint   *)
(* of the table; the shapes that override a weak label; what it says of    *)
(* the learner; the slots it fills firmly, and a bare ordinal ("3rd"),     *)
(* which is a grade only as the answer to the question.                    *)
(***************************************************************************)
Shapes == {"plain", "aside", "memory_check", "confirm_request", "guarantee"}

Utterances(topics) ==
  [about : topics, asks : BOOLEAN, person : {"none", "cue", "strict"},
   cues : SUBSET Objections, complaint : Objections \cup {None}, price : BOOLEAN,
   shape : Shapes, refusal : BOOLEAN, hostile : BOOLEAN,
   learner : {"none", "established", "denied"}, disclosure : BOOLEAN,
   declines : BOOLEAN, reveals : SUBSET Slots, bare : BOOLEAN]

\* Whether the agent has just asked for slot s.
JustAsked(b, s, last_agent_act) ==
  b.pending = s /\ last_agent_act \in {"ask", "confirm_known"}

ExtractSlots(b, t, last_agent_act) ==
  [b EXCEPT !.locked = @ \cup t.reveals
                         \cup {s \in {"grade_level"} : t.bare /\ JustAsked(b, s, last_agent_act)}]

(***************************************************************************)
(* The keyword classifier, in the order of its tests.                      *)
(***************************************************************************)
Reading(act, objection, question) ==
  [act |-> act, objection |-> objection, question |-> question]

AskedTopic(t) == IF t.asks THEN t.about ELSE None

ClassifyIntent(t) ==
  IF      t.person = "strict"         THEN Reading("human_request", None, AskedTopic(t))
  ELSE IF t.shape = "confirm_request" THEN Reading("confirm_request", None, t.about)
  ELSE IF t.shape = "memory_check"    THEN Reading("memory_check", None, t.about)
  ELSE IF t.shape = "aside" /\ t.asks THEN Reading("social_aside", None, t.about)
  ELSE IF t.complaint # None
       THEN Reading(IF t.complaint = "price" THEN "price_inquiry" ELSE "objection",
                    t.complaint, AskedTopic(t))
  ELSE IF t.price                     THEN Reading("price_inquiry", None, t.about)
  ELSE IF t.asks                      THEN Reading("question", None, t.about)
  ELSE                                     Reading(None, None, None)

\* A label survives only with a lexical cue for it.
GroundObjection(o, t) == IF o \in Objections /\ o \notin t.cues THEN None ELSE o

GroundHumanRequest(act, t) ==
  IF act # "human_request" \/ t.person # "none" THEN act
  ELSE IF t.asks THEN "question" ELSE "statement"

\* The model's label, grounded, then overridden by what the text shows.
GroundedIntent(label, t) ==
  LET o == GroundObjection(label.objection, t)
      g == GroundHumanRequest(label.act, t)
      a == IF g = "objection" /\ o = None THEN "statement" ELSE g
      q == IF label.sees_question THEN t.about ELSE None
  IN  IF      a \notin WeakActs                        THEN Reading(a, o, q)
      ELSE IF t.shape = "aside" /\ t.asks             THEN Reading("social_aside", o, t.about)
      ELSE IF t.shape = "memory_check"                THEN Reading("memory_check", o, t.about)
      ELSE IF t.shape = "confirm_request" /\ o = None THEN Reading("confirm_request", o, t.about)
      ELSE IF t.shape = "guarantee" /\ o = None       THEN Reading("objection", "efficacy_doubt", q)
      ELSE                                                 Reading(a, o, q)

Intent(label, t) == IF label = None THEN ClassifyIntent(t) ELSE GroundedIntent(label, t)

Refuses(label, t) == IF label = None THEN t.refusal ELSE label.refusal

(***************************************************************************)
(* What update derives from the text alone.                                *)
(***************************************************************************)
\* Who the tutoring is for: an answer, a denial, or a fact about a learner.
\* Faulty: any known slot counts as a learner.
FaultyLearnerRead(b, t) ==
  IF      t.learner = "established" THEN <<TRUE, FALSE, TRUE>>
  ELSE IF t.learner = "denied"      THEN <<FALSE, TRUE, b.who_for>>
  ELSE <<b.established \/ b.who_for \/ b.locked # {}, b.denied, b.who_for>>

LearnerRead(b, t) ==
  IF      t.learner = "established" THEN <<TRUE, FALSE, TRUE>>
  ELSE IF t.learner = "denied"      THEN <<FALSE, TRUE, b.who_for>>
  ELSE <<b.established \/ b.who_for \/ b.locked \cap {"grade_level", "subject"} # {},
         b.denied, b.who_for>>

DeclinedSlots(b, t, last_agent_act) ==
  b.declined \cup {s \in Slots : /\ JustAsked(b, s, last_agent_act)
                                /\ ~Locked(b, s)
                                /\ (t.declines \/ t.learner = "denied")}

\* A disclosure is a concern, unless it comes with a refusal; a refusal
\* without any other objection is one of price.
LiveObjection(o, label, t) ==
  IF      t.disclosure /\ ~Refuses(label, t) THEN "concern"
  ELSE IF o = None /\ Refuses(label, t)      THEN "price"
  ELSE o

(***************************************************************************)
(* dst.update: levels are the drivers after the model's clamped deltas,    *)
(* which may be anything, also in a reply without an intent; after a       *)
(* failed call they are those of b.                                        *)
(***************************************************************************)
Update(b, t, label, levels, last_agent_act) ==
  LET i == Intent(label, t)
      e == ExtractSlots(b, t, last_agent_act)
      w == LearnerRead(e, t)
  IN  [e EXCEPT
        !.drivers     = levels,
        !.turn_count  = AtMost(@ + 1, Threshold.min_turns_before_close),
        !.user_act    = i.act,
        !.objection   = LiveObjection(i.objection, label, t),
        !.question    = i.question,
        !.refusals    = IF Refuses(label, t)
                        THEN AtMost(@ + 1, Threshold.budget_refusals_before_callback) ELSE @,
        !.hostile     = @ \/ t.hostile,
        !.established = w[1],
        !.denied      = w[2],
        !.who_for     = w[3],
        !.declined    = DeclinedSlots(e, t, last_agent_act)]
=============================================================================
