---------------------------- MODULE MCSimulation ----------------------------
(***************************************************************************)
(* A small instance of Simulation for TLC.                                 *)
(***************************************************************************)
EXTENDS Simulation, TLC

Someone(trust, need, patience, budget, ceiling) ==
  [trust |-> trust, need |-> need, patience |-> patience, budget |-> budget,
   ceiling |-> ceiling, arc |-> <<>>]

Feelings(trust, need, intent) == [trust |-> trust, need |-> need, intent |-> intent]

\* A draw from the template deadline_crunch of personas.py.
MCQualified == {Someone(45, 60, 40, 80, "enrollment")}

\* And the named Marcus, a budget shopper without a budget, a gatekeeper, and two
\* twins.
MCPersonas ==
  MCQualified \cup
  {Someone(35, 70, 35, 85, "enrollment"), Someone(60, 80, 60, 5, "callback"), Someone(60, 70, 50, 60, "none"),
   TwinPersona("trial_booked", <<Feelings(50, 60, 50), Feelings(70, 70, 70)>>),
   TwinPersona("abandoned", <<Feelings(50, 50, 30)>>)}

Proposes(n) == [trust |-> n, need |-> n, intent |-> n]

MCDeltas == {None, Proposes(30)}

Says(act, tier) == [act |-> act, tier |-> tier]

MCMoves ==
  {Says("answer_via_kb", None), Says("pitch", None), Says("escalate", None), Says("disqualify", None)}
  \cup {Says("attempt_close", t) : t \in {"callback", "trial", "enrollment"}}
=============================================================================
