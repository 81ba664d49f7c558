----------------------------- MODULE MCDemoCall -----------------------------
(***************************************************************************)
(* Small instances of DemoCall for TLC.                                    *)
(***************************************************************************)
EXTENDS DemoCall, TLC

\* Two close tiers: the one that ends a chat and one that does not.
MCDecisions == {[act |-> "talk", tier |-> "none"],
                [act |-> "attempt_close", tier |-> "trial"],
                [act |-> "escalate", tier |-> "none"]}

AllDecisions == MCDecisions \cup {[act |-> "attempt_close", tier |-> "enrollment"],
                                  [act |-> "disqualify", tier |-> "none"]}

\* The forms the demo page sends: accept (with or without a phone), decline,
\* and a minor without, with and with a refused parental consent.
Form(rec, minor, parental, phone) ==
  [ack |-> TRUE, rec |-> rec, minor |-> minor, parental |-> parental, phone |-> phone]

MCAnswers == {Form(TRUE, FALSE, "absent", TRUE), Form(TRUE, FALSE, "absent", FALSE),
              Form(FALSE, FALSE, "absent", FALSE), Form(TRUE, TRUE, "absent", FALSE),
              Form(TRUE, TRUE, "granted", FALSE), Form(FALSE, TRUE, "granted", FALSE),
              Form(TRUE, TRUE, "denied", FALSE)}

MCSymmetry == Permutations(Handlers)
=============================================================================
