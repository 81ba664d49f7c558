---------------------------- MODULE MCVoiceCall ----------------------------
(***************************************************************************)
(* Small instances of VoiceCall for TLC.                                   *)
(***************************************************************************)
EXTENDS VoiceCall

\* One decision per act; the tier of a close only names its outcome.
MCDecisions == {[act |-> "talk", tier |-> "none"],
                [act |-> "attempt_close", tier |-> "trial"],
                [act |-> "escalate", tier |-> "none"],
                [act |-> "disqualify", tier |-> "none"]}
=============================================================================
