---------------------------- MODULE MCLeadMemory ----------------------------
(***************************************************************************)
(* Two calls of one phone for TLC.  One closes or is escalated; the other  *)
(* tells another value of the same slot and ends with a close.             *)
(***************************************************************************)
EXTENDS LeadMemory

MCPhoneOf == [c \in Calls |-> CHOOSE p \in Phones : TRUE]
MCTells == [c1 |-> [grade_level |-> "9th"], c2 |-> [grade_level |-> "10th", subject |-> "math"]]
MCActs == [c1 |-> {"close", "escalate"}, c2 |-> {"close"}]
=============================================================================
