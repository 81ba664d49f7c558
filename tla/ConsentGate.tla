---------------------------- MODULE ConsentGate ----------------------------
(***************************************************************************)
(* The per-call consent state machine of src/voice/consent.py: one record  *)
(* per gate, one operator per public transition.  The modules that own a   *)
(* gate (DemoCall for the HTTP session, VoiceCall for the LiveKit worker)  *)
(* compose these operators in the order their handlers call them.          *)
(*                                                                         *)
(* The jurisdiction only selects the wording of the disclosure             *)
(* (consent_mode) and no transition reads it, so it is not in the record.  *)
(***************************************************************************)
CONSTANT RefusalPolicy    \* what a refused recording does to the call

Policies == {"proceed_unrecorded", "end"}

ASSUME RefusalPolicyAssumption == RefusalPolicy \in Policies

GateStates == {"pending", "ai_disclosed", "ready", "unrecorded", "need_parental", "ended"}

\* The states in which the brain may run.
Conversable == {"ready", "unrecorded"}

\* Where a parental grant resumes; "unset" until the first minor is flagged.
ResumeStates == {"unset", "ready", "unrecorded"}

Gate == [state: GateStates, granted: BOOLEAN, acked: BOOLEAN, minor: BOOLEAN,
         resume: ResumeStates]

FreshGate == [state |-> "pending", granted |-> FALSE, acked |-> FALSE,
              minor |-> FALSE, resume |-> "unset"]

\* Faulty: only the end of the call stops the brain.
CanConverseUnlessEnded(g) == g.state # "ended"

CanConverse(g) == g.state \in Conversable

CanRecord(g) == g.state = "ready" /\ g.granted

AcknowledgeAI(g) ==
  IF g.state = "pending" THEN [g EXCEPT !.acked = TRUE, !.state = "ai_disclosed"] ELSE g

\* Faulty: a grant opens a gate that a minor check holds.
GrantRecordingOverMinor(g) ==
  [g EXCEPT !.acked = TRUE, !.granted = TRUE,
            !.state = IF @ = "ended" THEN @ ELSE "ready"]

\* Faulty: a grant opens a gate that has ended.
GrantRecordingReopens(g) ==
  [g EXCEPT !.acked = TRUE, !.granted = TRUE,
            !.state = IF @ = "need_parental" THEN @ ELSE "ready"]

\* A grant opens the gate only when neither a minor check nor the end of the
\* call holds it; the two flags change in every state.
GrantRecording(g) ==
  [g EXCEPT !.acked = TRUE, !.granted = TRUE,
            !.state = IF @ \in {"need_parental", "ended"} THEN @ ELSE "ready"]

RefuseRecording(g) ==
  [g EXCEPT !.granted = FALSE,
            !.state = IF @ \in {"need_parental", "ended"} THEN @
                      ELSE IF RefusalPolicy = "end" THEN "ended" ELSE "unrecorded"]

ResumeFor(g) == IF g.granted THEN "ready" ELSE "unrecorded"

FlagMinor(g) ==
  IF g.state = "ended" THEN g
  ELSE [g EXCEPT !.minor = TRUE, !.resume = ResumeFor(g), !.state = "need_parental"]

GrantParental(g) ==
  IF g.state # "need_parental" THEN g
  ELSE [g EXCEPT !.state = IF g.resume = "unset" THEN ResumeFor(g) ELSE g.resume]

DenyParental(g) ==
  IF g.state = "need_parental" THEN [g EXCEPT !.state = "ended"] ELSE g

EndGate(g) == [g EXCEPT !.state = "ended"]
=============================================================================
