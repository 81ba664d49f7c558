------------------------------ MODULE TurnLog ------------------------------
(***************************************************************************)
(* What every channel promises about the turns of one call, whatever its   *)
(* transport: a turn is admitted only while the call is open, an admitted  *)
(* turn is written to the log at most once, the log only grows, and a call *)
(* that is over never admits another turn.  DemoCall and VoiceCall         *)
(* implement it.                                                           *)
(***************************************************************************)
EXTENDS Naturals, Sequences

CONSTANT Turns    \* the ids a turn may have

VARIABLES phase,      \* "blocked" until consent allows, "open", or "over"
          admitted,   \* turns handed to the brain
          log         \* turns committed, in order

vars == <<phase, admitted, log>>

Logged == {log[i] : i \in DOMAIN log}

TypeOK == /\ phase \in {"blocked", "open", "over"}
          /\ admitted \subseteq Turns
          /\ log \in Seq(Turns)

\* A call dispatched with the consent its browser captured starts open, or
\* over when the recording was refused and the policy ends such a call.
Init == phase \in {"blocked", "open", "over"} /\ admitted = {} /\ log = <<>>

\* Consent opens or blocks the call; the end of the call is for ever.
Turnstile(p) == /\ phase # "over"
                /\ phase' = p
                /\ UNCHANGED <<admitted, log>>

Admit(t) == /\ phase = "open"
            /\ t \notin admitted
            /\ admitted' = admitted \cup {t}
            /\ UNCHANGED <<phase, log>>

Write(t) == /\ t \in admitted \ Logged
            /\ log' = Append(log, t)
            /\ UNCHANGED <<phase, admitted>>

Next == \/ \E p \in {"blocked", "open", "over"} : Turnstile(p)
        \/ \E t \in Turns : Admit(t) \/ Write(t)

Spec == Init /\ [][Next]_vars
=============================================================================
