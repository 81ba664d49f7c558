---------------------------- MODULE VoiceSession ----------------------------
(***************************************************************************)
(* src/voice/session.py: the livekit-free orchestrator of one call.  Its   *)
(* state is a record; a speech id is a number, an utterance is its speech  *)
(* id, and a belief is the sequence of the utterances it has absorbed, so  *)
(* a belief computed from a stale one shows which utterances it lost.      *)
(*                                                                         *)
(* An exchange is what one commit_turn appends: the caller's turn and the  *)
(* agent's, to `turns` and to `history` alike, with no await in between.   *)
(***************************************************************************)
EXTENDS Naturals, Sequences

CONSTANTS MaxSpeech,    \* bound on the speech ids of one call
          Decisions,    \* the gated decisions the brain may return
          None          \* the absent value

ASSUME MaxSpeechAssumption == MaxSpeech \in Nat

Speeches == 1..MaxSpeech
Acts  == {"talk", "attempt_close", "escalate", "disqualify"}
Tiers == {"none", "callback", "consultation", "trial", "enrollment"}

\* A decision is an act and, for a close, its ladder tier: policy.py gives a
\* proposed close one, and every gate that forces a close does.
Decision == {d \in [act: Acts, tier: Tiers] : d.act = "attempt_close" => d.tier # "none"}

ASSUME DecisionsAssumption == Decisions \subseteq Decision

Beliefs   == Seq(Speeches)
Exchange  == [speech: Speeches, user_turn: Nat, agent_turn: Nat, decision: Decisions]
Histories == Seq(Exchange)
Pendings  == [speech: Speeches, belief: Beliefs, decision: Decisions]
NoSpeech  == 0

Session == [belief: Beliefs,
            history: Histories,
            pending: [Speeches -> Pendings \cup {None}],
            turn_of: [Speeches -> Nat \cup {None}],   \* the speech -> agent turn join
            next_turn: Nat,
            interrupted: Speeches \cup {NoSpeech}]

ASSUME NoneAssumption == None \notin Nat /\ None \notin Pendings /\ None \notin Session

\* A session built on belief b (empty, or a returning caller's).
FreshSession(b) ==
  [belief |-> b, history |-> <<>>, pending |-> [sp \in Speeches |-> None],
   turn_of |-> [sp \in Speeches |-> None], next_turn |-> 0, interrupted |-> NoSpeech]

\* Faulty: the belief starts afresh on every turn.
NewBeliefForgets(base, sp) == <<sp>>

\* respond(): the new belief is the one it was given plus the new utterance.
NewBelief(base, sp) == Append(base, sp)

\* The end of handle_user_turn(_stream): buffer the speculative turn.
BufferTurn(s, sp, base, d) ==
  [s EXCEPT !.pending[sp] = [speech |-> sp, belief |-> NewBelief(base, sp), decision |-> d]]

\* The exchange commit_turn appends for a buffered turn.
ExchangeOf(s, p) ==
  [speech |-> p.speech, user_turn |-> s.next_turn, agent_turn |-> s.next_turn + 1,
   decision |-> p.decision]

\* Promote the buffered turn p: the only write of committed state.
Promote(s, p) ==
  [belief      |-> p.belief,
   history     |-> Append(s.history, ExchangeOf(s, p)),
   pending     |-> [s.pending EXCEPT ![p.speech] = None],
   turn_of     |-> [s.turn_of EXCEPT ![p.speech] = s.next_turn + 1],
   next_turn   |-> s.next_turn + 2,
   interrupted |-> s.interrupted]

\* Faulty: one turn id is drawn for the two turns of an exchange.
CommitTurnOneId(s, sp) ==
  IF s.pending[sp] = None THEN s
  ELSE [Promote(s, s.pending[sp]) EXCEPT !.next_turn = s.next_turn + 1]

\* Faulty: the transcript advances and the belief does not.
CommitTurnNoBelief(s, sp) ==
  IF s.pending[sp] = None THEN s
  ELSE [Promote(s, s.pending[sp]) EXCEPT !.belief = s.belief]

\* commit_turn: nothing without a buffered turn.
CommitTurn(s, sp) ==
  IF s.pending[sp] = None THEN s ELSE Promote(s, s.pending[sp])

\* on_barge_in: drop the buffered turn, mark the interruption, nothing else.
BargeIn(s, sp) == [s EXCEPT !.pending[sp] = None, !.interrupted = sp]

\* The speech ids of the committed exchanges, in commit order.
SpeechLog(h) == [i \in DOMAIN h |-> h[i].speech]
LastAct(h)   == IF h = <<>> THEN "talk" ELSE h[Len(h)].decision.act
=============================================================================
