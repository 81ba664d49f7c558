--------------------------- MODULE SessionProofs ---------------------------
(***************************************************************************)
(* Lemmas about what both channels are built from: the consent gate, the   *)
(* session of a call and its episode.                                      *)
(***************************************************************************)
EXTENDS Episodes, ConsentGate, TLAPS

-----------------------------------------------------------------------------
(* The gate. *)

\* Every transition keeps the type of the gate.
LEMMA GateType ==
  ASSUME NEW g \in Gate
  PROVE  /\ AcknowledgeAI(g) \in Gate
         /\ GrantRecording(g) \in Gate
         /\ RefuseRecording(g) \in Gate
         /\ FlagMinor(g) \in Gate
         /\ GrantParental(g) \in Gate
         /\ DenyParental(g) \in Gate
         /\ EndGate(g) \in Gate
  <1> USE DEF Gate, GateStates, ResumeStates, ResumeFor
  <1>1. AcknowledgeAI(g) \in Gate    BY DEF AcknowledgeAI
  <1>2. GrantRecording(g) \in Gate   BY DEF GrantRecording
  <1>3. RefuseRecording(g) \in Gate  BY DEF RefuseRecording
  <1>4. FlagMinor(g) \in Gate        BY DEF FlagMinor
  <1>5. GrantParental(g) \in Gate    BY DEF GrantParental
  <1>6. DenyParental(g) \in Gate     BY DEF DenyParental
  <1>7. EndGate(g) \in Gate          BY DEF EndGate
  <1> QED BY <1>1, <1>2, <1>3, <1>4, <1>5, <1>6, <1>7

-----------------------------------------------------------------------------
(* The session. *)

\* A fresh session is a session.
LEMMA FreshType == FreshSession(<<>>) \in Session
  BY DEF FreshSession, Session, Beliefs, Histories, NoSpeech

\* Buffering a turn and committing it at once appends one exchange, advances
\* the belief and the turn counter, and leaves nothing of it buffered.
LEMMA CommitEffect ==
  ASSUME NEW s \in Session, NEW sp \in Speeches, NEW base \in Beliefs, NEW d \in Decisions,
         NEW t, t = CommitTurn(BufferTurn(s, sp, base, d), sp)
  PROVE  /\ t \in Session
         /\ t.belief    = Append(base, sp)
         /\ t.history   = Append(s.history, [speech     |-> sp,
                                             user_turn  |-> s.next_turn,
                                             agent_turn |-> s.next_turn + 1,
                                             decision   |-> d])
         /\ t.turn_of   = [s.turn_of EXCEPT ![sp] = s.next_turn + 1]
         /\ t.next_turn = s.next_turn + 2
  <1> DEFINE p == [speech |-> sp, belief |-> Append(base, sp), decision |-> d]
             b == [s EXCEPT !.pending[sp] = p]
             e == [speech     |-> sp,
                   user_turn  |-> s.next_turn,
                   agent_turn |-> s.next_turn + 1,
                   decision   |-> d]
  <1>1. p \in Pendings /\ p # None
    BY NoneAssumption DEF Pendings, Beliefs
  <1>2. e \in Exchange
    BY DEF Exchange, Session
  <1>3. BufferTurn(s, sp, base, d) = b
    BY DEF BufferTurn, NewBelief
  <1>4. /\ b \in Session
        /\ b.pending[sp] = p
        /\ b.history = s.history /\ b.turn_of = s.turn_of /\ b.next_turn = s.next_turn
    <2> HIDE DEF p
    <2> QED BY <1>1 DEF Session
  <1>5. ExchangeOf(b, p) = e
    <2>1. ExchangeOf(b, p) = [speech |-> p.speech, user_turn |-> b.next_turn,
                              agent_turn |-> b.next_turn + 1, decision |-> p.decision]
      BY DEF ExchangeOf
    <2> HIDE DEF b
    <2> QED BY <1>4, <2>1
  <1> HIDE DEF b
  <1>6. CommitTurn(b, sp) =
          [belief      |-> Append(base, sp),
           history     |-> Append(s.history, e),
           pending     |-> [b.pending EXCEPT ![sp] = None],
           turn_of     |-> [s.turn_of EXCEPT ![sp] = s.next_turn + 1],
           next_turn   |-> s.next_turn + 2,
           interrupted |-> b.interrupted]
    <2>1. CommitTurn(b, sp) = Promote(b, p)
      BY <1>1, <1>4 DEF CommitTurn
    <2>2. p.belief = Append(base, sp) /\ p.speech = sp
      OBVIOUS
    <2> HIDE DEF p, e
    <2> QED BY <1>4, <1>5, <2>1, <2>2 DEF Promote
  <1>7. /\ Append(base, sp) \in Beliefs
        /\ Append(s.history, e) \in Histories
        /\ [b.pending EXCEPT ![sp] = None] \in [Speeches -> Pendings \cup {None}]
        /\ [s.turn_of EXCEPT ![sp] = s.next_turn + 1] \in [Speeches -> Nat \cup {None}]
        /\ s.next_turn + 2 \in Nat
        /\ b.interrupted \in Speeches \cup {NoSpeech}
    <2> HIDE DEF e
    <2>1. Append(base, sp) \in Beliefs
      BY DEF Beliefs
    <2>2. Append(s.history, e) \in Histories
      BY <1>2 DEF Session, Histories
    <2> QED BY <1>4, <2>1, <2>2 DEF Session
  <1> HIDE DEF e, p
  <1>8. CommitTurn(b, sp) \in Session
    BY <1>6, <1>7 DEF Session
  <1> QED
    BY <1>3, <1>6, <1>8 DEF e

\* A barge-in takes nothing committed back.
LEMMA BargeInEffect ==
  ASSUME NEW s \in Session, NEW sp \in Speeches
  PROVE  /\ BargeIn(s, sp) \in Session
         /\ BargeIn(s, sp).belief = s.belief /\ BargeIn(s, sp).history = s.history
  BY DEF BargeIn, Session

\* The log of a transcript grows with it.
LEMMA SpeechLogAppend ==
  ASSUME NEW h \in Histories, NEW e \in Exchange
  PROVE  /\ SpeechLog(h) \in Seq(Speeches)
         /\ SpeechLog(Append(h, e)) = Append(SpeechLog(h), e.speech)
  <1>1. h \in Seq(Exchange) /\ DOMAIN h = 1..Len(h) /\ Len(h) \in Nat
        /\ Append(h, e) \in Seq(Exchange)
    BY DEF Histories
  <1>2. \A x \in Exchange : x.speech \in Speeches
    BY DEF Exchange
  <1>3. \A i \in 1..Len(h) : h[i].speech \in Speeches
    BY <1>1, <1>2
  <1>4. SpeechLog(h) = [i \in 1..Len(h) |-> h[i].speech]
    BY <1>1 DEF SpeechLog
  <1>5. SpeechLog(h) \in Seq(Speeches) /\ Len(SpeechLog(h)) = Len(h)
    BY <1>1, <1>3, <1>4
  <1>6. SpeechLog(Append(h, e)) = [i \in 1..(Len(h) + 1) |-> Append(h, e)[i].speech]
    BY <1>1 DEF SpeechLog
  <1>7. Append(SpeechLog(h), e.speech) =
          [i \in 1..(Len(h) + 1) |-> IF i <= Len(h) THEN h[i].speech ELSE e.speech]
    BY <1>1, <1>2, <1>4, <1>5
  <1>8. \A i \in 1..(Len(h) + 1) :
          Append(h, e)[i].speech = IF i <= Len(h) THEN h[i].speech ELSE e.speech
    BY <1>1
  <1> QED
    BY <1>5, <1>6, <1>7, <1>8

\* The speech ids of the escalate turns of a transcript.
Escalated(h) == {h[i].speech : i \in {j \in DOMAIN h : h[j].decision.act = "escalate"}}

LEMMA EscalatedAppend ==
  ASSUME NEW h \in Histories, NEW e \in Exchange
  PROVE  Escalated(Append(h, e)) =
           Escalated(h) \cup (IF e.decision.act = "escalate" THEN {e.speech} ELSE {})
  <1> DEFINE k == Append(h, e)
             n == Len(h)
  <1>1. /\ n \in Nat /\ DOMAIN h = 1..n /\ DOMAIN k = 1..(n + 1)
        /\ k[n + 1] = e /\ \A i \in 1..n : k[i] = h[i]
    BY DEF Histories
  <1>2. 1..(n + 1) = (1..n) \cup {n + 1}
    BY <1>1
  <1> HIDE DEF k, n
  <1>3. Escalated(k) = {k[i].speech : i \in {j \in (1..n) \cup {n + 1} :
                                              k[j].decision.act = "escalate"}}
    BY <1>1, <1>2 DEF Escalated
  <1>4. Escalated(h) = {h[i].speech : i \in {j \in 1..n : h[j].decision.act = "escalate"}}
    BY <1>1 DEF Escalated
  <1>5. Escalated(h) = {k[i].speech : i \in {j \in 1..n : k[j].decision.act = "escalate"}}
    BY <1>1, <1>4
  <1>6. Escalated(k) = Escalated(h) \cup {k[i].speech : i \in {j \in {n + 1} :
                                                          k[j].decision.act = "escalate"}}
    BY <1>3, <1>5
  <1> QED
    BY <1>1, <1>6 DEF k

-----------------------------------------------------------------------------
(* The episode. *)

\* A row built from a session is an episode.
LEMMA RowType ==
  ASSUME NEW s \in Session, NEW t \in Tiers, NEW b \in BOOLEAN
  PROVE  /\ LiveEpisode(s, t) \in Episode
         /\ FinalEpisode(s, b, t, "in_progress") \in Episode
  <1>1. s.history \in Histories
    BY DEF Session
  <1>2. \A a : DeriveOutcome(a, t) \in Outcomes
    BY DEF DeriveOutcome, ClosedAs, Tiers, Outcomes
  <1>3. "in_progress" \in Outcomes
    BY DEF Outcomes
  <1>4. LiveEpisode(s, t) \in Episode
    BY <1>1, <1>2, <1>3 DEF LiveEpisode, Episode, Recordeds
  <1>5. FinalEpisode(s, b, t, "in_progress") \in Episode
    BY <1>1, <1>2, <1>3 DEF FinalEpisode, Episode, Recordeds
  <1> QED
    BY <1>4, <1>5
=============================================================================
