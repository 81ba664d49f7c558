-------------------------- MODULE VoiceCallProofs --------------------------
(***************************************************************************)
(* Theorems about one LiveKit call, for every number of utterances, every  *)
(* set of decisions and either refusal policy.                             *)
(***************************************************************************)
EXTENDS VoiceCall, SessionProofs

-----------------------------------------------------------------------------
(* Type correctness. *)

LEMMA FreshGateType == FreshGate \in Gate
  BY DEF FreshGate, Gate, GateStates, ResumeStates

LEMMA SeedType ==
  ASSUME NEW m
  PROVE  SeedGate(m) \in Gate
  <1> DEFINE acked == AcknowledgeAI(FreshGate)
  <1>1. acked \in Gate
    BY FreshGateType, GateType
  <1> HIDE DEF acked
  <1>2. /\ GrantRecording(acked) \in Gate /\ RefuseRecording(acked) \in Gate
        /\ FlagMinor(acked) \in Gate
    BY <1>1, GateType
  <1>3. SeedGate(m) = CASE m = "absent"        -> FreshGate
                        [] m = "ready"         -> GrantRecording(acked)
                        [] m = "unrecorded"    -> RefuseRecording(acked)
                        [] m = "need_parental" -> FlagMinor(acked)
                        [] OTHER               -> acked
    BY DEF SeedGate, acked
  <1> QED
    BY <1>1, <1>2, <1>3, FreshGateType

\* A spoken reply moves the gate by transitions, and the minor one in any state.
LEMMA ReplyType ==
  ASSUME TypeOK, NEW r \in Replies, ConsentReply(r)
  PROVE  gate' \in Gate
  <1>1. gate \in Gate
    BY DEF TypeOK
  <1>2. AcknowledgeAI(gate) \in Gate
    BY <1>1, GateType
  <1>3. /\ GrantRecording(AcknowledgeAI(gate)) \in Gate
        /\ RefuseRecording(AcknowledgeAI(gate)) \in Gate
    BY <1>2, GateType
  <1>4. FlagMinor(gate) \in Gate /\ EndGate(gate) \in Gate
    BY <1>1, GateType
  <1> QED
    BY <1>1, <1>3, <1>4 DEF ConsentReply

\* What the shutdown callback carries.
Carries == [pc: {"save", "logs", "settle"}, logs: SUBSET Speeches, row: Episode]

LEMMA ShutFields ==
  ASSUME TypeOK
  PROVE  /\ shut.pc = "lead" => shut.logs \in SUBSET Speeches /\ shut.tier \in Tiers
         /\ shut.pc \in {"save", "logs", "settle"} =>
              shut \in Carries /\ shut.logs \in SUBSET Speeches /\ shut.row \in Episode
         /\ shut.pc = "closed" => shut.row \in Episode \cup {None}
  BY DEF TypeOK, Shut, Carries

\* The end of a reply appends one exchange and the belief it was computed from.
LEMMA EndsEffect ==
  ASSUME TypeOK, NEW d \in Decisions, ReplyEnds(d)
  PROVE  /\ reply # None /\ reply.speech \in Speeches /\ session' \in Session
         /\ session'.belief = Append(reply.base, reply.speech)
         /\ \E e \in Exchange : /\ session'.history = Append(session.history, e)
                                /\ e.speech = reply.speech /\ e.decision = d
  <1> DEFINE sp   == reply.speech
             base == reply.base
             t    == CommitTurn(BufferTurn(session, sp, base, d), sp)
             e    == [speech |-> sp, user_turn |-> session.next_turn,
                      agent_turn |-> session.next_turn + 1, decision |-> d]
  <1>1. /\ reply # None /\ sp \in Speeches /\ base \in Beliefs
        /\ session \in Session /\ session' = t
    BY DEF ReplyEnds, TypeOK
  <1>2. e \in Exchange /\ e.speech = sp /\ e.decision = d
    BY <1>1 DEF Exchange, Session
  <1> HIDE DEF sp, base, t
  <1>3. /\ t \in Session
        /\ t.belief = Append(base, sp)
        /\ t.history = Append(session.history, e)
        /\ t.turn_of = [session.turn_of EXCEPT ![sp] = session.next_turn + 1]
        /\ t.next_turn = session.next_turn + 2
    BY <1>1, CommitEffect DEF t
  <1> HIDE DEF e
  <1> QED
    BY <1>1, <1>2, <1>3 DEF sp, base

LEMMA LastSpeech ==
  ASSUME TypeOK, session.history # <<>>
  PROVE  session.history[Len(session.history)].speech \in Speeches
  <1>1. session.history \in Seq(Exchange)
    BY DEF TypeOK, Session, Histories
  <1>2. session.history[Len(session.history)] \in Exchange
    BY <1>1
  <1> QED
    BY <1>2 DEF Exchange

\* Every other step leaves what is committed alone.
Uncommitted ==
  /\ session' \in Session
  /\ session'.belief = session.belief /\ session'.history = session.history

LEMMA Commits ==
  ASSUME TypeOK, [Next]_vars
  PROVE  Uncommitted \/ \E d \in Decisions : ReplyEnds(d)
  <1>0. session \in Session /\ (reply # None => reply.speech \in Speeches)
    BY DEF TypeOK
  <1>1. CASE ReplyDropped
    BY <1>0, <1>1, BargeInEffect DEF ReplyDropped, Uncommitted
  <1>2. CASE PlayoutInterrupted
    BY <1>0, <1>2, BargeInEffect, LastSpeech DEF PlayoutInterrupted, Uncommitted
  <1>3. CASE Ring \/ (\E r \in Replies : ConsentReply(r)) \/ CallerSpeaks \/ ReplyStarts
             \/ Partial \/ Disconnect
    BY <1>0, <1>3 DEF Ring, ConsentReply, CallerSpeaks, ReplyStarts, Partial, Disconnect,
       Uncommitted, turn
  <1>4. CASE Background
    BY <1>0, <1>4 DEF Background, EscalationHandled, WriteLands, Uncommitted, turn
  <1>5. CASE Shutdown
    BY <1>0, <1>5 DEF Shutdown, Drained, LeadSaved, EpisodeSaved, LogsSaved, Settled,
       ShutdownFails, Uncommitted, turn
  <1>6. CASE UNCHANGED vars
    BY <1>0, <1>6 DEF vars, turn, Uncommitted
  <1> QED
    BY <1>1, <1>2, <1>3, <1>4, <1>5, <1>6 DEF Next, Call

LEMMA TerminalType ==
  ASSUME NEW h, NEW t
  PROVE  TerminalOf(h, t) \in Outcomes
  BY DEF TerminalOf, Outcomes

\* The terminal outcome replaces that of a row in progress.
LEMMA LogsEffect ==
  ASSUME TypeOK, LogsSaved
  PROVE  LET terminal == TerminalOf(session.history, tier)
         IN  /\ shut.pc = "logs" /\ shut' \in Shut /\ review' = review \cup shut.logs
             /\ \/ /\ terminal # "in_progress" /\ shut.row.outcome = "in_progress"
                   /\ shut'.pc = "settle" /\ shut'.logs = shut.logs
                   /\ shut'.row \in Episode /\ shut'.row.outcome = terminal
                \/ /\ terminal = "in_progress" \/ shut.row.outcome # "in_progress"
                   /\ shut' = [pc |-> "closed", row |-> shut.row]
                   /\ shut'.pc = "closed" /\ shut'.row = shut.row
  <1> DEFINE terminal == TerminalOf(session.history, tier)
             r == [shut.row EXCEPT !.outcome = terminal]
             u == [shut EXCEPT !.pc = "settle", !.row = r]
  <1>1. shut.pc = "logs" /\ shut \in Carries /\ shut.row \in Episode
    BY ShutFields DEF LogsSaved
  <1>2. terminal \in Outcomes
    BY TerminalType
  <1>3. r \in Episode /\ r.outcome = terminal
    BY <1>1, <1>2 DEF Episode
  <1>4. CASE terminal # "in_progress" /\ shut.row.outcome = "in_progress"
    <2>1. shut' = u
      BY <1>1, <1>4 DEF LogsSaved
    <2> HIDE DEF r, terminal
    <2>2. u \in Carries /\ u.pc = "settle" /\ u.logs = shut.logs /\ u.row = r
      BY <1>1, <1>3 DEF Carries
    <2> QED
      BY <1>1, <1>3, <1>4, <2>1, <2>2 DEF LogsSaved, Carries, Shut, terminal
  <1>5. CASE ~(terminal # "in_progress" /\ shut.row.outcome = "in_progress")
    <2>1. shut' = [pc |-> "closed", row |-> shut.row]
      BY <1>5 DEF LogsSaved
    <2> QED
      BY <1>1, <1>5, <2>1 DEF LogsSaved, Shut
  <1> QED
    BY <1>4, <1>5

LEMMA StartType == FreshSession(<<>>) \in Session /\ FreshGate \in Gate /\ "none" \in Tiers
  BY FreshType, FreshGateType DEF Tiers

LEMMA InitType == Init => TypeOK
  <1> SUFFICES ASSUME Init PROVE TypeOK
    OBVIOUS
  <1>1. gate \in Gate
    BY SeedType DEF Init
  <1>2. 0 \in 0..MaxSpeech
    BY MaxSpeechAssumption
  <1>3. shut \in Shut
    BY DEF Init, Shut
  <1> QED
    BY <1>1, <1>2, <1>3, StartType DEF Init, TypeOK

LEMMA StepType == TypeOK /\ [Next]_vars => TypeOK'
  <1> SUFFICES ASSUME TypeOK, [Next]_vars PROVE TypeOK'
    OBVIOUS
  <1>0. session' \in Session
    BY Commits, EndsEffect DEF Uncommitted
  <1> USE <1>0 DEF consent, turn, store
  <1>1. CASE Ring
    <2>1. LiveEpisode(session, "none") \in Episode /\ shut' \in Shut
      BY <1>1, RowType, StartType DEF Ring, TypeOK, Shut
    <2> QED
      BY <1>1, <2>1 DEF Ring, TypeOK
  <1>2. ASSUME NEW r \in Replies, ConsentReply(r) PROVE TypeOK'
    BY <1>2, ReplyType DEF ConsentReply, TypeOK
  <1>3. CASE CallerSpeaks
    <2>1. counter' \in 0..MaxSpeech /\ stash' \in Speeches
      BY <1>3, MaxSpeechAssumption DEF CallerSpeaks, TypeOK, Speeches
    <2> QED
      BY <1>3, <2>1 DEF CallerSpeaks, TypeOK
  <1>4. CASE ReplyStarts
    <2>1. [speech |-> stash, base |-> session.belief] \in [speech: Speeches, base: Beliefs]
      BY <1>4 DEF ReplyStarts, TypeOK, Session
    <2>2. reply' \in [speech: Speeches, base: Beliefs] \cup {None}
      BY <1>4, <2>1 DEF ReplyStarts
    <2> QED
      BY <1>4, <2>2 DEF ReplyStarts, TypeOK
  <1>5. CASE Partial
    <2>1. LiveEpisode(session, "none") \in Episode
      BY RowType, StartType DEF TypeOK
    <2> QED
      BY <1>5, <2>1 DEF Partial, TypeOK
  <1>6. ASSUME NEW d \in Decisions, ReplyEnds(d) PROVE TypeOK'
    <2>1. writes' = writes \cup {LiveEpisode(session', "none")}
      BY <1>6 DEF ReplyEnds
    <2>2. LiveEpisode(session', "none") \in Episode
      BY RowType, StartType
    <2>3. writes' \subseteq Episode
      BY <2>1, <2>2 DEF TypeOK
    <2>4. d.tier \in Tiers /\ reply.speech \in Speeches
      BY <1>6, EndsEffect, DecisionsAssumption DEF Decision
    <2>5. escalating' \subseteq Speeches /\ tier' \in Tiers
      BY <1>6, <2>4 DEF ReplyEnds, TypeOK
    <2>6. reply' = None /\ UNCHANGED <<consent, counter, stash, escalations, store, shut>>
      BY <1>6 DEF ReplyEnds
    <2> QED
      BY <2>3, <2>5, <2>6 DEF TypeOK
  <1>7. CASE ReplyDropped
    BY <1>7 DEF ReplyDropped, TypeOK
  <1>8. CASE PlayoutInterrupted
    BY <1>8 DEF PlayoutInterrupted, TypeOK
  <1>9. CASE Disconnect
    <2>1. shut' \in Shut
      BY <1>9 DEF Disconnect, Shut
    <2> QED
      BY <1>9, <2>1 DEF Disconnect, TypeOK
  <1>10. ASSUME NEW sp \in Speeches, EscalationHandled(sp) PROVE TypeOK'
    BY <1>10 DEF EscalationHandled, TypeOK
  <1>11. ASSUME NEW w \in writes, WriteLands(w) PROVE TypeOK'
    BY <1>11 DEF WriteLands, TypeOK
  <1>12. CASE Drained
    <2>1. shut' \in Shut
      BY <1>12 DEF Drained, Shut, TypeOK
    <2> QED
      BY <1>12, <2>1 DEF Drained, TypeOK
  <1>13. CASE LeadSaved
    <2>1. CanRecord(gate) \in BOOLEAN /\ shut.tier \in Tiers /\ shut.logs \in SUBSET Speeches
      BY <1>13, ShutFields DEF LeadSaved, CanRecord, TypeOK, Gate
    <2>2. FinalEpisode(session, CanRecord(gate), shut.tier, "in_progress") \in Episode
      BY <2>1, RowType DEF TypeOK
    <2>3. shut' \in Shut
      BY <1>13, <2>1, <2>2 DEF LeadSaved, Shut
    <2> QED
      BY <1>13, <2>3 DEF LeadSaved, TypeOK
  <1>14. CASE EpisodeSaved
    <2>1. shut \in Carries /\ shut.row \in Episode
      BY <1>14, ShutFields DEF EpisodeSaved
    <2>2. shut' \in Shut
      BY <1>14, <2>1 DEF EpisodeSaved, Shut, Carries
    <2> QED
      BY <1>14, <2>1, <2>2 DEF EpisodeSaved, TypeOK
  <1>15. CASE LogsSaved
    <2>1. shut' \in Shut /\ review' \subseteq Speeches
      BY <1>15, LogsEffect, ShutFields DEF TypeOK
    <2> QED
      BY <1>15, <2>1 DEF LogsSaved, TypeOK
  <1>16. CASE Settled
    <2>1. shut.row \in Episode
      BY <1>16, ShutFields DEF Settled
    <2>2. shut' \in Shut
      BY <1>16, <2>1 DEF Settled, Shut
    <2> QED
      BY <1>16, <2>1, <2>2 DEF Settled, TypeOK
  <1>17. CASE ShutdownFails
    <2>1. shut' \in Shut
      BY <1>17 DEF ShutdownFails, Shut
    <2>2. review' \subseteq Speeches
      <3>1. CASE shut.pc = "logs"
        BY <1>17, <3>1, ShutFields DEF ShutdownFails, TypeOK
      <3>2. CASE shut.pc # "logs"
        BY <1>17, <3>2 DEF ShutdownFails, TypeOK
      <3> QED
        BY <3>1, <3>2
    <2> QED
      BY <1>17, <2>1, <2>2 DEF ShutdownFails, TypeOK
  <1>18. CASE UNCHANGED vars
    BY <1>18 DEF vars, TypeOK
  <1> QED
    BY <1>1, <1>2, <1>3, <1>4, <1>5, <1>6, <1>7, <1>8, <1>9, <1>10, <1>11, <1>12, <1>13, <1>14,
       <1>15, <1>16, <1>17, <1>18 DEF Next, Call, Background, Shutdown

\* The records of the call, of what is in flight and of its shutdown callback
\* keep their types.
THEOREM VoiceTypeCorrect == Spec => []TypeOK
  BY InitType, StepType, PTL DEF Spec

-----------------------------------------------------------------------------
(* Utterances and replies. *)

\* Every committed utterance is older than n.
Before(n) == \A i \in DOMAIN session.history : session.history[i].speech < n

\* Utterances are committed in the order they were spoken, and each once: the
\* one being answered is newer than the committed ones, and the one waiting
\* newer than both.  A reply is computed from the belief it will advance.
Ordered ==
  /\ Before(counter + 1) /\ stash <= counter
  /\ stash # NoSpeech => Before(stash)
  /\ reply # None => /\ reply.base = session.belief /\ reply.speech <= counter
                     /\ Before(reply.speech)
                     /\ stash # NoSpeech => reply.speech < stash

\* A call that still waits for the spoken consent has moved neither its gate nor
\* the brain, and the brain runs only while the call is up.
Consented ==
  /\ awaiting => gate = FreshGate
  /\ shut.pc = "starting" => (sip => gate = FreshGate) /\ ~awaiting
  /\ (awaiting \/ ~Live) => stash = NoSpeech /\ reply = None
  /\ reply # None => CanConverse(gate)

Inv1 == TypeOK /\ BeliefCoversHistory /\ Ordered /\ Consented

LEMMA InitTurns == Init => Inv1
  <1> SUFFICES ASSUME Init PROVE Inv1
    OBVIOUS
  <1>1. session.history = <<>> /\ session.belief = <<>>
    BY DEF Init, FreshSession
  <1>2. SpeechLog(<<>>) = <<>>
    BY DEF SpeechLog
  <1>3. BeliefCoversHistory
    BY <1>1, <1>2 DEF BeliefCoversHistory
  <1>4. Ordered
    BY <1>1 DEF Init, Ordered, Before, NoSpeech
  <1>5. sip => gate = FreshGate
    BY DEF Init, SeedGate
  <1>6. Consented
    BY <1>5 DEF Init, Consented
  <1> QED
    BY <1>3, <1>4, <1>6, InitType DEF Inv1

\* A step that takes up no utterance and no reply.
LEMMA OrderedKeeps ==
  ASSUME Inv1, Uncommitted, counter' = counter, stash' \in {stash, NoSpeech},
         reply' \in {reply, None}
  PROVE  Ordered'
  BY DEF Inv1, Uncommitted, Ordered, Before, NoSpeech, TypeOK

LEMMA CoversKeeps ==
  ASSUME Inv1, Uncommitted
  PROVE  BeliefCoversHistory'
  BY DEF Inv1, Uncommitted, BeliefCoversHistory

LEMMA StepTurns == Inv1 /\ [Next]_vars => Inv1'
  <1> SUFFICES ASSUME Inv1, [Next]_vars PROVE BeliefCoversHistory' /\ Ordered' /\ Consented'
    BY StepType DEF Inv1
  <1>0. TypeOK /\ BeliefCoversHistory /\ Ordered /\ Consented
    BY DEF Inv1
  <1> USE DEF consent, turn, store
  <1> DEFINE Goal == BeliefCoversHistory' /\ Ordered' /\ Consented'
  <1>u. Uncommitted \/ \E d \in Decisions : ReplyEnds(d)
    BY <1>0, Commits
  <1>1. ASSUME NEW d \in Decisions, ReplyEnds(d) PROVE Goal
    <2>1. /\ reply # None /\ reply.speech \in Speeches /\ session' \in Session
          /\ session'.belief = Append(reply.base, reply.speech)
          /\ \E e \in Exchange : session'.history = Append(session.history, e)
                                 /\ e.speech = reply.speech
      BY <1>0, <1>1, EndsEffect
    <2>2. PICK e \in Exchange : session'.history = Append(session.history, e)
                                /\ e.speech = reply.speech
      BY <2>1
    <2>3. session.history \in Histories
      BY <1>0 DEF TypeOK, Session
    <2>4. SpeechLog(session'.history) = Append(SpeechLog(session.history), reply.speech)
      BY <2>2, <2>3, SpeechLogAppend
    <2>5. BeliefCoversHistory'
      BY <1>0, <2>1, <2>4 DEF BeliefCoversHistory, Ordered
    <2>6. counter' = counter /\ stash' = stash /\ reply' = None
      BY <1>1 DEF ReplyEnds
    <2>7. ASSUME NEW n \in Nat, Before(n), reply.speech < n
          PROVE  Before(n)'
      <3>1. /\ session.history \in Seq(Exchange) /\ Len(session.history) \in Nat
            /\ DOMAIN session'.history = 1..(Len(session.history) + 1)
            /\ \A i \in 1..Len(session.history) : session'.history[i] = session.history[i]
            /\ session'.history[Len(session.history) + 1] = e
        BY <2>2, <2>3 DEF Histories
      <3> QED
        BY <2>2, <2>7, <3>1 DEF Before
    <2>8. counter \in Nat /\ stash \in Nat /\ reply.speech \in Nat
      BY <1>0, <2>1, MaxSpeechAssumption DEF TypeOK, Speeches, NoSpeech
    <2>9. Before(counter + 1)'
      <3>1. Before(counter + 1) /\ reply.speech < counter + 1 /\ counter + 1 \in Nat
        BY <1>0, <2>1, <2>8 DEF Ordered
      <3>2. \A i \in DOMAIN session'.history : session'.history[i].speech < counter + 1
        BY <2>7, <3>1 DEF Before
      <3> QED
        BY <2>6, <3>2 DEF Before
    <2>10. stash # NoSpeech => Before(stash)'
      BY <1>0, <2>1, <2>6, <2>7, <2>8 DEF Ordered
    <2>11. Ordered'
      BY <1>0, <2>6, <2>9, <2>10 DEF Ordered
    <2>12. Consented'
      BY <1>0, <1>1 DEF ReplyEnds, Consented, Live
    <2> QED
      BY <2>5, <2>11, <2>12
  <1>2. CASE Uncommitted
    <2>0. BeliefCoversHistory'
      BY <1>2, CoversKeeps
    <2>1. CASE Ring
      <3>1. Ordered'
        BY <1>2, <2>1, OrderedKeeps DEF Ring
      <3>2. Consented'
        BY <1>0, <2>1 DEF Ring, Consented, Live
      <3> QED
        BY <2>0, <3>1, <3>2
    <2>2. ASSUME NEW r \in Replies, ConsentReply(r) PROVE Goal
      <3>1. Ordered'
        BY <1>2, <2>2, OrderedKeeps DEF ConsentReply
      <3>2. awaiting' => gate' = gate
        BY <2>2 DEF ConsentReply
      <3>3. stash' = NoSpeech /\ reply' = None /\ shut' = shut /\ shut.pc = "live" /\ gate = FreshGate
        BY <1>0, <2>2 DEF ConsentReply, Consented, Live
      <3>4. Consented'
        BY <3>2, <3>3 DEF Consented, Live
      <3> QED
        BY <2>0, <3>1, <3>4
    <2>3. CASE CallerSpeaks
      <3>1. counter \in Nat /\ counter' = counter + 1 /\ stash' = counter + 1 /\ reply' = reply
        BY <1>0, <2>3 DEF CallerSpeaks, TypeOK
      <3>2. reply # None => reply.speech \in Nat /\ reply.speech <= counter
        BY <1>0, MaxSpeechAssumption DEF TypeOK, Speeches, Ordered
      <3>3. \A i \in DOMAIN session.history : session.history[i].speech \in Nat
        <4>1. session.history \in Seq(Exchange)
          BY <1>0 DEF TypeOK, Session, Histories
        <4>2. \A i \in DOMAIN session.history : session.history[i] \in Exchange
          BY <4>1
        <4> QED
          BY <4>2, MaxSpeechAssumption DEF Exchange, Speeches
      <3>4. Ordered'
        BY <1>0, <1>2, <3>1, <3>2, <3>3 DEF Ordered, Before, Uncommitted, NoSpeech
      <3>5. Consented'
        BY <1>0, <2>3 DEF CallerSpeaks, Consented, Live
      <3> QED
        BY <2>0, <3>4, <3>5
    <2>4. CASE ReplyStarts
      <3>1. counter' = counter /\ stash' = NoSpeech /\ stash # NoSpeech /\ session' = session
        BY <2>4 DEF ReplyStarts
      <3>2. reply' = None \/ reply' = [speech |-> stash, base |-> session.belief]
        BY <2>4 DEF ReplyStarts
      <3>3. Ordered'
        <4>1. counter \in Nat
          BY <1>0 DEF TypeOK
        <4> QED
          BY <1>0, <3>1, <3>2, <4>1 DEF Ordered, Before, NoSpeech
      <3>4. Consented'
        BY <1>0, <2>4 DEF ReplyStarts, Consented, Live
      <3> QED
        BY <2>0, <3>3, <3>4
    <2>5. CASE Partial
      BY <1>0, <1>2, <2>0, <2>5, OrderedKeeps DEF Partial, Consented, Live
    <2>6. CASE ReplyDropped
      BY <1>0, <1>2, <2>0, <2>6, OrderedKeeps DEF ReplyDropped, Consented, Live
    <2>7. CASE PlayoutInterrupted
      BY <1>0, <1>2, <2>0, <2>7, OrderedKeeps DEF PlayoutInterrupted, Consented, Live
    <2>8. CASE Disconnect
      BY <1>0, <1>2, <2>0, <2>8, OrderedKeeps DEF Disconnect, Consented, Live
    <2>9. CASE Background
      <3>1. /\ UNCHANGED <<consent, counter, stash, reply, shut>>
        BY <2>9 DEF Background, EscalationHandled, WriteLands
      <3> QED
        BY <1>0, <1>2, <2>0, <3>1, OrderedKeeps DEF Consented, Live
    <2>10. CASE Shutdown
      <3>1. /\ UNCHANGED <<consent, counter, stash, reply>>
            /\ shut.pc \notin {"starting", "live"} /\ shut'.pc \notin {"starting", "live"}
        <4>1. CASE Drained \/ LeadSaved \/ Settled \/ ShutdownFails
          BY <4>1 DEF Drained, LeadSaved, Settled, ShutdownFails
        <4>2. CASE EpisodeSaved
          <5>1. shut \in Carries
            BY <1>0, <4>2, ShutFields DEF EpisodeSaved
          <5> QED
            BY <4>2, <5>1 DEF EpisodeSaved, Carries
        <4>3. CASE LogsSaved
          BY <1>0, <4>3, LogsEffect DEF LogsSaved
        <4> QED
          BY <2>10, <4>1, <4>2, <4>3 DEF Shutdown
      <3> QED
        BY <1>0, <1>2, <2>0, <3>1, OrderedKeeps DEF Consented, Live
    <2>11. CASE UNCHANGED vars
      BY <1>0, <1>2, <2>0, <2>11, OrderedKeeps DEF vars, Consented, Live
    <2> HIDE DEF Goal
    <2>12. CASE \E d \in Decisions : ReplyEnds(d)
      BY <1>1, <2>12 DEF Goal
    <2>13. Goal
      BY <2>1, <2>2, <2>3, <2>4, <2>5, <2>6, <2>7, <2>8, <2>9, <2>10, <2>11, <2>12
         DEF Next, Call, Goal
    <2> QED
      BY <2>13 DEF Goal
  <1> QED
    BY <1>u, <1>1, <1>2

\* Whatever was interrupted, replaced or refused in between, the belief has
\* absorbed the committed utterances, all of them, in the order of their commits.
THEOREM VoiceBeliefsCover == Spec => []BeliefCoversHistory
  <1>1. Inv1 => BeliefCoversHistory
    BY DEF Inv1
  <1> QED
    BY <1>1, InitTurns, StepTurns, PTL DEF Spec

\* No step adds to the transcript but the end of a reply that started after the
\* consent of the caller, and no consent is taken back while it streams.
THEOREM CommitsNeedConsent == Spec => CommitNeedsConsent
  <1>1. Inv1 /\ [Next]_vars =>
          [session'.history # session.history => gate.state \in Conversable /\ ~awaiting]_vars
    <2> SUFFICES ASSUME Inv1, [Next]_vars, session'.history # session.history
                 PROVE  gate.state \in Conversable /\ ~awaiting
      OBVIOUS
    <2>1. reply # None
      BY Commits, EndsEffect DEF Inv1, Uncommitted
    <2> QED
      BY <2>1 DEF Inv1, Consented, CanConverse
  <1> QED
    BY <1>1, InitTurns, StepTurns, PTL DEF Spec, CommitNeedsConsent

-----------------------------------------------------------------------------
(* VoiceCall implements TurnLog. *)

LEMMA InitLog == Init => Log!Init
  <1> SUFFICES ASSUME Init PROVE Log!Init
    OBVIOUS
  <1>1. SpeechLog(session.history) = <<>> /\ 1..counter = {}
    BY DEF Init, FreshSession, SpeechLog
  <1> QED
    BY <1>1 DEF Log!Init, Phase

\* What the steps do to the mapped phase.
LEMMA PhaseStep ==
  ASSUME Inv1, [Next]_vars
  PROVE  /\ Phase' = Phase \/ (Phase # "over" /\ Phase' \in {"blocked", "open", "over"})
         /\ Phase' = Phase \/ (counter' = counter /\ session' = session)
  <1> USE DEF consent, turn, store
  <1>0. Phase' \in {"blocked", "open", "over"}
    BY DEF Phase
  <1>1. CASE Ring
    <2>1. Phase' = Phase
      BY <1>1 DEF Ring, Phase, CanConverse
    <2> QED
      BY <2>1
  <1>2. ASSUME NEW r \in Replies, ConsentReply(r)
        PROVE  Phase # "over" /\ counter' = counter /\ session' = session
    BY <1>2 DEF ConsentReply, Phase, Inv1, Consented, FreshGate, Live, CanConverse, Conversable
  <1>3. CASE Disconnect
    <2>1. Phase' = "over" /\ counter' = counter /\ session' = session
      BY <1>3 DEF Disconnect, Phase
    <2> QED
      BY <1>0, <2>1
  <1>4. CASE Shutdown
    <2>1. gate' = gate /\ shut.pc \notin {"starting", "live"}
      BY <1>4 DEF Shutdown, Drained, LeadSaved, EpisodeSaved, LogsSaved, Settled, ShutdownFails
    <2>2. shut'.pc \notin {"starting", "live"}
      <3>1. CASE Drained \/ LeadSaved \/ Settled \/ ShutdownFails
        BY <3>1 DEF Drained, LeadSaved, Settled, ShutdownFails
      <3>2. CASE EpisodeSaved
        BY <3>2, ShutFields DEF EpisodeSaved, Carries, Inv1
      <3>3. CASE LogsSaved
        BY <3>3, LogsEffect DEF Inv1
      <3> QED
        BY <1>4, <3>1, <3>2, <3>3 DEF Shutdown
    <2>3. Phase = "over" /\ Phase' = "over"
      BY <2>1, <2>2 DEF Phase
    <2> QED
      BY <2>3
  <1>5. CASE CallerSpeaks \/ ReplyStarts \/ Partial \/ ReplyDropped \/ PlayoutInterrupted
    <2>1. gate' = gate /\ shut' = shut
      BY <1>5 DEF CallerSpeaks, ReplyStarts, Partial, ReplyDropped, PlayoutInterrupted
    <2> QED
      BY <2>1 DEF Phase, CanConverse
  <1>6. ASSUME NEW d \in Decisions, ReplyEnds(d) PROVE Phase' = Phase
    BY <1>6 DEF ReplyEnds, Phase, CanConverse
  <1>7. CASE Background
    <2>1. gate' = gate /\ shut' = shut
      BY <1>7 DEF Background, EscalationHandled, WriteLands
    <2> QED
      BY <2>1 DEF Phase, CanConverse
  <1>8. CASE UNCHANGED vars
    BY <1>8 DEF vars, Phase, CanConverse
  <1> QED
    BY <1>0, <1>1, <1>2, <1>3, <1>4, <1>5, <1>6, <1>7, <1>8 DEF Next, Call

\* Only an utterance that the gate lets in is admitted.
LEMMA AdmitStep ==
  ASSUME Inv1, [Next]_vars
  PROVE  counter' = counter \/ (CallerSpeaks /\ Uncommitted)
  <1> USE DEF consent, turn, store
  <1>1. CASE CallerSpeaks
    BY <1>1 DEF CallerSpeaks, Uncommitted, Inv1, TypeOK
  <1>2. CASE Ring \/ (\E r \in Replies : ConsentReply(r)) \/ ReplyStarts \/ Partial \/ Disconnect
    BY <1>2 DEF Ring, ConsentReply, ReplyStarts, Partial, Disconnect
  <1>3. CASE ReplyDropped \/ PlayoutInterrupted \/ \E d \in Decisions : ReplyEnds(d)
    BY <1>3 DEF ReplyDropped, PlayoutInterrupted, ReplyEnds
  <1>4. CASE Background
    BY <1>4 DEF Background, EscalationHandled, WriteLands
  <1>5. CASE Shutdown
    BY <1>5 DEF Shutdown, Drained, LeadSaved, EpisodeSaved, LogsSaved, Settled, ShutdownFails
  <1>6. CASE UNCHANGED vars
    BY <1>6 DEF vars
  <1> QED
    BY <1>1, <1>2, <1>3, <1>4, <1>5, <1>6 DEF Next, Call

\* Consent and the end of the call are Turnstile steps, an utterance that the
\* gate lets in is an Admit step, and the end of a reply a Write step.
LEMMA StepLog == Inv1 /\ [Next]_vars => [Log!Next]_(Log!vars)
  <1> SUFFICES ASSUME Inv1, [Next]_vars PROVE [Log!Next]_(Log!vars)
    OBVIOUS
  <1>0. TypeOK /\ counter \in Nat
    BY DEF Inv1, TypeOK
  <1>1. CASE Phase' # Phase
    <2>1. /\ Phase # "over" /\ Phase' \in {"blocked", "open", "over"}
          /\ counter' = counter /\ session' = session
      BY <1>1, PhaseStep
    <2>2. Log!Turnstile(Phase')
      BY <2>1 DEF Log!Turnstile
    <2> QED
      BY <2>1, <2>2 DEF Log!Next
  <1>2. CASE Phase' = Phase /\ CallerSpeaks /\ Uncommitted
    <2>1. counter' = counter + 1 /\ counter' \in Speeches /\ Phase = "open"
      BY <1>0, <1>2, MaxSpeechAssumption
         DEF CallerSpeaks, Speeches, Phase, Live, CanConverse, Conversable
    <2>2. 1..counter' = (1..counter) \cup {counter'} /\ counter' \notin 1..counter
      BY <1>0, <2>1
    <2>3. SpeechLog(session'.history) = SpeechLog(session.history)
      BY <1>2 DEF Uncommitted
    <2>4. Log!Admit(counter')
      BY <1>2, <2>1, <2>2, <2>3 DEF Log!Admit
    <2> QED
      BY <2>1, <2>4 DEF Log!Next
  <1>3. CASE Phase' = Phase /\ counter' = counter /\ Uncommitted
    BY <1>3 DEF Uncommitted, Log!vars
  <1>4. ASSUME Phase' = Phase, counter' = counter, NEW d \in Decisions, ReplyEnds(d)
        PROVE  [Log!Next]_(Log!vars)
    <2>1. /\ reply # None /\ reply.speech \in Speeches
          /\ \E e \in Exchange : session'.history = Append(session.history, e)
                                 /\ e.speech = reply.speech
      BY <1>0, <1>4, EndsEffect
    <2>2. session.history \in Histories
      BY <1>0 DEF TypeOK, Session
    <2>3. SpeechLog(session'.history) = Append(SpeechLog(session.history), reply.speech)
      BY <2>1, <2>2, SpeechLogAppend
    <2>4. reply.speech \in 1..counter
      BY <1>0, <2>1, MaxSpeechAssumption DEF Inv1, Ordered, Speeches
    <2>5. ASSUME NEW i \in DOMAIN SpeechLog(session.history),
                 SpeechLog(session.history)[i] = reply.speech
          PROVE  FALSE
      <3>1. i \in DOMAIN session.history /\ session.history[i].speech = reply.speech
        BY <2>5 DEF SpeechLog
      <3>2. session.history[i].speech < reply.speech
        BY <2>1, <3>1 DEF Inv1, Ordered, Before
      <3> QED
        BY <2>1, <3>1, <3>2, MaxSpeechAssumption DEF Speeches
    <2>6. reply.speech \in (1..counter) \ Log!Logged
      BY <2>4, <2>5 DEF Log!Logged
    <2>7. Log!Write(reply.speech)
      BY <1>4, <2>3, <2>6 DEF Log!Write
    <2> QED
      BY <2>1, <2>7 DEF Log!Next
  <1> QED
    BY <1>0, <1>1, <1>2, <1>3, <1>4, PhaseStep, AdmitStep, Commits

\* The LiveKit channel keeps what every channel promises: turns are admitted
\* only while consent allows, logged once, and never after the call is over.
THEOREM VoiceRefinesTurnLog == Spec => ImplementsTurnLog
  <1>1. Inv1 /\ [Next]_vars => [Log!Next]_(Log!vars)
    BY StepLog
  <1> QED
    BY <1>1, InitTurns, StepTurns, InitLog, PTL DEF Spec, ImplementsTurnLog, Log!Spec
-----------------------------------------------------------------------------
(* What the end of the call tells. *)

LEMMA ActsAppend ==
  ASSUME NEW h \in Histories, NEW e \in Exchange
  PROVE  ActsOf(Append(h, e)) = ActsOf(h) \cup {e.decision.act}
  <1> DEFINE k == Append(h, e)
             n == Len(h)
  <1>1. /\ n \in Nat /\ DOMAIN h = 1..n /\ DOMAIN k = 1..(n + 1)
        /\ k[n + 1] = e /\ \A i \in 1..n : k[i] = h[i]
    BY DEF Histories
  <1>2. 1..(n + 1) = (1..n) \cup {n + 1}
    BY <1>1
  <1> HIDE DEF k, n
  <1>3. ActsOf(k) = {k[i].decision.act : i \in (1..n) \cup {n + 1}}
    BY <1>1, <1>2 DEF ActsOf
  <1>4. ActsOf(h) = {k[i].decision.act : i \in 1..n}
    BY <1>1 DEF ActsOf
  <1>5. ActsOf(k) = ActsOf(h) \cup {k[n + 1].decision.act}
    BY <1>3, <1>4
  <1> QED
    BY <1>1, <1>5 DEF k

\* The acts of a transcript; the last one is one of them.
LEMMA ActsType ==
  ASSUME NEW h \in Histories
  PROVE  /\ ActsOf(h) \subseteq Acts
         /\ h = <<>> => ActsOf(h) = {} /\ LastAct(h) = "talk"
         /\ h # <<>> => LastAct(h) \in ActsOf(h)
  <1>1. \A i \in DOMAIN h : h[i].decision \in Decision
    <2>1. \A i \in DOMAIN h : h[i] \in Exchange
      BY DEF Histories
    <2> QED
      BY <2>1, DecisionsAssumption DEF Exchange
  <1>2. ActsOf(h) \subseteq Acts
    BY <1>1 DEF ActsOf, Decision
  <1>3. h = <<>> => ActsOf(h) = {} /\ LastAct(h) = "talk"
    BY DEF ActsOf, LastAct
  <1>4. h # <<>> => Len(h) \in DOMAIN h
    BY DEF Histories
  <1>5. h # <<>> => LastAct(h) \in ActsOf(h)
    BY <1>4 DEF ActsOf, LastAct
  <1> QED
    BY <1>2, <1>3, <1>5

\* What the last act tells, and what is told of the call when it tells nothing.
Derived == DeriveOutcome(LastAct(session.history), tier)
Told    == IF Derived = "in_progress" THEN TerminalOf(session.history, tier) ELSE Derived

\* Every committed escalation has its handler, running or done, and a tier is
\* tracked from the first committed close on.
Tracked ==
  /\ escalating \cup escalations = Escalated(session.history)
  /\ tier # "none" <=> "attempt_close" \in ActsOf(session.history)

\* What the shutdown callback has read is still so when it writes it.
ShutTells ==
  /\ shut.pc \in {"lead", "save", "logs", "settle"} =>
       shut.logs = Escalated(session.history) /\ escalating = {}
  /\ shut.pc = "lead" => shut.tier = tier
  /\ shut.pc \in {"save", "logs"} => shut.row.outcome = Derived
  /\ (shut.pc = "settle" \/ (shut.pc = "closed" /\ shut.row # None)) =>
       shut.row.outcome = Told /\ review = Escalated(session.history)
  /\ shut.pc \in {"starting", "live", "draining", "lead", "save", "logs"} => review = {}

Inv2 == Inv1 /\ Tracked /\ ShutTells

LEMMA InitTold == Init => Inv2
  <1> SUFFICES ASSUME Init PROVE Inv2
    OBVIOUS
  <1>1. session.history = <<>>
    BY DEF Init, FreshSession
  <1>2. Escalated(<<>>) = {} /\ ActsOf(<<>>) = {}
    BY DEF Escalated, ActsOf
  <1>3. Tracked
    BY <1>1, <1>2 DEF Init, Tracked
  <1>4. ShutTells
    BY DEF Init, ShutTells
  <1> QED
    BY <1>3, <1>4, InitTurns DEF Inv2

\* The end of a reply starts a handler for an escalation and tracks a close.
LEMMA EndsTracked ==
  ASSUME Inv2, NEW d \in Decisions, ReplyEnds(d)
  PROVE  Tracked' /\ shut' = shut /\ shut.pc = "live" /\ review' = review
  <1>1. TypeOK /\ Tracked /\ Consented
    BY DEF Inv2, Inv1
  <1>2. /\ reply # None
        /\ \E e \in Exchange : /\ session'.history = Append(session.history, e)
                               /\ e.speech = reply.speech /\ e.decision = d
    BY <1>1, EndsEffect
  <1>3. PICK e \in Exchange : /\ session'.history = Append(session.history, e)
                              /\ e.speech = reply.speech /\ e.decision = d
    BY <1>2
  <1>4. session.history \in Histories
    BY <1>1 DEF TypeOK, Session
  <1>5. /\ Escalated(session'.history) = Escalated(session.history)
             \cup (IF d.act = "escalate" THEN {reply.speech} ELSE {})
        /\ ActsOf(session'.history) = ActsOf(session.history) \cup {d.act}
    BY <1>3, <1>4, EscalatedAppend, ActsAppend
  <1>6. d.act = "attempt_close" => d.tier # "none"
    BY DecisionsAssumption DEF Decision
  <1>7. /\ escalating' = IF d.act = "escalate" THEN escalating \cup {reply.speech} ELSE escalating
        /\ tier' = IF d.act = "attempt_close" THEN d.tier ELSE tier
        /\ escalations' = escalations /\ shut' = shut /\ review' = review
    BY DEF ReplyEnds, store
  <1>8. escalating' \cup escalations' = Escalated(session'.history)
    BY <1>1, <1>5, <1>7 DEF Tracked
  <1>9. tier' # "none" <=> "attempt_close" \in ActsOf(session'.history)
    BY <1>1, <1>5, <1>6, <1>7 DEF Tracked
  <1>10. shut.pc = "live"
    BY <1>1, <1>2 DEF Consented, Live
  <1> QED
    BY <1>7, <1>8, <1>9, <1>10 DEF Tracked

\* Every other step leaves what is told of the call alone.
LEMMA ToldKeeps ==
  ASSUME Uncommitted, tier' = tier
  PROVE  /\ Escalated(session.history)' = Escalated(session.history)
         /\ ActsOf(session.history)' = ActsOf(session.history)
         /\ Derived' = Derived /\ Told' = Told
  BY DEF Uncommitted, Derived, Told

LEMMA StepTold == Inv2 /\ [Next]_vars => Inv2'
  <1> SUFFICES ASSUME Inv2, [Next]_vars PROVE Tracked' /\ ShutTells'
    BY StepTurns DEF Inv2
  <1>0. TypeOK /\ Tracked /\ ShutTells
    BY DEF Inv2, Inv1
  <1> USE DEF consent, turn, store
  <1> DEFINE Goal == Tracked' /\ ShutTells'
  <1>1. ASSUME NEW d \in Decisions, ReplyEnds(d) PROVE Goal
    <2>1. Tracked' /\ shut' = shut /\ shut.pc = "live" /\ review' = review
      BY <1>1, EndsTracked
    <2>2. ShutTells'
      BY <1>0, <2>1 DEF ShutTells
    <2> QED
      BY <2>1, <2>2
  <1>2. ASSUME Uncommitted, UNCHANGED <<tier, review>>,
               escalating' \subseteq escalating,
               escalating' \cup escalations' = escalating \cup escalations,
               shut' = shut \/ (shut.pc \in {"starting", "live"} /\ shut'.pc \in {"live", "draining"})
        PROVE  Goal
    <2>1. Tracked'
      BY <1>0, <1>2, ToldKeeps DEF Tracked
    <2>2. ShutTells'
      <3>1. CASE shut' = shut
        BY <1>0, <1>2, <3>1, ToldKeeps DEF ShutTells
      <3>2. CASE shut.pc \in {"starting", "live"} /\ shut'.pc \in {"live", "draining"}
        BY <1>0, <1>2, <3>2 DEF ShutTells
      <3> QED
        BY <1>2, <3>1, <3>2
    <2> QED
      BY <2>1, <2>2
  <1> HIDE DEF Goal
  <1>3. ASSUME Uncommitted, Ring \/ (\E r \in Replies : ConsentReply(r)) \/ CallerSpeaks
                            \/ ReplyStarts \/ Partial \/ ReplyDropped \/ PlayoutInterrupted
                            \/ Disconnect \/ Background \/ UNCHANGED vars
        PROVE  Goal
    <2>1. CASE Ring \/ Disconnect
      BY <1>2, <1>3, <2>1 DEF Ring, Disconnect
    <2>2. CASE (\E r \in Replies : ConsentReply(r)) \/ CallerSpeaks \/ ReplyStarts \/ Partial
      BY <1>2, <1>3, <2>2 DEF ConsentReply, CallerSpeaks, ReplyStarts, Partial
    <2>3. CASE ReplyDropped \/ PlayoutInterrupted \/ UNCHANGED vars
      BY <1>2, <1>3, <2>3 DEF ReplyDropped, PlayoutInterrupted, vars
    <2>4. CASE Background
      BY <1>2, <1>3, <2>4 DEF Background, EscalationHandled, WriteLands
    <2> QED
      BY <1>3, <2>1, <2>2, <2>3, <2>4
  <1>4. ASSUME Uncommitted, Shutdown PROVE Goal
    <2>1. UNCHANGED <<tier, escalating, escalations>>
      BY <1>4 DEF Shutdown, Drained, LeadSaved, EpisodeSaved, LogsSaved, Settled, ShutdownFails
    <2>2. /\ Tracked' /\ Derived' = Derived /\ Told' = Told
          /\ Escalated(session.history)' = Escalated(session.history)
      BY <1>0, <1>4, <2>1, ToldKeeps DEF Tracked
    <2>3. CASE Drained
      <3>1. /\ shut'.pc = "lead" /\ shut'.logs = escalations /\ shut'.tier = tier
            /\ escalating = {} /\ review' = review /\ shut.pc = "draining"
        BY <2>3 DEF Drained
      <3>2. escalations = Escalated(session.history)
        BY <1>0, <3>1 DEF Tracked
      <3> QED
        BY <1>0, <2>1, <2>2, <3>1, <3>2 DEF ShutTells, Goal
    <2>4. CASE LeadSaved
      <3>1. /\ shut'.pc = "save" /\ shut'.logs = shut.logs /\ review' = review /\ shut.pc = "lead"
            /\ shut'.row = FinalEpisode(session, CanRecord(gate), shut.tier, "in_progress")
        BY <2>4 DEF LeadSaved
      <3>2. shut'.row.outcome = Derived
        BY <1>0, <3>1 DEF FinalEpisode, Derived, ShutTells
      <3> QED
        BY <1>0, <2>1, <2>2, <3>1, <3>2 DEF ShutTells, Goal
    <2>5. CASE EpisodeSaved
      <3>1. shut \in Carries /\ shut' = [shut EXCEPT !.pc = "logs"]
        BY <1>0, <2>5, ShutFields DEF EpisodeSaved
      <3>2. /\ shut'.pc = "logs" /\ shut'.logs = shut.logs /\ shut'.row = shut.row
            /\ review' = review /\ shut.pc = "save"
        BY <2>5, <3>1 DEF EpisodeSaved, Carries
      <3> QED
        BY <1>0, <2>1, <2>2, <3>2 DEF ShutTells, Goal
    <2>6. CASE LogsSaved
      <3> DEFINE terminal == TerminalOf(session.history, tier)
      <3>1. /\ shut.pc = "logs" /\ review' = review \cup shut.logs
            /\ \/ /\ terminal # "in_progress" /\ shut.row.outcome = "in_progress"
                  /\ shut'.pc = "settle" /\ shut'.logs = shut.logs
                  /\ shut'.row.outcome = terminal
               \/ /\ terminal = "in_progress" \/ shut.row.outcome # "in_progress"
                  /\ shut'.pc = "closed" /\ shut'.row = shut.row
        BY <1>0, <2>6, LogsEffect
      <3>2. review' = Escalated(session.history) /\ shut.row.outcome = Derived
        BY <1>0, <3>1 DEF ShutTells
      <3>3. shut'.row.outcome = Told
        BY <3>1, <3>2 DEF Told
      <3> HIDE DEF terminal
      <3> QED
        BY <1>0, <2>1, <2>2, <3>1, <3>2, <3>3 DEF ShutTells, Goal
    <2>7. CASE Settled
      <3>1. /\ shut'.pc = "closed" /\ shut'.row = shut.row /\ review' = review
            /\ shut.pc = "settle"
        BY <2>7 DEF Settled
      <3> QED
        BY <1>0, <2>1, <2>2, <3>1 DEF ShutTells, Goal
    <2>8. CASE ShutdownFails
      <3>1. shut'.pc = "closed" /\ shut'.row = None
        BY <2>8 DEF ShutdownFails
      <3> QED
        BY <2>2, <3>1 DEF ShutTells, Goal
    <2> QED
      BY <1>4, <2>3, <2>4, <2>5, <2>6, <2>7, <2>8 DEF Shutdown
  <1>5. Goal
    BY <1>0, <1>1, <1>3, <1>4, Commits DEF Next, Call
  <1> QED
    BY <1>5 DEF Goal

\* When the shutdown callback succeeds, the review queue holds exactly the
\* escalations of the committed turns, whenever the caller hung up.
THEOREM EscalationsReviewed == Spec => []EscalationsReachReview
  <1>1. Inv2 => EscalationsReachReview
    BY DEF Inv2, ShutTells, EscalationsReachReview, Escalated
  <1> QED
    BY <1>1, InitTold, StepTold, PTL DEF Spec

\* The outcome it leaves in the store tells what happened in the whole call.
THEOREM OutcomesTellTheCall == Spec => []OutcomeTellsTheCall
  <1>1. ASSUME Inv2, shut.pc = "closed", shut.row # None PROVE OutcomeTellsTheCall
    <2> DEFINE h    == session.history
               acts == ActsOf(h)
               o    == shut.row.outcome
    <2>1. h \in Histories /\ tier \in Tiers
      BY <1>1 DEF Inv2, Inv1, TypeOK, Session
    <2>2. /\ acts \subseteq Acts
          /\ h = <<>> => acts = {} /\ LastAct(h) = "talk"
          /\ h # <<>> => LastAct(h) \in acts
      BY <2>1, ActsType
    <2>3. (tier # "none" <=> "attempt_close" \in acts) /\ o = Told
      BY <1>1 DEF Inv2, Tracked, ShutTells
    <2>4. LastAct(h) \in Acts
      BY <2>2 DEF Acts
    <2>5. CASE LastAct(h) = "attempt_close"
      <3>1. DeriveOutcome("attempt_close", tier) \in BookedOutcomes
        BY <2>1 DEF DeriveOutcome, ClosedAs, BookedOutcomes, Tiers
      <3>2. o \in BookedOutcomes
        BY <2>3, <2>5, <3>1 DEF Told, Derived, BookedOutcomes
      <3>3. h # <<>> /\ "attempt_close" \in acts
        BY <2>2, <2>5
      <3> QED
        BY <3>2, <3>3 DEF OutcomeTellsTheCall, BookedOutcomes
    <2>6. CASE LastAct(h) = "escalate"
      <3>1. o = "escalated" /\ h # <<>> /\ "escalate" \in acts
        BY <2>2, <2>3, <2>6 DEF Told, Derived, DeriveOutcome
      <3> QED
        BY <3>1 DEF OutcomeTellsTheCall, BookedOutcomes
    <2>7. CASE LastAct(h) = "disqualify"
      <3>1. o = "disqualified" /\ h # <<>> /\ "disqualify" \in acts
        BY <2>2, <2>3, <2>7 DEF Told, Derived, DeriveOutcome
      <3> QED
        BY <2>7, <3>1 DEF OutcomeTellsTheCall, BookedOutcomes
    <2>8. CASE LastAct(h) = "talk"
      <3>1. o = TerminalOf(h, tier)
        BY <2>3, <2>8 DEF Told, Derived, DeriveOutcome
      <3>2. o = IF "attempt_close" \in acts THEN "in_progress"
                ELSE IF "escalate" \in acts THEN "escalated"
                ELSE IF "disqualify" \in acts THEN "disqualified"
                ELSE IF h = <<>> THEN "abandoned" ELSE "released"
        BY <2>3, <2>8, <3>1 DEF TerminalOf
      <3>3. o = "released" => acts = {"talk"}
        BY <2>2, <2>8, <3>2 DEF Acts
      <3> HIDE DEF o, acts
      <3>4. /\ o = "abandoned" <=> h = <<>>
            /\ o = "disqualified" => "disqualify" \in acts /\ "escalate" \notin acts
            /\ o = "escalated" => "escalate" \in acts
            /\ o \notin BookedOutcomes
            /\ "attempt_close" \notin acts => o # "in_progress"
        BY <2>2, <3>2 DEF BookedOutcomes
      <3> QED
        BY <3>3, <3>4 DEF OutcomeTellsTheCall, o, acts
    <2> QED
      BY <2>4, <2>5, <2>6, <2>7, <2>8 DEF Acts
  <1>2. Inv2 => OutcomeTellsTheCall
    BY <1>1 DEF OutcomeTellsTheCall
  <1> QED
    BY <1>2, InitTold, StepTold, PTL DEF Spec
=============================================================================
