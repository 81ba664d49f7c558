--------------------------- MODULE DemoCallProofs ---------------------------
(***************************************************************************)
(* Theorems about one HTTP demo session, for every number of concurrent    *)
(* requests, every bound on its turns and either refusal policy.           *)
(***************************************************************************)
EXTENDS DemoCall, SessionProofs

-----------------------------------------------------------------------------
(* The gate. *)

\* Every body of /api/consent/respond leaves the gate in one of its states.
LEMMA AnswerType ==
  ASSUME NEW g \in Gate, NEW a
  PROVE  ApplyAnswer(g, a) \in Gate
  <1> DEFINE acked    == IF a.ack THEN AcknowledgeAI(g) ELSE g
             recorded == IF a.rec THEN GrantRecording(acked) ELSE RefuseRecording(acked)
             flagged  == FlagMinor(recorded)
  <1>1. acked \in Gate     BY GateType
  <1> HIDE DEF acked
  <1>2. recorded \in Gate  BY <1>1, GateType
  <1> HIDE DEF recorded
  <1>3. flagged \in Gate   BY <1>2, GateType
  <1> HIDE DEF flagged
  <1>4. GrantParental(flagged) \in Gate /\ DenyParental(flagged) \in Gate
    BY <1>3, GateType
  <1>5. ApplyAnswer(g, a) =
          IF ~a.minor THEN recorded
          ELSE IF a.parental = "granted" THEN GrantParental(flagged)
          ELSE IF a.parental = "denied" THEN DenyParental(flagged)
          ELSE flagged
    BY DEF ApplyAnswer, acked, recorded, flagged
  <1> QED BY <1>2, <1>3, <1>4, <1>5

-----------------------------------------------------------------------------
(* Type correctness. *)

InTurn == {"sse_open", "retrieving", "generating"}
InEnd  == {"end_lead", "end_save", "end_review"}

\* A handler that serves a turn or an /end has a brain session: the fact that
\* makes the types inductive, and with it the first inductive invariant.
Sessioned == \A h \in Handlers : task[h].pc \in InTurn \cup InEnd => session # None

Inv1 == TypeOK /\ Sessioned

\* What a suspended handler carries.
LEMMA TaskFields ==
  ASSUME NEW t \in Tasks
  PROVE  /\ t.pc \in InTurn => t.speech \in Speeches
         /\ t.pc = "generating" => t.base \in Beliefs
         /\ t.pc \in {"upserting", "end_save", "end_review"} => t.row \in Episode
         /\ t.pc \in InEnd => t.escalations \in SUBSET Speeches
         /\ t.pc = "end_lead" => t.tier \in Tiers
         /\ t.pc = "sse_open" =>
              LET u == [t EXCEPT !.pc = "retrieving"]
              IN  u \in Tasks /\ u.pc = "retrieving" /\ u.speech = t.speech
         /\ t.pc = "end_save" =>
              LET u == [t EXCEPT !.pc = "end_review"]
              IN  u \in Tasks /\ u.pc = "end_review" /\ u.row = t.row
                  /\ u.escalations = t.escalations
  BY DEF Tasks, InTurn, InEnd

\* Suspending a handler on a well-typed record keeps Inv1's part about tasks.
LEMMA SuspendType ==
  ASSUME Inv1, NEW h \in Handlers, NEW t \in Tasks, Suspend(h, t),
         session' = session \/ session' # None,
         t.pc \in InTurn \cup InEnd => session' # None
  PROVE  task' \in [Handlers -> Tasks] /\ Sessioned'
  <1>1. task' \in [Handlers -> Tasks] /\ task'[h] = t
        /\ \A g \in Handlers \ {h} : task'[g] = task[g]
    BY DEF Inv1, TypeOK, Suspend
  <1> QED
    BY <1>1 DEF Inv1, Sessioned

LEMMA IdleType == Idle \in Tasks /\ Idle.pc \notin InTurn \cup InEnd
  BY DEF Idle, Tasks, InTurn, InEnd

LEMMA InitType == Init => Inv1
  <1> SUFFICES ASSUME Init PROVE Inv1
    OBVIOUS
  <1>1. FreshGate \in Gate
    BY DEF FreshGate, Gate, GateStates, ResumeStates
  <1>2. 0 \in 0..MaxSpeech /\ "none" \in Tiers
    BY MaxSpeechAssumption DEF Tiers
  <1>3. task \in [Handlers -> Tasks] /\ Sessioned
    BY IdleType DEF Init, Sessioned
  <1> QED
    BY <1>1, <1>2, <1>3 DEF Init, Inv1, TypeOK

\* One case per action; the two records an action computes are typed first.
LEMMA StepType == Inv1 /\ [Next]_vars => Inv1'
  <1> SUFFICES ASSUME Inv1, [Next]_vars PROVE Inv1'
    OBVIOUS
  <1> USE IdleType DEF Inv1, Return
  <1>1. CASE UNCHANGED vars
    BY <1>1 DEF vars, TypeOK, Sessioned
  <1>2. ASSUME NEW h \in Handlers, Request(h) \/ Proceed(h) PROVE Inv1'
    <2> task[h] \in Tasks
      BY DEF TypeOK
    <2>1. ASSUME NEW a \in Answers, ConsentRespond(h, a) PROVE Inv1'
      <3>1. gate' \in Gate
        BY <2>1, AnswerType DEF ConsentRespond, TypeOK
      <3>2. CASE a.phone /\ ~bound
        <4>1. [pc |-> "hydrating", answer |-> a] \in Tasks
          BY DEF Tasks
        <4> QED BY <2>1, <3>1, <3>2, <4>1, SuspendType DEF ConsentRespond, TypeOK, InTurn, InEnd
      <3>3. CASE ~(a.phone /\ ~bound)
        BY <2>1, <3>1, <3>3 DEF ConsentRespond, TypeOK, Sessioned
      <3> QED BY <3>2, <3>3
    <2>2. ASSUME NEW m \in BOOLEAN, ChatRefused(h, m) PROVE Inv1'
      <3>1. gate' \in Gate
        BY <2>2, GateType DEF ChatRefused, Screen, TypeOK
      <3> QED BY <2>2, <3>1 DEF ChatRefused, TypeOK, Sessioned
    <2>3. ASSUME NEW pc \in {"sse_open", "retrieving"}, ChatAdmitted(h, pc) PROVE Inv1'
      <3>1. counter' \in Speeches /\ counter' \in 0..MaxSpeech
        BY <2>3, MaxSpeechAssumption DEF ChatAdmitted, TypeOK, Speeches
      <3>2. session' \in Session /\ session' # None
        BY <2>3, FreshType, NoneAssumption DEF ChatAdmitted, TypeOK
      <3>3. [pc |-> pc, speech |-> counter'] \in Tasks
        BY <3>1 DEF Tasks
      <3>4. task' \in [Handlers -> Tasks] /\ Sessioned'
        BY <2>3, <3>2, <3>3, SuspendType DEF ChatAdmitted
      <3> QED BY <2>3, <3>1, <3>2, <3>4 DEF ChatAdmitted, TypeOK
    <2>4. CASE EndEmpty(h)
      BY <2>4 DEF EndEmpty, TypeOK, Sessioned
    <2>5. CASE EndStarts(h)
      <3>1. [pc |-> "end_lead", escalations |-> escalations, tier |-> tier] \in Tasks
        BY DEF Tasks, TypeOK
      <3>2. task' \in [Handlers -> Tasks] /\ Sessioned'
        BY <2>5, <3>1, SuspendType DEF EndStarts
      <3> QED BY <2>5, <3>2 DEF EndStarts, TypeOK
    <2>6. CASE Hydrated(h)
      <3>1. gate' \in Gate
        BY <2>6, AnswerType DEF Hydrated, TypeOK
      <3>2. task' \in [Handlers -> Tasks] /\ Sessioned'
        BY <2>6, SuspendType DEF Hydrated
      <3> QED BY <2>6, <3>1, <3>2 DEF Hydrated, TypeOK
    <2>7. CASE StreamStarts(h)
      <3>1. session # None
        BY <2>7 DEF StreamStarts, Sessioned, InTurn
      <3>2. task' \in [Handlers -> Tasks] /\ Sessioned'
        BY <2>7, <3>1, TaskFields, SuspendType DEF StreamStarts
      <3> QED BY <2>7, <3>2 DEF StreamStarts, TypeOK
    <2>8. CASE GenerationStarts(h)
      <3>1. session \in Session /\ session # None
        BY <2>8 DEF GenerationStarts, Sessioned, InTurn, TypeOK
      <3>2. [pc |-> "generating", speech |-> task[h].speech, base |-> session.belief] \in Tasks
        BY <2>8, <3>1, TaskFields DEF GenerationStarts, InTurn, Tasks, Session
      <3>3. task' \in [Handlers -> Tasks] /\ Sessioned'
        BY <2>8, <3>1, <3>2, SuspendType DEF GenerationStarts
      <3> QED BY <2>8, <3>3 DEF GenerationStarts, TypeOK
    <2>9. ASSUME NEW d \in Decisions, TurnEnds(h, d) PROVE Inv1'
      <3> DEFINE sp == task[h].speech
                 s  == CommitTurn(BufferTurn(session, sp, task[h].base, d), sp)
                 t  == IF d.act = "attempt_close" THEN d.tier ELSE tier
      <3>1. session \in Session /\ sp \in Speeches /\ task[h].base \in Beliefs
        BY <2>9, TaskFields DEF TurnEnds, Sessioned, InTurn, TypeOK
      <3>2. s \in Session
        BY <3>1, CommitEffect
      <3>3. t \in Tiers
        BY DecisionsAssumption DEF Decision, TypeOK
      <3>4. LiveEpisode(s, t) \in Episode
        BY <3>2, <3>3, RowType
      <3>5. session' = s /\ tier' = t
            /\ Suspend(h, [pc |-> "upserting", row |-> LiveEpisode(s, t)])
        BY <2>9 DEF TurnEnds
      <3>6. s # None
        BY <3>2, NoneAssumption
      <3>7. escalations' \subseteq Speeches
        BY <2>9, <3>1 DEF TurnEnds, TypeOK
      <3> HIDE DEF s, t
      <3>8. [pc |-> "upserting", row |-> LiveEpisode(s, t)] \in Tasks
        BY <3>4 DEF Tasks
      <3>9. task' \in [Handlers -> Tasks] /\ Sessioned'
        BY <3>5, <3>6, <3>8, SuspendType
      <3> QED BY <2>9, <3>2, <3>3, <3>5, <3>7, <3>9 DEF TurnEnds, TypeOK
    <2>10. CASE TurnFails(h)
      <3>1. task' \in [Handlers -> Tasks] /\ Sessioned'
        BY <2>10, SuspendType DEF TurnFails
      <3> QED BY <2>10, <3>1 DEF TurnFails, TypeOK
    <2>11. CASE UpsertReturns(h)
      <3>1. task' \in [Handlers -> Tasks] /\ Sessioned'
        BY <2>11, SuspendType DEF UpsertReturns
      <3>2. row' \in Episode \cup {None}
        BY <2>11, TaskFields DEF UpsertReturns, TypeOK
      <3> QED BY <2>11, <3>1, <3>2 DEF UpsertReturns, TypeOK
    <2>12. CASE EndBuilds(h)
      <3> DEFINE r == FinalEpisode(session, CanRecord(gate), task[h].tier,
                                   "in_progress")
      <3>1. session \in Session /\ task[h].tier \in Tiers
            /\ task[h].escalations \in SUBSET Speeches
        BY <2>12, TaskFields DEF EndBuilds, Sessioned, InEnd, TypeOK
      <3>2. CanRecord(gate) \in BOOLEAN
        BY DEF CanRecord, TypeOK, Gate
      <3>3. r \in Episode
        BY <3>1, <3>2, RowType
      <3> HIDE DEF r
      <3>4. [pc |-> "end_save", escalations |-> task[h].escalations, row |-> r] \in Tasks
        BY <3>1, <3>3 DEF Tasks
      <3>5. task' \in [Handlers -> Tasks] /\ Sessioned'
        BY <2>12, <3>1, <3>4, NoneAssumption, SuspendType DEF EndBuilds, r
      <3> QED BY <2>12, <3>5 DEF EndBuilds, TypeOK
    <2>13. CASE EndSaves(h)
      <3>1. session # None
        BY <2>13 DEF EndSaves, Sessioned, InEnd
      <3>2. task' \in [Handlers -> Tasks] /\ Sessioned'
        BY <2>13, <3>1, TaskFields, SuspendType DEF EndSaves
      <3>3. row' \in Episode
        BY <2>13, TaskFields DEF EndSaves
      <3> QED BY <2>13, <3>2, <3>3 DEF EndSaves, TypeOK
    <2>14. CASE EndFinishes(h)
      <3>1. task' \in [Handlers -> Tasks] /\ Sessioned'
        BY <2>14, SuspendType DEF EndFinishes
      <3>2. gate' \in Gate /\ review' \subseteq Speeches
        BY <2>14, GateType, TaskFields DEF EndFinishes, TypeOK, InEnd
      <3> QED BY <2>14, <3>1, <3>2 DEF EndFinishes, TypeOK
    <2>15. CASE EndFails(h)
      <3>1. task' \in [Handlers -> Tasks] /\ Sessioned'
        BY <2>15, SuspendType DEF EndFails
      <3>2. review' \subseteq Speeches
        BY <2>15 DEF EndFails, TypeOK
      <3> QED BY <2>15, <3>1, <3>2 DEF EndFails, TypeOK
    <2> QED
      BY <1>2, <2>1, <2>2, <2>3, <2>4, <2>5, <2>6, <2>7, <2>8, <2>9, <2>10, <2>11,
         <2>12, <2>13, <2>14, <2>15 DEF Request, Proceed
  <1> QED
    BY <1>1, <1>2 DEF Next

\* Every record of the session, of its handlers and of the store keeps its
\* type, and no handler serves a turn without a brain session.
THEOREM TypeCorrect == Spec => []TypeOK
  <1>1. Spec => []Inv1
    BY InitType, StepType, PTL DEF Spec
  <1>2. Inv1 => TypeOK
    BY DEF Inv1
  <1> QED
    BY <1>1, <1>2, PTL

-----------------------------------------------------------------------------
(* The transcript: turn ids and the speech -> turn join. *)

\* What a handler is suspended on after a step of handler h.
LEMMA AfterSuspend ==
  ASSUME Inv1, NEW h \in Handlers, NEW t, Suspend(h, t)
  PROVE  task'[h] = t /\ \A g \in Handlers \ {h} : task'[g] = task[g]
  BY DEF Inv1, TypeOK, Suspend

\* The turns in flight and the transcript change in two actions only.
Quiet == /\ session' = session /\ counter' = counter /\ escalations' = escalations
         /\ \A h \in Handlers : task'[h].pc \in InTurn =>
              task[h].pc \in InTurn /\ task'[h].speech = task[h].speech

LEMMA StepShape ==
  ASSUME Inv1, [Next]_vars
  PROVE  \/ Quiet
         \/ \E h \in Handlers, pc \in {"sse_open", "retrieving"} : ChatAdmitted(h, pc)
         \/ \E h \in Handlers, d \in Decisions : TurnEnds(h, d)
  <1> USE DEF Return
  <1>1. CASE UNCHANGED vars
    BY <1>1 DEF vars, Quiet
  <1>2. ASSUME NEW h \in Handlers, Request(h) \/ Proceed(h),
               ~\E pc \in {"sse_open", "retrieving"} : ChatAdmitted(h, pc),
               ~\E d \in Decisions : TurnEnds(h, d)
        PROVE  Quiet
    <2> USE IdleType, AfterSuspend DEF Quiet
    <2> task[h] \in Tasks
      BY DEF Inv1, TypeOK
    <2>1. ASSUME NEW a \in Answers, ConsentRespond(h, a) PROVE Quiet
      <3>1. CASE a.phone /\ ~bound
        <4>1. task'[h] = [pc |-> "hydrating", answer |-> a]
          BY <2>1, <3>1 DEF ConsentRespond
        <4>2. task'[h].pc \notin InTurn
          BY <4>1 DEF InTurn
        <4> QED BY <2>1, <3>1, <4>2 DEF ConsentRespond
      <3>2. CASE ~(a.phone /\ ~bound)
        BY <2>1, <3>2 DEF ConsentRespond
      <3> QED BY <3>1, <3>2
    <2>2. ASSUME NEW m \in BOOLEAN, ChatRefused(h, m) PROVE Quiet
      BY <2>2 DEF ChatRefused
    <2>3. CASE EndEmpty(h)
      BY <2>3 DEF EndEmpty
    <2>4. CASE EndStarts(h)
      <3>1. task'[h].pc \notin InTurn
        BY <2>4 DEF EndStarts, InTurn
      <3> QED BY <2>4, <3>1 DEF EndStarts
    <2>5. CASE Hydrated(h)
      BY <2>5 DEF Hydrated
    <2>6. CASE StreamStarts(h)
      <3> DEFINE u == [task[h] EXCEPT !.pc = "retrieving"]
      <3>1. u.pc = "retrieving" /\ u.speech = task[h].speech
        BY <2>6, TaskFields DEF StreamStarts
      <3> HIDE DEF u
      <3>2. task'[h] = u \/ task'[h] = Idle
        BY <2>6 DEF StreamStarts, u
      <3>3. \A g \in Handlers \ {h} : task'[g] = task[g]
        BY <2>6 DEF StreamStarts
      <3> QED BY <2>6, <3>1, <3>2, <3>3 DEF StreamStarts, InTurn
    <2>7. CASE GenerationStarts(h)
      BY <2>7 DEF GenerationStarts, InTurn
    <2>8. CASE TurnFails(h)
      BY <2>8 DEF TurnFails
    <2>9. CASE UpsertReturns(h)
      BY <2>9 DEF UpsertReturns
    <2>10. CASE EndBuilds(h)
      <3>1. task'[h].pc \notin InTurn
        BY <2>10 DEF EndBuilds, InTurn
      <3> QED BY <2>10, <3>1 DEF EndBuilds
    <2>11. CASE EndSaves(h)
      <3> DEFINE u == [task[h] EXCEPT !.pc = "end_review"]
      <3>1. u.pc \notin InTurn
        BY <2>11, TaskFields DEF EndSaves, InTurn
      <3> HIDE DEF u
      <3>2. task'[h].pc \notin InTurn
        BY <2>11, <3>1 DEF EndSaves, u
      <3> QED BY <2>11, <3>2 DEF EndSaves
    <2>12. CASE EndFinishes(h)
      BY <2>12 DEF EndFinishes
    <2>13. CASE EndFails(h)
      BY <2>13 DEF EndFails
    <2> QED
      BY <1>2, <2>1, <2>2, <2>3, <2>4, <2>5, <2>6, <2>7, <2>8, <2>9, <2>10, <2>11,
         <2>12, <2>13 DEF Request, Proceed
  <1> QED
    BY <1>1, <1>2 DEF Next

\* What ChatAdmitted and TurnEnds do, in the terms the invariants use.
LEMMA AdmittedEffect ==
  ASSUME Inv1, NEW h \in Handlers, NEW pc \in {"sse_open", "retrieving"}, ChatAdmitted(h, pc)
  PROVE  /\ session' = IF session = None THEN FreshSession(<<>>) ELSE session
         /\ session' \in Session /\ session' # None
         /\ counter' = counter + 1 /\ counter' \in Speeches
         /\ task'[h] = [pc |-> pc, speech |-> counter']
         /\ \A g \in Handlers \ {h} : task'[g] = task[g]
  <1>1. counter' \in Speeches
    BY MaxSpeechAssumption DEF ChatAdmitted, Inv1, TypeOK, Speeches
  <1>2. session' \in Session /\ session' # None
    BY FreshType, NoneAssumption DEF ChatAdmitted, Inv1, TypeOK
  <1>3. Suspend(h, [pc |-> pc, speech |-> counter'])
    BY DEF ChatAdmitted
  <1> QED
    BY <1>1, <1>2, <1>3, AfterSuspend DEF ChatAdmitted

LEMMA EndedEffect ==
  ASSUME Inv1, NEW h \in Handlers, NEW d \in Decisions, TurnEnds(h, d)
  PROVE  LET sp == task[h].speech
         IN  /\ session \in Session /\ session # None /\ session' \in Session /\ session' # None
             /\ sp \in Speeches /\ task[h].base \in Beliefs
             /\ session'.belief    = Append(task[h].base, sp)
             /\ session'.history   = Append(session.history, [speech     |-> sp,
                                                 user_turn  |-> session.next_turn,
                                                 agent_turn |-> session.next_turn + 1,
                                                 decision   |-> d])
             /\ session'.turn_of   = [session.turn_of EXCEPT ![sp] = session.next_turn + 1]
             /\ session'.next_turn = session.next_turn + 2
             /\ counter' = counter
             /\ task'[h].pc = "upserting"
             /\ task'[h].row.history = session'.history
             /\ \A g \in Handlers \ {h} : task'[g] = task[g]
  <1> DEFINE sp   == task[h].speech
             base == task[h].base
             s    == CommitTurn(BufferTurn(session, sp, base, d), sp)
             t    == IF d.act = "attempt_close" THEN d.tier ELSE tier
             e    == [speech     |-> sp,
                      user_turn  |-> session.next_turn,
                      agent_turn |-> session.next_turn + 1,
                      decision   |-> d]
  <1>1. session \in Session /\ session # None /\ sp \in Speeches /\ base \in Beliefs
    BY TaskFields DEF TurnEnds, Inv1, Sessioned, InTurn, TypeOK
  <1>2. session' = s /\ counter' = counter
        /\ Suspend(h, [pc |-> "upserting", row |-> LiveEpisode(s, t)])
    BY DEF TurnEnds
  <1>3. LiveEpisode(s, t).history = s.history
    BY DEF LiveEpisode
  <1> HIDE DEF sp, base, t, s
  <1>4. /\ s \in Session
        /\ s.belief    = Append(base, sp)
        /\ s.history   = Append(session.history, e)
        /\ s.turn_of   = [session.turn_of EXCEPT ![sp] = session.next_turn + 1]
        /\ s.next_turn = session.next_turn + 2
    BY <1>1, CommitEffect DEF s
  <1>5. s # None
    BY <1>4, NoneAssumption
  <1>6. /\ task'[h] = [pc |-> "upserting", row |-> LiveEpisode(s, t)]
        /\ \A g \in Handlers \ {h} : task'[g] = task[g]
    BY <1>2, AfterSuspend
  <1>7. task'[h].pc = "upserting" /\ task'[h].row.history = session'.history
    <2> DEFINE r == LiveEpisode(s, t)
    <2>1. r.history = s.history
      BY <1>3
    <2>2. task'[h] = [pc |-> "upserting", row |-> r]
      BY <1>6
    <2> HIDE DEF r
    <2> QED BY <1>2, <2>1, <2>2
  <1> QED
    BY <1>1, <1>2, <1>4, <1>5, <1>6, <1>7 DEF sp, base

\* Two turns in flight never share a speech id, and a turn in flight, like one
\* not admitted yet, is not in the transcript.
InFlightSound ==
  /\ \A h \in Handlers : task[h].pc \in InTurn =>
       /\ task[h].speech <= counter
       /\ session.turn_of[task[h].speech] = None
  /\ \A g, h \in Handlers : (g # h /\ task[g].pc \in InTurn /\ task[h].pc \in InTurn) =>
       task[g].speech # task[h].speech
  /\ session # None => \A sp \in Speeches : sp > counter => session.turn_of[sp] = None

Inv2 == TranscriptSound /\ InFlightSound

LEMMA InitTurns == Init => Inv2
  BY IdleType DEF Init, Inv2, TranscriptSound, InFlightSound, History, FreshSession

LEMMA StepTurns == Inv1 /\ Inv2 /\ [Next]_vars => Inv2'
  <1> SUFFICES ASSUME Inv1, Inv2, [Next]_vars PROVE Inv2'
    OBVIOUS
  <1>1. CASE Quiet
    BY <1>1 DEF Quiet, Inv2, TranscriptSound, InFlightSound, History
  <1>2. ASSUME NEW h \in Handlers, NEW pc \in {"sse_open", "retrieving"}, ChatAdmitted(h, pc)
        PROVE  Inv2'
    <2>1. /\ session' = IF session = None THEN FreshSession(<<>>) ELSE session
          /\ counter' = counter + 1 /\ counter' \in Speeches
          /\ task'[h].speech = counter'
          /\ \A g \in Handlers \ {h} : task'[g] = task[g]
          /\ counter \in Nat
      BY <1>2, AdmittedEffect, MaxSpeechAssumption DEF Inv1, TypeOK
    <2>2. \A g \in Handlers : task[g].pc \in InTurn => session # None
      BY DEF Inv1, Sessioned
    <2>3. \A g \in Handlers : task[g].pc \in InTurn => task[g].speech \in Speeches
      BY TaskFields DEF Inv1, TypeOK
    <2>4. TranscriptSound'
      <3>1. CASE session = None
        BY <2>1, <3>1 DEF TranscriptSound, History, FreshSession
      <3>2. CASE session # None
        BY <2>1, <3>2 DEF Inv2, TranscriptSound, History
      <3> QED BY <3>1, <3>2
    <2>5. \A sp \in Speeches : sp >= counter' => session'.turn_of[sp] = None
      BY <2>1, MaxSpeechAssumption DEF Inv2, InFlightSound, FreshSession, Speeches
    <2>6. InFlightSound'
      BY <2>1, <2>2, <2>3, <2>5 DEF Inv2, InFlightSound, Speeches
    <2> QED BY <2>4, <2>6 DEF Inv2
  <1>3. ASSUME NEW h \in Handlers, NEW d \in Decisions, TurnEnds(h, d) PROVE Inv2'
    <2> DEFINE sp == task[h].speech
               e  == [speech |-> sp, user_turn |-> session.next_turn,
                      agent_turn |-> session.next_turn + 1, decision |-> d]
    <2>1. /\ session \in Session /\ session # None /\ session' # None
          /\ sp \in Speeches
          /\ session'.history   = Append(session.history, e)
          /\ session'.turn_of   = [session.turn_of EXCEPT ![sp] = session.next_turn + 1]
          /\ session'.next_turn = session.next_turn + 2
          /\ counter' = counter
          /\ task'[h].pc = "upserting"
          /\ \A g \in Handlers \ {h} : task'[g] = task[g]
      BY <1>3, EndedEffect
    <2>2. task[h].pc \in InTurn
      BY <1>3 DEF TurnEnds, InTurn
    <2>3. session.turn_of[sp] = None /\ sp <= counter
      BY <2>2 DEF Inv2, InFlightSound
    <2>4. \A g \in Handlers : task[g].pc \in InTurn => task[g].speech \in Speeches
      BY TaskFields DEF Inv1, TypeOK
    <2>5. task'[h].pc \notin InTurn
      BY <2>1 DEF InTurn
    <2> HIDE DEF sp
    <2>6. InFlightSound'
      <3>1. \A g \in Handlers : task'[g].pc \in InTurn =>
              g # h /\ task'[g] = task[g] /\ task[g].speech # sp
        BY <2>1, <2>2, <2>5 DEF Inv2, InFlightSound, sp
      <3>2. \A q \in Speeches : q # sp => session'.turn_of[q] = session.turn_of[q]
        BY <2>1 DEF Session
      <3> QED BY <2>1, <2>3, <2>4, <3>1, <3>2, MaxSpeechAssumption
              DEF Inv2, InFlightSound, Speeches, Inv1, TypeOK
    <2>7. TranscriptSound'
      <3> DEFINE hist == session.history
                 n    == Len(hist)
      <3>1. hist \in Seq(Exchange) /\ n \in Nat /\ session.next_turn \in Nat
            /\ session.next_turn = 2 * n
        BY <2>1 DEF Session, Histories, Inv2, TranscriptSound, History
      <3>2. e.speech = sp /\ e.user_turn = 2 * n /\ e.agent_turn = 2 * n + 1
        BY <3>1
      <3> HIDE DEF e
      <3>3. /\ Len(session'.history) = n + 1
            /\ DOMAIN session'.history = 1..(n + 1)
            /\ session'.history[n + 1] = e
            /\ \A i \in 1..n : session'.history[i] = hist[i]
        BY <2>1, <3>1
      <3>4. \A i \in 1..n : /\ hist[i].user_turn = 2 * i - 2
                            /\ hist[i].agent_turn = 2 * i - 1
                            /\ session.turn_of[hist[i].speech] = hist[i].agent_turn
                            /\ hist[i].speech \in Speeches
                            /\ hist[i].agent_turn \in Nat
        <4>1. DOMAIN hist = 1..n /\ \A i \in 1..n : hist[i] \in Exchange
          BY <3>1
        <4>2. \A i \in 1..n : hist[i].speech \in Speeches /\ hist[i].agent_turn \in Nat
          BY <4>1 DEF Exchange
        <4>3. History = hist
          BY <2>1 DEF History
        <4> HIDE DEF hist, n
        <4> QED BY <2>1, <4>1, <4>2, <4>3 DEF Inv2, TranscriptSound
      <3>5. /\ session'.turn_of[sp] = 2 * n + 1
            /\ \A q \in Speeches : q # sp => session'.turn_of[q] = session.turn_of[q]
        BY <2>1, <3>1 DEF Session
      <3>6. \A i \in 1..n : hist[i].speech # sp
        BY <2>3, <3>4, NoneAssumption
      <3>7. session'.next_turn = 2 * Len(session'.history)
        BY <2>1, <3>1, <3>3
      <3>8. \A i \in 1..(n + 1) :
              /\ session'.history[i].user_turn = 2 * i - 2
              /\ session'.history[i].agent_turn = 2 * i - 1
              /\ session'.turn_of[session'.history[i].speech] = session'.history[i].agent_turn
        <4> TAKE i \in 1..(n + 1)
        <4>1. CASE i \in 1..n
          <5> HIDE DEF hist, n
          <5>1. session'.history[i] = hist[i]
            BY <3>3, <4>1
          <5>2. hist[i].speech \in Speeches /\ hist[i].speech # sp
            BY <3>4, <3>6, <4>1
          <5>3. session'.turn_of[hist[i].speech] = session.turn_of[hist[i].speech]
            BY <3>5, <5>2
          <5> QED BY <3>4, <4>1, <5>1, <5>3
        <4>2. CASE i = n + 1
          BY <3>1, <3>2, <3>3, <3>5, <4>2
        <4> QED BY <3>1, <4>1, <4>2
      <3>9. ASSUME NEW q \in Speeches, session'.turn_of[q] # None
            PROVE  \E i \in 1..(n + 1) : session'.history[i].speech = q
        <4>1. CASE q = sp
          BY <3>1, <3>2, <3>3, <4>1
        <4>2. CASE q # sp
          <5>1. session.turn_of[q] # None
            BY <3>5, <3>9, <4>2
          <5>2. History = hist
            BY <2>1 DEF History
          <5>3. DOMAIN hist = 1..n
            BY <3>1
          <5> HIDE DEF hist, n
          <5>4. \E i \in 1..n : hist[i].speech = q
            BY <2>1, <3>9, <5>1, <5>2, <5>3 DEF Inv2, TranscriptSound
          <5>5. PICK i \in 1..n : hist[i].speech = q
            BY <5>4
          <5>6. i \in 1..(n + 1)
            BY <3>1
          <5>7. session'.history[i] = hist[i]
            BY <3>3
          <5> QED BY <5>5, <5>6, <5>7
        <4> QED BY <4>1, <4>2
      <3> QED BY <2>1, <3>3, <3>7, <3>8, <3>9 DEF TranscriptSound, History
    <2> QED BY <2>6, <2>7 DEF Inv2
  <1> QED
    BY <1>1, <1>2, <1>3, StepShape

\* Whatever the interleaving of the requests, commit_turn numbers the turns
\* without gap or reuse, and the speech -> turn join names each of them.
THEOREM TranscriptsAreSound == Spec => []TranscriptSound
  <1>1. Init => Inv1 /\ Inv2
    BY InitType, InitTurns
  <1>2. Inv1 /\ Inv2 /\ [Next]_vars => Inv1' /\ Inv2'
    BY StepType, StepTurns
  <1>3. Inv1 /\ Inv2 => TranscriptSound
    BY DEF Inv2
  <1> QED
    BY <1>1, <1>2, <1>3, PTL DEF Spec

-----------------------------------------------------------------------------
(* The store: what a write that is still in flight may bring. *)

Writing == {"upserting", "end_save", "end_review"}

\* What a step of handler h may write, and what it may carry afterwards.
StoreStep(h) ==
  /\ row' = row \/ (task[h].pc \in Writing /\ row' = task[h].row)
  /\ review' = review
     \/ (task[h].pc = "end_review" /\ review' \subseteq review \cup task[h].escalations)
  /\ task'[h].pc \in Writing =>
       task'[h].row.history = History' \/ (task[h].pc \in Writing /\ task'[h].row = task[h].row)
  /\ task'[h].pc \in InEnd =>
       task'[h].escalations = escalations
       \/ (task[h].pc \in InEnd /\ task'[h].escalations = task[h].escalations)
  /\ task'[h].pc = "end_review" => row' = task[h].row /\ task[h].pc \in Writing
  /\ \A g \in Handlers \ {h} : task'[g] = task[g]

LEMMA StoreShape ==
  ASSUME Inv1, NEW h \in Handlers, Request(h) \/ Proceed(h)
  PROVE  StoreStep(h) \/ (row' = row /\ review' = review /\ task' = task)
  <1> USE IdleType, AfterSuspend DEF Return, Idle
  <1> task[h] \in Tasks
    BY DEF Inv1, TypeOK
  <1>1. ASSUME NEW a \in Answers, ConsentRespond(h, a)
        PROVE  StoreStep(h) \/ (row' = row /\ review' = review /\ task' = task)
    <2>1. CASE a.phone /\ ~bound
      <3>1. task'[h] = [pc |-> "hydrating", answer |-> a]
            /\ \A g \in Handlers \ {h} : task'[g] = task[g]
        BY <1>1, <2>1 DEF ConsentRespond
      <3>2. task'[h].pc \notin Writing \cup InEnd
        BY <3>1 DEF Writing, InEnd
      <3> QED BY <1>1, <3>1, <3>2 DEF ConsentRespond, StoreStep, InEnd
    <2>2. CASE ~(a.phone /\ ~bound)
      BY <1>1, <2>2 DEF ConsentRespond
    <2> QED BY <2>1, <2>2
  <1>2. ASSUME NEW m \in BOOLEAN, ChatRefused(h, m)
        PROVE  row' = row /\ review' = review /\ task' = task
    BY <1>2 DEF ChatRefused
  <1>3. ASSUME NEW pc \in {"sse_open", "retrieving"}, ChatAdmitted(h, pc) PROVE StoreStep(h)
    <2>1. task'[h].pc \notin Writing \cup InEnd /\ \A g \in Handlers \ {h} : task'[g] = task[g]
      BY <1>3, AdmittedEffect DEF Writing, InEnd
    <2> QED BY <1>3, <2>1 DEF ChatAdmitted, StoreStep, InEnd
  <1>4. CASE EndEmpty(h)
    BY <1>4 DEF EndEmpty
  <1>5. CASE EndStarts(h)
    <2>1. task'[h] = [pc |-> "end_lead", escalations |-> escalations, tier |-> tier]
          /\ \A g \in Handlers \ {h} : task'[g] = task[g]
      BY <1>5 DEF EndStarts
    <2>2. task'[h].pc = "end_lead" /\ task'[h].escalations = escalations
      BY <2>1
    <2> QED BY <1>5, <2>1, <2>2 DEF EndStarts, StoreStep, Writing
  <1>6. CASE Hydrated(h)
    BY <1>6 DEF Hydrated, StoreStep, Writing, InEnd
  <1>7. CASE StreamStarts(h)
    <2> DEFINE u == [task[h] EXCEPT !.pc = "retrieving"]
    <2>1. u.pc = "retrieving"
      BY <1>7, TaskFields DEF StreamStarts
    <2> HIDE DEF u
    <2>2. (task'[h] = u \/ task'[h] = Idle) /\ \A g \in Handlers \ {h} : task'[g] = task[g]
      BY <1>7 DEF StreamStarts, u
    <2> QED BY <1>7, <2>1, <2>2 DEF StreamStarts, StoreStep, Writing, InEnd
  <1>8. CASE GenerationStarts(h)
    <2>1. task'[h].pc = "generating" /\ \A g \in Handlers \ {h} : task'[g] = task[g]
      BY <1>8 DEF GenerationStarts
    <2> QED BY <1>8, <2>1 DEF GenerationStarts, StoreStep, Writing, InEnd
  <1>9. ASSUME NEW d \in Decisions, TurnEnds(h, d) PROVE StoreStep(h)
    <2>1. /\ task'[h].pc = "upserting" /\ task'[h].row.history = session'.history
          /\ session' # None
          /\ \A g \in Handlers \ {h} : task'[g] = task[g]
      BY <1>9, EndedEffect
    <2>2. row' = row /\ review' = review
      BY <1>9 DEF TurnEnds
    <2> QED BY <2>1, <2>2 DEF StoreStep, Writing, InEnd, History
  <1>10. CASE TurnFails(h)
    BY <1>10 DEF TurnFails, StoreStep, Writing, InEnd
  <1>11. CASE UpsertReturns(h)
    BY <1>11 DEF UpsertReturns, StoreStep, Writing, InEnd
  <1>12. CASE EndBuilds(h)
    <2> DEFINE r == FinalEpisode(session, CanRecord(gate), task[h].tier,
                                 "in_progress")
    <2>1. session # None
      BY <1>12 DEF EndBuilds, Inv1, Sessioned, InEnd
    <2>2. r.history = session.history
      BY DEF FinalEpisode
    <2> HIDE DEF r
    <2>3. task'[h] = [pc |-> "end_save", escalations |-> task[h].escalations, row |-> r]
          /\ \A g \in Handlers \ {h} : task'[g] = task[g]
      BY <1>12 DEF EndBuilds, r
    <2>4. /\ task'[h].pc = "end_save" /\ task'[h].escalations = task[h].escalations
          /\ task'[h].row = r
      BY <2>3
    <2> QED BY <1>12, <2>1, <2>2, <2>3, <2>4
            DEF EndBuilds, StoreStep, Writing, InEnd, History
  <1>13. CASE EndSaves(h)
    <2> DEFINE u == [task[h] EXCEPT !.pc = "end_review"]
    <2>1. u.pc = "end_review" /\ u.row = task[h].row /\ u.escalations = task[h].escalations
      BY <1>13, TaskFields DEF EndSaves
    <2> HIDE DEF u
    <2>2. task'[h] = u /\ \A g \in Handlers \ {h} : task'[g] = task[g]
      BY <1>13 DEF EndSaves, u
    <2> QED BY <1>13, <2>1, <2>2 DEF EndSaves, StoreStep, Writing, InEnd
  <1>14. CASE EndFinishes(h)
    BY <1>14 DEF EndFinishes, StoreStep, Writing, InEnd
  <1>15. CASE EndFails(h)
    BY <1>15 DEF EndFails, StoreStep, Writing, InEnd
  <1> QED
    BY <1>1, <1>2, <1>3, <1>4, <1>5, <1>6, <1>7, <1>8, <1>9, <1>10, <1>11, <1>12, <1>13,
       <1>14, <1>15 DEF Request, Proceed

\* The transcript only grows, by one exchange at a time.
LEMMA HistoryGrows ==
  ASSUME Inv1, [Next]_vars
  PROVE  /\ History \in Histories
         /\ History' = History \/ \E e \in Exchange : History' = Append(History, e)
  <1>1. History \in Histories
    BY DEF History, Inv1, TypeOK, Session, Histories
  <1>2. CASE Quiet
    BY <1>1, <1>2 DEF Quiet, History
  <1>3. ASSUME NEW h \in Handlers, NEW pc \in {"sse_open", "retrieving"}, ChatAdmitted(h, pc)
        PROVE  History' = History
    BY <1>3, AdmittedEffect DEF History, FreshSession
  <1>4. ASSUME NEW h \in Handlers, NEW d \in Decisions, TurnEnds(h, d)
        PROVE  \E e \in Exchange : History' = Append(History, e)
    <2> DEFINE e == [speech |-> task[h].speech, user_turn |-> session.next_turn,
                     agent_turn |-> session.next_turn + 1, decision |-> d]
    <2>1. /\ session \in Session /\ session # None /\ session' # None
          /\ task[h].speech \in Speeches
          /\ session'.history = Append(session.history, e)
      BY <1>4, EndedEffect
    <2>2. e \in Exchange
      BY <2>1 DEF Exchange, Session
    <2> HIDE DEF e
    <2> QED BY <2>1, <2>2 DEF History
  <1> QED
    BY <1>1, <1>2, <1>3, <1>4, StepShape

\* Row history a is a prefix of transcript b.
Extends(a, b) == Len(a) <= Len(b) /\ \A i \in DOMAIN a : a[i] = b[i]

LEMMA ExtendsGrows ==
  ASSUME NEW a \in Histories, NEW b \in Histories, NEW e \in Exchange, Extends(a, b)
  PROVE  Extends(a, Append(b, e))
  BY DEF Extends, Histories

LEMMA ExtendsSelf == \A a \in Histories : Extends(a, a)
  BY DEF Extends, Histories

\* Every write in flight holds a prefix of the transcript, like the row.
WritesArePrefixes ==
  \A h \in Handlers : task[h].pc \in Writing => Extends(task[h].row.history, History)

Inv3 == RowIsPrefix /\ WritesArePrefixes

LEMMA InitRows == Init => Inv3
  BY IdleType DEF Init, Inv3, RowIsPrefix, WritesArePrefixes, Writing, Idle

LEMMA StepRows == Inv1 /\ Inv3 /\ [Next]_vars => Inv3'
  <1> SUFFICES ASSUME Inv1, Inv3, [Next]_vars PROVE Inv3'
    OBVIOUS
  <1>1. Inv1'
    BY StepType
  <1>2. History' \in Histories
    BY <1>1 DEF Inv1, TypeOK, History, Session, Histories
  <1>3. \A a \in Histories : Extends(a, History) => Extends(a, History')
    BY HistoryGrows, ExtendsGrows
  <1>4. \A h \in Handlers : task[h].pc \in Writing => task[h].row.history \in Histories
    BY TaskFields DEF Inv1, TypeOK, Writing, Episode
  <1>5. row # None => row.history \in Histories
    BY DEF Inv1, TypeOK, Episode
  <1>6. /\ row # None => Extends(row.history, History')
        /\ \A h \in Handlers : task[h].pc \in Writing => Extends(task[h].row.history, History')
    BY <1>3, <1>4, <1>5 DEF Inv3, RowIsPrefix, WritesArePrefixes, Extends
  <1>7. Extends(History', History')
    BY <1>2, ExtendsSelf
  <1>8. CASE UNCHANGED vars
    BY <1>8 DEF vars, Inv3, RowIsPrefix, WritesArePrefixes, History
  <1>9. ASSUME NEW h \in Handlers, Request(h) \/ Proceed(h)
        PROVE  /\ row' # None => Extends(row'.history, History')
               /\ \A g \in Handlers : task'[g].pc \in Writing =>
                    Extends(task'[g].row.history, History')
    <2>1. CASE row' = row /\ task' = task
      BY <1>6, <2>1
    <2>2. CASE StoreStep(h)
      BY <1>6, <1>7, <2>2 DEF StoreStep
    <2> QED BY <1>9, <2>1, <2>2, StoreShape
  <1>10. CASE Next
    BY <1>9, <1>10 DEF Next, Inv3, RowIsPrefix, WritesArePrefixes, Extends
  <1> QED
    BY <1>8, <1>10

\* No write, however late, shows a turn the session has not committed.
THEOREM RowsArePrefixes == Spec => []RowIsPrefix
  <1>1. Init => Inv1 /\ Inv3
    BY InitType, InitRows
  <1>2. Inv1 /\ Inv3 /\ [Next]_vars => Inv1' /\ Inv3'
    BY StepType, StepRows
  <1>3. Inv1 /\ Inv3 => RowIsPrefix
    BY DEF Inv3
  <1> QED
    BY <1>1, <1>2, <1>3, PTL DEF Spec

-----------------------------------------------------------------------------
(* DemoCall implements TurnLog. *)

\* No transition of the gate leads out of "ended".
LEMMA EndedStays ==
  ASSUME NEW g \in Gate, g.state = "ended"
  PROVE  /\ \A a : ApplyAnswer(g, a).state = "ended"
         /\ FlagMinor(g).state = "ended" /\ EndGate(g).state = "ended"
  <1> DEFINE Over == {k \in Gate : k.state = "ended"}
  <1>1. ASSUME NEW k \in Over
        PROVE  /\ AcknowledgeAI(k) \in Over /\ GrantRecording(k) \in Over
               /\ RefuseRecording(k) \in Over /\ FlagMinor(k) \in Over
               /\ GrantParental(k) \in Over /\ DenyParental(k) \in Over
               /\ EndGate(k) \in Over
    <2> USE GateType DEF Gate
    <2>1. AcknowledgeAI(k) \in Over    BY DEF AcknowledgeAI
    <2>2. GrantRecording(k) \in Over   BY DEF GrantRecording
    <2>3. RefuseRecording(k) \in Over  BY DEF RefuseRecording
    <2>4. FlagMinor(k) \in Over        BY DEF FlagMinor
    <2>5. GrantParental(k) \in Over    BY DEF GrantParental
    <2>6. DenyParental(k) \in Over     BY DEF DenyParental
    <2>7. EndGate(k) \in Over          BY DEF EndGate
    <2> QED BY <2>1, <2>2, <2>3, <2>4, <2>5, <2>6, <2>7
  <1>2. g \in Over
    OBVIOUS
  <1>3. ASSUME NEW a PROVE ApplyAnswer(g, a) \in Over
    <2> DEFINE acked    == IF a.ack THEN AcknowledgeAI(g) ELSE g
               recorded == IF a.rec THEN GrantRecording(acked) ELSE RefuseRecording(acked)
               flagged  == FlagMinor(recorded)
    <2> HIDE DEF Over
    <2>1. acked \in Over     BY <1>1, <1>2
    <2> HIDE DEF acked
    <2>2. recorded \in Over  BY <1>1, <2>1
    <2> HIDE DEF recorded
    <2>3. flagged \in Over   BY <1>1, <2>2
    <2> HIDE DEF flagged
    <2>4. GrantParental(flagged) \in Over /\ DenyParental(flagged) \in Over
      BY <1>1, <2>3
    <2>5. ApplyAnswer(g, a) =
            IF ~a.minor THEN recorded
            ELSE IF a.parental = "granted" THEN GrantParental(flagged)
            ELSE IF a.parental = "denied" THEN DenyParental(flagged)
            ELSE flagged
      BY DEF ApplyAnswer, acked, recorded, flagged
    <2> QED BY <2>2, <2>3, <2>4, <2>5
  <1>4. FlagMinor(g) \in Over /\ EndGate(g) \in Over
    BY <1>1, <1>2
  <1> QED
    BY <1>3, <1>4

LEMMA OverStays ==
  ASSUME Inv1, [Next]_vars, gate.state = "ended"
  PROVE  gate'.state = "ended"
  <1>1. gate \in Gate
    BY DEF Inv1, TypeOK
  <1>2. CASE UNCHANGED vars
    BY <1>2 DEF vars
  <1>3. ASSUME NEW h \in Handlers, Request(h) \/ Proceed(h)
        PROVE  gate' = gate \/ gate' = EndGate(gate) \/ gate' = FlagMinor(gate)
               \/ \E a : gate' = ApplyAnswer(gate, a)
    BY <1>3 DEF Request, Proceed, ConsentRespond, ChatRefused, Screen, ChatAdmitted, EndEmpty,
        EndStarts, Hydrated, StreamStarts, GenerationStarts, TurnEnds, TurnFails,
        UpsertReturns, EndBuilds, EndSaves, EndFinishes, EndFails
  <1> QED
    BY <1>1, <1>2, <1>3, EndedStays DEF Next

LEMMA InitLog == Init => Log!Init
  BY DEF Init, Log!Init, Phase, FreshGate, CanConverse, Conversable, History, SpeechLog

\* Gate changes are Turnstile steps, an admitted chat is an Admit step and the
\* end of a turn is a Write step; every other step leaves the log alone.
LEMMA StepLog == Inv1 /\ Inv2 /\ [Next]_vars => [Log!Next]_(Log!vars)
  <1> SUFFICES ASSUME Inv1, Inv2, [Next]_vars PROVE [Log!Next]_(Log!vars)
    OBVIOUS
  <1>1. CASE Quiet
    <2>1. 1..counter' = 1..counter /\ SpeechLog(History)' = SpeechLog(History)
      BY <1>1 DEF Quiet, History, SpeechLog
    <2>2. CASE Phase = "over"
      <3>1. gate.state = "ended"
        BY <2>2 DEF Phase
      <3>2. gate'.state = "ended"
        BY <3>1, OverStays
      <3>3. Phase' = "over"
        <4>1. Phase' = CASE gate'.state = "ended" -> "over"
                         [] CanConverse(gate)'   -> "open"
                         [] OTHER                -> "blocked"
          BY DEF Phase
        <4>2. ~CanConverse(gate)'
          BY <3>2 DEF CanConverse, Conversable
        <4> QED BY <3>2, <4>1, <4>2
      <3> QED BY <2>1, <2>2, <3>3 DEF Log!vars
    <2>3. CASE Phase # "over"
      <3>1. Phase' \in {"blocked", "open", "over"}
        BY DEF Phase
      <3>2. Log!Turnstile(Phase')
        BY <2>1, <2>3 DEF Log!Turnstile
      <3> QED BY <3>1, <3>2 DEF Log!Next
    <2> QED BY <2>2, <2>3
  <1>2. ASSUME NEW h \in Handlers, NEW pc \in {"sse_open", "retrieving"}, ChatAdmitted(h, pc)
        PROVE  Log!Admit(counter') /\ counter' \in Speeches
    <2>1. /\ session' = IF session = None THEN FreshSession(<<>>) ELSE session
          /\ session' # None
          /\ counter' = counter + 1 /\ counter' \in Speeches /\ counter \in Nat
      BY <1>2, AdmittedEffect, MaxSpeechAssumption DEF Inv1, TypeOK
    <2>2. Phase = "open" /\ Phase' = Phase
      BY <1>2 DEF ChatAdmitted, Phase, CanConverse, Conversable
    <2>3. History' = History
      BY <2>1 DEF History, FreshSession
    <2>4. counter' \notin 1..counter /\ 1..counter' = (1..counter) \cup {counter'}
      BY <2>1
    <2> QED BY <2>1, <2>2, <2>3, <2>4 DEF Log!Admit, SpeechLog
  <1>3. ASSUME NEW h \in Handlers, NEW d \in Decisions, TurnEnds(h, d)
        PROVE  Log!Write(task[h].speech) /\ task[h].speech \in Speeches
    <2> DEFINE sp == task[h].speech
               e  == [speech |-> sp, user_turn |-> session.next_turn,
                      agent_turn |-> session.next_turn + 1, decision |-> d]
    <2>1. /\ session \in Session /\ session # None /\ session' # None
          /\ sp \in Speeches
          /\ session'.history = Append(session.history, e)
          /\ counter' = counter
      BY <1>3, EndedEffect
    <2>2. sp <= counter /\ session.turn_of[sp] = None
      BY <1>3 DEF TurnEnds, InTurn, Inv2, InFlightSound
    <2>3. e \in Exchange /\ e.speech = sp
      BY <2>1 DEF Exchange, Session
    <2>4. History \in Histories /\ History = session.history /\ History' = Append(History, e)
      BY <2>1 DEF History, Session
    <2> HIDE DEF e, sp
    <2>5. SpeechLog(History') = Append(SpeechLog(History), sp)
      BY <2>3, <2>4, SpeechLogAppend
    <2>6. ASSUME NEW i \in DOMAIN SpeechLog(History), SpeechLog(History)[i] = sp PROVE FALSE
      <3>1. i \in DOMAIN History /\ History[i].speech = sp
        BY <2>6 DEF SpeechLog
      <3>2. History[i].agent_turn \in Nat
        <4>1. History[i] \in Exchange
          BY <2>4, <3>1 DEF Histories
        <4> QED BY <4>1 DEF Exchange
      <3>3. session.turn_of[sp] = History[i].agent_turn
        BY <2>1, <3>1 DEF Inv2, TranscriptSound
      <3> QED BY <2>2, <3>2, <3>3, NoneAssumption
    <2>7. sp \in 1..counter
      BY <2>1, <2>2, MaxSpeechAssumption DEF Speeches, Inv1, TypeOK
    <2>8. sp \in (1..counter) \ Log!Logged
      BY <2>6, <2>7 DEF Log!Logged
    <2>9. Phase' = Phase
      BY <1>3 DEF TurnEnds, Phase, CanConverse
    <2> QED BY <2>1, <2>5, <2>8, <2>9 DEF Log!Write, sp, SpeechLog
  <1> QED
    BY <1>1, <1>2, <1>3, StepShape DEF Log!Next

\* The HTTP channel keeps what every channel promises: turns are admitted only
\* while consent allows, logged once, and never again after the call is over.
THEOREM RefinesTurnLog == Spec => ImplementsTurnLog
  <1>1. Init => Inv1 /\ Inv2 /\ Log!Init
    BY InitType, InitTurns, InitLog
  <1>2. Inv1 /\ Inv2 /\ [Next]_vars => Inv1' /\ Inv2' /\ [Log!Next]_(Log!vars)
    BY StepType, StepTurns, StepLog
  <1> QED
    BY <1>1, <1>2, PTL DEF Spec, ImplementsTurnLog, Log!Spec

-----------------------------------------------------------------------------
(* The belief and the transcript change together. *)

LEMMA StepBelief ==
  ASSUME Inv1, BeliefIsLastCommit, [Next]_vars
  PROVE  BeliefIsLastCommit'
  <1>1. CASE Quiet
    BY <1>1 DEF Quiet, BeliefIsLastCommit, History
  <1>2. ASSUME NEW h \in Handlers, NEW pc \in {"sse_open", "retrieving"}, ChatAdmitted(h, pc)
        PROVE  BeliefIsLastCommit'
    BY <1>2, AdmittedEffect DEF BeliefIsLastCommit, History, FreshSession
  <1>3. ASSUME NEW h \in Handlers, NEW d \in Decisions, TurnEnds(h, d)
        PROVE  BeliefIsLastCommit'
    <2> DEFINE sp == task[h].speech
               e  == [speech |-> sp, user_turn |-> session.next_turn,
                      agent_turn |-> session.next_turn + 1, decision |-> d]
    <2>1. /\ session \in Session /\ session' # None
          /\ sp \in Speeches /\ task[h].base \in Beliefs
          /\ session'.belief  = Append(task[h].base, sp)
          /\ session'.history = Append(session.history, e)
      BY <1>3, EndedEffect
    <2>2. e.speech = sp /\ e \in Exchange
      BY <2>1 DEF Exchange, Session
    <2> HIDE DEF e, sp
    <2>3. session.history \in Seq(Exchange) /\ task[h].base \in Seq(Speeches)
      BY <2>1 DEF Session, Histories, Beliefs
    <2>4. \A S, q, x : (q \in Seq(S) /\ x \in S) =>
            Append(q, x) # <<>> /\ Append(q, x)[Len(Append(q, x))] = x
      OBVIOUS
    <2>5. History' # <<>> /\ History'[Len(History')] = e
      BY <2>1, <2>2, <2>3, <2>4 DEF History
    <2>6. session'.belief # <<>> /\ session'.belief[Len(session'.belief)] = sp
      BY <2>1, <2>3, <2>4
    <2> QED BY <2>1, <2>2, <2>5, <2>6 DEF BeliefIsLastCommit
  <1> QED
    BY <1>1, <1>2, <1>3, StepShape

\* commit_turn promotes the belief with the exchange it belongs to, even when
\* two turns answer one another's base.
THEOREM BeliefsFollowCommits == Spec => []BeliefIsLastCommit
  <1>1. Init => Inv1 /\ BeliefIsLastCommit
    BY InitType DEF Init, BeliefIsLastCommit
  <1>2. Inv1 /\ BeliefIsLastCommit /\ [Next]_vars => Inv1' /\ BeliefIsLastCommit'
    BY StepType, StepBelief
  <1> QED
    BY <1>1, <1>2, PTL DEF Spec

-----------------------------------------------------------------------------
(* A minor check is only lifted by the parent's consent. *)

\* An answer without it leaves a blocked gate blocked, or ends it.
LEMMA AnswerBlocks ==
  ASSUME NEW g \in Gate, g.state = "need_parental", NEW a \in Answers, a.parental # "granted"
  PROVE  ~CanConverse(ApplyAnswer(g, a))
  <1> DEFINE Shut == {k \in Gate : k.state = "need_parental"}
             acked    == IF a.ack THEN AcknowledgeAI(g) ELSE g
             recorded == IF a.rec THEN GrantRecording(acked) ELSE RefuseRecording(acked)
             flagged  == FlagMinor(recorded)
  <1>1. ASSUME NEW k \in Shut
        PROVE  /\ AcknowledgeAI(k) \in Shut /\ GrantRecording(k) \in Shut
               /\ RefuseRecording(k) \in Shut /\ FlagMinor(k) \in Shut
               /\ DenyParental(k).state = "ended"
    <2> USE GateType DEF Gate
    <2>1. AcknowledgeAI(k) \in Shut    BY DEF AcknowledgeAI
    <2>2. GrantRecording(k) \in Shut   BY DEF GrantRecording
    <2>3. RefuseRecording(k) \in Shut  BY DEF RefuseRecording
    <2>4. FlagMinor(k) \in Shut        BY DEF FlagMinor
    <2>5. DenyParental(k).state = "ended"  BY DEF DenyParental
    <2> QED BY <2>1, <2>2, <2>3, <2>4, <2>5
  <1>2. g \in Shut
    OBVIOUS
  <1>3. ApplyAnswer(g, a) =
          IF ~a.minor THEN recorded
          ELSE IF a.parental = "granted" THEN GrantParental(flagged)
          ELSE IF a.parental = "denied" THEN DenyParental(flagged)
          ELSE flagged
    BY DEF ApplyAnswer, acked, recorded, flagged
  <1>4. a.minor \in BOOLEAN
    BY AnswersAssumption DEF Answer
  <1> HIDE DEF Shut
  <1>5. acked \in Shut     BY <1>1, <1>2
  <1> HIDE DEF acked
  <1>6. recorded \in Shut  BY <1>1, <1>5
  <1> HIDE DEF recorded
  <1>7. flagged \in Shut   BY <1>1, <1>6
  <1> HIDE DEF flagged
  <1>8. DenyParental(flagged).state = "ended"
    BY <1>1, <1>7
  <1>9. ApplyAnswer(g, a) \in Shut \/ ApplyAnswer(g, a).state = "ended"
    BY <1>3, <1>4, <1>6, <1>7, <1>8
  <1> QED
    BY <1>9 DEF Shut, CanConverse, Conversable

LEMMA StepUnblocks ==
  ASSUME Inv1, [Next]_vars, gate.state = "need_parental", CanConverse(gate')
  PROVE  \E h \in Handlers, a \in {b \in Answers : b.parental = "granted"} :
           ConsentRespond(h, a) \/ (Hydrated(h) /\ task[h].answer = a)
  <1>1. gate \in Gate
    BY DEF Inv1, TypeOK
  <1>2. gate' # gate
    BY DEF CanConverse, Conversable
  <1>3. ~CanConverse(gate) /\ Screen(TRUE) = gate /\ Screen(FALSE) = gate
    BY DEF CanConverse, Conversable, Screen
  <1>4. ~CanConverse(EndGate(gate))
    BY <1>1 DEF CanConverse, Conversable, EndGate, Gate
  <1>5. PICK h \in Handlers : Request(h) \/ Proceed(h)
    BY <1>2 DEF Next, vars
  <1>6. \/ \E a \in Answers : ConsentRespond(h, a)
        \/ Hydrated(h)
    BY <1>2, <1>3, <1>4, <1>5
       DEF Request, Proceed, ChatRefused, ChatAdmitted, EndEmpty, EndStarts, StreamStarts,
           GenerationStarts, TurnEnds, TurnFails, UpsertReturns, EndBuilds, EndSaves,
           EndFinishes, EndFails
  <1>7. ASSUME NEW a \in Answers, gate' = ApplyAnswer(gate, a)
        PROVE  a.parental = "granted"
    BY <1>1, <1>7, AnswerBlocks
  <1>8. ASSUME NEW a \in Answers, ConsentRespond(h, a)
        PROVE  a.parental = "granted"
    BY <1>2, <1>7, <1>8 DEF ConsentRespond
  <1>9. ASSUME Hydrated(h)
        PROVE  task[h].answer \in Answers /\ task[h].answer.parental = "granted"
    <2>1. task[h] \in Tasks /\ task[h].pc = "hydrating"
      BY <1>9 DEF Hydrated, Inv1, TypeOK
    <2>2. task[h].answer \in Answers
      BY <2>1 DEF Tasks
    <2> QED BY <1>7, <1>9, <2>2 DEF Hydrated
  <1> QED
    BY <1>6, <1>8, <1>9

\* Neither a chat text, nor another answer, nor an answer applied late after
\* the memory lookup opens a call the screening has blocked.
THEOREM ParentUnblocks == Spec => OnlyParentUnblocks
  <1>1. Init => Inv1
    BY InitType
  <1>2. Inv1 /\ [Next]_vars => Inv1'
    BY StepType
  <1>3. Inv1 /\ [Next]_vars =>
          ((gate.state = "need_parental" /\ CanConverse(gate')) =>
            \E h \in Handlers, a \in {b \in Answers : b.parental = "granted"} :
              ConsentRespond(h, a) \/ (Hydrated(h) /\ task[h].answer = a))
    BY StepUnblocks
  <1> QED
    BY <1>1, <1>2, <1>3, PTL DEF Spec, OnlyParentUnblocks

-----------------------------------------------------------------------------
(***************************************************************************)
(* What needs a client that sends one request at a time: the assumption of *)
(* the three theorems below, and of the runs that check their properties.  *)
(***************************************************************************)
\* There is at most one handler.
Serial == \A g, h \in Handlers : g = h

-----------------------------------------------------------------------------
(* /end is the last thing that happens. *)

LastWord == remembered => ~stored /\ \A h \in Handlers : task[h] = Idle

LEMMA InitLastWord == Init => LastWord
  BY DEF Init, LastWord

LEMMA StepLastWord ==
  ASSUME Serial, Inv1, LastWord, [Next]_vars
  PROVE  LastWord' /\ (remembered => UNCHANGED vars)
  <1> USE IdleType, AfterSuspend DEF Serial, LastWord, Return
  <1>1. CASE UNCHANGED vars
    BY <1>1 DEF vars
  <1>2. ASSUME NEW h \in Handlers, Request(h) \/ Proceed(h)
        PROVE  LastWord' /\ ~remembered
    <2>1. ~remembered
      <3> SUFFICES ASSUME remembered PROVE FALSE
        OBVIOUS
      <3>1. ~stored /\ task[h] = Idle
        OBVIOUS
      <3>2. ~Request(h)
        BY <3>1 DEF Request, ConsentRespond, ChatRefused, ChatAdmitted, EndEmpty, EndStarts,
                    Arriving
      <3>3. ~Proceed(h)
        BY <3>1 DEF Proceed, Idle, Hydrated, StreamStarts, GenerationStarts, TurnEnds,
                    TurnFails, UpsertReturns, EndBuilds, EndSaves, EndFinishes, EndFails
      <3> QED BY <1>2, <3>2, <3>3
    <2>2. CASE EndEmpty(h)
      BY <2>1, <2>2 DEF EndEmpty, Arriving
    <2>3. CASE EndFinishes(h)
      BY <2>1, <2>3 DEF EndFinishes
    <2>4. CASE ~EndEmpty(h) /\ ~EndFinishes(h)
      <3>1. remembered' = remembered
        BY <1>2, <2>4
           DEF Request, Proceed, ConsentRespond, ChatRefused, ChatAdmitted, EndStarts, Hydrated,
               StreamStarts, GenerationStarts, TurnEnds, TurnFails, UpsertReturns, EndBuilds,
               EndSaves, EndFails
      <3> QED BY <2>1, <3>1
    <2> QED BY <2>1, <2>2, <2>3, <2>4
  <1> QED
    BY <1>1, <1>2 DEF Next

\* For a client that sends one request at a time no late write reaches the row,
\* the review queue, the gate or the session once /end has returned.
THEOREM FinalRowIsFinal ==
  ASSUME Serial
  PROVE  Spec => FinalRowStands
  <1>1. Init => Inv1 /\ LastWord
    BY InitType, InitLastWord
  <1>2. Inv1 /\ LastWord /\ [Next]_vars =>
          Inv1' /\ LastWord' /\ (remembered => UNCHANGED vars)
    BY StepType, StepLastWord
  <1>3. (remembered => UNCHANGED vars) =>
          [remembered => UNCHANGED <<gate, session, escalations, row, review>>]_vars
    BY DEF vars
  <1> QED
    BY <1>1, <1>2, <1>3, PTL DEF Spec, FinalRowStands

-----------------------------------------------------------------------------
(* No turn is answered from a stale belief. *)

\* The belief a turn is generated from is still the session's.
BeliefKept ==
  /\ BeliefCoversHistory
  /\ \A h \in Handlers : task[h].pc = "generating" => task[h].base = session.belief

LEMMA SavesEffect ==
  ASSUME Inv1, NEW h \in Handlers, EndSaves(h)
  PROVE  /\ task'[h].pc = "end_review" /\ task'[h].row = task[h].row
         /\ row' = task[h].row /\ gate' = gate /\ task[h].pc = "end_save"
  <1> DEFINE u == [task[h] EXCEPT !.pc = "end_review"]
  <1>1. u.pc = "end_review" /\ u.row = task[h].row
    BY TaskFields DEF EndSaves, Inv1, TypeOK
  <1> HIDE DEF u
  <1>2. task'[h] = u
    BY AfterSuspend DEF EndSaves, u
  <1> QED
    BY <1>1, <1>2 DEF EndSaves

\* Where what a handler is suspended on comes from.
LEMMA TaskShape ==
  ASSUME Inv1, NEW h \in Handlers, Request(h) \/ Proceed(h)
  PROVE  \/ task'[h] = task[h]
         \/ task'[h].pc \in {"idle", "hydrating", "sse_open", "retrieving"}
         \/ GenerationStarts(h)
         \/ \E d \in Decisions : TurnEnds(h, d)
         \/ EndStarts(h) \/ EndBuilds(h) \/ EndSaves(h)
  <1> USE IdleType, AfterSuspend DEF Return, Idle
  <1> task[h] \in Tasks
    BY DEF Inv1, TypeOK
  <1>1. CASE StreamStarts(h)
    <2> DEFINE u == [task[h] EXCEPT !.pc = "retrieving"]
    <2>1. u.pc = "retrieving"
      BY <1>1, TaskFields DEF StreamStarts
    <2> HIDE DEF u
    <2>2. task'[h] = u \/ task'[h] = Idle
      BY <1>1 DEF StreamStarts, u
    <2> QED BY <2>1, <2>2
  <1>2. ASSUME NEW a \in Answers, ConsentRespond(h, a)
        PROVE  task'[h] = task[h] \/ task'[h].pc = "hydrating"
    BY <1>2 DEF ConsentRespond
  <1>3. ASSUME NEW pc \in {"sse_open", "retrieving"}, ChatAdmitted(h, pc)
        PROVE  task'[h].pc \in {"sse_open", "retrieving"}
    BY <1>3, AdmittedEffect
  <1>4. CASE \/ \E m \in BOOLEAN : ChatRefused(h, m)
             \/ EndEmpty(h)
    BY <1>4 DEF ChatRefused, EndEmpty
  <1>5. CASE Hydrated(h) \/ TurnFails(h) \/ UpsertReturns(h) \/ EndFinishes(h) \/ EndFails(h)
    BY <1>5 DEF Hydrated, TurnFails, UpsertReturns, EndFinishes, EndFails
  <1> QED
    BY <1>1, <1>2, <1>3, <1>4, <1>5 DEF Request, Proceed

\* Only GenerationStarts reads the belief of the session.
LEMMA BaseShape ==
  ASSUME Inv1, NEW h \in Handlers, Request(h) \/ Proceed(h), task'[h].pc = "generating"
  PROVE  task'[h] = task[h] \/ task'[h].base = session.belief
  <1> USE AfterSuspend
  <1>1. CASE GenerationStarts(h)
    BY <1>1 DEF GenerationStarts
  <1>2. ASSUME NEW d \in Decisions, TurnEnds(h, d) PROVE FALSE
    BY <1>2, EndedEffect
  <1>3. CASE EndStarts(h) \/ EndBuilds(h)
    BY <1>3 DEF EndStarts, EndBuilds
  <1>4. CASE EndSaves(h)
    BY <1>4, SavesEffect
  <1> QED
    BY <1>1, <1>2, <1>3, <1>4, TaskShape

LEMMA InitBelief == Init => BeliefKept
  BY IdleType DEF Init, BeliefKept, BeliefCoversHistory, Idle

LEMMA StepCovers ==
  ASSUME Serial, Inv1, BeliefKept, [Next]_vars
  PROVE  BeliefKept'
  <1> USE DEF Serial
  <1>1. CASE UNCHANGED vars
    BY <1>1 DEF vars, BeliefKept, BeliefCoversHistory
  <1>2. ASSUME NEW h \in Handlers, Request(h) \/ Proceed(h), Quiet
        PROVE  BeliefKept'
    <2>1. session' = session
      BY <1>2 DEF Quiet
    <2> QED BY <1>2, <2>1, BaseShape DEF BeliefKept, BeliefCoversHistory
  <1>3. ASSUME NEW h \in Handlers, NEW pc \in {"sse_open", "retrieving"}, ChatAdmitted(h, pc)
        PROVE  BeliefKept'
    <2>1. task'[h].pc # "generating"
      BY <1>3, AdmittedEffect
    <2>2. session' = IF session = None THEN FreshSession(<<>>) ELSE session
      BY <1>3, AdmittedEffect
    <2>3. SpeechLog(<<>>) = <<>>
      BY DEF SpeechLog
    <2> QED BY <2>1, <2>2, <2>3 DEF BeliefKept, BeliefCoversHistory, FreshSession
  <1>4. ASSUME NEW h \in Handlers, NEW d \in Decisions, TurnEnds(h, d)
        PROVE  BeliefKept'
    <2> DEFINE sp == task[h].speech
               e  == [speech |-> sp, user_turn |-> session.next_turn,
                      agent_turn |-> session.next_turn + 1, decision |-> d]
    <2>1. /\ session \in Session /\ session # None
          /\ sp \in Speeches
          /\ session'.belief  = Append(task[h].base, sp)
          /\ session'.history = Append(session.history, e)
          /\ task'[h].pc = "upserting"
      BY <1>4, EndedEffect
    <2>2. e.speech = sp /\ e \in Exchange
      BY <2>1 DEF Exchange, Session
    <2>3. task[h].base = SpeechLog(session.history)
      BY <1>4, <2>1 DEF TurnEnds, BeliefKept, BeliefCoversHistory
    <2> HIDE DEF e, sp
    <2>4. SpeechLog(session'.history) = Append(SpeechLog(session.history), sp)
      BY <2>1, <2>2, SpeechLogAppend DEF Session
    <2>5. session'.belief = SpeechLog(session'.history)
      BY <2>1, <2>3, <2>4
    <2> QED BY <2>1, <2>5 DEF BeliefKept, BeliefCoversHistory
  <1> QED
    BY <1>1, <1>2, <1>3, <1>4, StepShape DEF Next

\* The committed belief has absorbed every committed utterance, in order.
THEOREM BeliefsCoverHistory ==
  ASSUME Serial
  PROVE  Spec => []BeliefCoversHistory
  <1>1. Init => Inv1 /\ BeliefKept
    BY InitType, InitBelief
  <1>2. Inv1 /\ BeliefKept /\ [Next]_vars => Inv1' /\ BeliefKept'
    BY StepType, StepCovers
  <1>3. BeliefKept => BeliefCoversHistory
    BY DEF BeliefKept
  <1> QED
    BY <1>1, <1>2, <1>3, PTL DEF Spec

-----------------------------------------------------------------------------
(* What /end leaves behind tells the call. *)

\* The buffered logs are the escalate turns of the transcript, the store never
\* holds another, and a handler in /end holds all of them: while it runs no
\* turn can add one.
QueueTells ==
  /\ session = None => row = None
  /\ \A h \in Handlers : task[h].pc = "upserting" => session # None
  /\ escalations = Escalated(History)
  /\ review \subseteq escalations
  /\ \A h \in Handlers : task[h].pc \in InEnd => task[h].escalations = escalations
  /\ (remembered /\ row # None) => review = escalations

LEMMA InitQueue == Init => QueueTells
  <1> SUFFICES ASSUME Init PROVE QueueTells
    OBVIOUS
  <1>1. Escalated(<<>>) = {}
    BY DEF Escalated
  <1> QED
    BY <1>1, IdleType DEF Init, QueueTells, History, Idle, InEnd

\* Only /end makes the server remember a session.
LEMMA RememberedBy ==
  ASSUME NEW h \in Handlers, Request(h) \/ Proceed(h), ~remembered, remembered'
  PROVE  EndEmpty(h) \/ EndFinishes(h)
  BY DEF Request, Proceed, ConsentRespond, ChatRefused, ChatAdmitted, EndStarts, Hydrated,
         StreamStarts, GenerationStarts, TurnEnds, TurnFails, UpsertReturns, EndBuilds,
         EndSaves, EndFails

LEMMA StepQueue ==
  ASSUME Serial, Inv1, LastWord, QueueTells, [Next]_vars
  PROVE  QueueTells'
  <1> USE DEF Serial
  <1>1. CASE UNCHANGED vars
    BY <1>1 DEF vars, QueueTells, History
  <1>2. ASSUME NEW h \in Handlers, Request(h) \/ Proceed(h), ~UNCHANGED vars
        PROVE  QueueTells'
    <2>1. ~remembered
      BY <1>2, StepLastWord DEF Next
    <2>2. StoreStep(h) \/ (row' = row /\ review' = review /\ task' = task)
      BY <1>2, StoreShape
    <2>3. task[h].pc \in InEnd => task[h].escalations = escalations
      BY DEF QueueTells
    <2>4. (task'[h].pc \in InEnd /\ escalations' = escalations)
            => task'[h].escalations = escalations'
      BY <2>2, <2>3 DEF StoreStep
    <2>5. review' \subseteq escalations
      BY <2>2, <2>3 DEF StoreStep, QueueTells, InEnd
    <2>6. row' # None => session # None
      <3>1. task[h].pc \in Writing => session # None
        BY DEF QueueTells, Writing, Inv1, Sessioned, InEnd
      <3> QED BY <2>2, <3>1 DEF StoreStep, QueueTells
    <2>7. task'[h].pc = "upserting" => session' # None
      <3>1. CASE task'[h] = task[h]
        <4>1. session # None => session' # None
          BY <1>2, StepShape, AdmittedEffect, EndedEffect DEF Quiet, Next
        <4> QED BY <3>1, <4>1 DEF QueueTells
      <3>2. CASE \E d \in Decisions : TurnEnds(h, d)
        BY <3>2, EndedEffect
      <3>3. CASE GenerationStarts(h) \/ EndStarts(h) \/ EndBuilds(h)
        BY <3>3, AfterSuspend DEF GenerationStarts, EndStarts, EndBuilds
      <3>4. CASE EndSaves(h)
        BY <3>4, SavesEffect
      <3> QED BY <1>2, <3>1, <3>2, <3>3, <3>4, TaskShape
    <2>8. (remembered' /\ row' # None) => review' = escalations /\ escalations' = escalations
      <3>1. CASE EndEmpty(h)
        BY <2>6, <3>1 DEF EndEmpty
      <3>2. CASE EndFinishes(h)
        BY <2>3, <3>2 DEF EndFinishes, InEnd, QueueTells
      <3> QED BY <1>2, <2>1, <3>1, <3>2, RememberedBy
    <2>9. CASE Quiet
      <3>1. History' = History /\ session' = session /\ escalations' = escalations
        BY <2>9 DEF Quiet, History
      <3> QED BY <2>4, <2>5, <2>6, <2>7, <2>8, <3>1 DEF QueueTells
    <2>10. ASSUME NEW g \in Handlers, NEW pc \in {"sse_open", "retrieving"},
                  ChatAdmitted(g, pc)
           PROVE  QueueTells'
      <3>1. History' = History /\ session' # None /\ escalations' = escalations
        BY <2>10, AdmittedEffect DEF History, FreshSession, ChatAdmitted
      <3> QED BY <2>4, <2>5, <2>6, <2>7, <2>8, <3>1 DEF QueueTells
    <2>11. ASSUME NEW g \in Handlers, NEW d \in Decisions, TurnEnds(g, d)
           PROVE  QueueTells'
      <3> DEFINE sp == task[g].speech
                 e  == [speech |-> sp, user_turn |-> session.next_turn,
                        agent_turn |-> session.next_turn + 1, decision |-> d]
      <3>1. /\ session \in Session /\ session # None /\ session' # None
            /\ sp \in Speeches
            /\ session'.history = Append(session.history, e)
            /\ task'[g].pc = "upserting" /\ g = h
        BY <2>11, EndedEffect
      <3>2. e.speech = sp /\ e.decision = d /\ e \in Exchange
        BY <3>1 DEF Exchange, Session
      <3>3. escalations' = IF d.act = "escalate" THEN escalations \cup {sp} ELSE escalations
        BY <2>11 DEF TurnEnds
      <3> HIDE DEF e, sp
      <3>4. Escalated(session'.history) =
              Escalated(session.history) \cup (IF d.act = "escalate" THEN {sp} ELSE {})
        BY <3>1, <3>2, EscalatedAppend DEF Session
      <3>5. escalations' = Escalated(History')
        BY <3>1, <3>3, <3>4 DEF QueueTells, History
      <3>6. task'[h].pc \notin InEnd /\ remembered' = remembered
        BY <2>11, <3>1 DEF InEnd, TurnEnds
      <3> QED BY <2>1, <2>5, <3>1, <3>3, <3>5, <3>6 DEF QueueTells
    <2> QED BY <1>2, <2>9, <2>10, <2>11, StepShape DEF Next
  <1> QED
    BY <1>1, <1>2 DEF Next

\* Why a gate may be closed although the recording was granted.
Explained(g) == g.minor \/ RefusalPolicy = "end"

\* Until /end closes it, a gate that is not open is closed for a minor or, under
\* the end policy, by a refusal.
Accounted(g) ==
  /\ g.state = "need_parental" => g.minor
  /\ g.state = "ended" => Explained(g)
  /\ (g.granted /\ g.state # "ready") => Explained(g)

LEMMA GateAccounted ==
  ASSUME NEW g \in Gate, Accounted(g)
  PROVE  Accounted(FlagMinor(g)) /\ \A a : Accounted(ApplyAnswer(g, a))
  <1> DEFINE Sound == {k \in Gate : Accounted(k)}
  <1>1. ASSUME NEW k \in Sound
        PROVE  /\ AcknowledgeAI(k) \in Sound /\ GrantRecording(k) \in Sound
               /\ RefuseRecording(k) \in Sound /\ FlagMinor(k) \in Sound
               /\ GrantParental(k) \in Sound /\ DenyParental(k) \in Sound
    <2> USE GateType DEF Gate, Accounted, Explained
    <2>1. AcknowledgeAI(k) \in Sound    BY DEF AcknowledgeAI
    <2>2. GrantRecording(k) \in Sound   BY DEF GrantRecording
    <2>3. RefuseRecording(k) \in Sound
      <3> DEFINE r == RefuseRecording(k)
      <3>1. r \in Gate
        OBVIOUS
      <3>2. ~r.granted /\ r.minor = k.minor
        BY DEF RefuseRecording
      <3>3. \/ r.state = k.state
            \/ r.state = "unrecorded"
            \/ r.state = "ended" /\ RefusalPolicy = "end"
        BY DEF RefuseRecording
      <3> HIDE DEF r
      <3>4. Accounted(r)
        BY <3>2, <3>3
      <3> QED BY <3>1, <3>4 DEF r
    <2>4. FlagMinor(k) \in Sound        BY DEF FlagMinor
    <2>5. GrantParental(k) \in Sound    BY DEF GrantParental
    <2>6. DenyParental(k) \in Sound     BY DEF DenyParental
    <2> QED BY <2>1, <2>2, <2>3, <2>4, <2>5, <2>6
  <1>2. g \in Sound
    OBVIOUS
  <1>3. ASSUME NEW a PROVE ApplyAnswer(g, a) \in Sound
    <2> DEFINE acked    == IF a.ack THEN AcknowledgeAI(g) ELSE g
               recorded == IF a.rec THEN GrantRecording(acked) ELSE RefuseRecording(acked)
               flagged  == FlagMinor(recorded)
    <2>1. ApplyAnswer(g, a) =
            IF ~a.minor THEN recorded
            ELSE IF a.parental = "granted" THEN GrantParental(flagged)
            ELSE IF a.parental = "denied" THEN DenyParental(flagged)
            ELSE flagged
      BY DEF ApplyAnswer, acked, recorded, flagged
    <2> HIDE DEF Sound
    <2>2. acked \in Sound     BY <1>1, <1>2
    <2> HIDE DEF acked
    <2>3. recorded \in Sound  BY <1>1, <2>2
    <2> HIDE DEF recorded
    <2>4. flagged \in Sound   BY <1>1, <2>3
    <2> HIDE DEF flagged
    <2>5. GrantParental(flagged) \in Sound /\ DenyParental(flagged) \in Sound
      BY <1>1, <2>4
    <2> QED BY <2>1, <2>3, <2>4, <2>5
  <1> QED
    BY <1>1, <1>2, <1>3

\* The row of an /end in progress has the flag of the gate as it is: nothing
\* changes the gate meanwhile.  Once written it is the row /end leaves.
FlagTells ==
  /\ ~remembered => Accounted(gate)
  /\ \A h \in Handlers : task[h].pc \in {"end_save", "end_review"} =>
       task[h].row.recorded = IF CanRecord(gate) THEN "yes" ELSE "no"
  /\ \A h \in Handlers : task[h].pc = "end_review" => row = task[h].row
  /\ (remembered /\ row # None) =>
       /\ row.recorded = "yes" => gate.granted
       /\ row.recorded = "no" => (~gate.granted \/ Explained(gate))

LEMMA InitFlag == Init => FlagTells
  BY IdleType DEF Init, FlagTells, Accounted, FreshGate, Idle

LEMMA StepFlag ==
  ASSUME Serial, Inv1, LastWord, QueueTells, FlagTells, [Next]_vars
  PROVE  FlagTells'
  <1> USE DEF Serial
  <1> gate \in Gate
    BY DEF Inv1, TypeOK
  <1>1. CASE UNCHANGED vars
    BY <1>1 DEF vars, FlagTells
  <1>2. ASSUME NEW h \in Handlers, Request(h) \/ Proceed(h), ~UNCHANGED vars
        PROVE  FlagTells'
    <2> task[h] \in Tasks
      BY DEF Inv1, TypeOK
    <2>1. ~remembered /\ Accounted(gate)
      BY <1>2, StepLastWord DEF Next, FlagTells
    <2>2. ~remembered' => Accounted(gate')
      <3>1. \/ gate' = gate \/ gate' = FlagMinor(gate)
            \/ \E a : gate' = ApplyAnswer(gate, a)
            \/ EndFinishes(h)
        BY <1>2
           DEF Request, Proceed, ConsentRespond, ChatRefused, Screen, ChatAdmitted, EndEmpty,
               EndStarts, Hydrated, StreamStarts, GenerationStarts, TurnEnds, TurnFails,
               UpsertReturns, EndBuilds, EndSaves, EndFails
      <3>2. EndFinishes(h) => remembered'
        BY DEF EndFinishes
      <3> QED BY <2>1, <3>1, <3>2, GateAccounted
    <2>3. CASE EndBuilds(h)
      <3> DEFINE r == FinalEpisode(session, CanRecord(gate), task[h].tier, "in_progress")
      <3>1. r.recorded = IF CanRecord(gate) THEN "yes" ELSE "no"
        BY DEF FinalEpisode
      <3> HIDE DEF r
      <3>2. task'[h] = [pc |-> "end_save", escalations |-> task[h].escalations, row |-> r]
        BY <2>3, AfterSuspend DEF EndBuilds, r
      <3>3. task'[h].pc = "end_save" /\ task'[h].row = r
        BY <3>2
      <3>4. gate' = gate /\ remembered' = remembered
        BY <2>3 DEF EndBuilds
      <3> QED BY <2>1, <3>1, <3>3, <3>4 DEF FlagTells
    <2>4. CASE EndSaves(h)
      <3>1. /\ task'[h].pc = "end_review" /\ task'[h].row = task[h].row
            /\ row' = task[h].row /\ gate' = gate /\ task[h].pc = "end_save"
            /\ remembered' = remembered
        BY <2>4, SavesEffect DEF EndSaves
      <3> QED BY <2>1, <3>1 DEF FlagTells
    <2>5. CASE EndFinishes(h)
      <3>1. /\ task[h].pc = "end_review" /\ row' = row /\ remembered'
            /\ gate' = EndGate(gate) /\ task'[h] = Idle
        BY <2>5, AfterSuspend DEF EndFinishes, Return
      <3>2. row.recorded = IF CanRecord(gate) THEN "yes" ELSE "no"
        BY <3>1 DEF FlagTells
      <3>3. gate'.granted = gate.granted /\ gate'.minor = gate.minor
        BY <3>1 DEF EndGate, Gate
      <3>4. row.recorded = "yes" => gate'.granted
        BY <3>2, <3>3 DEF CanRecord
      <3>5. row.recorded = "no" => (~gate'.granted \/ Explained(gate'))
        BY <2>1, <3>2, <3>3 DEF CanRecord, Accounted, Explained
      <3> QED BY <3>1, <3>4, <3>5, IdleType DEF FlagTells, Idle
    <2>6. CASE ~EndBuilds(h) /\ ~EndSaves(h) /\ ~EndFinishes(h)
      <3>1. task'[h].pc \notin {"end_save", "end_review"}
        <4>1. ASSUME task'[h] = task[h], task[h].pc \in {"end_save", "end_review"}
              PROVE  FALSE
          <5> ~Arriving(h)
            BY <4>1 DEF Arriving, Idle
          <5>1. ~Request(h)
            BY DEF Request, ConsentRespond, ChatRefused, ChatAdmitted, EndEmpty, EndStarts
          <5>2. EndFails(h)
            BY <1>2, <2>6, <4>1, <5>1
               DEF Proceed, Hydrated, StreamStarts, GenerationStarts, TurnEnds, TurnFails,
                   UpsertReturns
          <5>3. task'[h] = Idle
            BY <5>2, AfterSuspend DEF EndFails, Return
          <5> QED BY <4>1, <5>3 DEF Idle
        <4>2. ASSUME NEW d \in Decisions, TurnEnds(h, d) PROVE task'[h].pc = "upserting"
          BY <4>2, EndedEffect
        <4>3. CASE GenerationStarts(h) \/ EndStarts(h)
          BY <4>3, AfterSuspend DEF GenerationStarts, EndStarts
        <4> QED BY <1>2, <2>6, <4>1, <4>2, <4>3, TaskShape
      <3>2. remembered' => row' = None
        BY <1>2, <2>1, <2>6, RememberedBy DEF EndEmpty, QueueTells
      <3> QED BY <2>2, <3>1, <3>2 DEF FlagTells
    <2> QED BY <2>3, <2>4, <2>5, <2>6
  <1> QED
    BY <1>1, <1>2 DEF Next

\* The row says recorded only of a call whose caller agreed, not recorded only
\* of one that did not, was for a minor or had ended on a refusal; the review
\* queue is the escalate turns of the transcript, whatever writes failed before.
THEOREM EndsTellTheCall ==
  ASSUME Serial
  PROVE  Spec => []EndTellsTheCall
  <1> DEFINE IInv == Inv1 /\ LastWord /\ QueueTells /\ FlagTells
  <1>1. Init => IInv
    BY InitType, InitLastWord, InitQueue, InitFlag
  <1>2. IInv /\ [Next]_vars => IInv'
    BY StepType, StepLastWord, StepQueue, StepFlag
  <1>3. IInv => EndTellsTheCall
    BY DEF QueueTells, FlagTells, EndTellsTheCall, Explained, Escalated
  <1> HIDE DEF IInv
  <1> QED
    BY <1>1, <1>2, <1>3, PTL DEF Spec
=============================================================================
