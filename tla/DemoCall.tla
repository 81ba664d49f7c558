------------------------------ MODULE DemoCall ------------------------------
(***************************************************************************)
(* One session of the HTTP demo channel (src/api/demo_routes.py): consent  *)
(* answers, chat turns and /end arrive as requests, each served by an      *)
(* asyncio handler that suspends at every await.  One action is what a     *)
(* handler does between two awaits.  The session's records stay reachable  *)
(* from its running handlers after /end has evicted it, as in the code.    *)
(***************************************************************************)
EXTENDS Episodes, ConsentGate

CONSTANTS Handlers,    \* the requests of one session that may be in flight at once
          Answers      \* the consent forms its client may send

\* The body of one /api/consent/respond; a parental answer is only read with
\* is_minor.
Answer == {a \in [ack: BOOLEAN, rec: BOOLEAN, minor: BOOLEAN,
                  parental: {"absent", "granted", "denied"}, phone: BOOLEAN] :
             a.parental # "absent" => a.minor}

ASSUME AnswersAssumption == Answers \subseteq Answer

VARIABLES gate,         \* sess.gate
          session,      \* sess.voice_session, None until the first admitted chat
          stored,       \* whether `sessions` still holds the session
          remembered,   \* whether `ended_results` holds it
          bound,        \* whether sess.phone_hash is set
          tier,         \* sess.last_close_tier
          counter,      \* sess._speech_counter
          escalations,  \* sess.escalations: the speech ids of the buffered logs
          row,          \* the episode row in the store
          review,       \* the escalation logs in the store
          task          \* what each handler is suspended on

vars == <<gate, session, stored, remembered, bound, tier, counter, escalations,
          row, review, task>>

Tasks == [pc: {"idle"}]
         \cup [pc: {"hydrating"}, answer: Answers]
         \cup [pc: {"sse_open", "retrieving"}, speech: Speeches]
         \cup [pc: {"generating"}, speech: Speeches, base: Beliefs]
         \cup [pc: {"upserting"}, row: Episode]
         \cup [pc: {"end_lead"}, escalations: SUBSET Speeches, tier: Tiers]
         \cup [pc: {"end_save", "end_review"}, escalations: SUBSET Speeches, row: Episode]

Idle == [pc |-> "idle"]

TypeOK == /\ gate \in Gate
          /\ session \in Session \cup {None}
          /\ stored \in BOOLEAN /\ remembered \in BOOLEAN /\ bound \in BOOLEAN
          /\ tier \in Tiers
          /\ counter \in 0..MaxSpeech
          /\ escalations \subseteq Speeches
          /\ row \in Episode \cup {None}
          /\ review \subseteq Speeches
          /\ task \in [Handlers -> Tasks]

\* consent_start: a fresh gate, no brain session yet.
Init == /\ gate = FreshGate /\ session = None
        /\ stored = TRUE /\ remembered = FALSE /\ bound = FALSE
        /\ tier = "none" /\ counter = 0 /\ escalations = {}
        /\ row = None /\ review = {}
        /\ task = [h \in Handlers |-> Idle]

Suspend(h, t) == task' = [task EXCEPT ![h] = t]
Return(h)     == Suspend(h, Idle)
Arriving(h)   == task[h] = Idle /\ stored

-----------------------------------------------------------------------------
(* POST /api/consent/respond *)

\* Everything the handler does to the gate, in its order.
ApplyAnswer(g, a) ==
  LET acked    == IF a.ack THEN AcknowledgeAI(g) ELSE g
      recorded == IF a.rec THEN GrantRecording(acked) ELSE RefuseRecording(acked)
      flagged  == FlagMinor(recorded)
  IN  IF ~a.minor THEN recorded
      ELSE IF a.parental = "granted" THEN GrantParental(flagged)
      ELSE IF a.parental = "denied" THEN DenyParental(flagged)
      ELSE flagged

\* The first phone hash suspends the handler on the memory lookup; the answer
\* is applied after it.
ConsentRespond(h, a) ==
  /\ Arriving(h)
  /\ IF a.phone /\ ~bound
       THEN bound' = TRUE /\ Suspend(h, [pc |-> "hydrating", answer |-> a]) /\ UNCHANGED gate
       ELSE gate' = ApplyAnswer(gate, a) /\ UNCHANGED <<bound, task>>
  /\ UNCHANGED <<session, stored, remembered, tier, counter, escalations, row, review>>

Hydrated(h) ==
  /\ task[h].pc = "hydrating"
  /\ gate' = ApplyAnswer(gate, task[h].answer)
  /\ Return(h)
  /\ UNCHANGED <<session, stored, remembered, bound, tier, counter, escalations, row, review>>

-----------------------------------------------------------------------------
(* POST /api/chat *)

\* A self-reported minor flips an open gate before the gate is checked.
Screen(minor_text) ==
  IF CanConverse(gate) /\ minor_text THEN FlagMinor(gate) ELSE gate

\* Refused with 409; the screening may have blocked the gate.
ChatRefused(h, minor_text) ==
  /\ Arriving(h)
  /\ ~CanConverse(Screen(minor_text))
  /\ gate' = Screen(minor_text)
  /\ UNCHANGED <<session, stored, remembered, bound, tier, counter, escalations,
                 row, review, task>>

\* Faulty: the speech id is drawn before the counter is advanced.
ChatAdmittedOldId(h, pc) ==
  /\ Arriving(h)
  /\ CanConverse(gate)
  /\ counter < MaxSpeech
  /\ counter' = counter + 1
  /\ session' = IF session = None THEN FreshSession(<<>>) ELSE session
  /\ Suspend(h, [pc |-> pc, speech |-> counter])
  /\ UNCHANGED <<gate, stored, remembered, bound, tier, escalations, row, review>>

\* Faulty: every chat request builds a brain session of its own.
ChatAdmittedRebuilds(h, pc) ==
  /\ Arriving(h)
  /\ CanConverse(gate)
  /\ counter < MaxSpeech
  /\ counter' = counter + 1
  /\ session' = FreshSession(<<>>)
  /\ Suspend(h, [pc |-> pc, speech |-> counter'])
  /\ UNCHANGED <<gate, stored, remembered, bound, tier, escalations, row, review>>

\* Admitted: the brain session is built on first use and a speech id is drawn.
\* A buffered request runs on into the retrieval; a stream starts later.
ChatAdmitted(h, pc) ==
  /\ Arriving(h)
  /\ CanConverse(gate)
  /\ counter < MaxSpeech
  /\ counter' = counter + 1
  /\ session' = IF session = None THEN FreshSession(<<>>) ELSE session
  /\ Suspend(h, [pc |-> pc, speech |-> counter'])
  /\ UNCHANGED <<gate, stored, remembered, bound, tier, escalations, row, review>>

\* The stream's generator starts: handle_user_turn_stream checks consent again.
StreamStarts(h) ==
  /\ task[h].pc = "sse_open"
  /\ IF CanConverse(gate) THEN Suspend(h, [task[h] EXCEPT !.pc = "retrieving"]) ELSE Return(h)
  /\ UNCHANGED <<gate, session, stored, remembered, bound, tier, counter, escalations,
                 row, review>>

\* Retrieval is over: respond() is given the belief committed by now.
GenerationStarts(h) ==
  /\ task[h].pc = "retrieving"
  /\ Suspend(h, [pc |-> "generating", speech |-> task[h].speech, base |-> session.belief])
  /\ UNCHANGED <<gate, session, stored, remembered, bound, tier, counter, escalations,
                 row, review>>

\* respond() returned: buffer, then _post_turn_hooks commits, buffers an
\* escalation, tracks the close tier and hands a snapshot to the live upsert.
TurnEnds(h, d) ==
  LET sp == task[h].speech
      s  == CommitTurn(BufferTurn(session, sp, task[h].base, d), sp)
      t  == IF d.act = "attempt_close" THEN d.tier ELSE tier
  IN  /\ task[h].pc = "generating"
      /\ session' = s
      /\ tier' = t
      /\ escalations' = IF d.act = "escalate" THEN escalations \cup {sp} ELSE escalations
      /\ Suspend(h, [pc |-> "upserting", row |-> LiveEpisode(s, t)])
      /\ UNCHANGED <<gate, stored, remembered, bound, counter, row, review>>

\* The retriever or the model raised, or the streaming client went away.
TurnFails(h) ==
  /\ task[h].pc \in {"sse_open", "retrieving", "generating"}
  /\ Return(h)
  /\ UNCHANGED <<gate, session, stored, remembered, bound, tier, counter, escalations,
                 row, review>>

\* persist_call_live saves the row, or swallows the store's failure.
UpsertReturns(h) ==
  /\ task[h].pc = "upserting"
  /\ row' \in {row, task[h].row}
  /\ Return(h)
  /\ UNCHANGED <<gate, session, stored, remembered, bound, tier, counter, escalations, review>>

-----------------------------------------------------------------------------
(* POST /api/session/{id}/end *)

\* No brain session: nothing to persist.
EndEmpty(h) ==
  /\ Arriving(h)
  /\ session = None
  /\ stored' = FALSE /\ remembered' = TRUE
  /\ UNCHANGED <<gate, session, bound, tier, counter, escalations, row, review, task>>

\* Faulty: the buffered escalations are not handed to persist_call_end.
EndStartsBare(h) ==
  /\ Arriving(h)
  /\ session # None
  /\ Suspend(h, [pc |-> "end_lead", escalations |-> {}, tier |-> tier])
  /\ UNCHANGED <<gate, session, stored, remembered, bound, tier, counter, escalations,
                 row, review>>

\* The arguments of persist_call_end are read now, the lead is written first.
EndStarts(h) ==
  /\ Arriving(h)
  /\ session # None
  /\ Suspend(h, [pc |-> "end_lead", escalations |-> escalations, tier |-> tier])
  /\ UNCHANGED <<gate, session, stored, remembered, bound, tier, counter, escalations,
                 row, review>>

\* The episode is built from the session as it is after the lead was written.
EndBuilds(h) ==
  /\ task[h].pc = "end_lead"
  /\ Suspend(h, [pc |-> "end_save", escalations |-> task[h].escalations,
                 row |-> FinalEpisode(session, CanRecord(gate), task[h].tier,
                                      "in_progress")])
  /\ UNCHANGED <<gate, session, stored, remembered, bound, tier, counter, escalations,
                 row, review>>

EndSaves(h) ==
  /\ task[h].pc = "end_save"
  /\ row' = task[h].row
  /\ Suspend(h, [task[h] EXCEPT !.pc = "end_review"])
  /\ UNCHANGED <<gate, session, stored, remembered, bound, tier, counter, escalations, review>>

\* Faulty: the session is remembered as ended and stays in the store.
EndFinishesKeeps(h) ==
  /\ task[h].pc = "end_review"
  /\ review' = review \cup task[h].escalations
  /\ gate' = EndGate(gate)
  /\ remembered' = TRUE
  /\ Return(h)
  /\ UNCHANGED <<session, stored, bound, tier, counter, escalations, row>>

\* The buffered escalations are written, then the gate ends, the session is
\* evicted and its result remembered.
EndFinishes(h) ==
  /\ task[h].pc = "end_review"
  /\ review' = review \cup task[h].escalations
  /\ gate' = EndGate(gate)
  /\ stored' = FALSE /\ remembered' = TRUE
  /\ Return(h)
  /\ UNCHANGED <<session, bound, tier, counter, escalations, row>>

\* The store raised: 500, and the session stays for a retry.  Some of the
\* escalation logs may be written by then.
EndFails(h) ==
  /\ task[h].pc \in {"end_lead", "end_save", "end_review"}
  /\ \E logs \in SUBSET Speeches :
       /\ logs # {} => task[h].pc = "end_review" /\ logs \subseteq task[h].escalations
       /\ review' = review \cup logs
  /\ Return(h)
  /\ UNCHANGED <<gate, session, stored, remembered, bound, tier, counter, escalations, row>>

-----------------------------------------------------------------------------
Request(h) ==
  \/ \E a \in Answers : ConsentRespond(h, a)
  \/ \E m \in BOOLEAN : ChatRefused(h, m)
  \/ \E pc \in {"sse_open", "retrieving"} : ChatAdmitted(h, pc)
  \/ EndEmpty(h)
  \/ EndStarts(h)

Proceed(h) ==
  \/ Hydrated(h)
  \/ StreamStarts(h)
  \/ GenerationStarts(h)
  \/ \E d \in Decisions : TurnEnds(h, d)
  \/ TurnFails(h)
  \/ UpsertReturns(h)
  \/ EndBuilds(h)
  \/ EndSaves(h)
  \/ EndFinishes(h)
  \/ EndFails(h)

Next == \E h \in Handlers : Request(h) \/ Proceed(h)

Spec == Init /\ [][Next]_vars

-----------------------------------------------------------------------------
(* What DemoCall promises whatever the interleaving of its handlers. *)

History == IF session = None THEN <<>> ELSE session.history

\* Turn ids are handed out without gap or reuse, the speech -> turn join is
\* exactly the committed agent turns, and no utterance is committed twice:
\* commit_turn of two handlers never mix.
TranscriptSound ==
  session # None =>
    /\ session.next_turn = 2 * Len(History)
    /\ \A i \in DOMAIN History :
         /\ History[i].user_turn = 2 * i - 2
         /\ History[i].agent_turn = 2 * i - 1
         /\ session.turn_of[History[i].speech] = History[i].agent_turn
    /\ \A sp \in Speeches : session.turn_of[sp] # None =>
         \E i \in DOMAIN History : History[i].speech = sp

\* The row never shows a turn the session has not committed: a live or final
\* write, however late, is a prefix of the transcript (no speculative turn
\* reaches the store).
RowIsPrefix ==
  row # None => /\ Len(row.history) <= Len(History)
                /\ \A i \in DOMAIN row.history : row.history[i] = History[i]

\* The committed belief ends with the utterance committed last: the belief
\* and the transcript change together.
BeliefIsLastCommit ==
  session # None =>
    IF History = <<>> THEN session.belief = <<>>
    ELSE /\ session.belief # <<>>
         /\ session.belief[Len(session.belief)] = History[Len(History)].speech

\* The screening of chat text and answers can block a call for a minor; only
\* an answer that carries the parent's consent opens it again.
OnlyParentUnblocks ==
  [][(gate.state = "need_parental" /\ CanConverse(gate')) =>
       \E h \in Handlers, a \in {b \in Answers : b.parental = "granted"} :
         ConsentRespond(h, a) \/ (Hydrated(h) /\ task[h].answer = a)]_vars

\* DemoCall implements the turn log every channel promises.
Phase == CASE gate.state = "ended" -> "over"
           [] CanConverse(gate)    -> "open"
           [] OTHER                -> "blocked"

Log == INSTANCE TurnLog WITH Turns <- Speeches, phase <- Phase,
                             admitted <- 1..counter, log <- SpeechLog(History)

ImplementsTurnLog == Log!Spec

-----------------------------------------------------------------------------
(* What holds for a client that sends one request at a time. *)

\* The belief has absorbed every committed utterance, in order: no turn was
\* answered from a belief that misses an earlier one.
BeliefCoversHistory ==
  session # None => session.belief = SpeechLog(session.history)

\* Once /end has returned nothing more is written: the row and the review queue
\* are the call's last word, and neither the gate nor the session comes back.
FinalRowStands ==
  [][remembered => UNCHANGED <<gate, session, escalations, row, review>>]_vars

\* What /end leaves behind tells the call: the row is flagged recorded exactly
\* when the caller had agreed, no minor check was open and no refusal had ended
\* the call before (the flag is read before the gate ends; a later grant still
\* sets `granted`), and the review queue has the escalate turns of the
\* transcript.
EndTellsTheCall ==
  (remembered /\ row # None) =>
    /\ row.recorded = "yes" => gate.granted
    /\ row.recorded = "no" => (~gate.granted \/ gate.minor \/ RefusalPolicy = "end")
    /\ review = {History[i].speech : i \in {j \in DOMAIN History :
                                            History[j].decision.act = "escalate"}}

-----------------------------------------------------------------------------
(* What the code's own words promise, and the code does not keep. *)

\* chat: a booking persists and shows in /operate.
BookingSurvives ==
  [][(row # None /\ row.outcome \in BookedOutcomes) => row'.outcome \in BookedOutcomes]_vars
=============================================================================
