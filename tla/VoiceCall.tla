----------------------------- MODULE VoiceCall -----------------------------
(***************************************************************************)
(* One LiveKit call (src/voice/worker.py), from the ring to the end of the *)
(* room-close callback.  The media framework (speech to text, playout, one *)
(* llm_node at a time, cancelling it on a barge-in or a disconnect) is     *)
(* external; the worker's hooks, its fire-and-forget tasks and its         *)
(* shutdown callback are the actions.                                      *)
(***************************************************************************)
EXTENDS Episodes, ConsentGate

\* The consent the browser captured, as the room metadata tells it; "absent"
\* for a call dispatched without it.
Metadata == {"absent", "ready", "unrecorded", "need_parental", "pending", "ended"}

\* How a spoken consent reply is classified; detect_minor goes first.
Replies == {"minor", "yes", "no", "unclear"}

VARIABLES gate,         \* voice_session.consent_gate
          session,      \* voice_session.state
          sip,          \* no metadata and a SIP participant in the room at connect
          awaiting,     \* _awaiting_consent
          reasked,      \* _consent_reasked
          counter,      \* _turn_counter
          stash,        \* the speech id whose _pending_user_text is stashed
          reply,        \* what llm_node is streaming
          tier,         \* last_close_tier
          escalating,   \* _escalation_tasks not done yet
          escalations,  \* agent.escalations
          writes,       \* upserts in flight; equal rows are one
          row,          \* the episode row in the store
          review,       \* the escalation logs in the store
          shut          \* how far the call and its shutdown callback are

consent == <<gate, sip, awaiting, reasked>>
turn    == <<session, counter, stash, reply, tier, escalating, escalations>>
store   == <<row, review>>
vars    == <<consent, turn, writes, store, shut>>

Shut == [pc: {"starting", "live", "draining"}]
        \cup [pc: {"lead"}, logs: SUBSET Speeches, tier: Tiers]
        \cup [pc: {"save", "logs", "settle"}, logs: SUBSET Speeches, row: Episode]
        \cup [pc: {"closed"}, row: Episode \cup {None}]

TypeOK == /\ gate \in Gate /\ sip \in BOOLEAN /\ awaiting \in BOOLEAN /\ reasked \in BOOLEAN
          /\ session \in Session
          /\ counter \in 0..MaxSpeech
          /\ stash \in Speeches \cup {NoSpeech}
          /\ reply \in [speech: Speeches, base: Beliefs] \cup {None}
          /\ tier \in Tiers
          /\ escalating \subseteq Speeches /\ escalations \subseteq Speeches
          /\ writes \subseteq Episode
          /\ row \in Episode \cup {None} /\ review \subseteq Speeches
          /\ shut \in Shut

\* _seed_gate_from_metadata: only public transitions, on a fresh gate.
SeedGate(m) ==
  LET acked == AcknowledgeAI(FreshGate)
  IN  CASE m = "absent"        -> FreshGate
        [] m = "ready"         -> GrantRecording(acked)
        [] m = "unrecorded"    -> RefuseRecording(acked)
        [] m = "need_parental" -> FlagMinor(acked)
        [] OTHER               -> acked

Init == /\ \E m \in Metadata : gate = SeedGate(m) /\ (m # "absent" => sip = FALSE)
        /\ sip \in BOOLEAN
        /\ awaiting = FALSE /\ reasked = FALSE
        /\ session = FreshSession(<<>>)
        /\ counter = 0 /\ stash = NoSpeech /\ reply = None /\ tier = "none"
        /\ escalating = {} /\ escalations = {}
        /\ writes = {} /\ row = None /\ review = {}
        /\ shut = [pc |-> "starting"]

Live == shut.pc = "live"

-----------------------------------------------------------------------------
(* The ring and the spoken consent. *)

\* session.start is over: the connect upsert is scheduled, then a SIP caller
\* is asked for consent.
Ring ==
  /\ shut.pc = "starting"
  /\ shut' = [pc |-> "live"]
  /\ writes' = writes \cup {LiveEpisode(session, "none")}
  /\ awaiting' = sip
  /\ UNCHANGED <<gate, sip, reasked, turn, store>>

\* handle_consent_turn: the first unclear reply is asked again, the second
\* ends the gate.
ConsentReply(r) ==
  /\ Live /\ awaiting
  /\ gate' = CASE r = "minor" -> FlagMinor(gate)
               [] r = "yes"   -> GrantRecording(AcknowledgeAI(gate))
               [] r = "no"    -> RefuseRecording(AcknowledgeAI(gate))
               [] OTHER       -> IF reasked THEN EndGate(gate) ELSE gate
  /\ awaiting' = (r = "unclear" /\ ~reasked)
  /\ reasked' = (reasked \/ r = "unclear")
  /\ UNCHANGED <<sip, turn, writes, store, shut>>

-----------------------------------------------------------------------------
(* A turn of the caller and the reply to it. *)

\* on_user_turn_completed: refused by the gate (ConsentError, no effect) or
\* stashed under a fresh speech id, in place of an utterance not picked up yet.
CallerSpeaks ==
  /\ Live /\ ~awaiting
  /\ CanConverse(gate)
  /\ counter < MaxSpeech
  /\ counter' = counter + 1
  /\ stash' = counter'
  /\ UNCHANGED <<consent, session, reply, tier, escalating, escalations, writes, store, shut>>

\* Faulty: the stashed utterance is not consumed.
ReplyStartsKeepsStash ==
  /\ Live
  /\ stash # NoSpeech /\ reply = None
  /\ reply' = IF CanConverse(gate) THEN [speech |-> stash, base |-> session.belief] ELSE None
  /\ UNCHANGED <<consent, session, counter, stash, tier, escalating, escalations, writes,
                 store, shut>>

\* llm_node consumes the stash, and handle_user_turn_stream asks the gate again.
\* The belief it answers from is read after the retrieval; as no other reply
\* can commit before, it is read here.
ReplyStarts ==
  /\ Live
  /\ stash # NoSpeech /\ reply = None
  /\ reply' = IF CanConverse(gate) THEN [speech |-> stash, base |-> session.belief] ELSE None
  /\ stash' = NoSpeech
  /\ UNCHANGED <<consent, session, counter, tier, escalating, escalations, writes, store, shut>>

\* A throttled upsert of the partial reply.
Partial ==
  /\ reply # None
  /\ writes' = writes \cup {LiveEpisode(session, "none")}
  /\ UNCHANGED <<consent, turn, store, shut>>

\* The stream is over: the last partial upsert is scheduled, the turn is
\* buffered and committed with no await between, then _capture_post_commit
\* schedules the escalation handler or tracks the tier, and the live upsert.
\* The scheduled upserts read the session after the commit.
ReplyEnds(d) ==
  LET sp == reply.speech
      s  == CommitTurn(BufferTurn(session, sp, reply.base, d), sp)
  IN  /\ reply # None
      /\ session' = s
      /\ reply' = None
      /\ escalating' = IF d.act = "escalate" THEN escalating \cup {sp} ELSE escalating
      /\ tier' = IF d.act = "attempt_close" THEN d.tier ELSE tier
      /\ writes' = writes \cup {LiveEpisode(s, "none")}
      /\ UNCHANGED <<consent, counter, stash, escalations, store, shut>>

\* The reply is cancelled by a barge-in, or the brain raised.
ReplyDropped ==
  /\ reply # None
  /\ reply' = None
  /\ session' \in {session, BargeIn(session, reply.speech)}
  /\ UNCHANGED <<consent, counter, stash, tier, escalating, escalations, writes, store, shut>>

\* Faulty: a barge-in takes the committed turn back.
PlayoutInterruptedUndoes ==
  /\ Live /\ session.history # <<>>
  /\ session' = [BargeIn(session, session.history[Len(session.history)].speech) EXCEPT
                   !.history = SubSeq(@, 1, Len(@) - 1)]
  /\ UNCHANGED <<consent, counter, stash, reply, tier, escalating, escalations, writes,
                 store, shut>>

\* The playout of a committed reply is interrupted; an uninterrupted one
\* commits again, which is a no-op.
PlayoutInterrupted ==
  /\ Live /\ session.history # <<>>
  /\ session' = BargeIn(session, session.history[Len(session.history)].speech)
  /\ UNCHANGED <<consent, counter, stash, reply, tier, escalating, escalations, writes,
                 store, shut>>

\* Faulty: the disconnect cancels the escalation tasks.
EscalationHandledLive(sp) ==
  /\ Live
  /\ sp \in escalating
  /\ escalating' = escalating \ {sp}
  /\ escalations' = escalations \cup {sp}
  /\ UNCHANGED <<consent, session, counter, stash, reply, tier, writes, store, shut>>

\* _handle_escalation_async of one committed turn.
EscalationHandled(sp) ==
  /\ sp \in escalating
  /\ escalating' = escalating \ {sp}
  /\ escalations' = escalations \cup {sp}
  /\ UNCHANGED <<consent, session, counter, stash, reply, tier, writes, store, shut>>

\* An upsert lands, in any order, or its failure is swallowed.
WriteLands(w) ==
  /\ w \in writes
  /\ writes' = writes \ {w}
  /\ row' \in {row, w}
  /\ UNCHANGED <<consent, turn, review, shut>>

-----------------------------------------------------------------------------
(* The shutdown callback. *)

\* The caller hangs up: the framework closes the session, then runs _on_shutdown.
Disconnect ==
  /\ shut.pc \in {"starting", "live"}
  /\ shut' = [pc |-> "draining"]
  /\ reply' = None /\ stash' = NoSpeech
  /\ UNCHANGED <<consent, session, counter, tier, escalating, escalations, writes, store>>

\* Faulty: the arguments are read without waiting for the escalation tasks.
DrainedAtOnce ==
  /\ shut.pc = "draining"
  /\ shut' = [pc |-> "lead", logs |-> escalations, tier |-> tier]
  /\ UNCHANGED <<consent, turn, writes, store>>

\* Every escalation task is gathered before persist_call_end is called.
Drained ==
  /\ shut.pc = "draining"
  /\ escalating = {}
  /\ shut' = [pc |-> "lead", logs |-> escalations, tier |-> tier]
  /\ UNCHANGED <<consent, turn, writes, store>>

\* The lead is written and the episode built.
LeadSaved ==
  /\ shut.pc = "lead"
  /\ shut' = [pc |-> "save", logs |-> shut.logs,
              row |-> FinalEpisode(session, CanRecord(gate), shut.tier, "in_progress")]
  /\ UNCHANGED <<consent, turn, writes, store>>

EpisodeSaved ==
  /\ shut.pc = "save"
  /\ row' = shut.row
  /\ shut' = [shut EXCEPT !.pc = "logs"]
  /\ UNCHANGED <<consent, turn, writes, review>>

ActsOf(h) == {h[i].decision.act : i \in DOMAIN h}

\* Faulty: only the last act counts.
TerminalOfLastAct(h, t) ==
  IF t # "none" \/ LastAct(h) = "attempt_close" THEN "in_progress"
  ELSE IF LastAct(h) = "escalate" THEN "escalated"
  ELSE IF LastAct(h) = "disqualify" THEN "disqualified"
  ELSE IF h = <<>> THEN "abandoned" ELSE "released"

\* _terminal_outcome_on_disconnect; "in_progress" stands for None (no override).
TerminalOf(h, t) ==
  IF t # "none" \/ LastAct(h) = "attempt_close" THEN "in_progress"
  ELSE IF "escalate" \in ActsOf(h) THEN "escalated"
  ELSE IF "disqualify" \in ActsOf(h) THEN "disqualified"
  ELSE IF h = <<>> THEN "abandoned" ELSE "released"

\* The escalation logs are written; an episode still in progress gets its
\* terminal outcome and is saved again.
LogsSaved ==
  LET terminal == TerminalOf(session.history, tier)
  IN  /\ shut.pc = "logs"
      /\ review' = review \cup shut.logs
      /\ shut' = IF terminal # "in_progress" /\ shut.row.outcome = "in_progress"
                   THEN [shut EXCEPT !.pc = "settle", !.row.outcome = terminal]
                   ELSE [pc |-> "closed", row |-> shut.row]
      /\ UNCHANGED <<consent, turn, writes, row>>

Settled ==
  /\ shut.pc = "settle"
  /\ row' = shut.row
  /\ shut' = [pc |-> "closed", row |-> shut.row]
  /\ UNCHANGED <<consent, turn, writes, review>>

\* The store raised: logged, never retried.  Some logs may be written by then.
ShutdownFails ==
  /\ shut.pc \in {"lead", "save", "logs", "settle"}
  /\ shut' = [pc |-> "closed", row |-> None]
  /\ review' \in IF shut.pc = "logs" THEN {review \cup s : s \in SUBSET shut.logs} ELSE {review}
  /\ UNCHANGED <<consent, turn, writes, row>>

-----------------------------------------------------------------------------
Call ==
  \/ Ring
  \/ \E r \in Replies : ConsentReply(r)
  \/ CallerSpeaks
  \/ ReplyStarts
  \/ Partial
  \/ \E d \in Decisions : ReplyEnds(d)
  \/ ReplyDropped
  \/ PlayoutInterrupted
  \/ Disconnect

Background ==
  \/ \E sp \in Speeches : EscalationHandled(sp)
  \/ \E w \in writes : WriteLands(w)

Shutdown ==
  \/ Drained
  \/ LeadSaved
  \/ EpisodeSaved
  \/ LogsSaved
  \/ Settled
  \/ ShutdownFails

Next == Call \/ Background \/ Shutdown

Spec == Init /\ [][Next]_vars

\* The event loop runs every scheduled task and the shutdown callback; the
\* caller is obliged to nothing.
FairSpec == /\ Spec
            /\ WF_vars(Shutdown)
            /\ \A sp \in Speeches : WF_vars(EscalationHandled(sp))

-----------------------------------------------------------------------------
(* What the worker promises. *)

\* The belief has absorbed every committed utterance, in order, whatever was
\* interrupted or replaced in between; a barge-in leaves the transcript alone.
BeliefCoversHistory == session.belief = SpeechLog(session.history)

\* No turn is committed, and so none recorded, before consent; the spoken
\* consent reply itself never is.
CommitNeedsConsent ==
  [][session'.history # session.history => gate.state \in Conversable /\ ~awaiting]_vars

\* When the shutdown callback succeeds, the review queue holds exactly the
\* committed escalations: no handler is still running, none is lost.
EscalationsReachReview ==
  (shut.pc = "closed" /\ shut.row # None) =>
    review = {session.history[i].speech : i \in {j \in DOMAIN session.history :
                                            session.history[j].decision.act = "escalate"}}

\* The terminal outcome tells what happened in the whole call: abandoned
\* before any turn, escalated or disqualified somewhere, or released with
\* neither; a booking only when the agent closed.
OutcomeTellsTheCall ==
  (shut.pc = "closed" /\ shut.row # None) =>
    LET acts == ActsOf(session.history)
        o    == shut.row.outcome
    IN  /\ o = "abandoned"       <=> session.history = <<>>
        /\ o = "released"        => acts = {"talk"}
        /\ o = "disqualified"    => "disqualify" \in acts /\ (LastAct(session.history) = "disqualify"
                                                               \/ "escalate" \notin acts)
        /\ o = "escalated"       => "escalate" \in acts
        /\ o \in BookedOutcomes  => "attempt_close" \in acts
        /\ "attempt_close" \notin acts => o # "in_progress"

\* A voice call keeps the turn log too; hanging up ends it as the gate does.
Phase == IF gate.state = "ended" \/ shut.pc \notin {"starting", "live"} THEN "over"
         ELSE IF CanConverse(gate) THEN "open" ELSE "blocked"

Log == INSTANCE TurnLog WITH Turns <- Speeches, phase <- Phase,
                             admitted <- 1..counter, log <- SpeechLog(session.history)

ImplementsTurnLog == Log!Spec

\* The shutdown callback comes to an end, whatever was in flight.
ShutdownEnds == shut.pc = "draining" ~> shut.pc = "closed"

=============================================================================
