----------------------------- MODULE Simulation -----------------------------
(***************************************************************************)
(* One simulated call: the agent against a prospect of Prospect.tla.  Two  *)
(* loops run them against each other.  sim/selfplay.py: run_episode is the *)
(* headless one of training and replays, which writes its episode at the   *)
(* end.  api/demo_routes.py: _run_auto_demo is a background task of the    *)
(* server that upserts the row of the call after each turn and tells the   *)
(* event streams of the operators who watch.                               *)
(*                                                                         *)
(* The agent is any sequence of moves (its own rules are DialogueCore).    *)
(* A model or the store may fail at each await.                            *)
(***************************************************************************)
EXTENDS Prospect, FiniteSets

CONSTANTS
  Personas,   \* the personas of self-play, twins included
  Qualified,  \* those an auto-demo may draw
  Deltas,     \* what the prospect's model may propose, None: no usable JSON
  Moves,      \* the agent's moves, [act, tier]
  Clients,    \* the watchers of an auto-demo, each subscribes once
  MaxTurns,   \* the turn budget of a call
  QueueMax    \* _DEMO_STREAM_QUEUE_MAX

ASSUME PersonaAssumption == Qualified \subseteq Personas /\ Personas \subseteq Persona
ASSUME DeltasAssumption == Deltas \subseteq Delta

\* A close has its tier: policy.py gives one to those the model proposes, and so
\* does every gate that makes a decision a close.
ASSUME MovesAssumption ==
  \A m \in Moves : m.tier \in Tiers \cup (IF m.act = "attempt_close" THEN {} ELSE {None})
ASSUME MaxTurnsAssumption == MaxTurns \in Nat \ {0}

\* 64 events against a budget of 20 turns of two events each, and the end.
ASSUME QueueAssumption == QueueMax >= 2 * MaxTurns + 1

Outcomes == {"in_progress", "enrolled", "trial_booked", "consult_booked", "callback_booked",
             "callback_scheduled", "escalated", "disqualified", "walked", "released"}
Row == [outcome : Outcomes, turns : 0 .. MaxTurns, final : BOOLEAN]

ASSUME NoneAssumption == None \notin Tiers \cup Outcomes \cup Row

VARIABLES
  runner,    \* "self_play" or "auto_demo"
  persona,   \* who was drawn
  prospect,  \* its state
  move,      \* the agent's last move, which the prospect answers
  decided,   \* the move of the turn being committed
  pc,        \* where the runner is
  outcome,   \* run_episode: outcome; demo: demo_terminal_override
  close,     \* last_close_tier
  turns,     \* the committed turns of a demo
  row,       \* the episode row, else None
  faults,    \* what has failed so far
  streams    \* per client: its phase and its queue of events

vars == <<runner, persona, prospect, move, decided, pc, outcome, close, turns, row, faults, streams>>

Greeting == [act |-> "greeting", tier |-> None]

Booked == [enrollment |-> "enrolled", trial |-> "trial_booked", consultation |-> "consult_booked",
           callback |-> "callback_booked"]

Init ==
  /\ runner \in {"self_play", "auto_demo"}
  /\ persona \in (IF runner = "auto_demo" THEN Qualified ELSE Personas)
  /\ prospect = Opening(persona)
  /\ move = Greeting /\ decided = Greeting
  /\ pc = "prospect" /\ outcome = None /\ close = None /\ turns = 0
  /\ row = None /\ faults = {}
  /\ streams = [c \in Clients |-> [phase |-> "new", queue |-> <<>>]]

At(r, where) == runner = r /\ pc = where

(***************************************************************************)
(* run_episode.                                                            *)
(***************************************************************************)
Fate(s) ==
  IF s.walked THEN "walked"
  ELSE IF s.committed = "callback" THEN "callback_scheduled"
  ELSE IF s.committed # None THEN Booked[s.committed] ELSE None

Hears(d) ==
  /\ At("self_play", "prospect")
  /\ prospect' = Answer(prospect, persona, move, d)
  /\ outcome' = Fate(prospect')
  /\ pc' = IF outcome' # None THEN "save" ELSE "agent"
  /\ UNCHANGED <<runner, persona, move, decided, close, turns, row, faults, streams>>

\* Faulty: the turn budget outranks the hand-off.
FaultyReplies(m) ==
  /\ At("self_play", "agent")
  /\ move' = m
  /\ outcome' = IF prospect.turns >= MaxTurns THEN "released"
                ELSE IF m.act = "escalate" THEN "escalated" ELSE None
  /\ pc' = IF outcome' # None THEN "save" ELSE "prospect"
  /\ UNCHANGED <<runner, persona, prospect, decided, close, turns, row, faults, streams>>

Replies(m) ==
  /\ At("self_play", "agent")
  /\ move' = m
  /\ outcome' = IF m.act = "escalate" THEN "escalated"
                ELSE IF prospect.turns >= MaxTurns THEN "released" ELSE None
  /\ pc' = IF outcome' # None THEN "save" ELSE "prospect"
  /\ UNCHANGED <<runner, persona, prospect, decided, close, turns, row, faults, streams>>

Saves ==
  /\ At("self_play", "save")
  /\ row' = [outcome |-> outcome, turns |-> prospect.turns, final |-> TRUE]
  /\ pc' = "done"
  /\ UNCHANGED <<runner, persona, prospect, move, decided, outcome, close, turns, faults, streams>>

\* A model or the store raises: nothing is written, and the batch fails.
Raises ==
  /\ runner = "self_play" /\ pc \in {"prospect", "agent", "save"}
  /\ pc' = "raised"
  /\ UNCHANGED <<runner, persona, prospect, move, decided, outcome, close, turns, row, faults, streams>>

(***************************************************************************)
(* The event streams.                                                      *)
(***************************************************************************)
Event(kind) == [kind |-> kind, turn |-> turns']

Publish(e) ==
  streams' = [c \in Clients |->
    IF streams[c].phase = "open" /\ Len(streams[c].queue) < QueueMax
    THEN [streams[c] EXCEPT !.queue = Append(@, e)] ELSE streams[c]]

Subscribe(c) ==
  /\ runner = "auto_demo" /\ streams[c].phase = "new"
  /\ streams' = [streams EXCEPT ![c].phase = "open"]
  /\ UNCHANGED <<runner, persona, prospect, move, decided, pc, outcome, close, turns, row, faults>>

Deliver(c) ==
  /\ streams[c].phase = "open" /\ streams[c].queue # <<>>
  /\ streams' = [streams EXCEPT ![c].queue = Tail(@),
                                ![c].phase = IF Head(streams[c].queue).kind = "end"
                                             THEN "ended" ELSE "open"]
  /\ UNCHANGED <<runner, persona, prospect, move, decided, pc, outcome, close, turns, row, faults>>

Disconnect(c) ==
  /\ streams[c].phase = "open"
  /\ streams' = [streams EXCEPT ![c] = [phase |-> "gone", queue |-> <<>>]]
  /\ UNCHANGED <<runner, persona, prospect, move, decided, pc, outcome, close, turns, row, faults>>

(***************************************************************************)
(* _run_auto_demo.                                                         *)
(***************************************************************************)
\* The loop is left with no terminal: released, unless there was a close.
LeaveLoop ==
  /\ outcome' = IF close = None /\ outcome = None THEN "released" ELSE outcome
  /\ pc' = "finalize"

DemoHears(d) ==
  /\ At("auto_demo", "prospect") /\ turns < MaxTurns
  /\ prospect' = Answer(prospect, persona, move, d)
  /\ outcome' = IF prospect'.walked THEN "walked" ELSE outcome
  /\ pc' = "agent" /\ turns' = turns
  /\ Publish(Event("generating"))
  /\ UNCHANGED <<runner, persona, move, decided, close, row, faults>>

DemoProspectFails ==
  /\ At("auto_demo", "prospect") /\ turns < MaxTurns
  /\ faults' = faults \cup {"prospect"}
  /\ LeaveLoop
  /\ UNCHANGED <<runner, persona, prospect, move, decided, close, turns, row, streams>>

DemoRunsOut ==
  /\ At("auto_demo", "prospect") /\ turns = MaxTurns
  /\ LeaveLoop
  /\ UNCHANGED <<runner, persona, prospect, move, decided, close, turns, row, faults, streams>>

\* Faulty: the watchers are told of a turn before its row is written.
FaultyDemoReplies(m) ==
  /\ At("auto_demo", "agent")
  /\ decided' = m /\ turns' = turns + 1 /\ pc' = "upsert"
  /\ Publish(Event("turn"))
  /\ UNCHANGED <<runner, persona, prospect, move, outcome, close, row, faults>>

\* handle_user_turn and commit_turn.
DemoReplies(m) ==
  /\ At("auto_demo", "agent")
  /\ decided' = m /\ turns' = turns + 1 /\ pc' = "upsert"
  /\ UNCHANGED <<runner, persona, prospect, move, outcome, close, row, faults, streams>>

\* The exception reaches the outer handler, which sets no outcome.
DemoBrainFails ==
  /\ At("auto_demo", "agent")
  /\ faults' = faults \cup {"brain"} /\ pc' = "finalize"
  /\ UNCHANGED <<runner, persona, prospect, move, decided, outcome, close, turns, row, streams>>

\* A write of the row that the store takes, or does not.
Written(r) == \/ row' = r /\ faults' = faults
              \/ row' = row /\ faults' = faults \cup {"store"}

\* The row, then the event; a terminal turn of the prospect leaves the
\* agent's last offer as it was.
DemoUpserts ==
  /\ At("auto_demo", "upsert")
  /\ Written([outcome |-> IF close = None THEN "in_progress" ELSE Booked[close],
              turns |-> turns, final |-> FALSE])
  /\ turns' = turns /\ Publish(Event("turn"))
  /\ IF prospect.walked \/ prospect.committed # None
     THEN pc' = "finalize" /\ UNCHANGED <<move, close>>
     ELSE /\ move' = decided
          /\ close' = IF decided.act = "attempt_close" THEN decided.tier ELSE close
          /\ pc' = IF decided.act \in {"disqualify", "escalate"} THEN "finalize" ELSE "prospect"
  /\ UNCHANGED <<runner, persona, prospect, decided, outcome>>

\* persistence.episode_from_session: the last act, else the override, which
\* is the last close if there was one.
FinalOutcome ==
  CASE decided.act = "attempt_close" -> IF close = None THEN "consult_booked" ELSE Booked[close]
    [] decided.act = "escalate"      -> "escalated"
    [] decided.act = "disqualify"    -> "disqualified"
    [] OTHER -> IF close # None THEN Booked[close]
                ELSE IF outcome # None THEN outcome ELSE "in_progress"

\* Faulty: the end is told only when the row was saved.
FaultyDemoFinalizes ==
  /\ At("auto_demo", "finalize")
  /\ Written([outcome |-> FinalOutcome, turns |-> turns, final |-> TRUE])
  /\ turns' = turns
  /\ IF "store" \in faults' THEN streams' = streams ELSE Publish(Event("end"))
  /\ pc' = "done"
  /\ UNCHANGED <<runner, persona, prospect, move, decided, outcome, close>>

\* _finalize_auto_demo: a save that fails is swallowed, the end is told.
DemoFinalizes ==
  /\ At("auto_demo", "finalize")
  /\ Written([outcome |-> FinalOutcome, turns |-> turns, final |-> TRUE])
  /\ turns' = turns /\ Publish(Event("end"))
  /\ pc' = "done"
  /\ UNCHANGED <<runner, persona, prospect, move, decided, outcome, close>>

(***************************************************************************)
(* The specification.  Awaits of a model or of the store return or raise   *)
(* (every client has a timeout), and a watcher that stays reads.           *)
(***************************************************************************)
Runs ==
  \/ \E d \in Deltas : Hears(d) \/ DemoHears(d)
  \/ \E m \in Moves : Replies(m) \/ DemoReplies(m)
  \/ Saves \/ Raises
  \/ DemoProspectFails \/ DemoRunsOut \/ DemoBrainFails \/ DemoUpserts \/ DemoFinalizes

Next == Runs \/ \E c \in Clients : Subscribe(c) \/ Deliver(c) \/ Disconnect(c)

Spec == Init /\ [][Next]_vars /\ WF_vars(Runs) /\ \A c \in Clients : WF_vars(Deliver(c))
-----------------------------------------------------------------------------
Events == [kind : {"generating", "turn", "end"}, turn : 0 .. MaxTurns]

TypeOK ==
  /\ prospect.trust \in Percent /\ prospect.need \in Percent
  /\ prospect.intent \in Percent /\ prospect.patience \in Percent
  /\ prospect.committed \in Tiers \cup {None} /\ close \in Tiers \cup {None}
  /\ turns \in 0 .. MaxTurns /\ prospect.turns \in 0 .. MaxTurns
  /\ pc \in {"prospect", "agent", "upsert", "save", "finalize", "done", "raised"}
  /\ \A c \in Clients : /\ streams[c].queue \in Seq(Events)
                        /\ Len(streams[c].queue) <= 2 * MaxTurns + 1

\* Nobody is talked into more than they have: a commitment is to the tier of
\* the close it answers, within the ceiling and the budget, by a prospect that
\* has not walked; and the intent, from the cold start of every persona, takes
\* three turns to a trial and four to an enrollment, whatever the model
\* proposes (prospect.py: "so the coupling never makes the top tiers trivially
\* fast").
CommitmentsAreEarned ==
  LET tier == prospect.committed IN
  tier # None =>
    /\ tier = Offered(move)
    /\ Rank(tier) <= CeilingRank(persona) /\ persona.budget >= Floor[tier].budget
    /\ ~prospect.walked
    /\ persona.arc = <<>> => prospect.turns >= Rank(tier)

\* The saved episode tells what became of the prospect: an episode of
\* self-play exactly; a demo books the tier that was committed to, unless the
\* agent's answer to the yes was a hand-off, and stays in progress only after
\* the agent itself failed ("ALWAYS finalizes ... so no in_progress shell
\* dangles").
EpisodeTellsTheCall ==
  (row # None /\ row.final) =>
    IF runner = "self_play"
    THEN /\ Fate(prospect) # None => row.outcome = Fate(prospect)
         /\ row.outcome = "escalated" <=> (Fate(prospect) = None /\ move.act = "escalate")
         /\ row.outcome = "released" => prospect.turns = MaxTurns
    ELSE /\ prospect.committed # None /\ "brain" \notin faults =>
              row.outcome \in {Booked[prospect.committed], "escalated", "disqualified"}
         /\ row.outcome = "in_progress" => "brain" \in faults

\* A watcher that is told of a turn finds it in the store, and one that is
\* told of the end finds the final row, unless the store failed.
NudgesFindTheRow ==
  \A c \in Clients : \A i \in DOMAIN streams[c].queue :
    LET e == streams[c].queue[i] IN
    "store" \notin faults =>
      /\ e.kind = "turn" => row # None /\ row.turns >= e.turn
      /\ e.kind = "end" => row # None /\ row.final

\* A call ends within its turn budget, and then so does every stream that was
\* opened while it ran and stayed.
EverythingEnds ==
  /\ <>(pc \in {"done", "raised"})
  /\ \A c \in Clients : (streams[c].phase = "open" /\ pc # "done") ~> (streams[c].phase # "open")
=============================================================================
