# A verification project for the autonomous sales agent

TLA+ models of the stateful parts and of the decision logic of this repository,
checked with TLC, and proofs about each of them, checked with TLAPS.  The source
is under `src/`; its Python package is `src/src/`, and paths below are relative
to that package.

## 1. Inventory

| component | state it keeps | operations | what is hard |
|---|---|---|---|
| consent gate (`voice/consent.py`) | state, recording flag, AI ack, minor flag, resume state | ack, grant/refuse recording, flag minor, grant/deny parental, end | answers come in any order, twice, and from two sources (forms, screened text) |
| session orchestrator (`voice/session.py`) | belief, history, turns, pending turns, speech join, turn counter | handle a turn (buffered, streamed), commit, discard, barge-in | a turn is computed from a belief read before two awaits and promoted later |
| episode persistence (`api/persistence.py`) | none of its own; one row per call | live upsert, final save | every writer replaces the whole row; the outcome is read off the last act |
| demo HTTP sessions (`api/demo_routes.py`) | the session dict, per-session record, cache of ended results | start, consent answer, chat, live upsert, end, token, auto-demo and its event stream | handlers of one session interleave at each await; /end races chats and itself |
| LiveKit worker (`voice/worker.py`, `voice/escalation.py`) | one call: gate, session, stash, upsert and escalation tasks | consent seeding, spoken consent, turn hooks, playout commit, shutdown callback | fire-and-forget tasks, barge-ins, a hang-up at any point |
| improvement loop (`api/improve.py`, `loop/promotion.py`, `loop/generator.py`, `loop/experiment.py`) | experiment rows, lineage, config files, run permits | run an A/B, approve, reject, roll back, save a draft, run a round | background runs, time-outs, a store that fails between two saves, concurrent decisions |
| store (`memory/store.py`, `migrations/`) | episodes, leads, escalations, lineage, experiments | upserts, record_version in a transaction | READ COMMITTED, a partial unique index, a foreign key |
| replay builds (`api/replay_routes.py`, `loop/replay.py`) | one in-memory store | start a build, poll, the job | a check before an await, replays that end in any order |
| policy gates (`core/gates.py`, `core/policy.py`) | counters in belief.meta | the ordered chain over a decision | long sequences of turns; a later gate undoes an earlier one; the history differs between channels |
| dialogue core (`core/respond.py`, `dst`, `nlg`, `belief_state`) | a belief, copied per turn | update, decide, the bookkeeping the gates read turns later | two untrusted models; text and label of an utterance may disagree; flags that persist over turns |
| prospects and self-play (`sim/`, the auto-demo of `api/demo_routes.py`) | feelings, patience, trajectory, outcome, event queues | respond, buy gate, run an episode, run an auto-demo, watch one | termination, honesty of the buy gate, failures of three models, row and events that tell the same |
| grading, statistics (`loop/grading.py`, `_stats`, `sim2real`, `validation`) | none | pure functions of samples | floating point |
| lead memory (`memory/hydrate.py`) | the lead row | merge, hydrate | overlapping calls of one phone, first insert, a save that resets what an operator has set, calls of a dead server |
| knowledge base (`kb/`) | chunks | ingest, retrieve, ground | text |
| operator API (`api/operate.py`), server wiring, pages (`web/`), scripts | views | read, triage | staleness of the live view |

The demo handlers and the worker both own a gate and a session orchestrator and
call the persistence functions with them; those write the store that the
operator API, the improvement loop and the replay builds read.  A session
orchestrator asks the dialogue core for each reply, the dialogue core asks the
gates; self-play and the auto-demo put a simulated prospect in the place of the
caller.  The demo hands its consent to the worker in the metadata of a LiveKit token.

What makes each correct:

* **calls** - no turn before consent, no turn twice, a belief that covers the
  transcript, a row that never runs ahead of it, escalations that reach the
  review queue, one honest terminal outcome;
* **decisions** - whatever the language models say: closes that were earned,
  no pushing, no nagging, no presumed learner, loops that are broken, hand-offs
  that have a reason;
* **simulated calls** - commitments that were earned, an episode that tells what
  became of the prospect, an end to every call and stream;
* **memory** - nothing a caller told is lost between calls, a finished call
  keeps its marks, a call that stopped leaves the live monitor;
* **improvement** - one champion at a time, crowned only with a result that
  passed the gate, decisions that stay, runs that settle, permits that return;
* **replay builds** - one build at a time, progress and results that are its own.

## 2. Plan

1. Calls: `ConsentGate`, `VoiceSession`, `Episodes`, then `DemoCall` and
   `VoiceCall` that compose them, both refining `TurnLog`. *Done.*
2. The improvement loop: `ImproveLoop`, refining `ChampionRegister`. *Done.*
3. Replay builds: `ReplayBuild`. *Done.*
4. Decisions: `Belief` (the update), `Gates` (the chain), `DialogueCore` (a call
   of turns). *Done.*
5. Simulated calls: `Prospect`, and `Simulation` with both loops that run one and
   the streams that watch one. *Done.*
6. What calls leave behind: `LeadMemory`. *Done.*
7. Proofs of every safety property and refinement that a passing run checks.
   *Done.*
8. The token that carries consent from the demo to the worker, as a composition
   of both on one session.

## 3. Modules

One action is what a handler or a task does between two awaits: asyncio runs it
without interruption, so this is the finest interleaving the process has.

| module | models | state -> code |
|---|---|---|
| `ConsentGate` | `voice/consent.py` | a gate is a record; one operator per public transition |
| `VoiceSession` | `voice/session.py` | a session is a record; a speech id and its utterance are a number, a belief the sequence of utterances it has absorbed |
| `Episodes` | `api/persistence.py`, the live predicate of `api/operate.py` | a row as its writers build it |
| `TurnLog` | abstract | what a channel promises about the turns of a call |
| `DemoCall` | one session of `api/demo_routes.py` | `gate`, `session`, `stored`, `remembered`, `bound`, `tier`, `counter`, `escalations` are the fields of `_Session` and the two dicts; `row` and `review` the store; `task` what each handler awaits |
| `VoiceCall` | one call of `voice/worker.py` | `gate`, `awaiting`, `reasked`, `counter`, `stash`, `tier`, `escalations` are the agent's fields; `reply` what `llm_node` streams, `escalating` and `writes` the tasks, `shut` the shutdown callback |
| `ChampionRegister` | abstract | one atomic register and a lineage that grows |
| `ImproveLoop` | `api/improve.py`, `loop/promotion.py`, `record_version` | `lineage`, `experiments` the tables, `disk` the config files, `permits` the semaphore, `task` the requests and rounds, `run` the background runs |
| `ReplayBuild` | `api/replay_routes.py` | the fields of `_ReplayStore`, the jobs and the requests that await the listing |
| `Belief` | `core/belief_state.py`, `core/dst.py` | a belief is a record; a text is what the regular expressions find in it, a label what the model says of it |
| `Gates` | `core/gates.py` | one operator per gate, a function of decision, belief and history; `ApplyGates` is the chain |
| `DialogueCore` | `core/respond.py: _decide_turn`, `core/policy.py` | `belief`, `history` as committed, `heard` between the two awaits of a turn; `channel` what may be said on it |
| `Prospect` | `sim/prospect.py`, `sim/twin.py` | feelings in percent, patience, commitment; a persona is a record |
| `Simulation` | `sim/selfplay.py: run_episode`, `_run_auto_demo` and its streams | `pc` where the runner awaits; `close`, `outcome` its locals; `row` the store; `streams` the queues of the watchers |
| `LeadMemory` | `memory/hydrate.py`, the writes of `memory/store.py`, the live predicate of `api/operate.py` | `lead`, `row`, `queue` the tables; `call` a session and the statement it awaits; `ended` the answered `/end`s |
| `SessionProofs` | lemmas about the gate, the session and the episode, used for both channels | |
| `DemoCallProofs`, `VoiceCallProofs`, `DialogueCoreProofs`, `SimulationProofs`, `LeadMemoryProofs`, `ImproveLoopProofs`, `ReplayBuildProofs` | theorems about the module of that name (section 5) | |
| `MC*` | TLC instances (`ReplayBuild` needs none) | |

Abstractions to know of:

* The model's reply to a turn is any decision of a small set, and a retrieval
  or a generation that raises is `TurnFails` / `ReplyDropped`.  A decision is an
  act and a tier; the acts that no persistence or channel code tells apart are
  one act, `talk`.
* A belief is the sequence of utterances it was computed from, so an update
  computed on a stale belief and committed later shows what it lost.
* Calls do not share state apart from the store, and every call has its row, so
  one call is modelled; what they do share, the lead of a phone, is in
  `LeadMemory`, where each session sends one request at a time.
* `record_version` is two statements in a transaction: the demotion, which
  waits for a locked row and looks at that row again (READ COMMITTED), and the
  upsert with the commit, which the partial unique index and the foreign key
  judge.
* The A/B's statistics are the three verdicts the gate reads (better,
  guardrails regressed, qualification held) and the divergence (below, above or
  not measured).
* A version is its path of changed dimensions; two different values for the
  same dimension give the same version, as `_challenger_version` does.
* In `Belief`, levels of the drivers are percentages and come from a set: the
  model's deltas, clamped, may lead to any of them.  A counter that is compared
  with a threshold is counted up to it.  Stage, trends and the wording of
  prompts, rationales and replies decide nothing here and are left out.
* In `DialogueCore` a decision is examined through every reply its model may
  give: `Decide` takes one of them.  What a channel does with the decision (a
  commit that may be dropped) is in the call models.
* In `Simulation` the agent says anything: its rules are in `DialogueCore`.
  `Raises` is any exception of a headless run.
* In `LeadMemory` a tick is a unit of the age of a heartbeat, up to one above
  `Stale`; the flag and the lifecycle are what an operator sets.  The sticky
  voice, the persona read and the prior objections merge as the slots do.
* A store call that raises may have been made: a statement that committed and
  whose acknowledgement timed out looks the same to its caller.  `LeadFails` and
  `RowFails` in `LeadMemory`, `StoreFails` and `SaveUnanswered` in `ImproveLoop`
  leave both possible.
* A round is given the resolved champion as its config, and is run with both
  persistence flags set; nothing in the package calls it otherwise.
* A request that is refused (404, 409, 503) without a change of state is not an
  action.  `ChatRefused` is one, since screening may flip the gate.
* Definitions preceded by the comment `Faulty:` are plausible bugs, each the
  variant of the definition after it.  No specification uses them; substituted
  for the real one, each breaks the property it is listed with.

External: asyncio, the LiveKit framework (one `llm_node` at a time, its
cancellation on a barge-in or hang-up), PostgreSQL.

## 4. Runs

The constants of each run are in its `.cfg`.

| run | instance | shows |
|---|---|---|
| `demo_concurrent` | 2 handlers, 2 turns, 7 forms, policy END | `TypeOK`; turn ids, speech join and commits stay exact (`TranscriptSound`); no row runs ahead (`RowIsPrefix`); belief and transcript change together (`BeliefIsLastCommit`); only a parent's consent reopens a blocked call (`OnlyParentUnblocks`); `TurnLog` is implemented |
| `demo_serial` | 1 handler, 3 turns, every form and decision, policy PROCEED | for a client that waits for its answers: no utterance is missing from the belief (`BeliefCoversHistory`), row, review queue and session stand once `/end` has answered (`FinalRowStands`), its recorded flag is honest and every escalation is in the review queue once `/end` answers (`EndTellsTheCall`) |
| `voice_call` | 2 turns, every consent the metadata may carry, with and without SIP | `TypeOK`, `BeliefCoversHistory`, `CommitNeedsConsent`, `EscalationsReachReview`, `OutcomeTellsTheCall`, `TurnLog` is implemented, `ShutdownEnds` |
| `gates` | two channels, each over calls of any length: near the close, with a history that holds the utterance; in discovery, with one that does not | whatever the models say: `ClosesAreEarned`, `LoopsAreBroken`, `HandOffsAreWarranted`, `ReaskedIsAnswered`, `PressureIsBounded`, `DiscoveryDoesNotNag`, `LearnerIsNotPresumed` |
| `simulated_calls` | 4 personas, 2 twins, 4 turns, a watcher | `CommitmentsAreEarned`, `EpisodeTellsTheCall`, `NudgesFindTheRow`, `EverythingEnds`; `TypeOK` also bounds the queues below their capacity |
| `lead_memory` | 2 calls of one phone, 2 slots, 1 turn each, crashes, every statement may fail | `LeadsRemember`, `FinishedStands`, `StoppedCallsLeave` |
| `improve_concurrent` | 2 handlers, 2 runs for 1 permit, a failing store, crashes | `PermitsAccounted`, `ApprovedIsRecorded`, `ChampionRegister` is implemented, so there is one champion at a time |
| `improve_serial` | 1 handler, 1 run, 2 generations, drafts, crashes and a failing disk, four grades | `ChampionsAreEarned`, `SettledIsFinal` |
| `improve_liveness` | 2 handlers, 1 run, no fault | runs settle and requests return (`EverythingSettles`) |
| `replay_build` | 1 request, 2 jobs of up to 3 of 4 calls, semaphore of 2 | `StoreTellsTheBuild`, `BuildsEnd` |

`PermitsAccounted`, `LeadsRemember` and `StoreTellsTheBuild` hold the type
invariant of their module as their first conjunct.

`FinishedStands`, `SettledIsFinal`, `StoreTellsTheBuild` and the properties of
`demo_serial` are promises to a client that sends one request at a time; with two
requests of one session in flight they fail, as the list below says.

Bounds, and why they are enough:

* Requests: two handlers are the smallest number at which every race of two
  requests happens; a third adds no pair of steps.
* Speech ids: two allow a turn that is stale against another; three are used
  where requests are serial.
* Versions: two generations give a champion that is neither the bootstrap nor
  the newest.  Three replays on two slots make one wait.
* Gates: there is no bound on the turns, because the belief of the model counts
  up to its thresholds: all reachable beliefs are visited (731,608 states).
  The thresholds are those of `champion_v0.yaml` and the defaults of `gates.py`,
  but for two that are scaled down: `min_turns_before_close` is 2 instead of 4,
  and `discovery_slots_required` is 1 instead of 5.  The discovery sequence of
  the instance is `grade_level` and `budget`, that of `champion_v0.yaml` has five
  slots before `budget`; in both the threshold asks for all slots but the budget.
  The proofs of section 5 hold for any thresholds and any sequence.  What may be
  said is bounded: the utterances, labels, moods and replies of a channel in
  `MCDialogueCore` are chosen so that every gate changes some decision.
  The two channels split the gates, as their product is too large: closes, loops,
  pressure and hand-offs are exercised on self-play, discovery on the demo.
  One branch is therefore not reached: the high bail risk that turns a proposed
  question into a pitch, since questions are proposed on the demo alone and the
  prospect's levels are neutral there.
* Simulated calls: four turns are enough for the longest climb (an enrollment by
  a cold prospect takes four) and for the budget to run out.  The model proposes
  more than the cap allows, or nothing; what cools a prospect is the patience and
  the recorded feelings of a twin.  Watchers do not see each other, so one is
  enough.  The capacity of a queue is two events per turn and the end, below the code's
  64 for 20 turns.
* Leads: two calls of one phone give every overlap of two merges; the second
  call tells another value for the same slot.  The first call closes or is
  escalated; a call without a turn, which `/end` persists as well, is the one
  that ends in progress (971,178 states).  A heartbeat is stale at its first tick
  (`Stale` is 0): fresh and stale are all that the live predicate tells apart.
  Two sessions are allowed, so the
  cap on sessions (`MaxSessions`) is never what stops a call in this run: a
  start it refuses changes no state.

Deadlock is checked in the runs of `ImproveLoop`, where a rollback or a round
may always be asked for.  It is not in those of the calls, which end and stop,
nor in `replay_build`, which stops at the bound on its jobs.

### Where the code differs from its own words

Each of these runs checks one sentence of the repository (quoted in
`PROJECT.json` under `findings`) and TLC finds a behaviour that breaks it.

| run | what happens |
|---|---|
| `demo_booking_lost` | a booked call that goes on talking is saved as in progress |
| `gates_low_confidence` | one low-confidence turn counts twice and escalates |

Observed while modelling, without a run of their own (the models do the same,
except where said).

Calls:

* consent withdrawn during a generation does not stop the commit of its turn
  (`voice/session.py:305`; `:11` says that the gate guards `commit_turn`);
* of two chats in flight the later commit drops from the belief what the earlier
  one learned (`voice/session.py:234`), and a chat that overlaps `/end` may lose
  its escalation log (`api/demo_routes.py:954`);
* a voice call that ends with talk after a close is settled in progress
  (`voice/worker.py:358`; `:341` says "never in_progress"), and a live upsert in
  flight at the hang-up overwrites the terminal row (`:1246`; `:1252` says "no
  orphan in_progress row");
* a second `/end` that passes the lookup during the first persists the call
  again (`api/demo_routes.py:927-938`), and a late live upsert of a chat brings
  a finished row back to in progress (`:775`; `:951` says "no orphan in_progress
  row");
* under `RefusalPolicy.END`, a refusal that comes with a parental consent leaves
  the call open, unrecorded (`voice/consent.py:53`);
* the final save of a voice call passes no `created_at`, so the start of the
  call is lost (`voice/worker.py:470`, `:1253`), and a partial reply stays in
  the row of a turn that was committed (`:1138`); the row of the model has
  neither field.

Decisions (`core/gates.py` unless said):

* an escalation that the model asks for without a reason is turned into an
  answer or a pitch after the loop breaker and the pressure cap have run, so it
  passes both, even when the breaker has already handed off (`:444`; `:944` says
  that "the brain itself won't resume answering").  `LoopsAreBroken` and
  `PressureIsBounded` name exactly that reply (`TurnedDown`) and exempt no other
  proposal to escalate;
* refusals of price are counted under `affordability_refusal_count`
  (`core/dst.py:1386`) but the grounding of a concession reads
  `affordability_refusals` (`:1340`), so they never count;
* a hostile turn that is answered from the knowledge base goes on through the
  chain, which may make it a close or a pitch (`:286`, `:1377`);
* the pressure cap keeps the slot of a proposal, so one with slot `budget` opens
  the price behind the price gate (`:1215`);
* a speaker without authority gets a free close in the place of the breaker's
  hand-off, which the monitor still shows as imminent (`:359`);
* the demo and voice channels decide before the utterance is in the history, so
  a question asked twice in a row is not seen as recurring there (`:573`);
* who the tutoring is for is asked again after it was declined (`:215`), and a
  pitch is possible after a learner was denied, once it was asked twice;
* an answer that `establish_who_first` makes of a close keeps the tier (`:250`);
* the label `compliance` of the model is taken without a cue (`core/dst.py:1211`
  grounds the other), and the breaker's branch for a genuine escalation is never
  reached, since the chain has escalated before (`:900`);
* a learner denied after who it is for was answered is forgotten one turn later
  (`core/dst.py:1401-1423`).

Simulated calls:

* an exception of the agent's brain leaves an auto-demo in progress, though its
  docstring says that it always finalizes (`api/demo_routes.py:561`);
* a demo whose prospect walks after any close is saved as booked, and the row
  shows a close one turn late (`:518-555`);
* a stream opened after the end never ends (`:593`);
* `callback_booked`, the outcome that a demo writes, is not one that a twin
  recognises (`sim/twin.py:37`);
* the coupling adds to the model's own delta, so the intent may rise by 28 in a
  turn (`sim/prospect.py:476`); a close made in the last turn is not answered.

Leads and rows:

* a call writes back at its end what it was seeded with, over what an
  overlapping call has learned since (`memory/hydrate.py:98`);
* an `/end` that failed half way and is retried resets the golden flag and the
  lifecycle that an operator has set meanwhile (`memory/store.py:103`, `:450`);
* two first calls of a phone both insert its lead; the loser's unique violation
  is swallowed by a live upsert and answered with 500 by `/end`
  (`memory/store.py:286`);
* the pages never send the phone itself with `/end`, so their calls leave a lead
  without slots, and the worker never hydrates (`api/demo_routes.py:921`);
* an `/end` whose last act is talk leaves a row in progress without a heartbeat,
  which no view shows as live or as completed; so do the calls of a dead process
  once their heartbeat is stale (`api/operate.py:171`);
* a session that is left alone is never evicted, and starts at the cap are
  refused (`api/demo_routes.py:277`).

Improvement and replays:

* a run whose two last saves both fail, or which a restart kills, stays
  `running` (`api/improve.py:941`, `:1033`);
* an approval and a rejection that overlap overturn each other
  (`api/improve.py:1283`, `:1290`, `:1341`);
* a run that passed and is not extreme but was blocked cannot be approved
  (`api/improve.py:1300`; `:995` says that it is "routed to human approval");
* an approved champion has no config file, so the bootstrap's is the baseline
  of what follows (`api/improve.py:854`, `:1332`);
* on an empty lineage nothing but the bootstrap can be recorded: its children
  have a parent with no row (`migrations/001_init.sql:33`);
* two replay builds that list at once share one store
  (`api/replay_routes.py:131`, `:147`).

### Fairness

* `DemoCall` has none: its properties are safety.
* `VoiceCall`: weak fairness of the shutdown callback and of each escalation
  handler, which the event loop resumes, since model and store calls end or
  raise (`command_timeout`, the client's timeout).  None of the caller, nor of
  the upserts, which nobody waits for.
* `ImproveLoop`: weak fairness of runs, which a time-out bounds, and strong
  fairness of started requests, since PostgreSQL gives a locked row to its
  waiters in turn: with weak fairness a rollback could be overtaken for ever by
  others.  None of new requests.
* `DialogueCore` has none: its properties are about every decision it may make.
* `Simulation`: weak fairness of the runner, since every model and store call
  has a timeout and returns or raises, and of the delivery of a queued event to
  a watcher that stays connected.  None of the watchers' coming and going.
* `LeadMemory`: weak fairness of time alone.  No call is assumed to go on: that
  a stopped one leaves the live monitor needs only its heartbeat to age.
* `ReplayBuild`: weak fairness of each job; a replay ends because its turns and
  the model's calls are bounded.

## 5. Proofs

A theorem holds for every value of the constants that its module's assumptions
allow: any number, also infinitely many, of handlers, calls, phones, watchers;
any set of answers, decisions, replies, personas; any bound.  The runs of
section 4 check the same formulas on the small instances, and the inductive
invariants were checked there before they were proved.

| module | theorem | property |
|---|---|---|
| `DialogueCoreProofs` | `TypeCorrect` | `TypeOK` |
| | `ClosesEarned` | `ClosesAreEarned` |
| | `LoopsBroken` | `LoopsAreBroken` |
| | `HandOffsWarranted` | `HandOffsAreWarranted` |
| | `ReaskedAnswered` | `ReaskedIsAnswered` |
| | `PressureBounded` | `PressureIsBounded` |
| | `DiscoveryCourteous` | `DiscoveryDoesNotNag` |
| | `LearnerNotPresumed` | `LearnerIsNotPresumed` |
| `DemoCallProofs` | `TypeCorrect` | `TypeOK` |
| | `TranscriptsAreSound` | `TranscriptSound` |
| | `RowsArePrefixes` | `RowIsPrefix` |
| | `RefinesTurnLog` | `ImplementsTurnLog` |
| | `BeliefsFollowCommits` | `BeliefIsLastCommit` |
| | `ParentUnblocks` | `OnlyParentUnblocks` |
| (`Serial`) | `FinalRowIsFinal` | `FinalRowStands` |
| (`Serial`) | `BeliefsCoverHistory` | `BeliefCoversHistory` |
| (`Serial`) | `EndsTellTheCall` | `EndTellsTheCall` |
| `VoiceCallProofs` | `VoiceTypeCorrect` | `TypeOK` |
| | `VoiceBeliefsCover` | `BeliefCoversHistory` |
| | `CommitsNeedConsent` | `CommitNeedsConsent` |
| | `VoiceRefinesTurnLog` | `ImplementsTurnLog` |
| | `EscalationsReviewed` | `EscalationsReachReview` |
| | `OutcomesTellTheCall` | `OutcomeTellsTheCall` |
| `ImproveLoopProofs` | `PermitsConserved` | `PermitsAccounted` |
| | `ApprovalsAreRecorded` | `ApprovedIsRecorded` |
| | `RefinesRegister` | `ImplementsRegister` |
| (`Serial`, `Reliable`) | `ChampionsEarned` | `ChampionsAreEarned` |
| (`Serial`, `Reliable`) | `DecisionsStand` | `SettledIsFinal` |
| `LeadMemoryProofs` | `LeadsRemembered` | `LeadsRemember` |
| | `FinishedCallsStand` | `FinishedStands` |
| `ReplayBuildProofs` (`OneBuilder`) | `StoresTellTheBuild` | `StoreTellsTheBuild` |
| `SimulationProofs` | `SimulationTypeCorrect` | `TypeOK` |
| | `CommitmentsEarned` | `CommitmentsAreEarned` |
| | `EpisodesTell` | `EpisodeTellsTheCall` |
| | `NudgesFind` | `NudgesFindTheRow` |

### Assumptions

* `Serial` (`\A g, h \in Handlers : g = h`) and `OneBuilder` are the promises to
  a client that sends one request at a time, as the pages do.  They are
  hypotheses of the theorems that need them and of no other: with two requests
  the three properties of the demo and the one of the builds fail (section 4's
  list says how), and the rest is proved for any number of requests.
* `Reliable` (`"store" \notin Faults`) is a hypothesis of two theorems of
  `ImproveLoopProofs`, as `Serial` is.  TLC finds a counterexample to both
  properties when either is dropped: an approval and a rejection of one record
  overlap; or the save of a verdict is made but not answered, a human decides on
  it, and the run then saves its failure over the decision.  Crashes and a
  failing disk are allowed.
* `NoneAssumption`, `NoRowAssumption`: `None` stands for Python's `None` and is
  none of the values it is told from.  In `Simulation` it must also not be the
  name of an outcome or a tier: a prospect with `committed = None` would
  otherwise have a fate.
* `AnswersAssumption`, `DecisionsAssumption`, `ActsAssumption`,
  `TellsAssumption`, `SettingsAssumption`, `DeltasAssumption`,
  `ResultsAssumption`, `ChangesAssumption`, `SurfacesAssumption`: the inputs are
  among those the code can build.  Two say more than a type.  A decision that is
  a close has a tier (`DecisionsAssumption` through `Decision`, and
  `MovesAssumption`): `_parse_proposal` gives one to each close it reads
  (`core/policy.py:172`) and every gate that makes a close names its tier.
  And the deltas of a prospect's model may be any integers.
* `ThresholdAssumption`: the cap on asks and the cap on pressure are naturals;
  the code reads both with `int()`.  The other thresholds may be anything.
* `SlotsAssumption`: the slots the gates name are among the slots.
* `QueueAssumption`: the queue of a stream holds the events of one demo, 41 of
  its 64 places.  `TypeOK` and the bound on the queues do not rest on it.
* The bounds are naturals (`BoundsAssumption`, `MaxSpeechAssumption`,
  `MaxTurnsAssumption`), a build lists finitely many calls (`CallsAssumption`).

### Arguments

*Decisions.* What a property says of the reply to a turn, it says of every
decision of `ApplyGates`, so the work is in lemmas about the gates: each group
of the chain (`DiscoveryGates`, `InputGates` and those after them) has a lemma
that states what it lets through and what later gates may rely on, and a
property follows along the chain.  `IInv` is what the gates read of earlier
turns: no slot was asked for more often than the cap, and a learner who counts
as established was named, in the committed belief and in the one of a turn
that is being decided.

*Demo.*

* `Inv1` adds to `TypeOK` that a handler that awaits a turn or a save does so
  on a session that exists: needed for `session.belief` and the like to have a
  type.
* `Inv2` adds to `TranscriptSound` that the speech ids in flight were drawn
  (at most `counter`), are held by one handler each, and are not in the
  transcript: without it a commit could repeat an utterance.
* `Inv3` adds to `RowIsPrefix` that every row a handler is about to write is
  such a prefix.  The transcript only grows, so a prefix stays one.
* `RefinesTurnLog` maps each step by the invariants to a step of `TurnLog` or a
  stutter: consent steps to the turnstile, an admission to `Admit`, the end of a
  turn to `Write`.
* Serial: `FinalRowStands` says of the row, the review queue, the buffered
  escalations, the gate and the session that nothing writes them again; it
  follows from `LastWord` (once the server remembers an end, no session is
  stored and no handler runs).  `BeliefKept` (a turn is generated from the belief
  that is still the session's), `QueueTells` (the buffered logs are the escalate
  turns of the transcript, and an `/end` in progress holds all of them) and
  `FlagTells` (the row of an `/end` in progress has the flag of the gate as it
  still is; a gate that was granted and is not open is a minor's, or was ended by
  a refusal) do the same for the others.

*Voice.* `Inv1` adds `Ordered`: utterances in the transcript, in the reply and in
the stash are in the order they were spoken, and a reply is computed from the
belief it will advance, because `llm_node` runs one at a time; and `Consented`:
while the spoken consent is awaited neither gate nor brain has moved.  `Inv2`
adds `Tracked`: every committed escalation has its handler, running or done, and
a tier is tracked from the first close on; and `ShutTells`: what the shutdown
callback has read is still so when it writes it.

*Improvement.* `PermitInv` adds the injective numbering of requests that launch
a run: the permit goes from the request to the run of its number, and each is
counted once.  `RecordInv` adds what a suspended request holds: an approval that
waits to close its record closes the one of the version it records, and a row
that a transaction has demoted, or waits for, is another one of the lineage.
With it each statement of `record_version` maps to a stutter, its commit to the
one step of `ChampionRegister`.  `DecisionInv` is for one request at a time: the
record of a run says running from its launch until it settles and is not there
before (`RunsRun`, `Unused`), only runs are blocked (`OnlyRuns`), and what a
request goes on with is warranted by a record that nothing has saved over
(`Warranted`): what is closed is open, and what goes to `record_version` was
promoted by a round, was approved, or is in the lineage already.

*Leads.* The invariant says where facts come from: what a call knows it heard
or took from the lead (`Learned`), what a lead has somebody told who ended with
that phone (`LeadsTold`), the holder of a lock has read what is still there
(`Locked`, the `SELECT .. FOR UPDATE`), and past the merge of its end what a call
has heard is in the lead (`Merged`), which no other merge takes away.

*Builds.* `Alone`: all jobs but the last have ended, and no request that lists
its calls will find one running.  `Counts`: the progress is the calls of the job
that have ended, and the results are those that were replayed, each once.

*Simulated calls.* `Cold` bounds the intent of a prospect without a recorded
call: 10, then `24 + 14n` after `n` turns, since the coupling lifts it by 28 in a
turn but never above 40; it is what makes the ladder take three and four turns
for all deltas.  `Told` ties the outcome on hand, and the close of a demo, to
what became of the prospect.  `Published` bounds what a watcher may still have
to read by where the demo is, and `Sound` says of each such event that its turn
is committed and its row written, which no later write takes back.

### What the proofs found

* The refusal policy matters to `EndTellsTheCall`: under `RefusalPolicy.END` a
  granted recording may be followed by an ending refusal, so a row says "no" of a
  gate that was granted.  The property says so (`\/ RefusalPolicy = "end"`).
* A demo call may be over before its first step: a call dispatched with a
  refused recording under `END`.  `TurnLog` allows it.
* `CASE` with overlapping guards leaves the choice open.  Where the code is an
  `if`/`elif` chain, the model is one too (`ApplyAnswer`, `EvaluatePromotion`,
  `TerminalOf`).
* A close without a tier would break `OutcomeTellsTheCall` and
  `EpisodeTellsTheCall`; that there is none is an assumption named above.

### Only model-checked

* Liveness, which needs fairness and `ENABLED`: `ShutdownEnds`,
  `EverythingSettles`, `EverythingEnds`, `StoppedCallsLeave`, `BuildsEnd`.
* `BookingSurvives` and `LowConfidenceIsARun`, which the code violates.

## 6. Not modelled

* Text: rendering, labels, wording, PII scrubbing, voice assignment, the regular
  expressions of `core/dst.py` and the streaming guards of `core/nlg.py` are text
  processing; the models take what they find as given.
* I/O: the LLM client with its retries and cost ledger, embeddings, retrieval and
  the database pool; their failures are the failing turns and writes of the
  models.  Latency timings and fillers carry no property here.
* Statistics over floating-point samples (`loop/grading.py`, `_stats`,
  `sim2real`, `validation`) are outside TLC's reach; the verdicts the gate
  reads are drawn nondeterministically.
* The human takeover of a voice call, the older text adapter, the token endpoint
  and the LRU bound of ended results (`api/demo_routes.py:277`), the sampling of
  personas, `run_batch` (independent episodes, gathered), the listing queries and
  views of the operator API, server wiring, pages and scripts.
