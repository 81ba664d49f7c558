----------------------------- MODULE LeadMemory -----------------------------
(***************************************************************************)
(* What calls leave behind in the store, and what an operator makes of it: *)
(* the lead of a phone, which seeds the next call (memory/hydrate.py) and  *)
(* into which a call is merged (memory/store.py: upsert_lead_by_phone);    *)
(* the row of a call with its heartbeat and its golden flag; and its log   *)
(* in the review queue.  The calls are demo sessions of one server, with   *)
(* one request each at a time (DemoCall interleaves those of one session). *)
(*                                                                         *)
(* Each statement of the store is an action of its own and may fail.  The  *)
(* server may die; the store stays.  Time passes in ticks.                 *)
(***************************************************************************)
EXTENDS Naturals, FiniteSets

CONSTANTS
  Calls, Phones, Slots,
  PhoneOf,      \* the phone of each call
  Tells,        \* what the caller of each call may tell, a function of some slots
  Acts,         \* the acts the agent of each call may choose
  Lifecycles,   \* _ESCALATION_LIFECYCLES
  MaxSessions,  \* max_sessions of the demo router
  MaxTurns,     \* bound on the turns of a call
  Stale,        \* _LIVE_STALE_SECONDS, in ticks
  None

ASSUME PhoneAssumption == PhoneOf \in [Calls -> Phones]
ASSUME TellsAssumption == \A c \in Calls : /\ DOMAIN Tells[c] \subseteq Slots
                                          /\ \A s \in DOMAIN Tells[c] : Tells[c][s] # None
ASSUME ActsAssumption  == \A c \in Calls : Acts[c] \subseteq {"talk", "close", "escalate"}
ASSUME LifecyclesAssumption == "unreviewed" \in Lifecycles
ASSUME BoundsAssumption == MaxTurns \in Nat /\ Stale \in Nat

VARIABLES
  lead,   \* the slots remembered per phone, None: no lead
  row,    \* the episode of each call, else None
  queue,  \* the lifecycle of the escalation of each call, else None
  call,   \* the session of each call
  ended   \* the calls whose /end has answered

vars == <<lead, row, queue, call, ended>>

Told    == UNION {{Tells[c][s] : s \in DOMAIN Tells[c]} : c \in Calls}
Slotted == [Slots -> Told \cup {None}]
Age     == 0..(Stale + 1)
Nothing == [s \in Slots |-> None]

ASSUME NoneAssumption == None \notin Slotted

\* What a new call holds; seen is the lead it has locked.
Fresh == [pc |-> "new", known |-> Nothing, heard |-> {}, turns |-> 0, act |-> "talk", booked |-> FALSE,
          escalated |-> FALSE, ending |-> FALSE, raw |-> FALSE, age |-> 0, seen |-> Nothing]

TypeOK ==
  /\ lead \in [Phones -> Slotted \cup {None}]
  /\ row \in [Calls -> [outcome: {"in_progress", "booked", "escalated"}, golden: BOOLEAN,
                        age: Age \cup {None}] \cup {None}]
  /\ queue \in [Calls -> Lifecycles \cup {None}]
  /\ call \in [Calls -> [pc: {"new", "talking", "lead", "insert", "merge", "save", "review", "over", "dead"},
                         known: Slotted, heard: SUBSET Slots, turns: 0..MaxTurns,
                         act: {"talk", "close", "escalate"}, booked: BOOLEAN, escalated: BOOLEAN,
                         ending: BOOLEAN, raw: BOOLEAN, age: Age, seen: Slotted]]
  /\ ended \subseteq Calls

Init ==
  /\ lead \in [Phones -> {None}]
  /\ row = [c \in Calls |-> None] /\ queue = [c \in Calls |-> None]
  /\ call = [c \in Calls |-> Fresh] /\ ended = {}

Step(c, pc) == call' = [call EXCEPT ![c].pc = pc]

(***************************************************************************)
(* The calls.                                                              *)
(***************************************************************************)
\* The sessions in memory: /end evicts one, and a start over the cap is
\* refused.  One that is left alone stays.
Sessions == {c \in Calls : call[c].pc \notin {"new", "over", "dead"}}

\* A call starts from the lead, or from nothing when the lookup fails.
Start(c) ==
  /\ call[c].pc = "new" /\ Cardinality(Sessions) < MaxSessions
  /\ \E known \in {Nothing, lead[PhoneOf[c]]} \ {None} :
       call' = [call EXCEPT ![c].pc = "talking", ![c].known = known]
  /\ UNCHANGED <<lead, row, queue, ended>>

\* A committed turn, which may learn a slot; the upsert of the row starts.
Turn(c, act) ==
  /\ call[c].pc = "talking" /\ call[c].turns < MaxTurns
  /\ \E told \in SUBSET DOMAIN Tells[c] :
       call' = [call EXCEPT
         ![c].pc = "lead", ![c].ending = FALSE, ![c].turns = @ + 1, ![c].act = act,
         ![c].known = [s \in Slots |-> IF s \in told THEN Tells[c][s] ELSE @[s]],
         ![c].heard = @ \cup told,
         ![c].booked = @ \/ act = "close", ![c].escalated = @ \/ act = "escalate"]
  /\ UNCHANGED <<lead, row, queue, ended>>

\* Faulty: the session is not evicted, and /end saves it again.
FaultyEnd(c, raw) ==
  /\ call[c].pc \in {"talking", "over"} /\ (call[c].raw => raw)
  /\ call' = [call EXCEPT ![c].pc = "lead", ![c].ending = TRUE, ![c].raw = raw]
  /\ UNCHANGED <<lead, row, queue, ended>>

\* /end of a session that has its brain, with or without a committed turn (one
\* that has none stores nothing).  It brings the phone itself or not; a client
\* that knows the phone sends it again.
End(c, raw) ==
  /\ call[c].pc = "talking" /\ (call[c].raw => raw)
  /\ call' = [call EXCEPT ![c].pc = "lead", ![c].ending = TRUE, ![c].raw = raw]
  /\ UNCHANGED <<lead, row, queue, ended>>

(***************************************************************************)
(* upsert_lead_by_phone: SELECT ... FOR UPDATE, then INSERT or UPDATE, and *)
(* the commit.  Only an /end that was given the phone has slots to merge.  *)
(***************************************************************************)
Mine(c) == IF call[c].ending /\ call[c].raw THEN call[c].known ELSE Nothing

Merge(old, new) == [s \in Slots |-> IF new[s] # None THEN new[s] ELSE old[s]]

\* Faulty: the row is read without FOR UPDATE.
FaultyLeadSelect(c) ==
  /\ call[c].pc = "lead"
  /\ IF lead[PhoneOf[c]] = None THEN Step(c, "insert")
     ELSE call' = [call EXCEPT ![c].pc = "merge", ![c].seen = lead[PhoneOf[c]]]
  /\ UNCHANGED <<lead, row, queue, ended>>

LeadSelect(c) ==
  /\ call[c].pc = "lead"
  /\ IF lead[PhoneOf[c]] = None THEN Step(c, "insert")
     ELSE /\ \A d \in Calls : PhoneOf[d] = PhoneOf[c] => call[d].pc # "merge"
          /\ call' = [call EXCEPT ![c].pc = "merge", ![c].seen = lead[PhoneOf[c]]]
  /\ UNCHANGED <<lead, row, queue, ended>>

MergesLead(c) ==
  /\ call[c].pc = "merge"
  /\ lead' = [lead EXCEPT ![PhoneOf[c]] = Merge(call[c].seen, Mine(c))]

InsertsLead(c) ==
  /\ call[c].pc = "insert" /\ lead[PhoneOf[c]] = None
  /\ lead' = [lead EXCEPT ![PhoneOf[c]] = Mine(c)]

LeadMerge(c) ==
  /\ MergesLead(c)
  /\ call' = [call EXCEPT ![c].pc = "save", ![c].seen = Nothing]
  /\ UNCHANGED <<row, queue, ended>>

LeadInsert(c) ==
  /\ InsertsLead(c)
  /\ Step(c, "save")
  /\ UNCHANGED <<row, queue, ended>>

\* A statement raised, the INSERT also when another call has inserted the
\* lead: a live upsert goes on to the row, an /end answers 500 and may be retried.
\* The commit that timed out (command_timeout) may have been made.
LeadFails(c) ==
  /\ call[c].pc \in {"lead", "insert", "merge"}
  /\ MergesLead(c) \/ InsertsLead(c) \/ UNCHANGED lead
  /\ call' = [call EXCEPT ![c].pc = IF call[c].ending THEN "talking" ELSE "save", ![c].seen = Nothing]
  /\ UNCHANGED <<row, queue, ended>>

(***************************************************************************)
(* save_episode and save_escalation: each replaces the whole row, the flag *)
(* and the lifecycle an operator has set included.                         *)
(***************************************************************************)
Outcome(c) ==
  IF call[c].ending
  THEN CASE call[c].act = "close"    -> "booked"
         [] call[c].act = "escalate" -> "escalated"
         [] OTHER                    -> "in_progress"
  ELSE IF call[c].booked THEN "booked" ELSE "in_progress"

\* The row references its lead; a final row has no heartbeat.
SavesRow(c) ==
  /\ call[c].pc = "save" /\ lead[PhoneOf[c]] # None
  /\ row' = [row EXCEPT ![c] = [outcome |-> Outcome(c), golden |-> FALSE,
                                age |-> IF call[c].ending THEN None ELSE call[c].age]]

RowSaves(c) ==
  /\ SavesRow(c)
  /\ call' = [call EXCEPT ![c].pc = IF call[c].ending THEN "review" ELSE "talking", ![c].age = 0]
  /\ UNCHANGED <<lead, queue, ended>>

\* Swallowed for a live upsert, 500 for an /end; the row may have been written.
RowFails(c) ==
  /\ call[c].pc = "save"
  /\ SavesRow(c) \/ UNCHANGED row
  /\ call' = [call EXCEPT ![c].pc = "talking", ![c].age = 0]
  /\ UNCHANGED <<lead, queue, ended>>

LogSaves(c) ==
  /\ call[c].pc = "review"
  /\ queue' = [queue EXCEPT ![c] = IF call[c].escalated THEN "unreviewed" ELSE @]
  /\ Step(c, "over")
  /\ ended' = ended \cup {c}
  /\ UNCHANGED <<lead, row>>

\* One of several logs is refused; this one may have been written.
LogFails(c) ==
  /\ call[c].pc = "review" /\ call[c].escalated
  /\ \/ queue' = [queue EXCEPT ![c] = "unreviewed"]
     \/ UNCHANGED queue
  /\ Step(c, "talking")
  /\ UNCHANGED <<lead, row, ended>>

(***************************************************************************)
(* The operator, the server's death and time.                              *)
(***************************************************************************)
SetGolden(c, golden) ==
  /\ row[c] # None
  /\ row' = [row EXCEPT ![c].golden = golden]
  /\ UNCHANGED <<lead, queue, call, ended>>

SetLifecycle(c, lifecycle) ==
  /\ queue[c] # None
  /\ queue' = [queue EXCEPT ![c] = lifecycle]
  /\ UNCHANGED <<lead, row, call, ended>>

\* Transactions roll back, sessions are gone.
Crash ==
  /\ Sessions # {}
  /\ call' = [c \in Calls |-> IF c \in Sessions THEN [call[c] EXCEPT !.pc = "dead"] ELSE call[c]]
  /\ UNCHANGED <<lead, row, queue, ended>>

Older(age) == IF age # None /\ age <= Stale THEN age + 1 ELSE age

Tick ==
  /\ row'  = [c \in Calls |-> IF row[c] = None THEN None ELSE [row[c] EXCEPT !.age = Older(@)]]
  /\ call' = [c \in Calls |-> IF call[c].pc \in {"lead", "insert", "merge", "save"} /\ ~call[c].ending
                              THEN [call[c] EXCEPT !.age = Older(@)] ELSE call[c]]
  /\ UNCHANGED <<lead, queue, ended>>

\* Faulty: a row in progress is a live call.
FaultyIsActive(r) == r # None /\ r.outcome = "in_progress"

\* operate.py, _is_active: a row in progress with a heartbeat that is not stale.
IsActive(r) == r # None /\ r.outcome = "in_progress" /\ r.age # None /\ r.age <= Stale

CallSteps(c) ==
  \/ Start(c)
  \/ \E act \in Acts[c] : Turn(c, act)
  \/ \E raw \in BOOLEAN : End(c, raw)
  \/ LeadSelect(c) \/ LeadMerge(c) \/ LeadInsert(c) \/ LeadFails(c)
  \/ RowSaves(c) \/ RowFails(c) \/ LogSaves(c) \/ LogFails(c)

Operates(c) ==
  \/ \E golden \in BOOLEAN : SetGolden(c, golden)
  \/ \E lifecycle \in Lifecycles : SetLifecycle(c, lifecycle)

Next ==
  \/ \E c \in Calls : CallSteps(c) \/ Operates(c)
  \/ Crash \/ Tick

\* Only time is sure to pass.
Spec == Init /\ [][Next]_vars /\ WF_vars(Tick)
-----------------------------------------------------------------------------
\* What a call was told is remembered once it is over, if it was ended with the
\* phone: with the value it heard, unless another call that knew the phone has
\* written over it.  No interleaving of calls of one phone loses a slot.
LeadsRemember ==
  /\ TypeOK
  /\ \A c \in Calls : \A s \in call[c].heard :
       (call[c].pc = "over" /\ call[c].raw) =>
         /\ lead[PhoneOf[c]] # None
         /\ \E d \in Calls :
              /\ PhoneOf[d] = PhoneOf[c] /\ call[d].raw
              /\ lead[PhoneOf[c]][s] = call[d].known[s] /\ lead[PhoneOf[c]][s] # None

\* Once /end has answered, the store keeps the last word on the call: only an
\* operator changes its flag and the lifecycle of its escalation, and nobody its
\* outcome.  (An /end that failed and is retried writes over both.)
FinishedStands ==
  [][\A c \in ended :
       /\ row'[c].outcome = row[c].outcome
       /\ row'[c].golden # row[c].golden => SetGolden(c, row'[c].golden)
       /\ queue'[c] # queue[c] => SetLifecycle(c, queue'[c])]_vars

\* A call that stopped, by its end or the death of the server, leaves the live
\* monitor and does not come back.
StoppedCallsLeave ==
  \A c \in Calls : (call[c].pc \in {"over", "dead"}) ~> []~IsActive(row[c])
=============================================================================
