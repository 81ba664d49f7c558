-------------------------- MODULE LeadMemoryProofs --------------------------
(***************************************************************************)
(* Theorems about what calls leave in the store, for every number of calls *)
(* and phones, every set of slots and whatever the callers tell.           *)
(***************************************************************************)
EXTENDS LeadMemory, TLAPS

-----------------------------------------------------------------------------
(* Type correctness. *)

CallType == [pc: {"new", "talking", "lead", "insert", "merge", "save", "review", "over", "dead"},
             known: Slotted, heard: SUBSET Slots, turns: 0..MaxTurns,
             act: {"talk", "close", "escalate"}, booked: BOOLEAN, escalated: BOOLEAN,
             ending: BOOLEAN, raw: BOOLEAN, age: Age, seen: Slotted]

RowType == [outcome: {"in_progress", "booked", "escalated"}, golden: BOOLEAN,
            age: Age \cup {None}]

LEMMA NothingType == Nothing \in Slotted /\ \A s \in Slots : Nothing[s] = None
  BY DEF Nothing, Slotted

\* Merging keeps every slot either side knows, the newer value first.
LEMMA MergeEffect ==
  ASSUME NEW o \in Slotted, NEW n \in Slotted
  PROVE  /\ Merge(o, n) \in Slotted
         /\ \A s \in Slots : Merge(o, n)[s] = IF n[s] # None THEN n[s] ELSE o[s]
  BY DEF Merge, Slotted

LEMMA OlderType ==
  /\ \A a \in Age : Older(a) \in Age
  /\ \A a \in Age \cup {None} : Older(a) \in Age \cup {None}
  BY BoundsAssumption DEF Older, Age

\* What a turn tells changes the slots it tells and no other.
LEMMA TellEffect ==
  ASSUME NEW c \in Calls, NEW k \in Slotted, NEW told \in SUBSET DOMAIN Tells[c],
         NEW n, n = [s \in Slots |-> IF s \in told THEN Tells[c][s] ELSE k[s]]
  PROVE  /\ n \in Slotted
         /\ \A s \in Slots : n[s] = IF s \in told THEN Tells[c][s] ELSE k[s]
         /\ told \subseteq Slots
  <1>1. told \subseteq Slots
    BY TellsAssumption
  <1>2. \A s \in told : Tells[c][s] \in Told
    BY DEF Told
  <1>3. \A s \in Slots : k[s] \in Told \cup {None}
    BY DEF Slotted
  <1> QED
    BY <1>1, <1>2, <1>3 DEF Slotted

-----------------------------------------------------------------------------
(* What each step does to its call. *)

\* Every other call is left alone.
Only(c) == \A d \in Calls \ {c} : call'[d] = call[d]

\* What a step does to c that neither tells nor forgets.
Moved(c, pc, ending, raw, seen) ==
  /\ Only(c) /\ call' \in [Calls -> CallType]
  /\ call'[c].known = call[c].known /\ call'[c].heard = call[c].heard
  /\ call'[c].pc = pc /\ call'[c].ending = ending /\ call'[c].raw = raw
  /\ call'[c].seen = seen

Pcs == {"new", "talking", "lead", "insert", "merge", "save", "review", "over", "dead"}

LEMMA Typed ==
  ASSUME TypeOK
  PROVE  /\ call \in [Calls -> CallType]
         /\ \A c \in Calls : /\ call[c] \in CallType /\ call[c].known \in Slotted
                             /\ call[c].seen \in Slotted /\ call[c].heard \in SUBSET Slots
                             /\ call[c].raw \in BOOLEAN /\ call[c].ending \in BOOLEAN
                             /\ call[c].age \in Age /\ call[c].pc \in Pcs
         /\ row \in [Calls -> RowType \cup {None}]
         /\ lead \in [Phones -> Slotted \cup {None}]
         /\ \A c \in Calls : PhoneOf[c] \in Phones
  BY PhoneAssumption DEF TypeOK, CallType, RowType, Pcs

LEMMA MoveBy ==
  ASSUME TypeOK, NEW c \in Calls, NEW r \in CallType, call' = [call EXCEPT ![c] = r],
         r.known = call[c].known, r.heard = call[c].heard
  PROVE  Moved(c, r.pc, r.ending, r.raw, r.seen)
  <1>1. call'[c] = r /\ Only(c) /\ call' \in [Calls -> CallType]
    BY Typed DEF Only
  <1> QED
    BY <1>1 DEF Moved

LEMMA StepEffect ==
  ASSUME TypeOK, NEW c \in Calls, NEW pc \in Pcs, Step(c, pc)
  PROVE  Moved(c, pc, call[c].ending, call[c].raw, call[c].seen)
  <1> DEFINE r == [call[c] EXCEPT !.pc = pc]
  <1>1. call[c] \in CallType /\ call \in [Calls -> CallType]
    BY Typed
  <1>2. r \in CallType
    BY <1>1 DEF CallType, Pcs
  <1>3. /\ r.known = call[c].known /\ r.heard = call[c].heard
        /\ r.pc = pc /\ r.ending = call[c].ending
        /\ r.raw = call[c].raw /\ r.seen = call[c].seen
    BY <1>1 DEF CallType
  <1>4. call' = [call EXCEPT ![c] = r]
    BY <1>1 DEF Step
  <1> HIDE DEF r
  <1>5. Moved(c, r.pc, r.ending, r.raw, r.seen)
    BY <1>2, <1>3, <1>4, MoveBy
  <1> QED
    BY <1>3, <1>5

LEMMA StartEffect ==
  ASSUME TypeOK, NEW c \in Calls, Start(c)
  PROVE  /\ Only(c) /\ call' \in [Calls -> CallType] /\ call[c].pc = "new"
         /\ call'[c].pc = "talking" /\ call'[c].heard = call[c].heard
         /\ call'[c].raw = call[c].raw /\ call'[c].ending = call[c].ending
         /\ call'[c].known = Nothing
              \/ (call'[c].known = lead[PhoneOf[c]] /\ lead[PhoneOf[c]] # None)
  <1>1. PICK k \in {Nothing, lead[PhoneOf[c]]} \ {None} :
          call' = [call EXCEPT ![c].pc = "talking", ![c].known = k]
    BY DEF Start
  <1>2. k \in Slotted
    BY <1>1, NothingType, Typed
  <1>3. call \in [Calls -> CallType] /\ call[c] \in CallType
    BY Typed
  <1>4. call' = [call EXCEPT ![c] = [@ EXCEPT !.pc = "talking", !.known = k]]
    BY <1>1, <1>3
  <1> DEFINE r == [call[c] EXCEPT !.pc = "talking", !.known = k]
  <1>5. r \in CallType
    BY <1>2, <1>3 DEF CallType
  <1>6. /\ r.pc = "talking" /\ r.known = k /\ r.heard = call[c].heard
        /\ r.raw = call[c].raw /\ r.ending = call[c].ending
    BY <1>3 DEF CallType
  <1>7. call' = [call EXCEPT ![c] = r]
    BY <1>4
  <1>8. k = Nothing \/ (k = lead[PhoneOf[c]] /\ lead[PhoneOf[c]] # None)
    BY <1>1
  <1> HIDE DEF r
  <1>9. call'[c] = r /\ Only(c) /\ call' \in [Calls -> CallType]
    BY <1>3, <1>5, <1>7 DEF Only
  <1> QED
    BY <1>6, <1>8, <1>9 DEF Start

LEMMA TurnEffect ==
  ASSUME TypeOK, NEW c \in Calls, NEW act \in Acts[c], Turn(c, act)
  PROVE  /\ Only(c) /\ call' \in [Calls -> CallType] /\ call[c].pc = "talking"
         /\ call'[c].pc = "lead" /\ call'[c].raw = call[c].raw
         /\ \E told \in SUBSET DOMAIN Tells[c] :
              /\ call'[c].heard = call[c].heard \cup told
              /\ \A s \in Slots : call'[c].known[s] = IF s \in told THEN Tells[c][s]
                                                      ELSE call[c].known[s]
  <1>1. PICK told \in SUBSET DOMAIN Tells[c] :
          call' = [call EXCEPT
            ![c].pc = "lead", ![c].ending = FALSE, ![c].turns = @ + 1, ![c].act = act,
            ![c].known = [s \in Slots |-> IF s \in told THEN Tells[c][s] ELSE @[s]],
            ![c].heard = @ \cup told,
            ![c].booked = @ \/ act = "close", ![c].escalated = @ \/ act = "escalate"]
    BY DEF Turn
  <1>2. call \in [Calls -> CallType] /\ call[c] \in CallType
    BY Typed
  <1> DEFINE k == [s \in Slots |-> IF s \in told THEN Tells[c][s] ELSE call[c].known[s]]
             b == call[c].booked \/ act = "close"
             e == call[c].escalated \/ act = "escalate"
             r == [call[c] EXCEPT !.pc = "lead", !.ending = FALSE, !.turns = call[c].turns + 1,
                                  !.act = act, !.known = k, !.heard = call[c].heard \cup told,
                                  !.booked = b, !.escalated = e]
  <1>3. call' = [call EXCEPT ![c] = r]
    BY <1>1, <1>2
  <1>4. /\ k \in Slotted /\ told \subseteq Slots
        /\ \A s \in Slots : k[s] = IF s \in told THEN Tells[c][s] ELSE call[c].known[s]
    <2>1. call[c].known \in Slotted /\ told \in SUBSET DOMAIN Tells[c]
      BY <1>1, Typed
    <2> QED
      BY <2>1, TellEffect
  <1>5. act \in {"talk", "close", "escalate"}
    BY ActsAssumption
  <1>6. call[c].turns + 1 \in 0..MaxTurns
    <2>1. call[c].turns \in 0..MaxTurns /\ call[c].turns < MaxTurns
      BY <1>2 DEF Turn, CallType
    <2> QED
      BY <2>1, BoundsAssumption
  <1>7. b \in BOOLEAN /\ e \in BOOLEAN
    BY <1>2 DEF CallType
  <1> HIDE DEF k, b, e
  <1>8. r \in CallType
    BY <1>2, <1>4, <1>5, <1>6, <1>7 DEF CallType
  <1>9. /\ r.pc = "lead" /\ r.known = k /\ r.heard = call[c].heard \cup told
        /\ r.raw = call[c].raw
    BY <1>2 DEF CallType
  <1> HIDE DEF r
  <1>10. call'[c] = r /\ Only(c) /\ call' \in [Calls -> CallType]
    BY <1>2, <1>3, <1>8 DEF Only
  <1> QED
    <2>1. call[c].pc = "talking" /\ told \in SUBSET DOMAIN Tells[c]
      BY <1>1 DEF Turn
    <2>2. /\ call'[c].heard = call[c].heard \cup told
          /\ \A s \in Slots : call'[c].known[s] = IF s \in told THEN Tells[c][s]
                                                  ELSE call[c].known[s]
      BY <1>4, <1>9, <1>10
    <2> QED
      BY <2>1, <2>2, <1>9, <1>10

LEMMA EndEffect ==
  ASSUME TypeOK, NEW c \in Calls, NEW raw \in BOOLEAN, End(c, raw)
  PROVE  /\ Moved(c, "lead", TRUE, raw, call[c].seen)
         /\ call[c].pc = "talking" /\ (call[c].raw => raw)
  <1> DEFINE r == [call[c] EXCEPT !.pc = "lead", !.ending = TRUE, !.raw = raw]
  <1>1. call[c] \in CallType /\ call \in [Calls -> CallType]
    BY Typed
  <1>2. r \in CallType
    BY <1>1 DEF CallType, Pcs
  <1>3. /\ r.known = call[c].known /\ r.heard = call[c].heard
        /\ r.pc = "lead" /\ r.ending = TRUE
        /\ r.raw = raw /\ r.seen = call[c].seen
    BY <1>1 DEF CallType
  <1>4. call' = [call EXCEPT ![c] = r]
    BY <1>1 DEF End
  <1> HIDE DEF r
  <1>5. Moved(c, r.pc, r.ending, r.raw, r.seen)
    BY <1>2, <1>3, <1>4, MoveBy
  <1> QED
    BY <1>3, <1>5 DEF End

\* A step that moves the call on and takes or drops the lock of a lead.
LEMMA LockEffect ==
  ASSUME TypeOK, NEW c \in Calls, NEW pc \in Pcs, NEW seen \in Slotted,
         call' = [call EXCEPT ![c].pc = pc, ![c].seen = seen]
  PROVE  Moved(c, pc, call[c].ending, call[c].raw, seen)
  <1> DEFINE r == [call[c] EXCEPT !.pc = pc, !.seen = seen]
  <1>1. call[c] \in CallType /\ call \in [Calls -> CallType]
    BY Typed
  <1>2. r \in CallType
    BY <1>1 DEF CallType, Pcs
  <1>3. /\ r.known = call[c].known /\ r.heard = call[c].heard
        /\ r.pc = pc /\ r.ending = call[c].ending
        /\ r.raw = call[c].raw /\ r.seen = seen
    BY <1>1 DEF CallType
  <1>4. call' = [call EXCEPT ![c] = r]
    BY <1>1
  <1> HIDE DEF r
  <1>5. Moved(c, r.pc, r.ending, r.raw, r.seen)
    BY <1>2, <1>3, <1>4, MoveBy
  <1> QED
    BY <1>3, <1>5

\* A step that moves the call on with a fresh heartbeat.
LEMMA AgeEffect ==
  ASSUME TypeOK, NEW c \in Calls, NEW pc \in Pcs,
         call' = [call EXCEPT ![c].pc = pc, ![c].age = 0]
  PROVE  Moved(c, pc, call[c].ending, call[c].raw, call[c].seen)
  <1> DEFINE r == [call[c] EXCEPT !.pc = pc, !.age = 0]
  <1>1. call[c] \in CallType /\ call \in [Calls -> CallType] /\ 0 \in Age
    BY Typed, BoundsAssumption DEF Age
  <1>2. r \in CallType
    BY <1>1 DEF CallType, Pcs
  <1>3. /\ r.known = call[c].known /\ r.heard = call[c].heard
        /\ r.pc = pc /\ r.ending = call[c].ending
        /\ r.raw = call[c].raw /\ r.seen = call[c].seen
    BY <1>1 DEF CallType
  <1>4. call' = [call EXCEPT ![c] = r]
    BY <1>1
  <1> HIDE DEF r
  <1>5. Moved(c, r.pc, r.ending, r.raw, r.seen)
    BY <1>2, <1>3, <1>4, MoveBy
  <1> QED
    BY <1>3, <1>5

LEMMA SelectEffect ==
  ASSUME TypeOK, NEW c \in Calls, LeadSelect(c)
  PROVE  /\ call[c].pc = "lead"
         /\ \/ Moved(c, "insert", call[c].ending, call[c].raw, call[c].seen)
            \/ /\ lead[PhoneOf[c]] # None
               /\ \A d \in Calls : PhoneOf[d] = PhoneOf[c] => call[d].pc # "merge"
               /\ Moved(c, "merge", call[c].ending, call[c].raw, lead[PhoneOf[c]])
  <1>1. CASE lead[PhoneOf[c]] = None
    <2>1. Step(c, "insert") /\ call[c].pc = "lead"
      BY <1>1 DEF LeadSelect
    <2> QED
      BY <2>1, StepEffect DEF Pcs
  <1>2. CASE lead[PhoneOf[c]] # None
    <2>1. /\ call' = [call EXCEPT ![c].pc = "merge", ![c].seen = lead[PhoneOf[c]]]
          /\ \A d \in Calls : PhoneOf[d] = PhoneOf[c] => call[d].pc # "merge"
          /\ call[c].pc = "lead"
      BY <1>2 DEF LeadSelect
    <2>2. lead[PhoneOf[c]] \in Slotted
      BY <1>2, Typed
    <2>3. Moved(c, "merge", call[c].ending, call[c].raw, lead[PhoneOf[c]])
      BY <2>1, <2>2, LockEffect DEF Pcs
    <2> QED
      BY <1>2, <2>1, <2>3
  <1> QED
    BY <1>1, <1>2

LEMMA MineEffect ==
  ASSUME TypeOK, NEW c \in Calls
  PROVE  /\ Mine(c) \in Slotted
         /\ \A s \in Slots : Mine(c)[s] # None =>
              /\ call[c].ending /\ call[c].raw /\ Mine(c)[s] = call[c].known[s]
         /\ (call[c].ending /\ call[c].raw) => Mine(c) = call[c].known
  BY Typed, NothingType DEF Mine

\* Both ways to write a lead, in terms of the lead before and the slots of the call.
LEMMA MergeLead ==
  ASSUME TypeOK, NEW c \in Calls, MergesLead(c)
  PROVE  /\ call[c].pc = "merge"
         /\ lead' = [lead EXCEPT ![PhoneOf[c]] = Merge(call[c].seen, Mine(c))]
         /\ Merge(call[c].seen, Mine(c)) \in Slotted
         /\ \A s \in Slots : Merge(call[c].seen, Mine(c))[s]
                               = IF Mine(c)[s] # None THEN Mine(c)[s] ELSE call[c].seen[s]
  <1>1. call[c].seen \in Slotted /\ Mine(c) \in Slotted
    BY Typed, MineEffect
  <1> QED
    BY <1>1, MergeEffect DEF MergesLead

LEMMA InsertLead ==
  ASSUME TypeOK, NEW c \in Calls, InsertsLead(c)
  PROVE  /\ call[c].pc = "insert" /\ lead[PhoneOf[c]] = None
         /\ lead' = [lead EXCEPT ![PhoneOf[c]] = Mine(c)] /\ Mine(c) \in Slotted
  BY MineEffect DEF InsertsLead

LEMMA MergeWrites ==
  ASSUME TypeOK, NEW c \in Calls, LeadMerge(c)
  PROVE  MergesLead(c) /\ Moved(c, "save", call[c].ending, call[c].raw, Nothing)
  BY LockEffect, NothingType DEF LeadMerge, Pcs

LEMMA InsertWrites ==
  ASSUME TypeOK, NEW c \in Calls, LeadInsert(c)
  PROVE  InsertsLead(c) /\ Moved(c, "save", call[c].ending, call[c].raw, call[c].seen)
  BY StepEffect DEF LeadInsert, Pcs

LEMMA FailsEffect ==
  ASSUME TypeOK, NEW c \in Calls, LeadFails(c)
  PROVE  /\ \/ call[c].ending /\ Moved(c, "talking", call[c].ending, call[c].raw, Nothing)
            \/ ~call[c].ending /\ Moved(c, "save", call[c].ending, call[c].raw, Nothing)
         /\ MergesLead(c) \/ InsertsLead(c) \/ lead' = lead
  <1>0. MergesLead(c) \/ InsertsLead(c) \/ lead' = lead
    BY DEF LeadFails
  <1>1. CASE call[c].ending
    <2>1. call' = [call EXCEPT ![c].pc = "talking", ![c].seen = Nothing]
      BY <1>1 DEF LeadFails
    <2> QED
      BY <1>0, <1>1, <2>1, LockEffect, NothingType DEF Pcs
  <1>2. CASE ~call[c].ending
    <2>1. call' = [call EXCEPT ![c].pc = "save", ![c].seen = Nothing]
      BY <1>2 DEF LeadFails
    <2> QED
      BY <1>0, <1>2, <2>1, LockEffect, NothingType DEF Pcs
  <1> QED
    BY <1>1, <1>2, Typed

LEMMA SavesRowEffect ==
  ASSUME TypeOK, NEW c \in Calls, SavesRow(c)
  PROVE  /\ call[c].pc = "save"
         /\ row' \in [Calls -> RowType \cup {None}]
         /\ \A d \in Calls \ {c} : row'[d] = row[d]
  <1> DEFINE r == [outcome |-> Outcome(c), golden |-> FALSE,
                   age |-> IF call[c].ending THEN None ELSE call[c].age]
  <1>1. Outcome(c) \in {"in_progress", "booked", "escalated"}
    BY DEF Outcome
  <1>2. r \in RowType
    BY <1>1, Typed DEF RowType
  <1>3. row' = [row EXCEPT ![c] = r] /\ call[c].pc = "save"
    BY DEF SavesRow
  <1> HIDE DEF r
  <1> QED
    BY <1>2, <1>3, Typed

LEMMA SavesEffect ==
  ASSUME TypeOK, NEW c \in Calls, RowSaves(c)
  PROVE  /\ call[c].pc = "save"
         /\ \/ call[c].ending /\ Moved(c, "review", call[c].ending, call[c].raw, call[c].seen)
            \/ ~call[c].ending /\ Moved(c, "talking", call[c].ending, call[c].raw, call[c].seen)
         /\ row' \in [Calls -> RowType \cup {None}]
         /\ \A d \in Calls \ {c} : row'[d] = row[d]
  <1>4. /\ call[c].pc = "save"
        /\ row' \in [Calls -> RowType \cup {None}]
        /\ \A d \in Calls \ {c} : row'[d] = row[d]
    BY SavesRowEffect DEF RowSaves
  <1>5. CASE call[c].ending
    <2>1. call' = [call EXCEPT ![c].pc = "review", ![c].age = 0]
      BY <1>5 DEF RowSaves
    <2> QED
      BY <1>4, <1>5, <2>1, AgeEffect DEF Pcs
  <1>6. CASE ~call[c].ending
    <2>1. call' = [call EXCEPT ![c].pc = "talking", ![c].age = 0]
      BY <1>6 DEF RowSaves
    <2> QED
      BY <1>4, <1>6, <2>1, AgeEffect DEF Pcs
  <1> QED
    BY <1>5, <1>6

LEMMA RowFailsEffect ==
  ASSUME TypeOK, NEW c \in Calls, RowFails(c)
  PROVE  /\ Moved(c, "talking", call[c].ending, call[c].raw, call[c].seen)
         /\ row' \in [Calls -> RowType \cup {None}]
         /\ \A d \in Calls \ {c} : row'[d] = row[d]
  <1>1. Moved(c, "talking", call[c].ending, call[c].raw, call[c].seen)
    BY AgeEffect DEF RowFails, Pcs
  <1>2. CASE SavesRow(c)
    BY <1>1, <1>2, SavesRowEffect
  <1>3. CASE row' = row
    BY <1>1, <1>3, Typed
  <1> QED
    BY <1>2, <1>3 DEF RowFails

LEMMA LogSavesEffect ==
  ASSUME TypeOK, NEW c \in Calls, LogSaves(c)
  PROVE  /\ call[c].pc = "review"
         /\ Moved(c, "over", call[c].ending, call[c].raw, call[c].seen)
         /\ queue' \in [Calls -> Lifecycles \cup {None}]
         /\ \A d \in Calls \ {c} : queue'[d] = queue[d]
  <1>1. Moved(c, "over", call[c].ending, call[c].raw, call[c].seen)
    BY StepEffect DEF LogSaves, Pcs
  <1>2. /\ queue' \in [Calls -> Lifecycles \cup {None}]
        /\ \A d \in Calls \ {c} : queue'[d] = queue[d]
    BY LifecyclesAssumption DEF LogSaves, TypeOK
  <1> QED
    BY <1>1, <1>2 DEF LogSaves

LEMMA LogFailsEffect ==
  ASSUME TypeOK, NEW c \in Calls, LogFails(c)
  PROVE  /\ call[c].pc = "review"
         /\ Moved(c, "talking", call[c].ending, call[c].raw, call[c].seen)
         /\ queue' \in [Calls -> Lifecycles \cup {None}]
         /\ \A d \in Calls \ {c} : queue'[d] = queue[d]
  <1>1. Moved(c, "talking", call[c].ending, call[c].raw, call[c].seen)
    BY StepEffect DEF LogFails, Pcs
  <1>2. /\ queue' \in [Calls -> Lifecycles \cup {None}]
        /\ \A d \in Calls \ {c} : queue'[d] = queue[d]
    BY LifecyclesAssumption DEF LogFails, TypeOK
  <1> QED
    BY <1>1, <1>2 DEF LogFails

\* Death and time touch the program counters and the heartbeats of the calls.
Aged ==
  /\ call' \in [Calls -> CallType]
  /\ \A c \in Calls :
       /\ call'[c].known = call[c].known /\ call'[c].heard = call[c].heard
       /\ call'[c].ending = call[c].ending /\ call'[c].raw = call[c].raw
       /\ call'[c].seen = call[c].seen
       /\ call'[c].pc = call[c].pc \/ (c \in Sessions /\ call'[c].pc = "dead")

LEMMA CrashEffect ==
  ASSUME TypeOK, Crash
  PROVE  Aged
  <1> DEFINE r(c) == IF c \in Sessions THEN [call[c] EXCEPT !.pc = "dead"] ELSE call[c]
  <1>1. call' = [c \in Calls |-> r(c)]
    BY DEF Crash
  <1>2. ASSUME NEW c \in Calls
        PROVE  /\ r(c) \in CallType /\ r(c).known = call[c].known
               /\ r(c).heard = call[c].heard /\ r(c).ending = call[c].ending
               /\ r(c).raw = call[c].raw /\ r(c).seen = call[c].seen
               /\ r(c).pc = call[c].pc \/ (c \in Sessions /\ r(c).pc = "dead")
    <2>1. call[c] \in CallType
      BY Typed
    <2> QED
      BY <2>1 DEF CallType
  <1> HIDE DEF r
  <1> QED
    BY <1>1, <1>2 DEF Aged

LEMMA TickEffect ==
  ASSUME TypeOK, Tick
  PROVE  /\ Aged /\ row' \in [Calls -> RowType \cup {None}]
         /\ \A c \in Calls : /\ row'[c].outcome = row[c].outcome
                             /\ row'[c].golden = row[c].golden
  <1> DEFINE busy(c) == call[c].pc \in {"lead", "insert", "merge", "save"} /\ ~call[c].ending
             r(c) == IF busy(c) THEN [call[c] EXCEPT !.age = Older(@)] ELSE call[c]
             w(c) == IF row[c] = None THEN None ELSE [row[c] EXCEPT !.age = Older(@)]
  <1>1. call' = [c \in Calls |-> r(c)] /\ row' = [c \in Calls |-> w(c)]
    BY DEF Tick
  <1>2. ASSUME NEW c \in Calls
        PROVE  /\ r(c) \in CallType /\ r(c).known = call[c].known
               /\ r(c).heard = call[c].heard /\ r(c).ending = call[c].ending
               /\ r(c).raw = call[c].raw /\ r(c).seen = call[c].seen
               /\ r(c).pc = call[c].pc
    <2>1. call[c] \in CallType /\ Older(call[c].age) \in Age
      BY Typed, OlderType
    <2> HIDE DEF busy
    <2> QED
      BY <2>1 DEF CallType
  <1>3. ASSUME NEW c \in Calls
        PROVE  /\ w(c) \in RowType \cup {None}
               /\ w(c).outcome = row[c].outcome /\ w(c).golden = row[c].golden
    <2>1. CASE row[c] = None
      BY <2>1
    <2>2. CASE row[c] # None
      <3>1. row[c] \in RowType
        BY <2>2, Typed
      <3>2. Older(row[c].age) \in Age \cup {None}
        BY <3>1, OlderType DEF RowType
      <3> QED
        BY <2>2, <3>1, <3>2 DEF RowType
    <2> QED
      BY <2>1, <2>2
  <1> HIDE DEF r, w
  <1>4. Aged
    BY <1>1, <1>2 DEF Aged
  <1>5. /\ row' \in [Calls -> RowType \cup {None}]
        /\ \A c \in Calls : row'[c].outcome = row[c].outcome /\ row'[c].golden = row[c].golden
    BY <1>1, <1>3
  <1> QED
    BY <1>4, <1>5

LEMMA GoldenEffect ==
  ASSUME TypeOK, NEW c \in Calls, NEW golden \in BOOLEAN, SetGolden(c, golden)
  PROVE  /\ row' \in [Calls -> RowType \cup {None}]
         /\ row'[c].outcome = row[c].outcome /\ row'[c].golden = golden
         /\ \A d \in Calls \ {c} : row'[d] = row[d]
  <1> DEFINE r == [row[c] EXCEPT !.golden = golden]
  <1>1. row[c] \in RowType
    BY Typed DEF SetGolden
  <1>2. r \in RowType /\ r.outcome = row[c].outcome /\ r.golden = golden
    BY <1>1 DEF RowType
  <1>3. row' = [row EXCEPT ![c] = r]
    BY DEF SetGolden
  <1> HIDE DEF r
  <1> QED
    BY <1>2, <1>3, Typed

LEMMA LifecycleEffect ==
  ASSUME TypeOK, NEW c \in Calls, NEW lifecycle \in Lifecycles, SetLifecycle(c, lifecycle)
  PROVE  /\ queue' \in [Calls -> Lifecycles \cup {None}]
         /\ queue'[c] = lifecycle /\ \A d \in Calls \ {c} : queue'[d] = queue[d]
  BY DEF SetLifecycle, TypeOK

\* Every step preserves the types.
LEMMA MovedType ==
  ASSUME NEW c, NEW pc, NEW ending, NEW raw, NEW seen, Moved(c, pc, ending, raw, seen)
  PROVE  call' \in [Calls -> CallType]
  BY DEF Moved

LEMMA LeadWriteType ==
  ASSUME TypeOK, NEW c \in Calls, NEW slots \in Slotted, lead' = [lead EXCEPT ![PhoneOf[c]] = slots]
  PROVE  /\ lead' \in [Phones -> Slotted \cup {None}]
         /\ lead'[PhoneOf[c]] = slots
         /\ \A p \in Phones \ {PhoneOf[c]} : lead'[p] = lead[p]
  BY Typed

LEMMA TypeStep ==
  ASSUME TypeOK, [Next]_vars
  PROVE  TypeOK'
  <1> SUFFICES /\ lead' \in [Phones -> Slotted \cup {None}]
               /\ row' \in [Calls -> RowType \cup {None}]
               /\ queue' \in [Calls -> Lifecycles \cup {None}]
               /\ call' \in [Calls -> CallType]
               /\ ended' \subseteq Calls
    BY DEF TypeOK, CallType, RowType
  <1>0. /\ lead \in [Phones -> Slotted \cup {None}]
        /\ row \in [Calls -> RowType \cup {None}]
        /\ queue \in [Calls -> Lifecycles \cup {None}]
        /\ call \in [Calls -> CallType]
        /\ ended \subseteq Calls
    BY Typed DEF TypeOK
  <1>1. ASSUME NEW c \in Calls, Start(c)
        PROVE  call' \in [Calls -> CallType] /\ UNCHANGED <<lead, row, queue, ended>>
    BY <1>1, StartEffect DEF Start
  <1>2. ASSUME NEW c \in Calls, NEW act \in Acts[c], Turn(c, act)
        PROVE  call' \in [Calls -> CallType] /\ UNCHANGED <<lead, row, queue, ended>>
    BY <1>2, TurnEffect DEF Turn
  <1>3. ASSUME NEW c \in Calls, NEW raw \in BOOLEAN, End(c, raw)
        PROVE  call' \in [Calls -> CallType] /\ UNCHANGED <<lead, row, queue, ended>>
    BY <1>3, EndEffect, MovedType DEF End
  <1>4. ASSUME NEW c \in Calls, LeadSelect(c)
        PROVE  call' \in [Calls -> CallType] /\ UNCHANGED <<lead, row, queue, ended>>
    BY <1>4, SelectEffect, MovedType DEF LeadSelect
  <1>5. ASSUME NEW c \in Calls, LeadMerge(c)
        PROVE  /\ call' \in [Calls -> CallType] /\ lead' \in [Phones -> Slotted \cup {None}]
               /\ UNCHANGED <<row, queue, ended>>
    BY <1>5, MergeWrites, MergeLead, LeadWriteType, MovedType DEF LeadMerge
  <1>6. ASSUME NEW c \in Calls, LeadInsert(c)
        PROVE  /\ call' \in [Calls -> CallType] /\ lead' \in [Phones -> Slotted \cup {None}]
               /\ UNCHANGED <<row, queue, ended>>
    BY <1>6, InsertWrites, InsertLead, LeadWriteType, MovedType DEF LeadInsert
  <1>7. ASSUME NEW c \in Calls, LeadFails(c)
        PROVE  /\ call' \in [Calls -> CallType] /\ lead' \in [Phones -> Slotted \cup {None}]
               /\ UNCHANGED <<row, queue, ended>>
    <2>1. call' \in [Calls -> CallType]
      BY <1>7, FailsEffect, MovedType
    <2>2. lead' \in [Phones -> Slotted \cup {None}]
      BY <1>0, <1>7, FailsEffect, MergeLead, InsertLead, LeadWriteType
    <2> QED
      BY <1>7, <2>1, <2>2 DEF LeadFails
  <1>8. ASSUME NEW c \in Calls, RowSaves(c)
        PROVE  /\ call' \in [Calls -> CallType] /\ row' \in [Calls -> RowType \cup {None}]
               /\ UNCHANGED <<lead, queue, ended>>
    BY <1>8, SavesEffect, MovedType DEF RowSaves
  <1>9. ASSUME NEW c \in Calls, RowFails(c)
        PROVE  /\ call' \in [Calls -> CallType] /\ row' \in [Calls -> RowType \cup {None}]
               /\ UNCHANGED <<lead, queue, ended>>
    BY <1>9, RowFailsEffect, MovedType DEF RowFails
  <1>10. ASSUME NEW c \in Calls, LogSaves(c)
         PROVE  /\ call' \in [Calls -> CallType] /\ queue' \in [Calls -> Lifecycles \cup {None}]
                /\ ended' \subseteq Calls /\ UNCHANGED <<lead, row>>
    BY <1>0, <1>10, LogSavesEffect, MovedType DEF LogSaves
  <1>11. ASSUME NEW c \in Calls, LogFails(c)
         PROVE  /\ call' \in [Calls -> CallType] /\ queue' \in [Calls -> Lifecycles \cup {None}]
                /\ UNCHANGED <<lead, row, ended>>
    BY <1>11, LogFailsEffect, MovedType DEF LogFails
  <1>12. ASSUME NEW c \in Calls, NEW golden \in BOOLEAN, SetGolden(c, golden)
         PROVE  row' \in [Calls -> RowType \cup {None}] /\ UNCHANGED <<lead, queue, call, ended>>
    BY <1>12, GoldenEffect DEF SetGolden
  <1>13. ASSUME NEW c \in Calls, NEW lifecycle \in Lifecycles, SetLifecycle(c, lifecycle)
         PROVE  /\ queue' \in [Calls -> Lifecycles \cup {None}]
                /\ UNCHANGED <<lead, row, call, ended>>
    BY <1>13, LifecycleEffect DEF SetLifecycle
  <1>14. ASSUME Crash
         PROVE  call' \in [Calls -> CallType] /\ UNCHANGED <<lead, row, queue, ended>>
    BY <1>14, CrashEffect DEF Crash, Aged
  <1>15. ASSUME Tick
         PROVE  /\ call' \in [Calls -> CallType] /\ row' \in [Calls -> RowType \cup {None}]
                /\ UNCHANGED <<lead, queue, ended>>
    BY <1>15, TickEffect DEF Tick, Aged
  <1>16. CASE UNCHANGED vars
    BY <1>0, <1>16 DEF vars
  <1>17. CASE Next
    BY <1>0, <1>1, <1>2, <1>3, <1>4, <1>5, <1>6, <1>7, <1>8, <1>9, <1>10, <1>11, <1>12, <1>13,
       <1>14, <1>15, <1>17 DEF Next, CallSteps, Operates
  <1> QED
    BY <1>16, <1>17

-----------------------------------------------------------------------------
(***************************************************************************)
(* The inductive invariant.                                                *)
(***************************************************************************)
\* A caller of phone p who ended with it has told w for s.
Origin(p, s, w) ==
  \E f \in Calls : /\ PhoneOf[f] = p /\ call[f].raw
                   /\ s \in call[f].heard /\ w = Tells[f][s]

\* What a call knows it has heard from its caller, or took from the lead.
Learned ==
  \A c \in Calls :
    /\ call[c].pc = "new" => call[c].heard = {}
    /\ \A s \in Slots :
         /\ s \in call[c].heard => s \in DOMAIN Tells[c] /\ call[c].known[s] = Tells[c][s]
         /\ (s \notin call[c].heard /\ call[c].known[s] # None)
              => Origin(PhoneOf[c], s, call[c].known[s])

\* What a lead remembers somebody has told.
LeadsTold ==
  \A p \in Phones : \A s \in Slots :
    (lead[p] # None /\ lead[p][s] # None) => Origin(p, s, lead[p][s])

\* The lock of a lead: one call holds it, and has read what is still there.
Locked ==
  \A c \in Calls : call[c].pc = "merge" =>
    /\ call[c].seen = lead[PhoneOf[c]] /\ lead[PhoneOf[c]] # None
    /\ \A d \in Calls : (PhoneOf[d] = PhoneOf[c] /\ call[d].pc = "merge") => d = c

Closing == \A c \in Calls : call[c].pc \in {"review", "over"} => call[c].ending

\* Past the merge of its end, what a call has heard is in the lead.
Merged ==
  \A c \in Calls :
    (call[c].pc \in {"save", "review", "over"} /\ call[c].ending /\ call[c].raw) =>
      /\ lead[PhoneOf[c]] # None
      /\ \A s \in call[c].heard : lead[PhoneOf[c]][s] # None

IInv == TypeOK /\ Learned /\ LeadsTold /\ Locked /\ Closing /\ Merged

LEMMA InitInv == Init => IInv
  <1> SUFFICES ASSUME Init PROVE IInv
    OBVIOUS
  <1>1. \A c \in Calls : call[c] = Fresh
    BY DEF Init
  <1>2. Fresh \in CallType
    BY NothingType, BoundsAssumption DEF Fresh, CallType, Age
  <1>3. TypeOK
    <2>1. /\ lead \in [Phones -> Slotted \cup {None}]
          /\ row \in [Calls -> RowType \cup {None}]
          /\ queue \in [Calls -> Lifecycles \cup {None}] /\ ended \subseteq Calls
      BY DEF Init
    <2>2. call \in [Calls -> CallType]
      BY <1>2 DEF Init
    <2> QED
      BY <2>1, <2>2 DEF TypeOK, CallType, RowType
  <1>4. \A c \in Calls : /\ call[c].pc = "new" /\ call[c].heard = {} /\ ~call[c].raw
                         /\ \A s \in Slots : call[c].known[s] = None
    BY <1>1, NothingType DEF Fresh
  <1>5. \A p \in Phones : lead[p] = None
    BY DEF Init
  <1> QED
    BY <1>3, <1>4, <1>5 DEF IInv, Learned, LeadsTold, Locked, Closing, Merged

-----------------------------------------------------------------------------
(* What is known and where it comes from. *)

\* A step that tells no call anything and takes no phone back.
Calm ==
  \A c \in Calls :
    /\ call'[c].known = call[c].known /\ call'[c].heard = call[c].heard
    /\ call[c].raw => call'[c].raw
    /\ call'[c].pc = "new" => call[c].pc = "new"

LEMMA CalmMove ==
  ASSUME NEW c \in Calls, NEW pc, pc # "new", NEW ending, NEW raw, NEW seen, call[c].raw => raw,
         Moved(c, pc, ending, raw, seen)
  PROVE  Calm
  BY DEF Moved, Only, Calm

LEMMA CalmStep ==
  ASSUME TypeOK, [Next]_vars
  PROVE  \/ Calm
         \/ \E c \in Calls : Start(c)
         \/ \E c \in Calls : \E act \in Acts[c] : Turn(c, act)
  <1>1. ASSUME NEW c \in Calls, NEW raw \in BOOLEAN, End(c, raw) PROVE Calm
    BY <1>1, EndEffect, CalmMove
  <1>2. ASSUME NEW c \in Calls, LeadSelect(c) PROVE Calm
    BY <1>2, SelectEffect, CalmMove
  <1>3. ASSUME NEW c \in Calls, LeadMerge(c) PROVE Calm
    BY <1>3, MergeWrites, CalmMove
  <1>4. ASSUME NEW c \in Calls, LeadInsert(c) PROVE Calm
    BY <1>4, InsertWrites, CalmMove
  <1>5. ASSUME NEW c \in Calls, LeadFails(c) PROVE Calm
    BY <1>5, FailsEffect, CalmMove
  <1>6. ASSUME NEW c \in Calls, RowSaves(c) PROVE Calm
    BY <1>6, SavesEffect, CalmMove
  <1>7. ASSUME NEW c \in Calls, RowFails(c) PROVE Calm
    BY <1>7, RowFailsEffect, CalmMove
  <1>8. ASSUME NEW c \in Calls, LogSaves(c) PROVE Calm
    BY <1>8, LogSavesEffect, CalmMove
  <1>9. ASSUME NEW c \in Calls, LogFails(c) PROVE Calm
    BY <1>9, LogFailsEffect, CalmMove
  <1>10. ASSUME NEW c \in Calls, Operates(c) PROVE Calm
    BY <1>10 DEF Operates, SetGolden, SetLifecycle, Calm
  <1>11. ASSUME Crash \/ Tick PROVE Calm
    BY <1>11, CrashEffect, TickEffect DEF Aged, Calm
  <1>12. CASE UNCHANGED vars
    BY <1>12 DEF vars, Calm
  <1>13. CASE Next
    BY <1>1, <1>2, <1>3, <1>4, <1>5, <1>6, <1>7, <1>8, <1>9, <1>10, <1>11, <1>13
       DEF Next, CallSteps
  <1> QED
    BY <1>12, <1>13

\* Whoever has told something has told it for good.
LEMMA OriginStays ==
  ASSUME TypeOK, [Next]_vars
  PROVE  \A p \in Phones, s \in Slots : \A w :
           Origin(p, s, w) => \E f \in Calls : /\ PhoneOf[f] = p /\ call'[f].raw
                                               /\ s \in call'[f].heard /\ w = Tells[f][s]
  <1>1. CASE Calm
    BY <1>1 DEF Calm, Origin
  <1>2. ASSUME NEW c \in Calls, Start(c)
        PROVE  \A f \in Calls : call'[f].raw = call[f].raw /\ call'[f].heard = call[f].heard
    BY <1>2, StartEffect DEF Only
  <1>3. ASSUME NEW c \in Calls, NEW act \in Acts[c], Turn(c, act)
        PROVE  \A f \in Calls : /\ call'[f].raw = call[f].raw
                                /\ call[f].heard \subseteq call'[f].heard
    BY <1>3, TurnEffect DEF Only
  <1> QED
    BY <1>1, <1>2, <1>3, CalmStep DEF Origin

\* What a call knows after a step it has heard, or somebody had told before.
LEMMA LearnedFrom ==
  ASSUME IInv, [Next]_vars, NEW c \in Calls
  PROVE  /\ call'[c].pc = "new" => call'[c].heard = {}
         /\ \A s \in Slots :
              /\ s \in call'[c].heard => s \in DOMAIN Tells[c] /\ call'[c].known[s] = Tells[c][s]
              /\ (s \notin call'[c].heard /\ call'[c].known[s] # None)
                   => Origin(PhoneOf[c], s, call'[c].known[s])
  <1> USE DEF IInv
  <1>1. CASE call'[c].known = call[c].known /\ call'[c].heard = call[c].heard
             /\ (call'[c].pc = "new" => call[c].pc = "new")
    BY <1>1 DEF Learned
  <1>2. ASSUME NEW d \in Calls, Start(d), d = c
        PROVE  /\ call'[c].pc # "new" /\ call'[c].heard = {}
               /\ \A s \in Slots : call'[c].known[s] # None
                                     => Origin(PhoneOf[c], s, call'[c].known[s])
    <2>1. call[c].pc = "new" /\ call'[c].pc = "talking" /\ call'[c].heard = {}
      BY <1>2, StartEffect DEF Learned
    <2>2. \/ call'[c].known = Nothing
          \/ call'[c].known = lead[PhoneOf[c]] /\ lead[PhoneOf[c]] # None
      BY <1>2, StartEffect
    <2> QED
      BY <2>1, <2>2, NothingType, Typed DEF LeadsTold
  <1>3. ASSUME NEW act \in Acts[c], Turn(c, act)
        PROVE  /\ call'[c].pc # "new"
               /\ \A s \in Slots :
                    /\ s \in call'[c].heard => /\ s \in DOMAIN Tells[c]
                                               /\ call'[c].known[s] = Tells[c][s]
                    /\ (s \notin call'[c].heard /\ call'[c].known[s] # None)
                         => Origin(PhoneOf[c], s, call'[c].known[s])
    <2>1. PICK told \in SUBSET DOMAIN Tells[c] :
            /\ call'[c].heard = call[c].heard \cup told
            /\ \A s \in Slots : call'[c].known[s] = IF s \in told THEN Tells[c][s]
                                                    ELSE call[c].known[s]
      BY <1>3, TurnEffect
    <2>2. call'[c].pc = "lead"
      BY <1>3, TurnEffect
    <2> QED
      BY <2>1, <2>2 DEF Learned
  <1>4. CASE Calm
    BY <1>1, <1>4 DEF Calm
  <1>5. ASSUME NEW d \in Calls, Start(d), d # c PROVE call'[c] = call[c]
    BY <1>5, StartEffect DEF Only
  <1>6. ASSUME NEW d \in Calls, NEW act \in Acts[d], Turn(d, act), d # c
        PROVE  call'[c] = call[c]
    BY <1>6, TurnEffect DEF Only
  <1>7. CASE \E d \in Calls : Start(d)
    BY <1>1, <1>2, <1>5, <1>7
  <1>8. CASE \E d \in Calls : \E act \in Acts[d] : Turn(d, act)
    BY <1>1, <1>3, <1>6, <1>8
  <1> QED
    BY <1>4, <1>7, <1>8, CalmStep

LEMMA LearnedStep ==
  ASSUME IInv, [Next]_vars
  PROVE  Learned'
  <1> SUFFICES ASSUME NEW c \in Calls
               PROVE  /\ call'[c].pc = "new" => call'[c].heard = {}
                      /\ \A s \in Slots :
                           /\ s \in call'[c].heard => /\ s \in DOMAIN Tells[c]
                                                      /\ call'[c].known[s] = Tells[c][s]
                           /\ (s \notin call'[c].heard /\ call'[c].known[s] # None)
                                => \E f \in Calls : /\ PhoneOf[f] = PhoneOf[c] /\ call'[f].raw
                                                    /\ s \in call'[f].heard
                                                    /\ call'[c].known[s] = Tells[f][s]
    BY DEF Learned, Origin
  <1>1. PhoneOf[c] \in Phones /\ TypeOK
    BY Typed DEF IInv
  <1> QED
    BY <1>1, LearnedFrom, OriginStays

-----------------------------------------------------------------------------
(* The leads. *)

\* A step that writes no lead leaves them all; the others write one.
LEMMA LeadWriters ==
  ASSUME TypeOK, [Next]_vars
  PROVE  \/ lead' = lead
         \/ \E c \in Calls : MergesLead(c) \/ InsertsLead(c)
  <1>0. ASSUME NEW c \in Calls, LeadMerge(c) \/ LeadInsert(c) \/ LeadFails(c)
        PROVE  MergesLead(c) \/ InsertsLead(c) \/ lead' = lead
    BY <1>0 DEF LeadMerge, LeadInsert, LeadFails
  <1>1. ASSUME NEW c \in Calls, Start(c) \/ LeadSelect(c)
        PROVE  lead' = lead
    BY <1>1 DEF Start, LeadSelect
  <1>2. ASSUME NEW c \in Calls, RowSaves(c) \/ RowFails(c) \/ LogSaves(c) \/ LogFails(c)
        PROVE  lead' = lead
    BY <1>2 DEF RowSaves, RowFails, LogSaves, LogFails
  <1>3. ASSUME NEW c \in Calls, NEW act \in Acts[c], Turn(c, act)
        PROVE  lead' = lead
    BY <1>3 DEF Turn
  <1>4. ASSUME NEW c \in Calls, NEW raw \in BOOLEAN, End(c, raw)
        PROVE  lead' = lead
    BY <1>4 DEF End
  <1>5. ASSUME NEW c \in Calls, Operates(c)
        PROVE  lead' = lead
    BY <1>5 DEF Operates, SetGolden, SetLifecycle
  <1>6. ASSUME Crash \/ Tick \/ UNCHANGED vars
        PROVE  lead' = lead
    BY <1>6 DEF Crash, Tick, vars
  <1> QED
    BY <1>0, <1>1, <1>2, <1>3, <1>4, <1>5, <1>6 DEF Next, CallSteps

\* What a call may write somebody has told: it has, or it took it from the lead.
LEMMA MineTold ==
  ASSUME IInv, NEW c \in Calls, NEW s \in Slots, Mine(c)[s] # None
  PROVE  Origin(PhoneOf[c], s, Mine(c)[s])
  <1>1. call[c].raw /\ Mine(c)[s] = call[c].known[s]
    BY MineEffect, Typed DEF IInv
  <1> QED
    BY <1>1 DEF IInv, Learned, Origin

LEMMA LeadsToldStep ==
  ASSUME IInv, [Next]_vars
  PROVE  LeadsTold'
  <1>1. SUFFICES ASSUME NEW p \in Phones, NEW s \in Slots, lead'[p] # None, lead'[p][s] # None
                 PROVE  Origin(p, s, lead'[p][s])
    <2>1. \A p \in Phones, s \in Slots :
            (lead'[p] # None /\ lead'[p][s] # None)
              => \E f \in Calls : /\ PhoneOf[f] = p /\ call'[f].raw
                                  /\ s \in call'[f].heard /\ lead'[p][s] = Tells[f][s]
      BY <1>1, OriginStays DEF IInv
    <2> QED
      BY <2>1 DEF LeadsTold, Origin
  <1> USE DEF IInv
  <1>2. CASE lead' = lead
    BY <1>1, <1>2 DEF LeadsTold
  <1>3. ASSUME NEW c \in Calls, MergesLead(c)
        PROVE  Origin(p, s, lead'[p][s])
    <2>1. CASE p # PhoneOf[c]
      <3>1. lead'[p] = lead[p]
        BY <1>3, <2>1, MergeLead, LeadWriteType
      <3> QED
        BY <1>1, <3>1 DEF LeadsTold
    <2>2. CASE p = PhoneOf[c]
      <3>1. lead'[p][s] = IF Mine(c)[s] # None THEN Mine(c)[s] ELSE call[c].seen[s]
        BY <1>3, <2>2, MergeLead, LeadWriteType
      <3>2. call[c].seen = lead[p] /\ lead[p] # None
        BY <1>3, <2>2, MergeLead DEF Locked
      <3> QED
        BY <1>1, <2>2, <3>1, <3>2, MineTold DEF LeadsTold
    <2> QED
      BY <2>1, <2>2
  <1>4. ASSUME NEW c \in Calls, InsertsLead(c)
        PROVE  Origin(p, s, lead'[p][s])
    <2>1. CASE p # PhoneOf[c]
      <3>1. lead'[p] = lead[p]
        BY <1>4, <2>1, InsertLead, LeadWriteType
      <3> QED
        BY <1>1, <3>1 DEF LeadsTold
    <2>2. CASE p = PhoneOf[c]
      <3>1. lead'[p] = Mine(c)
        BY <1>4, <2>2, InsertLead, LeadWriteType
      <3> QED
        BY <1>1, <2>2, <3>1, MineTold
    <2> QED
      BY <2>1, <2>2
  <1> QED
    BY <1>2, <1>3, <1>4, LeadWriters

\* A lead once made stays, and no slot of it is forgotten.
LEMMA LeadsKeep ==
  ASSUME IInv, [Next]_vars, NEW p \in Phones, lead[p] # None
  PROVE  /\ lead'[p] # None
         /\ \A s \in Slots : lead[p][s] # None => lead'[p][s] # None
  <1> USE DEF IInv
  <1>1. CASE lead' = lead
    BY <1>1
  <1>2. ASSUME NEW c \in Calls, MergesLead(c), p = PhoneOf[c]
        PROVE  /\ lead'[p] # None
               /\ \A s \in Slots : lead[p][s] # None => lead'[p][s] # None
    <2>1. lead'[p] \in Slotted /\ lead'[p] = Merge(call[c].seen, Mine(c))
      BY <1>2, MergeLead, LeadWriteType
    <2>2. call[c].seen = lead[p]
      BY <1>2, MergeLead DEF Locked
    <2> QED
      BY <1>2, <2>1, <2>2, MergeLead, NoneAssumption
  <1>3. ASSUME NEW c \in Calls, MergesLead(c), p # PhoneOf[c]
        PROVE  lead'[p] = lead[p]
    BY <1>3, MergeLead, LeadWriteType
  <1>4. ASSUME NEW c \in Calls, InsertsLead(c)
        PROVE  lead'[p] = lead[p]
    BY <1>4, InsertLead, LeadWriteType
  <1> QED
    BY <1>1, <1>2, <1>3, <1>4, LeadWriters

-----------------------------------------------------------------------------
(* The locks. *)

\* A step that neither takes a lock nor writes a lead.
LEMMA LockedKeeps ==
  ASSUME IInv, lead' = lead,
         \A c \in Calls : call'[c].pc = "merge" => call[c].pc = "merge" /\ call'[c].seen = call[c].seen
  PROVE  Locked'
  BY DEF IInv, Locked

LEMMA LockedStep ==
  ASSUME IInv, [Next]_vars
  PROVE  Locked'
  <1> USE DEF IInv
  <1> DEFINE Free == \A c \in Calls : call'[c].pc = "merge"
                        => call[c].pc = "merge" /\ call'[c].seen = call[c].seen
  <1>1. ASSUME NEW c \in Calls, NEW pc, pc # "merge", NEW ending, NEW raw, NEW seen,
               Moved(c, pc, ending, raw, seen)
        PROVE  Free
    BY <1>1 DEF Moved, Only
  <1>2. ASSUME NEW c \in Calls, Start(c) PROVE Free /\ lead' = lead
    <2>1. Only(c) /\ call'[c].pc = "talking"
      BY <1>2, StartEffect
    <2> QED
      BY <1>2, <2>1 DEF Only, Start
  <1>3. ASSUME NEW c \in Calls, NEW act \in Acts[c], Turn(c, act) PROVE Free /\ lead' = lead
    <2>1. Only(c) /\ call'[c].pc = "lead"
      BY <1>3, TurnEffect
    <2> QED
      BY <1>3, <2>1 DEF Only, Turn
  <1>4. ASSUME NEW c \in Calls, NEW raw \in BOOLEAN, End(c, raw) PROVE Free /\ lead' = lead
    <2>1. Moved(c, "lead", TRUE, raw, call[c].seen)
      BY <1>4, EndEffect
    <2>2. Free
      BY <1>1, <2>1
    <2> QED
      BY <1>4, <2>2 DEF End
  <1>5. ASSUME NEW c \in Calls, RowSaves(c) PROVE Free /\ lead' = lead
    BY <1>1, <1>5, SavesEffect DEF RowSaves
  <1>6. ASSUME NEW c \in Calls, RowFails(c) PROVE Free /\ lead' = lead
    BY <1>1, <1>6, RowFailsEffect DEF RowFails
  <1>7. ASSUME NEW c \in Calls, LogSaves(c) PROVE Free /\ lead' = lead
    BY <1>1, <1>7, LogSavesEffect DEF LogSaves
  <1>8. ASSUME NEW c \in Calls, LogFails(c) PROVE Free /\ lead' = lead
    BY <1>1, <1>8, LogFailsEffect DEF LogFails
  <1>9. ASSUME NEW c \in Calls, Operates(c) PROVE Free /\ lead' = lead
    BY <1>9 DEF Operates, SetGolden, SetLifecycle
  <1>10. ASSUME Crash \/ Tick PROVE Free /\ lead' = lead
    BY <1>10, CrashEffect, TickEffect DEF Aged, Crash, Tick
  <1>11. ASSUME NEW c \in Calls, LeadSelect(c) PROVE Locked'
    <2>1. lead' = lead
      BY <1>11 DEF LeadSelect
    <2>2. CASE Moved(c, "insert", call[c].ending, call[c].raw, call[c].seen)
      BY <1>1, <2>1, <2>2, LockedKeeps
    <2>3. CASE /\ lead[PhoneOf[c]] # None
               /\ \A d \in Calls : PhoneOf[d] = PhoneOf[c] => call[d].pc # "merge"
               /\ Moved(c, "merge", call[c].ending, call[c].raw, lead[PhoneOf[c]])
      BY <2>1, <2>3 DEF Locked, Moved, Only
    <2> QED
      BY <1>11, <2>2, <2>3, SelectEffect
  <1>12. ASSUME NEW c \in Calls, MergesLead(c), NEW pc, pc # "merge", NEW seen,
                Moved(c, pc, call[c].ending, call[c].raw, seen)
         PROVE  Locked'
    <2>1. Free
      BY <1>1, <1>12
    <2>2. \A d \in Calls : call'[d].pc = "merge" => PhoneOf[d] # PhoneOf[c]
      <3>1. call[c].pc = "merge"
        BY <1>12, MergeLead
      <3> QED
        BY <1>12, <2>1, <3>1 DEF Moved, Only, Locked
    <2>3. \A d \in Calls : PhoneOf[d] # PhoneOf[c] => lead'[PhoneOf[d]] = lead[PhoneOf[d]]
      BY <1>12, MergeLead, LeadWriteType, Typed
    <2> QED
      BY <2>1, <2>2, <2>3 DEF Locked
  <1>13. ASSUME NEW c \in Calls, InsertsLead(c), Free
         PROVE  Locked'
    <2>2. \A d \in Calls : call'[d].pc = "merge" => PhoneOf[d] # PhoneOf[c]
      BY <1>13, InsertLead DEF Locked
    <2>3. \A d \in Calls : PhoneOf[d] # PhoneOf[c] => lead'[PhoneOf[d]] = lead[PhoneOf[d]]
      BY <1>13, InsertLead, LeadWriteType, Typed
    <2> QED
      BY <1>13, <2>2, <2>3 DEF Locked
  <1>14. ASSUME NEW c \in Calls, LeadMerge(c) PROVE Locked'
    BY <1>12, <1>14, MergeWrites
  <1>15. ASSUME NEW c \in Calls, LeadInsert(c) PROVE Locked'
    <2>1. InsertsLead(c) /\ Free
      BY <1>1, <1>15, InsertWrites
    <2> QED
      BY <1>13, <2>1
  <1>16. ASSUME NEW c \in Calls, LeadFails(c) PROVE Locked'
    <2>1. PICK pc \in {"talking", "save"} :
            Moved(c, pc, call[c].ending, call[c].raw, Nothing)
      BY <1>16, FailsEffect
    <2>2. Free
      BY <1>1, <2>1
    <2>3. CASE MergesLead(c)
      BY <1>12, <2>1, <2>3
    <2>4. CASE InsertsLead(c)
      BY <1>13, <2>2, <2>4
    <2>5. CASE lead' = lead
      BY <2>2, <2>5, LockedKeeps
    <2> QED
      BY <1>16, <2>3, <2>4, <2>5, FailsEffect
  <1>17. CASE Free /\ lead' = lead
    BY <1>17, LockedKeeps
  <1>18. CASE UNCHANGED vars
    BY <1>18 DEF vars, Locked
  <1>19. CASE Next
    <2> HIDE DEF Free, IInv
    <2> QED
      BY <1>2, <1>3, <1>4, <1>16, <1>5, <1>6, <1>7, <1>8, <1>9, <1>10, <1>11, <1>14, <1>15,
         <1>17, <1>19 DEF Next, CallSteps
  <1> QED
    BY <1>18, <1>19

-----------------------------------------------------------------------------
(* The end of a call. *)

\* A step that brings no call to the review of its end.
Away ==
  \A c \in Calls : call'[c].pc \in {"review", "over"} =>
    call[c].pc \in {"review", "over"} /\ call'[c].ending = call[c].ending

LEMMA AwayMove ==
  ASSUME NEW c \in Calls, NEW pc, pc \notin {"review", "over"}, NEW ending, NEW raw, NEW seen,
         Moved(c, pc, ending, raw, seen)
  PROVE  Away
  BY DEF Moved, Only, Away

LEMMA ClosingStep ==
  ASSUME IInv, [Next]_vars
  PROVE  Closing'
  <1>0. TypeOK /\ Closing
    BY DEF IInv
  <1>1. ASSUME Away PROVE Closing'
    BY <1>0, <1>1 DEF Away, Closing
  <1>2. ASSUME NEW c \in Calls, Start(c) PROVE Away
    BY <1>0, <1>2, StartEffect DEF Only, Away
  <1>3. ASSUME NEW c \in Calls, NEW act \in Acts[c], Turn(c, act) PROVE Away
    <2>1. Only(c) /\ call'[c].pc = "lead"
      BY <1>0, <1>3, TurnEffect
    <2> QED
      BY <2>1 DEF Only, Away
  <1>4. ASSUME NEW c \in Calls, NEW raw \in BOOLEAN, End(c, raw) PROVE Away
    BY <1>0, <1>4, EndEffect, AwayMove
  <1>5. ASSUME NEW c \in Calls, LeadSelect(c) PROVE Away
    BY <1>0, <1>5, SelectEffect, AwayMove
  <1>6. ASSUME NEW c \in Calls, LeadMerge(c) PROVE Away
    BY <1>0, <1>6, MergeWrites, AwayMove
  <1>7. ASSUME NEW c \in Calls, LeadInsert(c) PROVE Away
    BY <1>0, <1>7, InsertWrites, AwayMove
  <1>8. ASSUME NEW c \in Calls, LeadFails(c) PROVE Away
    BY <1>0, <1>8, FailsEffect, AwayMove
  <1>9. ASSUME NEW c \in Calls, RowFails(c) \/ LogFails(c) PROVE Away
    BY <1>0, <1>9, RowFailsEffect, LogFailsEffect, AwayMove
  <1>10. ASSUME NEW c \in Calls, RowSaves(c) PROVE Closing'
    <2>1. CASE call[c].ending /\ Moved(c, "review", call[c].ending, call[c].raw, call[c].seen)
      BY <1>0, <2>1 DEF Moved, Only, Closing
    <2>2. CASE Moved(c, "talking", call[c].ending, call[c].raw, call[c].seen)
      BY <1>1, <2>2, AwayMove
    <2> QED
      BY <1>0, <1>10, <2>1, <2>2, SavesEffect
  <1>11. ASSUME NEW c \in Calls, LogSaves(c) PROVE Closing'
    <2>1. Moved(c, "over", call[c].ending, call[c].raw, call[c].seen) /\ call[c].pc = "review"
      BY <1>0, <1>11, LogSavesEffect
    <2> QED
      BY <1>0, <2>1 DEF Moved, Only, Closing
  <1>12. ASSUME NEW c \in Calls, Operates(c) PROVE Away
    BY <1>12 DEF Operates, SetGolden, SetLifecycle, Away
  <1>13. ASSUME Crash \/ Tick PROVE Away
    BY <1>0, <1>13, CrashEffect, TickEffect DEF Aged, Away
  <1>14. CASE UNCHANGED vars
    BY <1>1, <1>14 DEF vars, Away
  <1>15. CASE Next
    BY <1>1, <1>2, <1>3, <1>4, <1>5, <1>6, <1>7, <1>8, <1>9, <1>10, <1>11, <1>12, <1>13, <1>15
       DEF Next, CallSteps
  <1> QED
    BY <1>14, <1>15

\* A step after which no call is further past its merge than before.
Short ==
  \A c \in Calls :
    (call'[c].pc \in {"save", "review", "over"} /\ call'[c].ending /\ call'[c].raw) =>
      /\ call[c].pc \in {"save", "review", "over"} /\ call[c].ending /\ call[c].raw
      /\ call'[c].heard = call[c].heard

LEMMA ShortMove ==
  ASSUME NEW c \in Calls, NEW pc, NEW seen,
         \/ pc \notin {"save", "review", "over"}
         \/ call[c].pc \in {"save", "review", "over"} \/ ~call[c].ending,
         Moved(c, pc, call[c].ending, call[c].raw, seen)
  PROVE  Short
  BY DEF Moved, Only, Short

LEMMA ShortKeeps ==
  ASSUME IInv, [Next]_vars, Short
  PROVE  Merged'
  <1> SUFFICES ASSUME NEW c \in Calls, call'[c].pc \in {"save", "review", "over"},
                      call'[c].ending, call'[c].raw
               PROVE  /\ lead'[PhoneOf[c]] # None
                      /\ \A s \in call'[c].heard : lead'[PhoneOf[c]][s] # None
    BY DEF Merged
  <1>1. /\ call[c].pc \in {"save", "review", "over"} /\ call[c].ending /\ call[c].raw
        /\ call'[c].heard = call[c].heard
    BY DEF Short
  <1>2. /\ lead[PhoneOf[c]] # None
        /\ \A s \in call[c].heard : lead[PhoneOf[c]][s] # None
    BY <1>1 DEF IInv, Merged
  <1>3. call[c].heard \subseteq Slots /\ PhoneOf[c] \in Phones
    BY Typed DEF IInv
  <1>4. /\ lead'[PhoneOf[c]] # None
        /\ \A s \in Slots : lead[PhoneOf[c]][s] # None => lead'[PhoneOf[c]][s] # None
    BY <1>2, <1>3, LeadsKeep
  <1> QED
    BY <1>1, <1>2, <1>3, <1>4

\* The two steps that write a lead: what the call has heard is in it.
LEMMA WriteMerges ==
  ASSUME IInv, [Next]_vars, NEW c \in Calls, LeadMerge(c) \/ LeadInsert(c)
  PROVE  Merged'
  <1>0. TypeOK
    BY DEF IInv
  <1>1. PICK seen : Moved(c, "save", call[c].ending, call[c].raw, seen)
    BY <1>0, MergeWrites, InsertWrites
  <1>2. /\ lead'[PhoneOf[c]] # None
        /\ \A s \in Slots : Mine(c)[s] # None => lead'[PhoneOf[c]][s] # None
    <2>1. CASE LeadMerge(c)
      <3>1. lead'[PhoneOf[c]] = Merge(call[c].seen, Mine(c)) /\ lead'[PhoneOf[c]] \in Slotted
        BY <1>0, <2>1, MergeWrites, MergeLead, LeadWriteType
      <3> QED
        BY <1>0, <2>1, <3>1, MergeWrites, MergeLead, NoneAssumption
    <2>2. CASE LeadInsert(c)
      <3>1. lead'[PhoneOf[c]] = Mine(c) /\ Mine(c) \in Slotted
        BY <1>0, <2>2, InsertWrites, InsertLead, LeadWriteType
      <3> QED
        BY <3>1, NoneAssumption
    <2> QED
      BY <2>1, <2>2
  <1>3. ASSUME call[c].ending, call[c].raw, NEW s \in call[c].heard
        PROVE  lead'[PhoneOf[c]][s] # None
    <2>1. s \in Slots
      BY <1>0, Typed
    <2>2. Mine(c)[s] = call[c].known[s]
      BY <1>0, <1>3, MineEffect
    <2>3. call[c].known[s] = Tells[c][s] /\ s \in DOMAIN Tells[c]
      BY <2>1 DEF IInv, Learned
    <2>4. Mine(c)[s] # None
      BY <2>2, <2>3, TellsAssumption
    <2> QED
      BY <1>2, <2>1, <2>4
  <1> SUFFICES ASSUME NEW d \in Calls, call'[d].pc \in {"save", "review", "over"},
                      call'[d].ending, call'[d].raw
               PROVE  /\ lead'[PhoneOf[d]] # None
                      /\ \A s \in call'[d].heard : lead'[PhoneOf[d]][s] # None
    BY DEF Merged
  <1>4. CASE d = c
    BY <1>1, <1>2, <1>3, <1>4 DEF Moved
  <1>5. CASE d # c
    <2>1. call'[d] = call[d]
      BY <1>1, <1>5 DEF Moved, Only
    <2>2. /\ lead[PhoneOf[d]] # None
          /\ \A s \in call[d].heard : lead[PhoneOf[d]][s] # None
      BY <2>1 DEF IInv, Merged
    <2>3. call[d].heard \subseteq Slots /\ PhoneOf[d] \in Phones
      BY <1>0, Typed
    <2> QED
      BY <2>1, <2>2, <2>3, LeadsKeep
  <1> QED
    BY <1>4, <1>5

LEMMA MergedStep ==
  ASSUME IInv, [Next]_vars
  PROVE  Merged'
  <1>0. TypeOK
    BY DEF IInv
  <1>1. ASSUME NEW c \in Calls, Start(c) PROVE Short
    BY <1>0, <1>1, StartEffect DEF Only, Short
  <1>2. ASSUME NEW c \in Calls, NEW act \in Acts[c], Turn(c, act) PROVE Short
    <2>1. Only(c) /\ call'[c].pc = "lead"
      BY <1>0, <1>2, TurnEffect
    <2> QED
      BY <2>1 DEF Only, Short
  <1>3. ASSUME NEW c \in Calls, NEW raw \in BOOLEAN, End(c, raw) PROVE Short
    <2>1. Moved(c, "lead", TRUE, raw, call[c].seen)
      BY <1>0, <1>3, EndEffect
    <2> QED
      BY <2>1 DEF Moved, Only, Short
  <1>4. ASSUME NEW c \in Calls, LeadSelect(c) PROVE Short
    BY <1>0, <1>4, SelectEffect, ShortMove
  <1>5. ASSUME NEW c \in Calls, LeadFails(c) PROVE Short
    BY <1>0, <1>5, FailsEffect, ShortMove
  <1>6. ASSUME NEW c \in Calls, RowSaves(c) PROVE Short
    BY <1>0, <1>6, SavesEffect, ShortMove
  <1>7. ASSUME NEW c \in Calls, RowFails(c) \/ LogFails(c) PROVE Short
    BY <1>0, <1>7, RowFailsEffect, LogFailsEffect, ShortMove
  <1>8. ASSUME NEW c \in Calls, LogSaves(c) PROVE Short
    BY <1>0, <1>8, LogSavesEffect, ShortMove
  <1>9. ASSUME NEW c \in Calls, Operates(c) PROVE Short
    BY <1>9 DEF Operates, SetGolden, SetLifecycle, Short
  <1>10. ASSUME Crash \/ Tick PROVE Short
    BY <1>0, <1>10, CrashEffect, TickEffect DEF Aged, Short
  <1>11. CASE UNCHANGED vars
    BY <1>11, ShortKeeps DEF vars, Short
  <1>12. CASE Next
    BY <1>1, <1>2, <1>3, <1>4, <1>5, <1>6, <1>7, <1>8, <1>9, <1>10, <1>12, ShortKeeps, WriteMerges
       DEF Next, CallSteps
  <1> QED
    BY <1>11, <1>12

LEMMA InvStep ==
  ASSUME IInv, [Next]_vars
  PROVE  IInv'
  <1>1. TypeOK'
    BY TypeStep DEF IInv
  <1> QED
    BY <1>1, LearnedStep, LeadsToldStep, LockedStep, ClosingStep, MergedStep DEF IInv

\* Whatever calls of a phone overlap, in the store or on the line, what one was
\* told and ended with the phone is remembered: as it heard it, or as another
\* caller of that phone did.  It includes the type invariant.
THEOREM LeadsRemembered == Spec => []LeadsRemember
  <1>1. IInv => LeadsRemember
    <2> SUFFICES ASSUME IInv, NEW c \in Calls, NEW s \in call[c].heard,
                        call[c].pc = "over", call[c].raw
                 PROVE  /\ lead[PhoneOf[c]] # None
                        /\ \E d \in Calls :
                             /\ PhoneOf[d] = PhoneOf[c] /\ call[d].raw
                             /\ lead[PhoneOf[c]][s] = call[d].known[s]
                             /\ lead[PhoneOf[c]][s] # None
      BY DEF IInv, LeadsRemember
    <2>1. lead[PhoneOf[c]] # None /\ lead[PhoneOf[c]][s] # None
      BY DEF IInv, Closing, Merged
    <2>2. s \in Slots /\ PhoneOf[c] \in Phones
      BY Typed DEF IInv
    <2>3. PICK f \in Calls : /\ PhoneOf[f] = PhoneOf[c] /\ call[f].raw
                             /\ s \in call[f].heard /\ lead[PhoneOf[c]][s] = Tells[f][s]
      BY <2>1, <2>2 DEF IInv, LeadsTold, Origin
    <2>4. call[f].known[s] = Tells[f][s]
      BY <2>2, <2>3 DEF IInv, Learned
    <2> QED
      BY <2>1, <2>3, <2>4
  <1> QED
    BY <1>1, InitInv, InvStep, PTL DEF Spec

-----------------------------------------------------------------------------
(* Calls whose end has answered. *)

\* Such a call is over, and no step of a call starts there.
Finished == TypeOK /\ \A c \in ended : call[c].pc = "over"

LEMMA CallStepsBusy ==
  ASSUME NEW c \in Calls, CallSteps(c)
  PROVE  call[c].pc # "over"
  BY DEF CallSteps, Start, Turn, End, LeadSelect, LeadMerge, LeadInsert, LeadFails, RowSaves,
     RowFails, LogSaves, LogFails, MergesLead, InsertsLead, SavesRow

\* What the step of one call leaves of all the others.
LEMMA CallStepsOnly ==
  ASSUME TypeOK, NEW c \in Calls, CallSteps(c)
  PROVE  /\ Only(c) /\ \A d \in Calls \ {c} : row'[d] = row[d] /\ queue'[d] = queue[d]
         /\ ended' = ended \/ (ended' = ended \cup {c} /\ call'[c].pc = "over")
  <1> DEFINE Others == /\ Only(c)
                       /\ \A d \in Calls \ {c} : row'[d] = row[d] /\ queue'[d] = queue[d]
  <1>1. ASSUME NEW pc, NEW ending, NEW raw, NEW seen, Moved(c, pc, ending, raw, seen)
        PROVE  Only(c)
    BY <1>1 DEF Moved
  <1>2. CASE Start(c)
    BY <1>2, StartEffect DEF Start
  <1>3. ASSUME NEW act \in Acts[c], Turn(c, act) PROVE Others /\ ended' = ended
    BY <1>3, TurnEffect DEF Turn
  <1>4. ASSUME NEW raw \in BOOLEAN, End(c, raw) PROVE Others /\ ended' = ended
    BY <1>1, <1>4, EndEffect DEF End
  <1>5. CASE LeadSelect(c)
    BY <1>1, <1>5, SelectEffect DEF LeadSelect
  <1>6. CASE LeadMerge(c)
    BY <1>1, <1>6, MergeWrites DEF LeadMerge
  <1>7. CASE LeadInsert(c)
    BY <1>1, <1>7, InsertWrites DEF LeadInsert
  <1>8. CASE LeadFails(c)
    BY <1>1, <1>8, FailsEffect DEF LeadFails
  <1>9. CASE RowSaves(c)
    BY <1>1, <1>9, SavesEffect DEF RowSaves
  <1>10. CASE RowFails(c)
    BY <1>1, <1>10, RowFailsEffect DEF RowFails
  <1>11. CASE LogSaves(c)
    <2>1. Moved(c, "over", call[c].ending, call[c].raw, call[c].seen)
      BY <1>11, LogSavesEffect
    <2> QED
      BY <1>11, <2>1, LogSavesEffect DEF LogSaves, Moved
  <1>12. CASE LogFails(c)
    BY <1>1, <1>12, LogFailsEffect DEF LogFails
  <1> QED
    BY <1>2, <1>3, <1>4, <1>5, <1>6, <1>7, <1>8, <1>9, <1>10, <1>11, <1>12 DEF CallSteps

LEMMA FinishedStep ==
  ASSUME Finished, [Next]_vars
  PROVE  Finished'
  <1>0. TypeOK /\ ended \subseteq Calls /\ TypeOK'
    BY TypeStep DEF Finished, TypeOK
  <1>1. ASSUME NEW c \in Calls, CallSteps(c) PROVE Finished'
    BY <1>0, <1>1, CallStepsBusy, CallStepsOnly DEF Finished, Only
  <1>2. ASSUME NEW c \in Calls, Operates(c) PROVE Finished'
    BY <1>0, <1>2 DEF Operates, SetGolden, SetLifecycle, Finished
  <1>3. ASSUME Crash \/ Tick PROVE Finished'
    <2>1. Aged /\ ended' = ended
      BY <1>0, <1>3, CrashEffect, TickEffect DEF Crash, Tick
    <2> QED
      BY <1>0, <2>1 DEF Aged, Finished, Sessions
  <1>4. CASE UNCHANGED vars
    BY <1>0, <1>4 DEF vars, Finished
  <1> QED
    BY <1>1, <1>2, <1>3, <1>4 DEF Next

\* No step but the operator's touches the row or the escalation of a call whose
\* end has answered: no late upsert, no overlapping call, no dying server.
THEOREM FinishedCallsStand == Spec => FinishedStands
  <1>1. Init => Finished
    BY InitInv DEF IInv, Init, Finished
  <1>2. ASSUME Finished, [Next]_vars, NEW c \in ended
        PROVE  /\ row'[c].outcome = row[c].outcome
               /\ row'[c].golden # row[c].golden => SetGolden(c, row'[c].golden)
               /\ queue'[c] # queue[c] => SetLifecycle(c, queue'[c])
    <2>0. TypeOK /\ c \in Calls /\ call[c].pc = "over"
      BY <1>2 DEF Finished, TypeOK
    <2>1. ASSUME NEW d \in Calls, CallSteps(d)
          PROVE  row'[c] = row[c] /\ queue'[c] = queue[c]
      BY <2>0, <2>1, CallStepsBusy, CallStepsOnly
    <2>2. ASSUME NEW d \in Calls, NEW golden \in BOOLEAN, SetGolden(d, golden)
          PROVE  /\ row'[c].outcome = row[c].outcome /\ queue'[c] = queue[c]
                 /\ row'[c].golden # row[c].golden => SetGolden(c, row'[c].golden)
      <3>1. queue'[c] = queue[c]
        BY <2>2 DEF SetGolden
      <3>2. CASE d = c
        BY <2>0, <2>2, <3>1, <3>2, GoldenEffect
      <3>3. CASE d # c
        <4>1. row'[c] = row[c]
          BY <2>0, <2>2, <3>3, GoldenEffect
        <4> QED
          BY <3>1, <4>1
      <3> QED
        BY <3>2, <3>3
    <2>3. ASSUME NEW d \in Calls, NEW lifecycle \in Lifecycles, SetLifecycle(d, lifecycle)
          PROVE  /\ row'[c] = row[c]
                 /\ queue'[c] # queue[c] => SetLifecycle(c, queue'[c])
      <3>1. row'[c] = row[c]
        BY <2>3 DEF SetLifecycle
      <3>2. CASE d = c
        BY <2>0, <2>3, <3>1, <3>2, LifecycleEffect
      <3>3. CASE d # c
        <4>1. queue'[c] = queue[c]
          BY <2>0, <2>3, <3>3, LifecycleEffect
        <4> QED
          BY <3>1, <4>1
      <3> QED
        BY <3>2, <3>3
    <2>4. ASSUME Crash
          PROVE  row'[c] = row[c] /\ queue'[c] = queue[c]
      BY <2>4 DEF Crash
    <2>5. ASSUME Tick
          PROVE  /\ row'[c].outcome = row[c].outcome /\ row'[c].golden = row[c].golden
                 /\ queue'[c] = queue[c]
      BY <2>0, <2>5, TickEffect DEF Tick
    <2>6. CASE UNCHANGED vars
      BY <2>6 DEF vars
    <2> QED
      BY <1>2, <2>1, <2>2, <2>3, <2>4, <2>5, <2>6 DEF Next, Operates
  <1>3. Finished /\ [Next]_vars => Finished'
    BY FinishedStep
  <1>4. Finished /\ [Next]_vars =>
          [\A c \in ended :
             /\ row'[c].outcome = row[c].outcome
             /\ row'[c].golden # row[c].golden => SetGolden(c, row'[c].golden)
             /\ queue'[c] # queue[c] => SetLifecycle(c, queue'[c])]_vars
    BY <1>2
  <1> QED
    BY <1>1, <1>3, <1>4, PTL DEF Spec, FinishedStands
=============================================================================
