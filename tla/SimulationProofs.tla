-------------------------- MODULE SimulationProofs --------------------------
(***************************************************************************)
(* Theorems about the simulated calls, for every set of personas, of the   *)
(* agent's moves, of what the model proposes and of watchers, and for      *)
(* every turn budget.                                                      *)
(***************************************************************************)
EXTENDS Simulation, TLAPS

-----------------------------------------------------------------------------
(* The feelings of a prospect. *)

State == [trust : Percent, need : Percent, intent : Percent, patience : Percent,
          walked : BOOLEAN, committed : Tiers \cup {None}, turns : Nat]

LEMMA Clamps ==
  /\ \A n \in Int : Clamp(n) \in Percent
  /\ \A n \in Int, m \in Nat : n <= m => Clamp(n) <= m
  /\ \A d \in Int : ClampDelta(d) \in Int /\ ClampDelta(d) <= MaxWarming
  BY DEF Clamp, ClampDelta, Percent, Lesser, Greater, MaxWarming, MaxCooling

LEMMA TierNames == Tiers = {"callback", "consultation", "trial", "enrollment"}
  BY DEF Tiers, Ladder

LEMMA Ranks ==
  /\ Rank("callback") = 1 /\ Rank("consultation") = 2
  /\ Rank("trial") = 3 /\ Rank("enrollment") = 4
  <1>1. /\ DOMAIN Ladder = {1, 2, 3, 4}
        /\ Ladder[1] = "callback" /\ Ladder[2] = "consultation"
        /\ Ladder[3] = "trial" /\ Ladder[4] = "enrollment"
    BY DEF Ladder
  <1> HIDE DEF Ladder
  <1> QED
    BY <1>1 DEF Rank

\* Patience is all a push takes from a prospect.
LEMMA Depletes ==
  ASSUME NEW s \in State, NEW act
  PROVE  /\ DepletePatience(s, act) \in State
         /\ DepletePatience(s, act).intent = s.intent
         /\ DepletePatience(s, act).turns = s.turns
         /\ DepletePatience(s, act).walked = s.walked
         /\ DepletePatience(s, act).committed = s.committed
  <1> DEFINE n == IF act \in {"attempt_close", "pitch"} /\ s.trust < 50 THEN 21 ELSE 3
  <1>1. s.patience - n \in Int
    BY DEF State, Percent
  <1>2. Clamp(s.patience - n) \in Percent
    BY <1>1, Clamps
  <1>3. DepletePatience(s, act) = [s EXCEPT !.patience = Clamp(s.patience - n)]
    BY DEF DepletePatience
  <1> HIDE DEF n
  <1> QED
    BY <1>2, <1>3 DEF State

\* Conviction alone lifts the intent to 40 at most.
LEMMA Convinced ==
  ASSUME NEW s \in State, NEW p \in Persona
  PROVE  Conviction(s, p) \in 0..40
  <1>1. s.trust + s.need - 90 \in Int
    BY DEF State, Percent
  <1>2. Clamp(s.trust + s.need - 90) \in Percent
    BY <1>1, Clamps
  <1> QED
    BY <1>2 DEF Conviction, Lesser, Percent

\* A turn warms the intent by 14, or by 28 at most to where conviction lifts it.
Warms(i, j) == j <= i + 14 \/ (j <= i + 28 /\ j <= 40)

LEMMA SoftDeltas ==
  ASSUME NEW s \in State, NEW p \in Persona, NEW d \in Delta, d # None
  PROVE  /\ ApplySoftDeltas(s, p, d) \in State
         /\ ApplySoftDeltas(s, p, d).turns = s.turns
         /\ ApplySoftDeltas(s, p, d).walked = s.walked
         /\ ApplySoftDeltas(s, p, d).committed = s.committed
         /\ Warms(s.intent, ApplySoftDeltas(s, p, d).intent)
  <1> DEFINE t == Clamp(s.trust + ClampDelta(d.trust))
             n == Clamp(s.need + ClampDelta(d.need))
             i == Clamp(s.intent + ClampDelta(d.intent))
             w == [s EXCEPT !.trust = t, !.need = n, !.intent = i]
             g == Conviction(w, p)
             j == IF g > i THEN i + Lesser(MaxWarming, g - i) ELSE i
  <1>1. d.trust \in Int /\ d.need \in Int /\ d.intent \in Int
    BY DEF Delta
  <1>2. /\ s.trust + ClampDelta(d.trust) \in Int /\ s.need + ClampDelta(d.need) \in Int
        /\ s.intent + ClampDelta(d.intent) \in Int
        /\ s.intent + ClampDelta(d.intent) <= s.intent + 14 /\ s.intent + 14 \in Nat
    <2>1. /\ ClampDelta(d.trust) \in Int /\ ClampDelta(d.need) \in Int
          /\ ClampDelta(d.intent) \in Int /\ ClampDelta(d.intent) <= 14
      BY <1>1, Clamps DEF MaxWarming
    <2>2. s.trust \in Nat /\ s.need \in Nat /\ s.intent \in Nat
      BY DEF State, Percent
    <2> QED
      BY <2>1, <2>2
  <1>3. t \in Percent /\ n \in Percent /\ i \in Percent /\ i <= s.intent + 14
    BY <1>2, Clamps
  <1>4. Warmed(s, d) = w
    BY DEF Warmed
  <1> HIDE DEF t, n, i
  <1>5. /\ w \in State /\ w.intent = i
        /\ w.turns = s.turns /\ w.walked = s.walked /\ w.committed = s.committed
    BY <1>3 DEF State
  <1> HIDE DEF w
  <1>6. g \in 0..40
    BY <1>5, Convinced
  <1>7. ApplySoftDeltas(s, p, d) = [w EXCEPT !.intent = j]
    BY <1>4, <1>5 DEF ApplySoftDeltas
  <1> HIDE DEF g
  <1>8. j \in Percent /\ Warms(s.intent, j)
    BY <1>3, <1>6 DEF Lesser, MaxWarming, Percent, Warms, State
  <1> HIDE DEF j
  <1> QED
    BY <1>5, <1>7, <1>8 DEF State

\* What the gate sells is what was offered, to one who can have it and wants it.
LEMMA Buys ==
  ASSUME NEW s \in State, NEW p \in Persona, NEW offer, BuyGate(s, p, offer) # None
  PROVE  /\ BuyGate(s, p, offer) = offer /\ offer \in Tiers
         /\ Rank(offer) <= CeilingRank(p) /\ p.budget >= Floor[offer].budget
         /\ s.intent >= Floor[offer].intent
  BY DEF BuyGate, Meets, Soft

LEMMA BuyType ==
  ASSUME NEW s, NEW p, NEW offer
  PROVE  BuyGate(s, p, offer) \in Tiers \cup {None}
  BY DEF BuyGate

\* What a turn of the prospect does: it goes on, walks, or takes the offer.
Earned(t, p, m) ==
  /\ t.committed = Offered(m)
  /\ t.committed \in Tiers
  /\ Rank(t.committed) <= CeilingRank(p) /\ p.budget >= Floor[t.committed].budget
  /\ ~t.walked

LEMMA Responds ==
  ASSUME NEW s \in State, s.committed = None, ~s.walked, NEW p \in Persona, NEW m,
         NEW d \in Delta
  PROVE  LET t == Respond(s, p, m, d) IN
         /\ t \in State /\ t.turns = s.turns + 1
         /\ Warms(s.intent, t.intent)
         /\ t.committed # None => Earned(t, p, m) /\ t.intent >= Floor[t.committed].intent
  <1> DEFINE r     == DepletePatience(s, m.act)
             tired == [r EXCEPT !.turns = r.turns + 1]
             moved == IF d = None THEN tired ELSE ApplySoftDeltas(tired, p, d)
             b     == BuyGate(moved, p, Offered(m))
             t     == Respond(s, p, m, d)
  <1>1. /\ r \in State /\ r.intent = s.intent /\ r.turns = s.turns
        /\ r.walked = s.walked /\ r.committed = s.committed
    BY Depletes
  <1>2. t = IF tired.patience = 0 /\ tired.committed = None THEN [tired EXCEPT !.walked = TRUE]
            ELSE [moved EXCEPT !.committed = b]
    BY DEF Respond
  <1> HIDE DEF r, t
  <1>3. /\ tired \in State /\ tired.intent = s.intent /\ tired.turns = s.turns + 1
        /\ tired.walked = FALSE /\ tired.committed = None
    BY <1>1 DEF State
  <1> HIDE DEF tired
  <1>4. /\ moved \in State /\ moved.turns = s.turns + 1
        /\ moved.walked = FALSE /\ moved.committed = None
        /\ Warms(s.intent, moved.intent)
    <2>1. CASE d = None
      <3>1. s.intent \in Nat
        BY DEF State, Percent
      <3> QED
        BY <1>3, <2>1, <3>1 DEF Warms
    <2>2. CASE d # None
      BY <1>3, <2>2, SoftDeltas
    <2> QED
      BY <2>1, <2>2
  <1> HIDE DEF moved
  <1>5. b \in Tiers \cup {None}
    BY BuyType
  <1>6. CASE tired.patience = 0 /\ tired.committed = None
    <2>1. /\ t \in State /\ t.turns = s.turns + 1 /\ t.intent = s.intent /\ t.committed = None
      BY <1>2, <1>3, <1>6 DEF State
    <2>2. s.intent \in Nat
      BY DEF State, Percent
    <2> QED
      BY <2>1, <2>2 DEF t, Warms
  <1>7. CASE ~(tired.patience = 0 /\ tired.committed = None)
    <2>1. t = [moved EXCEPT !.committed = b]
      BY <1>2, <1>7
    <2>2. b # None =>
            /\ b = Offered(m) /\ b \in Tiers
            /\ Rank(b) <= CeilingRank(p) /\ p.budget >= Floor[b].budget
            /\ moved.intent >= Floor[b].intent
      BY <1>4, Buys
    <2> HIDE DEF b
    <2>3. /\ t \in State /\ t.turns = s.turns + 1 /\ t.intent = moved.intent
          /\ t.committed = b /\ t.walked = FALSE
      BY <1>4, <1>5, <2>1 DEF State
    <2> QED
      BY <1>4, <2>2, <2>3 DEF t, Earned
  <1> QED
    BY <1>6, <1>7

LEMMA Halfway ==
  ASSUME NEW a \in Percent, NEW b \in Percent
  PROVE  Clamp(a + (b - a) \div 2) \in Percent
  <1>1. a + (b - a) \div 2 \in Int
    BY DEF Percent
  <1> QED
    BY <1>1, Clamps

\* A twin's feelings are drawn to the recorded ones; nothing else changes.
LEMMA Anchors ==
  ASSUME NEW s \in State, s.turns # 0, NEW p \in Persona, p.arc # <<>>
  PROVE  /\ Anchor(s, p) \in State
         /\ Anchor(s, p).turns = s.turns /\ Anchor(s, p).walked = s.walked
         /\ Anchor(s, p).committed = s.committed
  <1> DEFINE k == Lesser(s.turns, Len(p.arc))
             target == p.arc[k]
             half(f) == Clamp(s[f] + (target[f] - s[f]) \div 2)
             x == half("trust")
             y == half("need")
             z == half("intent")
  <1>1. p.arc \in Seq(Mood) /\ Len(p.arc) \in Nat \ {0} /\ DOMAIN p.arc = 1..Len(p.arc)
    BY DEF Persona
  <1>2. k \in 1..Len(p.arc)
    BY <1>1 DEF State, Lesser
  <1>3. target \in Mood
    BY <1>1, <1>2
  <1> HIDE DEF k, target, half, x, y, z
  <1>4. /\ s.trust \in Percent /\ s.need \in Percent /\ s.intent \in Percent
        /\ target.trust \in Percent /\ target.need \in Percent /\ target.intent \in Percent
    BY <1>3 DEF State, Mood
  <1>5. x \in Percent /\ y \in Percent /\ z \in Percent
    BY <1>4, Halfway DEF half, x, y, z
  <1>6. Anchor(s, p) = [s EXCEPT !.trust = x, !.need = y, !.intent = z]
    BY DEF Anchor, k, target, half, x, y, z
  <1> QED
    BY <1>5, <1>6 DEF State

LEMMA Answers ==
  ASSUME NEW s \in State, s.committed = None, ~s.walked, NEW p \in Persona, NEW m,
         NEW d \in Delta
  PROVE  LET t == Answer(s, p, m, d) IN
         /\ t \in State /\ t.turns = s.turns + 1
         /\ t.committed # None => Earned(t, p, m)
         /\ p.arc = <<>> =>
              /\ Warms(s.intent, t.intent)
              /\ t.committed # None => t.intent >= Floor[t.committed].intent
  <1> DEFINE r == Respond(s, p, m, d)
             t == Answer(s, p, m, d)
  <1>1. /\ r \in State /\ r.turns = s.turns + 1
        /\ Warms(s.intent, r.intent)
        /\ r.committed # None => Earned(r, p, m) /\ r.intent >= Floor[r.committed].intent
    BY Responds
  <1>2. t = IF p.arc = <<>> THEN r ELSE Anchor(r, p)
    BY DEF Answer
  <1> HIDE DEF r, t
  <1>3. CASE p.arc = <<>>
    BY <1>1, <1>2, <1>3 DEF t
  <1>4. CASE p.arc # <<>>
    <2>1. r.turns # 0
      BY <1>1 DEF State
    <2>2. /\ t \in State /\ t.turns = r.turns /\ t.walked = r.walked /\ t.committed = r.committed
      BY <1>1, <1>2, <1>4, <2>1, Anchors
    <2> QED
      BY <1>1, <1>4, <2>2 DEF t, Earned
  <1> QED
    BY <1>3, <1>4

\* The intent of a cold prospect after n turns, and what it takes to want a tier.
Warmth(n) == IF n = 0 THEN 10 ELSE 24 + 14 * n

LEMMA Climb ==
  ASSUME NEW n \in Nat, NEW i \in Nat, i <= Warmth(n), NEW j \in Nat,
         Warms(i, j)
  PROVE  /\ j <= Warmth(n + 1)
         /\ \A tier \in Tiers : j >= Floor[tier].intent => n + 1 >= Rank(tier)
  <1>1. j <= Warmth(n + 1) /\ j <= 24 + 14 * (n + 1)
    BY DEF Warmth, Warms
  <1>2. /\ Floor["callback"].intent = 15 /\ Floor["consultation"].intent = 40
        /\ Floor["trial"].intent = 55 /\ Floor["enrollment"].intent = 70
    BY DEF Floor
  <1>3. /\ j >= 15 => n + 1 >= 1
        /\ j >= 40 => n + 1 >= 2
        /\ j >= 55 => n + 1 >= 3
        /\ j >= 70 => n + 1 >= 4
    BY <1>1
  <1> QED
    BY <1>1, <1>2, <1>3, Ranks, TierNames

\* How a call opens: nobody has walked or committed, and a prospect without a
\* recorded call is cold.
LEMMA Opens ==
  ASSUME NEW p \in Persona
  PROVE  /\ Opening(p) \in State /\ Opening(p).turns = 0
         /\ Opening(p).committed = None /\ Opening(p).walked = FALSE
         /\ p.arc = <<>> => Opening(p).intent = 10
  <1>1. /\ InitialState(p) \in State /\ InitialState(p).turns = 0
        /\ InitialState(p).committed = None /\ InitialState(p).walked = FALSE
        /\ InitialState(p).intent = 10
    BY DEF InitialState, State, Persona, Percent
  <1>2. CASE p.arc = <<>>
    BY <1>1, <1>2 DEF Opening
  <1>3. CASE p.arc # <<>>
    <2>1. p.arc \in Seq(Mood) /\ 1 \in DOMAIN p.arc
      BY <1>3 DEF Persona
    <2>2. p.arc[1].intent \in Percent
      <3>1. p.arc[1] \in Mood
        BY <2>1
      <3> QED
        BY <3>1 DEF Mood
    <2>3. Opening(p) = [InitialState(p) EXCEPT !.intent = p.arc[1].intent]
      BY <1>3 DEF Opening
    <2> QED
      BY <1>1, <1>3, <2>2, <2>3 DEF State
  <1> QED
    BY <1>2, <1>3
-----------------------------------------------------------------------------
(* Types, the turn budget and the commitments. *)

SelfPlay == runner = "self_play"
Moved    == Moves \cup {Greeting}
Streams  == [Clients -> [phase : {"new", "open", "ended", "gone"}, queue : Seq(Events)]]

Typed ==
  /\ runner \in {"self_play", "auto_demo"} /\ persona \in Personas
  /\ prospect \in State /\ prospect.turns <= MaxTurns
  /\ turns \in 0 .. MaxTurns
  /\ move \in Moved /\ decided \in Moved
  /\ close \in Tiers \cup {None} /\ outcome \in Outcomes \cup {None}
  /\ row \in Row \cup {None}
  /\ streams \in Streams
  /\ pc \in IF SelfPlay THEN {"prospect", "agent", "save", "done", "raised"}
            ELSE {"prospect", "agent", "upsert", "finalize", "done"}
  /\ pc = "save" => outcome # None

\* A prospect is asked only within the budget; in a demo its turns are the
\* committed ones and the one being answered.
Budgeted ==
  /\ (SelfPlay /\ pc = "prospect") => prospect.turns < MaxTurns
  /\ (~SelfPlay /\ pc \in {"prospect", "upsert"}) => prospect.turns = turns
  /\ (~SelfPlay /\ pc = "agent") => prospect.turns = turns + 1

\* Who is asked once more has neither walked nor committed, and neither has who
\* hears another move.
Undecided ==
  (pc = "prospect" \/ (SelfPlay /\ pc = "agent")) =>
    prospect.committed = None /\ ~prospect.walked

\* No prospect without a recorded call is warmer than the climb allows.
Cold == persona.arc = <<>> => prospect.intent <= Warmth(prospect.turns)

Inv1 == Typed /\ Budgeted /\ Undecided /\ Cold /\ CommitmentsAreEarned

LEMMA MoveTypes ==
  ASSUME NEW m \in Moved
  PROVE  /\ m.tier \in Tiers \cup {None}
         /\ m.act = "attempt_close" => m.tier \in Tiers /\ Offered(m) = m.tier
  <1>1. CASE m = Greeting
    BY <1>1 DEF Greeting
  <1>2. CASE m \in Moves
    <2>1. m.tier \in Tiers \cup (IF m.act = "attempt_close" THEN {} ELSE {None})
      BY <1>2, MovesAssumption
    <2> QED
      BY <2>1, NoneAssumption DEF Offered
  <1> QED
    BY <1>1, <1>2 DEF Moved

LEMMA BookedTypes ==
  ASSUME NEW tier \in Tiers
  PROVE  Booked[tier] \in Outcomes \ {"in_progress", "escalated", "released", "disqualified"}
  BY TierNames DEF Booked, Outcomes

LEMMA FateTypes ==
  ASSUME NEW s \in State
  PROVE  Fate(s) \in (Outcomes \ {"in_progress", "escalated", "released"}) \cup {None}
  <1>1. s.committed \in Tiers \cup {None}
    BY DEF State
  <1> QED
    BY <1>1, BookedTypes DEF Fate, Outcomes

LEMMA FinalTypes ==
  ASSUME Typed
  PROVE  FinalOutcome \in Outcomes
  <1>1. close # None => Booked[close] \in Outcomes
    BY BookedTypes DEF Typed
  <1> QED
    BY <1>1 DEF FinalOutcome, Outcomes, Typed

\* An event reaches each open queue that has room.
LEMMA Publishes ==
  ASSUME streams \in Streams, NEW e \in Events, Publish(e)
  PROVE  /\ streams' \in Streams
         /\ \A c \in Clients :
              /\ Len(streams'[c].queue) <= Len(streams[c].queue) + 1
              /\ \A i \in DOMAIN streams'[c].queue :
                   \/ streams'[c].queue[i] = e
                   \/ \E j \in DOMAIN streams[c].queue :
                        streams'[c].queue[i] = streams[c].queue[j]
  <1> DEFINE S == [phase : {"new", "open", "ended", "gone"}, queue : Seq(Events)]
  <1>1. ASSUME NEW c \in Clients
        PROVE  /\ streams'[c] \in S
               /\ Len(streams'[c].queue) <= Len(streams[c].queue) + 1
               /\ \A i \in DOMAIN streams'[c].queue :
                    \/ streams'[c].queue[i] = e
                    \/ \E j \in DOMAIN streams[c].queue :
                         streams'[c].queue[i] = streams[c].queue[j]
    <2> DEFINE q == streams[c].queue
               k == [streams[c] EXCEPT !.queue = Append(q, e)]
    <2>1. streams[c] \in S /\ q \in Seq(Events) /\ Len(q) \in Nat
      BY DEF Streams
    <2>2. streams'[c] = k \/ streams'[c] = streams[c]
      BY DEF Publish
    <2>3. k \in S /\ k.queue = Append(q, e)
      BY <2>1
    <2> HIDE DEF k
    <2>4. /\ Len(Append(q, e)) = Len(q) + 1
          /\ \A i \in DOMAIN Append(q, e) :
               Append(q, e)[i] = e \/ \E j \in DOMAIN q : Append(q, e)[i] = q[j]
      BY <2>1
    <2>5. CASE streams'[c] = k
      BY <2>3, <2>4, <2>5
    <2>6. CASE streams'[c] = streams[c]
      BY <2>1, <2>6
    <2> QED
      BY <2>2, <2>5, <2>6
  <1>2. streams' = [c \in Clients |-> streams'[c]]
    BY DEF Publish
  <1> QED
    BY <1>1, <1>2 DEF Streams

\* A watcher comes, reads or goes: its queue loses events, and nothing else
\* changes.
Watch(c) == Subscribe(c) \/ Deliver(c) \/ Disconnect(c)

LEMMA Watches ==
  ASSUME streams \in Streams, NEW w \in Clients, Watch(w)
  PROVE  /\ streams' \in Streams
         /\ \A c \in Clients :
              /\ Len(streams'[c].queue) <= Len(streams[c].queue)
              /\ \A i \in DOMAIN streams'[c].queue : \E j \in DOMAIN streams[c].queue :
                   streams'[c].queue[i] = streams[c].queue[j]
         /\ UNCHANGED <<runner, persona, prospect, move, decided, pc, outcome, close, turns,
                        row, faults>>
  <1> DEFINE S == [phase : {"new", "open", "ended", "gone"}, queue : Seq(Events)]
             Within(k) == /\ Len(k.queue) <= Len(streams[w].queue)
                          /\ \A i \in DOMAIN k.queue : \E j \in DOMAIN streams[w].queue :
                               k.queue[i] = streams[w].queue[j]
  <1>1. streams[w] \in S /\ streams[w].queue \in Seq(Events)
    BY DEF Streams
  <1>2. ASSUME NEW k \in S, Within(k), streams' = [streams EXCEPT ![w] = k]
        PROVE  /\ streams' \in Streams
               /\ \A c \in Clients :
                    /\ Len(streams'[c].queue) <= Len(streams[c].queue)
                    /\ \A i \in DOMAIN streams'[c].queue : \E j \in DOMAIN streams[c].queue :
                         streams'[c].queue[i] = streams[c].queue[j]
    <2>1. streams' \in Streams
      BY <1>2 DEF Streams
    <2>2. ASSUME NEW c \in Clients
          PROVE  /\ Len(streams'[c].queue) <= Len(streams[c].queue)
                 /\ \A i \in DOMAIN streams'[c].queue : \E j \in DOMAIN streams[c].queue :
                      streams'[c].queue[i] = streams[c].queue[j]
      <3>1. CASE c = w
        <4>1. streams'[c] = k
          BY <1>2, <3>1 DEF Streams
        <4> QED
          BY <1>2, <3>1, <4>1
      <3>2. CASE c # w
        <4>1. streams'[c] = streams[c] /\ Len(streams[c].queue) \in Nat
          BY <1>2, <3>2 DEF Streams
        <4> QED
          BY <4>1
      <3> QED
        BY <3>1, <3>2
    <2> QED
      BY <2>1, <2>2
  <1>3. CASE Subscribe(w)
    <2> DEFINE k == [streams[w] EXCEPT !.phase = "open"]
    <2>1. k \in S /\ k.queue = streams[w].queue
      BY <1>1
    <2>2. streams' = [streams EXCEPT ![w] = k]
      BY <1>3 DEF Subscribe
    <2> HIDE DEF k
    <2>3. Within(k)
      BY <1>1, <2>1
    <2> HIDE DEF Within
    <2> QED
      BY <1>2, <1>3, <2>1, <2>2, <2>3 DEF Subscribe
  <1>4. CASE Deliver(w)
    <2> DEFINE q == streams[w].queue
               k == [streams[w] EXCEPT !.queue = Tail(q),
                                       !.phase = IF Head(q).kind = "end" THEN "ended" ELSE "open"]
    <2>1. q # <<>> /\ q \in Seq(Events)
      BY <1>1, <1>4 DEF Deliver
    <2>2. /\ Tail(q) \in Seq(Events) /\ Len(Tail(q)) <= Len(q)
          /\ \A i \in DOMAIN Tail(q) : i + 1 \in DOMAIN q /\ Tail(q)[i] = q[i + 1]
      BY <2>1
    <2>3. k \in S /\ k.queue = Tail(q)
      BY <1>1, <2>2
    <2>4. streams' = [streams EXCEPT ![w] = k]
      BY <1>4 DEF Deliver, Streams
    <2> HIDE DEF k
    <2>5. Within(k)
      BY <2>2, <2>3
    <2> HIDE DEF Within
    <2> QED
      BY <1>2, <1>4, <2>3, <2>4, <2>5 DEF Deliver
  <1>5. CASE Disconnect(w)
    <2> DEFINE k == [phase |-> "gone", queue |-> <<>>]
    <2>1. k \in S /\ k.queue = <<>>
      OBVIOUS
    <2>2. streams' = [streams EXCEPT ![w] = k]
      BY <1>5 DEF Disconnect
    <2> HIDE DEF k
    <2>3. Within(k)
      BY <1>1, <2>1
    <2> HIDE DEF Within
    <2> QED
      BY <1>2, <1>5, <2>1, <2>2, <2>3 DEF Disconnect
  <1> QED
    BY <1>3, <1>4, <1>5 DEF Watch

LEMMA InitCall == Init => Inv1
  <1> SUFFICES ASSUME Init PROVE Inv1
    OBVIOUS
  <1>1. persona \in Personas /\ persona \in Persona
    BY PersonaAssumption DEF Init
  <1>2. /\ prospect \in State /\ prospect.turns = 0 /\ prospect.committed = None
        /\ prospect.walked = FALSE /\ (persona.arc = <<>> => prospect.intent = 10)
    BY <1>1, Opens DEF Init
  <1>3. MaxTurns \in Nat \ {0}
    BY MaxTurnsAssumption
  <1>4. streams \in Streams
    BY DEF Init, Streams
  <1>5. Typed
    BY <1>1, <1>2, <1>3, <1>4 DEF Init, Typed, Moved, SelfPlay
  <1>6. Budgeted /\ Undecided /\ CommitmentsAreEarned
    BY <1>2, <1>3 DEF Init, Budgeted, Undecided, CommitmentsAreEarned, SelfPlay
  <1>7. Cold
    BY <1>2 DEF Cold, Warmth
  <1> QED
    BY <1>5, <1>6, <1>7 DEF Inv1

\* A turn of a prospect who is asked.
LEMMA Asked ==
  ASSUME Inv1, pc = "prospect", NEW d \in Deltas,
         prospect' = Answer(prospect, persona, move, d), persona' = persona, move' = move
  PROVE  /\ prospect' \in State /\ prospect'.turns = prospect.turns + 1
         /\ Cold' /\ CommitmentsAreEarned'
  <1>1. /\ prospect \in State /\ prospect.committed = None /\ ~prospect.walked
        /\ persona \in Persona /\ d \in Delta
    BY PersonaAssumption, DeltasAssumption DEF Inv1, Typed, Undecided
  <1>2. /\ prospect' \in State /\ prospect'.turns = prospect.turns + 1
        /\ prospect'.committed # None => Earned(prospect', persona, move)
        /\ persona.arc = <<>> =>
             /\ Warms(prospect.intent, prospect'.intent)
             /\ prospect'.committed # None =>
                  prospect'.intent >= Floor[prospect'.committed].intent
    BY <1>1, Answers
  <1>3. prospect.turns \in Nat /\ prospect.intent \in Nat /\ prospect'.intent \in Nat
    <2>1. \A s \in State : s.turns \in Nat /\ s.intent \in Nat
      BY DEF State, Percent
    <2> QED
      BY <1>1, <1>2, <2>1
  <1>4. ASSUME persona.arc = <<>>
        PROVE  /\ prospect'.intent <= Warmth(prospect.turns + 1)
               /\ \A tier \in Tiers :
                    prospect'.intent >= Floor[tier].intent => prospect.turns + 1 >= Rank(tier)
    <2>1. prospect.intent <= Warmth(prospect.turns)
      BY <1>4 DEF Inv1, Cold
    <2> QED
      BY <1>2, <1>3, <1>4, <2>1, Climb
  <1>5. Cold'
    BY <1>2, <1>4 DEF Cold
  <1>6. CommitmentsAreEarned'
    BY <1>2, <1>4 DEF CommitmentsAreEarned, Earned
  <1> QED
    BY <1>2, <1>5, <1>6

\* Nobody moves under a prospect who has committed.
LEMMA Unasked ==
  ASSUME Inv1, UNCHANGED <<prospect, persona>>, move' = move \/ prospect.committed = None
  PROVE  Cold' /\ CommitmentsAreEarned'
  BY DEF Inv1, Cold, CommitmentsAreEarned

LEMMA EventTypes ==
  ASSUME Typed, turns' = turns, NEW kind \in {"generating", "turn", "end"}
  PROVE  Event(kind) \in Events /\ Event(kind) = [kind |-> kind, turn |-> turns]
  BY DEF Event, Events, Typed

\* The rows a demo writes.
LEMMA RowTypes ==
  ASSUME Typed
  PROVE  /\ [outcome |-> IF close = None THEN "in_progress" ELSE Booked[close],
             turns |-> turns, final |-> FALSE] \in Row
         /\ [outcome |-> FinalOutcome, turns |-> turns, final |-> TRUE] \in Row
  <1>1. (IF close = None THEN "in_progress" ELSE Booked[close]) \in Outcomes
    BY BookedTypes DEF Typed, Outcomes
  <1>2. FinalOutcome \in Outcomes /\ turns \in 0 .. MaxTurns
    BY FinalTypes DEF Typed
  <1> QED
    BY <1>1, <1>2 DEF Row

LEMMA StepCall == Inv1 /\ [Next]_vars => Inv1'
  <1> SUFFICES ASSUME Inv1, [Next]_vars PROVE Inv1'
    OBVIOUS
  <1>0. Typed /\ Budgeted /\ Undecided
    BY DEF Inv1
  <1>m. MaxTurns \in Nat \ {0} /\ prospect.turns \in Nat /\ turns \in Nat
    BY <1>0, MaxTurnsAssumption DEF Typed, State
  <1>1. ASSUME NEW d \in Deltas, Hears(d) PROVE Inv1'
    <2>1. /\ SelfPlay /\ pc = "prospect" /\ prospect' = Answer(prospect, persona, move, d)
          /\ outcome' = Fate(prospect') /\ pc' = IF outcome' # None THEN "save" ELSE "agent"
          /\ UNCHANGED <<runner, persona, move, decided, close, turns, row, faults, streams>>
      BY <1>1 DEF Hears, At, SelfPlay
    <2>2. /\ prospect' \in State /\ prospect'.turns = prospect.turns + 1
          /\ Cold' /\ CommitmentsAreEarned'
      BY <2>1, Asked
    <2>3. outcome' \in Outcomes \cup {None}
      BY <2>1, <2>2, FateTypes
    <2>4. prospect'.turns <= MaxTurns
      BY <1>0, <1>m, <2>1, <2>2 DEF Budgeted
    <2>5. Typed'
      BY <1>0, <2>1, <2>2, <2>3, <2>4 DEF Typed, SelfPlay
    <2>6. Budgeted'
      BY <2>1 DEF Budgeted, SelfPlay
    <2>7. Undecided'
      <3>1. prospect'.committed \in Tiers \cup {None}
        BY <2>2 DEF State
      <3>2. Fate(prospect') = None => prospect'.committed = None /\ ~prospect'.walked
        BY <3>1, BookedTypes, NoneAssumption DEF Fate, Outcomes
      <3> QED
        BY <2>1, <3>2 DEF Undecided, SelfPlay
    <2> QED
      BY <2>2, <2>5, <2>6, <2>7 DEF Inv1
  <1>2. ASSUME NEW d \in Deltas, DemoHears(d) PROVE Inv1'
    <2>1. /\ ~SelfPlay /\ pc = "prospect" /\ turns < MaxTurns
          /\ prospect' = Answer(prospect, persona, move, d)
          /\ outcome' = IF prospect'.walked THEN "walked" ELSE outcome
          /\ pc' = "agent" /\ turns' = turns /\ Publish(Event("generating"))
          /\ UNCHANGED <<runner, persona, move, decided, close, row, faults>>
      BY <1>2 DEF DemoHears, At, SelfPlay
    <2>2. /\ prospect' \in State /\ prospect'.turns = prospect.turns + 1
          /\ Cold' /\ CommitmentsAreEarned'
      BY <2>1, Asked
    <2>3. streams' \in Streams
      BY <1>0, <2>1, EventTypes, Publishes DEF Typed
    <2>4. prospect'.turns = turns + 1 /\ turns + 1 <= MaxTurns
      BY <1>0, <1>m, <2>1, <2>2 DEF Budgeted
    <2>5. outcome' \in Outcomes \cup {None}
      BY <1>0, <2>1 DEF Typed, Outcomes
    <2>6. Typed'
      BY <1>0, <2>1, <2>2, <2>3, <2>4, <2>5 DEF Typed, SelfPlay
    <2>7. Budgeted' /\ Undecided'
      BY <2>1, <2>4 DEF Budgeted, Undecided, SelfPlay
    <2> QED
      BY <2>2, <2>6, <2>7 DEF Inv1
  <1>3. ASSUME NEW m \in Moves, Replies(m) PROVE Inv1'
    <2>1. /\ SelfPlay /\ pc = "agent" /\ move' = m
          /\ outcome' = IF m.act = "escalate" THEN "escalated"
                        ELSE IF prospect.turns >= MaxTurns THEN "released" ELSE None
          /\ pc' = IF outcome' # None THEN "save" ELSE "prospect"
          /\ UNCHANGED <<runner, persona, prospect, decided, close, turns, row, faults, streams>>
      BY <1>3 DEF Replies, At, SelfPlay
    <2>2. Cold' /\ CommitmentsAreEarned'
      BY <1>0, <2>1, Unasked DEF Undecided
    <2>3. outcome' \in Outcomes \cup {None}
      BY <2>1 DEF Outcomes
    <2>4. Typed'
      BY <1>0, <2>1, <2>3 DEF Typed, SelfPlay, Moved
    <2>5. outcome' = None => prospect.turns < MaxTurns
      BY <1>m, <2>1, NoneAssumption DEF Outcomes
    <2>6. Budgeted' /\ Undecided'
      BY <1>0, <2>1, <2>5 DEF Budgeted, Undecided, SelfPlay
    <2> QED
      BY <2>2, <2>4, <2>6 DEF Inv1
  <1>4. ASSUME NEW m \in Moves, DemoReplies(m) PROVE Inv1'
    <2>1. /\ ~SelfPlay /\ pc = "agent" /\ decided' = m /\ turns' = turns + 1 /\ pc' = "upsert"
          /\ UNCHANGED <<runner, persona, prospect, move, outcome, close, row, faults, streams>>
      BY <1>4 DEF DemoReplies, At, SelfPlay
    <2>2. Cold' /\ CommitmentsAreEarned'
      BY <2>1, Unasked
    <2>3. turns' \in 0 .. MaxTurns
      BY <1>0, <1>m, <2>1 DEF Budgeted, Typed
    <2>4. Typed' /\ Budgeted' /\ Undecided'
      BY <1>0, <2>1, <2>3 DEF Typed, Budgeted, Undecided, SelfPlay, Moved
    <2> QED
      BY <2>2, <2>4 DEF Inv1
  <1>5. CASE Saves
    <2>1. /\ SelfPlay /\ pc = "save" /\ pc' = "done"
          /\ row' = [outcome |-> outcome, turns |-> prospect.turns, final |-> TRUE]
          /\ UNCHANGED <<runner, persona, prospect, move, decided, outcome, close, turns, faults,
                         streams>>
      BY <1>5 DEF Saves, At, SelfPlay
    <2>2. Cold' /\ CommitmentsAreEarned'
      BY <2>1, Unasked
    <2>3. outcome \in Outcomes /\ prospect.turns \in 0 .. MaxTurns
      BY <1>0, <1>m, <2>1 DEF Typed
    <2>4. row' \in Row
      BY <2>1, <2>3 DEF Row
    <2>5. Typed' /\ Budgeted' /\ Undecided'
      BY <1>0, <2>1, <2>4 DEF Typed, Budgeted, Undecided, SelfPlay
    <2> QED
      BY <2>2, <2>5 DEF Inv1
  <1>6. CASE Raises
    <2>1. /\ SelfPlay /\ pc' = "raised"
          /\ UNCHANGED <<runner, persona, prospect, move, decided, outcome, close, turns, row,
                         faults, streams>>
      BY <1>6 DEF Raises, SelfPlay
    <2>2. Cold' /\ CommitmentsAreEarned'
      BY <2>1, Unasked
    <2>3. Typed' /\ Budgeted' /\ Undecided'
      BY <1>0, <2>1 DEF Typed, Budgeted, Undecided, SelfPlay
    <2> QED
      BY <2>2, <2>3 DEF Inv1
  <1>7. CASE DemoProspectFails \/ DemoRunsOut \/ DemoBrainFails
    <2>1. /\ ~SelfPlay /\ pc' = "finalize" /\ outcome' \in {outcome, "released"}
          /\ UNCHANGED <<runner, persona, prospect, move, decided, close, turns, row, streams>>
      BY <1>7 DEF DemoProspectFails, DemoRunsOut, DemoBrainFails, LeaveLoop, At, SelfPlay
    <2>2. Cold' /\ CommitmentsAreEarned'
      BY <2>1, Unasked
    <2>3. outcome' \in Outcomes \cup {None}
      BY <1>0, <2>1 DEF Typed, Outcomes
    <2>4. Typed' /\ Budgeted' /\ Undecided'
      BY <1>0, <2>1, <2>3 DEF Typed, Budgeted, Undecided, SelfPlay
    <2> QED
      BY <2>2, <2>4 DEF Inv1
  <1>8. CASE DemoUpserts
    <2> DEFINE r == [outcome |-> IF close = None THEN "in_progress" ELSE Booked[close],
                     turns |-> turns, final |-> FALSE]
    <2>1. /\ ~SelfPlay /\ pc = "upsert" /\ row' \in {row, r}
          /\ turns' = turns /\ Publish(Event("turn"))
          /\ UNCHANGED <<runner, persona, prospect, decided, outcome>>
          /\ \/ pc' = "finalize" /\ UNCHANGED <<move, close>>
             \/ /\ ~prospect.walked /\ prospect.committed = None
                /\ move' = decided
                /\ close' = IF decided.act = "attempt_close" THEN decided.tier ELSE close
                /\ pc' \in {"finalize", "prospect"}
      BY <1>8 DEF DemoUpserts, Written, At, SelfPlay
    <2> HIDE DEF r
    <2>2. Cold' /\ CommitmentsAreEarned'
      BY <2>1, Unasked
    <2>3. streams' \in Streams /\ r \in Row
      BY <1>0, <2>1, EventTypes, Publishes, RowTypes DEF Typed, r
    <2>4. close' \in Tiers \cup {None}
      BY <1>0, <2>1, MoveTypes DEF Typed
    <2>5. prospect.turns = turns
      BY <1>0, <2>1 DEF Budgeted
    <2>6. Typed' /\ Budgeted' /\ Undecided'
      BY <1>0, <2>1, <2>3, <2>4, <2>5 DEF Typed, Budgeted, Undecided, SelfPlay
    <2> QED
      BY <2>2, <2>6 DEF Inv1
  <1>9. CASE DemoFinalizes
    <2> DEFINE r == [outcome |-> FinalOutcome, turns |-> turns, final |-> TRUE]
    <2>1. /\ ~SelfPlay /\ row' \in {row, r} /\ pc' = "done"
          /\ turns' = turns /\ Publish(Event("end"))
          /\ UNCHANGED <<runner, persona, prospect, move, decided, outcome, close>>
      BY <1>9 DEF DemoFinalizes, Written, At, SelfPlay
    <2> HIDE DEF r
    <2>2. Cold' /\ CommitmentsAreEarned'
      BY <2>1, Unasked
    <2>3. streams' \in Streams /\ r \in Row
      BY <1>0, <2>1, EventTypes, Publishes, RowTypes DEF Typed, r
    <2>4. Typed' /\ Budgeted' /\ Undecided'
      BY <1>0, <2>1, <2>3 DEF Typed, Budgeted, Undecided, SelfPlay
    <2> QED
      BY <2>2, <2>4 DEF Inv1
  <1>10. ASSUME NEW w \in Clients, Watch(w) PROVE Inv1'
    <2>1. /\ streams' \in Streams
          /\ UNCHANGED <<runner, persona, prospect, move, decided, pc, outcome, close, turns,
                         row, faults>>
      BY <1>0, <1>10, Watches DEF Typed
    <2>2. Cold' /\ CommitmentsAreEarned'
      BY <2>1, Unasked
    <2>3. Typed' /\ Budgeted' /\ Undecided'
      BY <1>0, <2>1 DEF Typed, Budgeted, Undecided, SelfPlay
    <2> QED
      BY <2>2, <2>3 DEF Inv1
  <1>11. CASE UNCHANGED vars
    <2>1. Cold' /\ CommitmentsAreEarned'
      BY <1>11, Unasked DEF vars
    <2>2. Typed' /\ Budgeted' /\ Undecided'
      BY <1>0, <1>11 DEF vars, Typed, Budgeted, Undecided, SelfPlay
    <2> QED
      BY <2>1, <2>2 DEF Inv1
  <1> QED
    BY <1>1, <1>2, <1>3, <1>4, <1>5, <1>6, <1>7, <1>8, <1>9, <1>10, <1>11
       DEF Next, Runs, Watch

\* No prospect is talked into more than they have, and none of the cold ones
\* faster than the pace of the ladder, whatever the two models say.
THEOREM CommitmentsEarned == Spec => []CommitmentsAreEarned
  <1>1. Inv1 => CommitmentsAreEarned
    BY DEF Inv1
  <1> QED
    BY <1>1, InitCall, StepCall, PTL DEF Spec
-----------------------------------------------------------------------------
(* What is saved. *)

\* The outcome on hand, with the close of a demo, tells what became of the
\* prospect: of one who walked, of the tier that was offered, and of why the
\* loop was left.
Told ==
  /\ (SelfPlay /\ pc = "save") =>
       /\ Fate(prospect) # None => outcome = Fate(prospect)
       /\ Fate(prospect) = None =>
            \/ outcome = "escalated" /\ move.act = "escalate"
            \/ outcome = "released" /\ move.act # "escalate" /\ prospect.turns = MaxTurns
  /\ ~SelfPlay =>
       /\ outcome \in {None, "walked", "released"}
       /\ prospect.walked => outcome = "walked"
       /\ move.act = "attempt_close" => close = move.tier
       /\ pc = "finalize" =>
            \/ "brain" \in faults \/ outcome # None \/ close # None
            \/ decided.act \in {"escalate", "disqualify"}

Shut == (row # None /\ row.final) => pc = "done"

Inv2 == Inv1 /\ Told /\ Shut /\ EpisodeTellsTheCall

\* The row of a call that is over stands.
LEMMA Unsaved ==
  ASSUME Shut, pc # "done", row' = row
  PROVE  Shut' /\ EpisodeTellsTheCall'
  BY DEF Shut, EpisodeTellsTheCall

\* An offer that was taken is the last close of the demo.
LEMMA Taken ==
  ASSUME Inv2, ~SelfPlay, prospect.committed # None
  PROVE  close = prospect.committed /\ close \in Tiers
  <1>1. prospect.committed = Offered(move) /\ move \in Moved /\ prospect.committed \in Tiers
    BY DEF Inv2, Inv1, Typed, CommitmentsAreEarned, State
  <1>2. move.act = "attempt_close" /\ Offered(move) = move.tier
    BY <1>1, MoveTypes DEF Offered
  <1> QED
    BY <1>1, <1>2 DEF Inv2, Told

LEMMA InitTold == Init => Inv2
  <1> SUFFICES ASSUME Init PROVE Inv2
    OBVIOUS
  <1>1. Opening(persona).walked = FALSE
    BY Opens, PersonaAssumption DEF Init
  <1>2. Told
    BY <1>1 DEF Init, Told, Greeting
  <1> QED
    BY <1>2, InitCall DEF Inv2, Init, Shut, EpisodeTellsTheCall

LEMMA StepTold == Inv2 /\ [Next]_vars => Inv2'
  <1> SUFFICES ASSUME Inv2, [Next]_vars PROVE Inv2'
    OBVIOUS
  <1>0. Inv1 /\ Typed /\ Budgeted /\ Undecided /\ Told /\ Shut /\ EpisodeTellsTheCall
    BY DEF Inv1, Inv2
  <1>i. Inv1'
    BY <1>0, StepCall
  <1>n. None \notin Outcomes /\ None \notin Tiers
    BY NoneAssumption
  <1> SUFFICES Told' /\ Shut' /\ EpisodeTellsTheCall'
    BY <1>i DEF Inv2
  <1>1. ASSUME NEW d \in Deltas, Hears(d) PROVE Told' /\ Shut' /\ EpisodeTellsTheCall'
    <2>1. /\ SelfPlay /\ pc = "prospect" /\ outcome' = Fate(prospect')
          /\ pc' = IF outcome' # None THEN "save" ELSE "agent"
          /\ UNCHANGED <<runner, row>>
      BY <1>1 DEF Hears, At, SelfPlay
    <2>2. Told'
      BY <2>1 DEF Told, SelfPlay, Fate
    <2> QED
      BY <1>0, <2>1, <2>2, Unsaved
  <1>2. ASSUME NEW d \in Deltas, DemoHears(d) PROVE Told' /\ Shut' /\ EpisodeTellsTheCall'
    <2>1. /\ ~SelfPlay /\ pc = "prospect" /\ pc' = "agent"
          /\ outcome' = IF prospect'.walked THEN "walked" ELSE outcome
          /\ UNCHANGED <<runner, move, close, row>>
      BY <1>2 DEF DemoHears, At, SelfPlay
    <2>2. Told'
      BY <1>0, <2>1 DEF Told, SelfPlay
    <2> QED
      BY <1>0, <2>1, <2>2, Unsaved
  <1>3. ASSUME NEW m \in Moves, Replies(m) PROVE Told' /\ Shut' /\ EpisodeTellsTheCall'
    <2>1. /\ SelfPlay /\ pc = "agent" /\ move' = m
          /\ outcome' = IF m.act = "escalate" THEN "escalated"
                        ELSE IF prospect.turns >= MaxTurns THEN "released" ELSE None
          /\ pc' = IF outcome' # None THEN "save" ELSE "prospect"
          /\ UNCHANGED <<runner, prospect, row>>
      BY <1>3 DEF Replies, At, SelfPlay
    <2>2. prospect.turns >= MaxTurns => prospect.turns = MaxTurns
      <3>1. MaxTurns \in Nat /\ prospect.turns \in Nat /\ prospect.turns <= MaxTurns
        BY <1>0, MaxTurnsAssumption DEF Typed, State
      <3> QED
        BY <3>1
    <2>3. Fate(prospect') = None
      <3>1. prospect' = prospect /\ Fate(prospect) = None
        BY <1>0, <1>n, <2>1, TierNames DEF Undecided, Fate
      <3> QED
        BY <3>1
    <2>4. Told'
      BY <2>1, <2>2, <2>3 DEF Told, SelfPlay
    <2> QED
      BY <1>0, <2>1, <2>4, Unsaved
  <1>4. ASSUME NEW m \in Moves, DemoReplies(m) PROVE Told' /\ Shut' /\ EpisodeTellsTheCall'
    <2>1. /\ ~SelfPlay /\ pc = "agent" /\ pc' = "upsert"
          /\ UNCHANGED <<runner, prospect, move, outcome, close, row, faults>>
      BY <1>4 DEF DemoReplies, At, SelfPlay
    <2>2. Told'
      BY <1>0, <2>1 DEF Told, SelfPlay
    <2> QED
      BY <1>0, <2>1, <2>2, Unsaved
  <1>5. CASE Saves
    <2>1. /\ SelfPlay /\ pc = "save" /\ pc' = "done"
          /\ row' = [outcome |-> outcome, turns |-> prospect.turns, final |-> TRUE]
          /\ UNCHANGED <<runner, prospect, move, outcome, faults>>
      BY <1>5 DEF Saves, At, SelfPlay
    <2>2. Told' /\ Shut'
      BY <2>1 DEF Told, Shut, SelfPlay
    <2>3. Fate(prospect) \in (Outcomes \ {"in_progress", "escalated", "released"}) \cup {None}
      BY <1>0, FateTypes DEF Typed
    <2>4. /\ Fate(prospect) # None => outcome = Fate(prospect)
          /\ Fate(prospect) = None =>
               \/ outcome = "escalated" /\ move.act = "escalate"
               \/ outcome = "released" /\ move.act # "escalate" /\ prospect.turns = MaxTurns
      BY <1>0, <2>1 DEF Told
    <2>5. Fate(prospect') = Fate(prospect)
      BY <2>1
    <2>6. row'.outcome = outcome
      BY <2>1
    <2>7. /\ Fate(prospect) # None => outcome = Fate(prospect)
          /\ outcome = "escalated" <=> (Fate(prospect) = None /\ move.act = "escalate")
          /\ outcome = "released" => prospect.turns = MaxTurns
      BY <2>3, <2>4
    <2>8. EpisodeTellsTheCall'
      BY <2>1, <2>5, <2>6, <2>7 DEF EpisodeTellsTheCall, SelfPlay
    <2> QED
      BY <2>2, <2>8
  <1>6. CASE Raises
    <2>1. /\ SelfPlay /\ pc \in {"prospect", "agent", "save"} /\ pc' = "raised"
          /\ UNCHANGED <<runner, row>>
      BY <1>6 DEF Raises, SelfPlay
    <2>2. Told'
      BY <2>1 DEF Told, SelfPlay
    <2> QED
      BY <1>0, <2>1, <2>2, Unsaved
  <1>7. CASE DemoProspectFails \/ DemoRunsOut \/ DemoBrainFails
    <2>1. /\ ~SelfPlay /\ pc # "done" /\ pc' = "finalize"
          /\ \/ pc = "prospect" /\ outcome' = IF close = None /\ outcome = None THEN "released"
                                              ELSE outcome
             \/ outcome' = outcome /\ "brain" \in faults'
          /\ UNCHANGED <<runner, prospect, move, decided, close, row>>
      BY <1>7 DEF DemoProspectFails, DemoRunsOut, DemoBrainFails, LeaveLoop, At, SelfPlay
    <2>2. Told'
      <3>1. CASE pc = "prospect"
        <4>1. ~prospect.walked /\ outcome \in {None, "walked", "released"}
          BY <1>0, <2>1, <3>1 DEF Told, Undecided
        <4>2. None # "released"
          BY <1>n DEF Outcomes
        <4> QED
          BY <1>0, <2>1, <4>1, <4>2 DEF Told, SelfPlay
      <3>2. CASE pc # "prospect"
        BY <1>0, <2>1, <3>2 DEF Told, SelfPlay
      <3> QED
        BY <3>1, <3>2
    <2> QED
      BY <1>0, <2>1, <2>2, Unsaved
  <1>8. CASE DemoUpserts
    <2> DEFINE r == [outcome |-> IF close = None THEN "in_progress" ELSE Booked[close],
                     turns |-> turns, final |-> FALSE]
    <2>1. /\ ~SelfPlay /\ pc = "upsert" /\ row' \in {row, r}
          /\ UNCHANGED <<runner, prospect, decided, outcome>>
          /\ \/ /\ prospect.walked \/ prospect.committed # None
                /\ pc' = "finalize" /\ UNCHANGED <<move, close>>
             \/ /\ ~prospect.walked
                /\ move' = decided
                /\ close' = IF decided.act = "attempt_close" THEN decided.tier ELSE close
                /\ pc' = IF decided.act \in {"disqualify", "escalate"} THEN "finalize"
                         ELSE "prospect"
      BY <1>8 DEF DemoUpserts, Written, At, SelfPlay
    <2>2. r.final = FALSE
      OBVIOUS
    <2> HIDE DEF r
    <2>3. prospect.walked => outcome # None
      BY <1>0, <1>n, <2>1 DEF Told, Outcomes
    <2>4. prospect.committed # None => close # None
      BY <1>n, <2>1, Taken
    <2>5. Told'
      BY <1>0, <2>1, <2>3, <2>4 DEF Told, SelfPlay
    <2>6. Shut' /\ EpisodeTellsTheCall'
      BY <1>0, <2>1, <2>2 DEF Shut, EpisodeTellsTheCall
    <2> QED
      BY <2>5, <2>6
  <1>9. CASE DemoFinalizes
    <2> DEFINE r == [outcome |-> FinalOutcome, turns |-> turns, final |-> TRUE]
    <2>1. /\ ~SelfPlay /\ pc = "finalize" /\ row' \in {row, r} /\ pc' = "done"
          /\ faults \subseteq faults'
          /\ UNCHANGED <<runner, persona, prospect, move, decided, outcome, close>>
      BY <1>9 DEF DemoFinalizes, Written, At, SelfPlay
    <2>2. r.outcome = FinalOutcome
      OBVIOUS
    <2> HIDE DEF r
    <2>3. Told' /\ Shut'
      BY <1>0, <2>1 DEF Told, Shut, SelfPlay
    <2>4. close # None => Booked[close] \in Outcomes \ {"in_progress"}
      BY <1>0, BookedTypes DEF Typed
    <2>5. ASSUME FinalOutcome = "in_progress" PROVE "brain" \in faults
      <3>1. /\ decided.act \notin {"escalate", "disqualify"} /\ close = None
            /\ outcome \in {None, "in_progress"}
        BY <2>4, <2>5 DEF FinalOutcome
      <3>2. outcome = None
        BY <1>0, <2>1, <3>1 DEF Told
      <3> QED
        BY <1>0, <2>1, <3>1, <3>2 DEF Told
    <2>6. ASSUME prospect.committed # None
          PROVE  FinalOutcome \in {Booked[prospect.committed], "escalated", "disqualified"}
      <3>1. close = prospect.committed /\ close # None
        BY <1>n, <2>1, <2>6, Taken
      <3> QED
        BY <3>1 DEF FinalOutcome
    <2>7. CASE row' = row
      BY <1>0, <2>1, <2>3, <2>7 DEF Shut, EpisodeTellsTheCall
    <2>8. CASE row' = r
      <3>1. ~(runner' = "self_play")
        BY <2>1 DEF SelfPlay
      <3> QED
        BY <2>1, <2>2, <2>3, <2>5, <2>6, <2>8, <3>1 DEF EpisodeTellsTheCall
    <2> QED
      BY <2>1, <2>7, <2>8
  <1>10. ASSUME NEW w \in Clients, Watch(w) PROVE Told' /\ Shut' /\ EpisodeTellsTheCall'
    <2>1. UNCHANGED <<runner, persona, prospect, move, decided, pc, outcome, close, turns,
                      row, faults>>
      BY <1>0, <1>10, Watches DEF Typed
    <2> QED
      BY <1>0, <2>1 DEF Told, Shut, EpisodeTellsTheCall, SelfPlay, Fate
  <1>11. CASE UNCHANGED vars
    BY <1>0, <1>11 DEF vars, Told, Shut, EpisodeTellsTheCall, SelfPlay, Fate
  <1> QED
    BY <1>1, <1>2, <1>3, <1>4, <1>5, <1>6, <1>7, <1>8, <1>9, <1>10, <1>11
       DEF Next, Runs, Watch

\* The saved episode tells what became of the prospect, and a demo is left in
\* progress only by a failure of the agent itself.
THEOREM EpisodesTell == Spec => []EpisodeTellsTheCall
  <1>1. Inv2 => EpisodeTellsTheCall
    BY DEF Inv2
  <1> QED
    BY <1>1, InitTold, StepTold, PTL DEF Spec
-----------------------------------------------------------------------------
(* What the watchers are told. *)

\* What can be published of a demo up to where it is.
Published ==
  IF SelfPlay THEN 0
  ELSE IF pc = "prospect" THEN 2 * turns
  ELSE IF pc = "agent" THEN 2 * turns + 1
  ELSE IF pc = "upsert" THEN 2 * turns - 1
  ELSE IF pc = "finalize" THEN 2 * MaxTurns
  ELSE 2 * MaxTurns + 1

\* An event a watcher may still have to read: its turn is a committed one, the
\* end is told last, and the row it speaks of is there.
Sound(e) ==
  /\ e.turn <= turns
  /\ e.kind = "end" => pc = "done"
  /\ "store" \notin faults =>
       /\ e.kind = "turn" => row # None /\ row.turns >= e.turn
       /\ e.kind = "end" => row # None /\ row.final

Queued(e) == \E c \in Clients : \E i \in DOMAIN streams[c].queue : streams[c].queue[i] = e

Queues ==
  /\ \A c \in Clients : Len(streams[c].queue) <= Published
  /\ \A e \in Events : Queued(e) => Sound(e)

Inv3 == Inv1 /\ Queues

LEMMA PublishedType ==
  Typed /\ Budgeted => Published \in Int /\ Published <= 2 * MaxTurns + 1
  <1> SUFFICES ASSUME Typed, Budgeted
               PROVE  Published \in Int /\ Published <= 2 * MaxTurns + 1
    OBVIOUS
  <1>1. /\ MaxTurns \in Nat /\ turns \in Nat /\ turns <= MaxTurns
        /\ prospect.turns <= MaxTurns
    BY MaxTurnsAssumption DEF Typed
  <1>2. (~SelfPlay /\ pc = "agent") => turns + 1 <= MaxTurns
    BY <1>1 DEF Budgeted
  <1> QED
    BY <1>1, <1>2 DEF Published

LEMMA QueueType ==
  Typed => \A c \in Clients : /\ streams[c].queue \in Seq(Events)
                              /\ Len(streams[c].queue) \in Nat
                              /\ DOMAIN streams[c].queue = 1 .. Len(streams[c].queue)
                              /\ \A i \in DOMAIN streams[c].queue : streams[c].queue[i] \in Events
  <1> SUFFICES ASSUME Typed, NEW c \in Clients
               PROVE  /\ streams[c].queue \in Seq(Events)
                      /\ Len(streams[c].queue) \in Nat
                      /\ DOMAIN streams[c].queue = 1 .. Len(streams[c].queue)
                      /\ \A i \in DOMAIN streams[c].queue : streams[c].queue[i] \in Events
    OBVIOUS
  <1>1. streams[c].queue \in Seq(Events)
    BY DEF Typed, Streams
  <1> QED
    BY <1>1

\* A step that tells at most one event, of what it has done.
LEMMA Tells ==
  ASSUME Inv3, Typed', Budgeted', NEW n \in 0 .. 1, Published + n <= Published',
         \A c \in Clients : Len(streams'[c].queue) <= Len(streams[c].queue) + n,
         \A e \in Events : Sound(e) => Sound(e)',
         \A e \in Events : Queued(e)' => Queued(e) \/ Sound(e)'
  PROVE  Queues'
  <1>1. Published \in Int
    BY PublishedType DEF Inv3, Inv1
  <1>2. Published' \in Int
    <2>1. (Typed /\ Budgeted => Published \in Int /\ Published <= 2 * MaxTurns + 1)'
      BY PublishedType, PTL
    <2> QED
      BY <2>1
  <1>3. ASSUME NEW c \in Clients PROVE Len(streams'[c].queue) <= Published'
    <2>1. /\ Len(streams[c].queue) \in Nat /\ Len(streams[c].queue) <= Published
          /\ Len(streams'[c].queue) <= Len(streams[c].queue) + n
      BY QueueType DEF Inv3, Inv1, Queues
    <2>2. Len(streams'[c].queue) \in Nat
      <3>1. streams'[c].queue \in Seq(Events)
        BY DEF Typed, Streams
      <3> QED
        BY <3>1
    <2> QED
      BY <1>1, <1>2, <2>1, <2>2
  <1>4. ASSUME NEW e \in Events, Queued(e)' PROVE Sound(e)'
    BY <1>4 DEF Inv3, Queues
  <1> QED
    BY <1>3, <1>4 DEF Queues

LEMMA Quiet ==
  ASSUME Inv3, Typed', Budgeted', streams' = streams, Published <= Published',
         \A e \in Events : Sound(e) => Sound(e)'
  PROVE  Queues'
  <1>1. \A c \in Clients : Len(streams'[c].queue) <= Len(streams[c].queue) + 0
    BY QueueType DEF Inv3, Inv1
  <1>2. \A e \in Events : Queued(e)' => Queued(e)
    BY DEF Queued
  <1>3. Published + 0 <= Published'
    BY PublishedType DEF Inv3, Inv1
  <1> QED
    BY <1>1, <1>2, <1>3, Tells

LEMMA Nudge ==
  ASSUME Inv3, Typed', Budgeted', NEW e \in Events, Publish(e), Sound(e)',
         Published + 1 <= Published',
         \A f \in Events : Sound(f) => Sound(f)'
  PROVE  Queues'
  <1>1. streams \in Streams
    BY DEF Inv3, Inv1, Typed
  <1>2. /\ \A c \in Clients : Len(streams'[c].queue) <= Len(streams[c].queue) + 1
        /\ \A c \in Clients : \A i \in DOMAIN streams'[c].queue :
             \/ streams'[c].queue[i] = e
             \/ \E j \in DOMAIN streams[c].queue : streams'[c].queue[i] = streams[c].queue[j]
    BY <1>1, Publishes
  <1>3. \A f \in Events : Queued(f)' => Queued(f) \/ Sound(f)'
    <2> SUFFICES ASSUME NEW f \in Events, Queued(f)' PROVE Queued(f) \/ Sound(f)'
      OBVIOUS
    <2>1. PICK c \in Clients : \E i \in DOMAIN streams'[c].queue : streams'[c].queue[i] = f
      BY DEF Queued
    <2>2. f = e \/ \E j \in DOMAIN streams[c].queue : f = streams[c].queue[j]
      BY <1>2, <2>1
    <2> QED
      BY <2>2 DEF Queued
  <1> QED
    BY <1>2, <1>3, Tells

\* Nobody is told of a call of self-play.
LEMMA Silent ==
  ASSUME Inv3, SelfPlay, UNCHANGED <<runner, streams>>
  PROVE  Queues'
  <1>1. ASSUME NEW c \in Clients PROVE DOMAIN streams[c].queue = {} /\ Len(streams[c].queue) <= 0
    BY QueueType DEF Inv3, Inv1, Queues, Published
  <1>2. Published' = 0
    BY DEF Published, SelfPlay
  <1>3. \A e \in Events : ~Queued(e)'
    BY <1>1 DEF Queued
  <1> QED
    BY <1>1, <1>2, <1>3 DEF Queues

LEMMA InitQueues == Init => Inv3
  <1> SUFFICES ASSUME Init PROVE Inv3
    OBVIOUS
  <1>1. \A c \in Clients : streams[c].queue = <<>>
    BY DEF Init
  <1>2. Published = 0
    BY DEF Init, Published, SelfPlay
  <1> QED
    BY <1>1, <1>2, InitCall DEF Inv3, Queues, Queued

LEMMA StepQueues == Inv3 /\ [Next]_vars => Inv3'
  <1> SUFFICES ASSUME Inv3, [Next]_vars PROVE Inv3'
    OBVIOUS
  <1>0. Inv1 /\ Typed /\ Budgeted /\ Queues
    BY DEF Inv1, Inv3
  <1>i. Inv1' /\ Typed' /\ Budgeted'
    <2>1. Inv1'
      BY <1>0, StepCall
    <2> QED
      BY <2>1 DEF Inv1
  <1>m. /\ MaxTurns \in Nat /\ turns \in Nat /\ turns <= MaxTurns
        /\ prospect.turns \in Nat /\ prospect.turns <= MaxTurns
    BY <1>0, MaxTurnsAssumption DEF Typed, State
  <1>e. \A e \in Events : e.turn \in Nat /\ e.kind \in {"generating", "turn", "end"}
    BY <1>m DEF Events
  <1> SUFFICES Queues'
    BY <1>i DEF Inv3
  <1>1. ASSUME SelfPlay, UNCHANGED <<runner, streams>> PROVE Queues'
    BY <1>1, Silent
  <1>2. ASSUME NEW d \in Deltas, DemoHears(d) PROVE Queues'
    <2>1. /\ ~SelfPlay /\ pc = "prospect" /\ pc' = "agent" /\ turns' = turns
          /\ Publish(Event("generating")) /\ UNCHANGED <<runner, row, faults>>
      BY <1>2 DEF DemoHears, At, SelfPlay
    <2>2. PICK e \in Events : e = Event("generating") /\ e = [kind |-> "generating", turn |-> turns]
      BY <1>0, <2>1, EventTypes
    <2>3. Sound(e)'
      <3>1. e.kind = "generating" /\ e.turn = turns
        BY <2>2
      <3> QED
        BY <1>m, <2>1, <3>1 DEF Sound
    <2>4. \A f \in Events : Sound(f) => Sound(f)'
      BY <2>1 DEF Sound
    <2>5. Published + 1 <= Published'
      BY <1>m, <2>1 DEF Published, SelfPlay
    <2> QED
      BY <1>i, <2>1, <2>2, <2>3, <2>4, <2>5, Nudge
  <1>3. ASSUME NEW m \in Moves, DemoReplies(m) PROVE Queues'
    <2>1. /\ ~SelfPlay /\ pc = "agent" /\ pc' = "upsert" /\ turns' = turns + 1
          /\ UNCHANGED <<runner, row, faults, streams>>
      BY <1>3 DEF DemoReplies, At, SelfPlay
    <2>2. \A f \in Events : Sound(f) => Sound(f)'
      BY <1>m, <1>e, <2>1 DEF Sound
    <2>3. Published <= Published'
      BY <1>m, <2>1 DEF Published, SelfPlay
    <2> QED
      BY <1>i, <2>1, <2>2, <2>3, Quiet
  <1>4. CASE DemoProspectFails \/ DemoRunsOut \/ DemoBrainFails
    <2>1. /\ ~SelfPlay /\ pc \in {"prospect", "agent"} /\ pc' = "finalize"
          /\ faults \subseteq faults' /\ UNCHANGED <<runner, turns, row, streams>>
      BY <1>4 DEF DemoProspectFails, DemoRunsOut, DemoBrainFails, LeaveLoop, At, SelfPlay
    <2>2. \A f \in Events : Sound(f) => Sound(f)'
      BY <2>1 DEF Sound
    <2>3. pc = "agent" => turns + 1 <= MaxTurns
      BY <1>0, <1>m, <2>1 DEF Budgeted
    <2>4. Published <= Published'
      BY <1>m, <2>1, <2>3 DEF Published, SelfPlay
    <2> QED
      BY <1>i, <2>1, <2>2, <2>4, Quiet
  <1>5. ASSUME NEW r \in Row, r.turns = turns,
               ~SelfPlay, UNCHANGED <<runner, turns>>, Written(r),
               NEW kind \in {"turn", "end"}, Publish(Event(kind)),
               pc # "done", kind = "end" => r.final /\ pc' = "done",
               Published + 1 <= Published'
        PROVE  Queues'
    <2>1. PICK e \in Events : e = Event(kind) /\ e = [kind |-> kind, turn |-> turns]
      BY <1>0, <1>5, EventTypes
    <2>2. row' = r \/ (row' = row /\ "store" \in faults')
      BY <1>5 DEF Written
    <2>3. faults \subseteq faults'
      BY <1>5 DEF Written
    <2>4. e.kind = kind /\ e.turn = turns
      BY <2>1
    <2>5. None \notin Row
      BY NoneAssumption
    <2>6. Sound(e)'
      BY <1>m, <1>5, <2>2, <2>4, <2>5 DEF Sound
    <2>7. ASSUME NEW f \in Events, Sound(f) PROVE Sound(f)'
      <3>1. f.turn \in Nat /\ f.turn <= turns /\ f.kind # "end"
        BY <1>e, <1>5, <2>7 DEF Sound
      <3> QED
        BY <1>m, <1>5, <2>2, <2>3, <2>5, <2>7, <3>1 DEF Sound
    <2> QED
      BY <1>i, <1>5, <2>1, <2>6, <2>7, Nudge
  <1>6. CASE DemoUpserts
    <2> DEFINE r == [outcome |-> IF close = None THEN "in_progress" ELSE Booked[close],
                     turns |-> turns, final |-> FALSE]
    <2>1. /\ ~SelfPlay /\ pc = "upsert" /\ pc' \in {"finalize", "prospect"}
          /\ Written(r) /\ turns' = turns /\ Publish(Event("turn")) /\ runner' = runner
      BY <1>6 DEF DemoUpserts, At, SelfPlay
    <2>2. r \in Row /\ r.turns = turns
      BY <1>0, RowTypes
    <2> HIDE DEF r
    <2>3. Published + 1 <= Published'
      BY <1>m, <2>1 DEF Published, SelfPlay
    <2> QED
      BY <1>5, <2>1, <2>2, <2>3
  <1>7. CASE DemoFinalizes
    <2> DEFINE r == [outcome |-> FinalOutcome, turns |-> turns, final |-> TRUE]
    <2>1. /\ ~SelfPlay /\ pc = "finalize" /\ pc' = "done"
          /\ Written(r) /\ turns' = turns /\ Publish(Event("end")) /\ runner' = runner
      BY <1>7 DEF DemoFinalizes, At, SelfPlay
    <2>2. r \in Row /\ r.turns = turns /\ r.final
      BY <1>0, RowTypes
    <2> HIDE DEF r
    <2>3. Published + 1 <= Published'
      BY <1>m, <2>1 DEF Published, SelfPlay
    <2> QED
      BY <1>5, <2>1, <2>2, <2>3
  <1>8. ASSUME NEW w \in Clients, Watch(w) PROVE Queues'
    <2>1. streams \in Streams
      BY <1>0 DEF Typed
    <2>2. /\ \A c \in Clients :
               /\ Len(streams'[c].queue) <= Len(streams[c].queue)
               /\ \A i \in DOMAIN streams'[c].queue : \E j \in DOMAIN streams[c].queue :
                    streams'[c].queue[i] = streams[c].queue[j]
          /\ UNCHANGED <<runner, persona, prospect, move, decided, pc, outcome, close, turns,
                         row, faults>>
      BY <1>8, <2>1, Watches
    <2>3. \A e \in Events : Queued(e)' => Queued(e)
      BY <2>2 DEF Queued
    <2>4. \A e \in Events : Sound(e) => Sound(e)'
      BY <2>2 DEF Sound
    <2>5. Published \in Int /\ Published' = Published
      BY <1>0, <2>2, PublishedType DEF Published, SelfPlay
    <2>6. \A c \in Clients : Len(streams'[c].queue) <= Len(streams[c].queue) + 0
      BY <1>0, <2>2, QueueType
    <2>7. Published + 0 <= Published' /\ 0 \in 0 .. 1
      BY <2>5
    <2> QED
      BY <1>i, <2>3, <2>4, <2>6, <2>7, Tells
  <1>9. CASE UNCHANGED vars
    <2>1. \A e \in Events : Sound(e) => Sound(e)'
      BY <1>9 DEF vars, Sound
    <2>2. Published \in Int /\ Published' = Published /\ streams' = streams
      BY <1>0, <1>9, PublishedType DEF vars, Published, SelfPlay
    <2>3. Published <= Published'
      BY <2>2
    <2> QED
      BY <1>i, <2>1, <2>2, <2>3, Quiet
  <1>10. ASSUME NEW d \in Deltas, Hears(d) PROVE Queues'
    BY <1>1, <1>10 DEF Hears, At, SelfPlay
  <1>11. ASSUME NEW m \in Moves, Replies(m) PROVE Queues'
    BY <1>1, <1>11 DEF Replies, At, SelfPlay
  <1>12. CASE Saves \/ Raises
    BY <1>1, <1>12 DEF Saves, Raises, At, SelfPlay
  <1> QED
    BY <1>2, <1>3, <1>4, <1>6, <1>7, <1>8, <1>9, <1>10, <1>11, <1>12 DEF Next, Runs, Watch

\* Types, and that no stream outgrows the call: a watcher who reads nothing has
\* two events per turn and the end waiting, which the capacity of a queue holds.
THEOREM SimulationTypeCorrect == Spec => []TypeOK
  <1>1. Inv3 => TypeOK
    <2> SUFFICES ASSUME Inv3 PROVE TypeOK
      OBVIOUS
    <2>1. Typed /\ Budgeted /\ Queues
      BY DEF Inv3, Inv1
    <2>2. /\ prospect \in State /\ prospect.turns <= MaxTurns /\ turns \in 0 .. MaxTurns
          /\ MaxTurns \in Nat /\ close \in Tiers \cup {None}
      BY <2>1, MaxTurnsAssumption DEF Typed
    <2>3. /\ prospect.trust \in Percent /\ prospect.need \in Percent
          /\ prospect.intent \in Percent /\ prospect.patience \in Percent
          /\ prospect.committed \in Tiers \cup {None} /\ prospect.turns \in 0 .. MaxTurns
      BY <2>2 DEF State
    <2>4. pc \in {"prospect", "agent", "upsert", "save", "finalize", "done", "raised"}
      BY <2>1 DEF Typed
    <2>5. ASSUME NEW c \in Clients
          PROVE  /\ streams[c].queue \in Seq(Events)
                 /\ Len(streams[c].queue) <= 2 * MaxTurns + 1
      <3>1. /\ streams[c].queue \in Seq(Events) /\ Len(streams[c].queue) \in Nat
            /\ Len(streams[c].queue) <= Published
        BY <2>1, QueueType DEF Queues
      <3>2. Published \in Int /\ Published <= 2 * MaxTurns + 1
        BY <2>1, PublishedType
      <3> QED
        BY <2>2, <3>1, <3>2
    <2> QED
      BY <2>2, <2>3, <2>4, <2>5 DEF TypeOK
  <1> QED
    BY <1>1, InitQueues, StepQueues, PTL DEF Spec

\* A watcher finds the row of every turn it is told of, and the final row once
\* it is told of the end, unless the store failed.
THEOREM NudgesFind == Spec => []NudgesFindTheRow
  <1>1. Inv3 => NudgesFindTheRow
    <2> SUFFICES ASSUME Inv3, NEW c \in Clients, NEW i \in DOMAIN streams[c].queue
                 PROVE  Sound(streams[c].queue[i])
      BY DEF NudgesFindTheRow, Sound
    <2>1. streams[c].queue[i] \in Events
      BY QueueType DEF Inv3, Inv1
    <2> QED
      BY <2>1 DEF Inv3, Queues, Queued
  <1> QED
    BY <1>1, InitQueues, StepQueues, PTL DEF Spec
=============================================================================
