------------------------- MODULE ImproveLoopProofs -------------------------
(***************************************************************************)
(* Theorems about the improvement loop, for every number of requests,      *)
(* rounds and runs, every set of versions and every choice of faults.      *)
(***************************************************************************)
EXTENDS ImproveLoop, FiniteSetTheorems, SequenceTheorems, TLAPS

-----------------------------------------------------------------------------
(* Versions. *)

\* A version is a sequence of changed dimensions, at most MaxDepth long.
LEMMA VersionSeq ==
  ASSUME NEW v
  PROVE  v \in Versions <=> v \in Seq(Dims) /\ Len(v) <= MaxDepth
  <1>1. ASSUME v \in Versions PROVE v \in Seq(Dims) /\ Len(v) <= MaxDepth
    <2>1. PICK n \in 0..MaxDepth : v \in [1..n -> Dims]
      BY <1>1 DEF Versions
    <2>2. n \in Nat /\ n <= MaxDepth
      BY <2>1, BoundsAssumption
    <2>3. v \in Seq(Dims)
      BY <2>1, <2>2, SeqDef
    <2>4. Len(v) \in Nat /\ 1..Len(v) = 1..n
      BY <2>1, <2>3, LenProperties
    <2>5. Len(v) = n
      BY <2>2, <2>4
    <2> QED BY <2>2, <2>3, <2>5
  <1>2. ASSUME v \in Seq(Dims), Len(v) <= MaxDepth PROVE v \in Versions
    <2>1. Len(v) \in 0..MaxDepth /\ v \in [1..Len(v) -> Dims]
      BY <1>2, LenProperties, BoundsAssumption
    <2> QED BY <2>1 DEF Versions
  <1> QED
    BY <1>1, <1>2

LEMMA BootstrapType == Bootstrap \in Versions
  <1>1. <<>> \in Seq(Dims) /\ Len(<<>>) = 0
    BY EmptySeq
  <1>2. Bootstrap \in Seq(Dims) /\ Len(Bootstrap) <= MaxDepth
    BY <1>1, BoundsAssumption DEF Bootstrap
  <1> QED
    BY <1>2, VersionSeq

\* A challenger of a version within the bound is a version, and a version other
\* than the bootstrap descends from one.
LEMMA ChallengerType ==
  ASSUME NEW d \in Dims, NEW v \in Challengers(d)
  PROVE  v \in Versions
  <1>1. PICK b \in Baselines : Len(b) < MaxDepth /\ v = Append(b, d)
    BY DEF Challengers
  <1>2. b \in Versions
    BY <1>1, BootstrapType DEF Baselines, Champions
  <1>3. b \in Seq(Dims)
    BY <1>2, VersionSeq
  <1>4. v \in Seq(Dims) /\ Len(v) = Len(b) + 1 /\ Len(b) \in Nat
    BY <1>1, <1>3
  <1>5. Len(v) <= MaxDepth
    BY <1>1, <1>4, BoundsAssumption
  <1> QED
    BY <1>4, <1>5, VersionSeq

LEMMA ParentType ==
  ASSUME NEW v \in Versions, v # Bootstrap
  PROVE  ParentOf(v) \in Versions
  <1>1. v \in Seq(Dims) /\ Len(v) <= MaxDepth
    BY VersionSeq
  <1>2. Len(v) \in Nat \ {0} /\ v \in [1..Len(v) -> Dims]
    BY <1>1, EmptySeq, LenProperties DEF Bootstrap
  <1>3. 1 \in Int /\ Len(v) - 1 \in Int /\ \A i \in 1..(Len(v) - 1) : v[i] \in Dims
    BY <1>2
  <1>4. /\ SubSeq(v, 1, Len(v) - 1) \in Seq(Dims)
        /\ Len(SubSeq(v, 1, Len(v) - 1)) =
             IF 1 <= Len(v) - 1 THEN Len(v) - 1 - 1 + 1 ELSE 0
    BY <1>3, SubSeqProperties
  <1>5. Len(ParentOf(v)) <= MaxDepth
    BY <1>1, <1>2, <1>4, BoundsAssumption DEF ParentOf
  <1> QED
    BY <1>4, <1>5, VersionSeq DEF ParentOf

-----------------------------------------------------------------------------
(* Type correctness. *)

InStore == {"recording", "waiting", "upserting"}

\* What a suspended request, round or run carries.
LEMMA TaskFields ==
  ASSUME NEW t \in Tasks
  PROVE  /\ t.pc = "launching" => t.n \in Runs /\ t.record \in Record
         /\ t.pc = "grading" => t.version \in Versions
         /\ t.pc \in {"logging", "closing"} => t.id \in Ids /\ t.record \in Record
         /\ t.pc \in InStore => t.version \in Versions /\ t.closing \in Closing
         /\ t.pc = "waiting" => t.held \in Versions
         /\ t.pc = "upserting" => t.held \in Versions \cup {None}
  BY DEF Tasks, InStore

LEMMA RunFields ==
  ASSUME NEW t \in RunTasks, t.pc # "none"
  PROVE  t.record \in Record
  BY DEF RunTasks

LEMMA IdleType == Idle \in Tasks /\ Idle.pc = "idle" /\ NoRun \in RunTasks /\ NoRun.pc = "none"
  BY DEF Idle, Tasks, NoRun, RunTasks

\* What the gate makes of a result is a state of a record, for a run never
\* "promoted".
LEMMA VerdictType ==
  ASSUME NEW r, NEW e, NEW d
  PROVE  /\ EvaluatePromotion(r, e, d) \in States
         /\ RunVerdict(r, e) \in States \ {"promoted"}
  BY DEF EvaluatePromotion, RunVerdict, States

LEMMA RecordType ==
  ASSUME NEW r \in Record
  PROVE  /\ Rejected(r) \in Record /\ Rejected(r).state = "rejected"
         /\ Rejected(r).version = r.version
         /\ \A s \in States : [r EXCEPT !.state = s] \in Record
                              /\ [r EXCEPT !.state = s].version = r.version
                              /\ [r EXCEPT !.state = s].state = s
  BY DEF Rejected, Record, Neutral, Result, States

\* What a step of h does to its own task, and of n to its own run.
LEMMA AfterSuspend ==
  ASSUME TypeOK, NEW h \in Handlers, NEW t, Suspend(h, t)
  PROVE  /\ task'[h] = t /\ \A g \in Handlers \ {h} : task'[g] = task[g]
         /\ t \in Tasks => task' \in [Handlers -> Tasks]
  BY DEF TypeOK, Suspend

LEMMA AfterProceeds ==
  ASSUME TypeOK, NEW n \in Runs, NEW t, RunProceeds(n, t)
  PROVE  /\ run'[n] = t /\ \A m \in Runs \ {n} : run'[m] = run[m]
         /\ t \in RunTasks => run' \in [Runs -> RunTasks]
  BY DEF TypeOK, RunProceeds

LEMMA AfterSave ==
  ASSUME TypeOK, NEW id \in Ids, NEW r \in Record, Save(id, r) \/ SaveUnanswered(id, r)
  PROVE  /\ experiments' \in [Ids -> Record \cup {None}]
         /\ experiments'[id] = r \/ experiments'[id] = experiments[id]
         /\ \A i \in Ids \ {id} : experiments'[i] = experiments[i]
  BY DEF TypeOK, Save, SaveUnanswered

LEMMA RunIds == \A n \in Runs : RunId(n) \in Ids
  BY DEF RunId, Ids

LEMMA InitType == Init => TypeOK
  <1> SUFFICES ASSUME Init PROVE TypeOK
    OBVIOUS
  <1>1. lineage \in [Versions -> {"absent", "recorded", "champion"}]
    BY DEF Init
  <1>2. disk \subseteq Versions
    BY BootstrapType DEF Init
  <1>3. permits \in 0..Permits /\ launched \in 0..MaxRuns
    BY BoundsAssumption DEF Init
  <1> QED
    BY <1>1, <1>2, <1>3, IdleType DEF Init, TypeOK

\* A request keeps the types; a step that may give back a permit keeps them if
\* the permit was taken.
LEMMA RequestType ==
  ASSUME TypeOK, NEW h \in Handlers, Request(h)
  PROVE  TypeOK'
  <1>1. ASSUME NEW c \in Changes, NEW v \in Versions, RunRequested(h, c, v) PROVE TypeOK'
    <2> DEFINE r == [version |-> v, extreme |-> c.extreme, result |-> Neutral,
                     state |-> "running"]
    <2>1. r \in Record
      BY ChangesAssumption DEF Record, Neutral, Result, States
    <2> HIDE DEF r
    <2>2. launched' \in Runs /\ launched' \in 0..MaxRuns /\ permits' \in 0..Permits
      BY <1>1, BoundsAssumption DEF RunRequested, TypeOK, Runs
    <2>3. [pc |-> "launching", n |-> launched', record |-> r] \in Tasks
      BY <2>1, <2>2 DEF Tasks
    <2>4. Suspend(h, [pc |-> "launching", n |-> launched', record |-> r])
      BY <1>1 DEF RunRequested, r
    <2>5. task' \in [Handlers -> Tasks]
      BY <2>3, <2>4, AfterSuspend
    <2> QED BY <1>1, <2>2, <2>5 DEF RunRequested, TypeOK
  <1>2. ASSUME NEW kind \in Surfaces, NEW c \in Changes, NEW v \in Versions,
               SaveDraft(h, kind, c, v)
        PROVE  TypeOK'
    <2> DEFINE r == [version |-> v, extreme |-> c.extreme, result |-> Neutral,
                     state |-> IF kind = "draft" THEN "running" ELSE "draft"]
               i == [kind |-> kind, version |-> v]
    <2>1. r \in Record
      BY ChangesAssumption DEF Record, Neutral, Result, States
    <2>2. i \in Ids
      BY DEF Ids
    <2>3. Save(i, r)
      BY <1>2 DEF SaveDraft
    <2> HIDE DEF i, r
    <2>4. experiments' \in [Ids -> Record \cup {None}]
      BY <2>1, <2>2, <2>3, AfterSave
    <2> QED BY <1>2, <2>4 DEF SaveDraft, TypeOK
  <1>3. ASSUME NEW id \in Ids, Approve(h, id) PROVE TypeOK'
    <2> DEFINE r == [experiments[id] EXCEPT !.state = "promoted"]
               k == [id |-> id, record |-> r]
               t == [pc |-> "recording", version |-> experiments[id].version, closing |-> k]
    <2>1. experiments[id] \in Record
      BY <1>3 DEF Approve, TypeOK
    <2>2. r \in Record /\ experiments[id].version \in Versions
      BY <2>1, RecordType DEF States, Record
    <2> HIDE DEF r
    <2>3. k \in Closing
      BY <2>2 DEF Closing
    <2> HIDE DEF k
    <2>4. t \in Tasks
      BY <2>2, <2>3 DEF Tasks
    <2>5. Suspend(h, t)
      BY <1>3 DEF Approve, k, r
    <2> HIDE DEF t
    <2> QED BY <1>3, <2>4, <2>5, AfterSuspend DEF Approve, TypeOK
  <1>4. ASSUME NEW id \in Ids, Reject(h, id) PROVE TypeOK'
    <2> DEFINE r == [experiments[id] EXCEPT !.state = "rejected"]
               t == [pc |-> "closing", id |-> id, record |-> r]
    <2>1. experiments[id] \in Record
      BY <1>4 DEF Reject, TypeOK
    <2>2. r \in Record
      BY <2>1, RecordType DEF States
    <2> HIDE DEF r
    <2>3. t \in Tasks
      BY <2>2 DEF Tasks
    <2>4. Suspend(h, t)
      BY <1>4 DEF Reject, r
    <2> HIDE DEF t
    <2> QED BY <1>4, <2>3, <2>4, AfterSuspend DEF Reject, TypeOK
  <1>5. ASSUME NEW v \in Versions, Rollback(h, v) PROVE TypeOK'
    <2> DEFINE t == [pc |-> "recording", version |-> v, closing |-> None]
    <2>1. t \in Tasks
      BY DEF Tasks, Closing
    <2>2. Suspend(h, t)
      BY <1>5 DEF Rollback
    <2> HIDE DEF t
    <2> QED BY <1>5, <2>1, <2>2, AfterSuspend DEF Rollback, TypeOK
  <1>6. ASSUME NEW d \in RoundDims, NEW v \in Versions, RoundStarts(h, d, v) PROVE TypeOK'
    <2> DEFINE t == [pc |-> "grading", version |-> v]
    <2>1. t \in Tasks
      BY DEF Tasks
    <2>2. Suspend(h, t)
      BY <1>6 DEF RoundStarts
    <2> HIDE DEF t
    <2> QED BY <1>6, <2>1, <2>2, AfterSuspend DEF RoundStarts, TypeOK
  <1> QED
    BY <1>1, <1>2, <1>3, <1>4, <1>5, <1>6 DEF Request

LEMMA ProceedType ==
  ASSUME TypeOK, NEW h \in Handlers, Proceed(h), permits' \in 0..Permits
  PROVE  TypeOK'
  <1> task[h] \in Tasks
    BY DEF TypeOK
  <1>1. ASSUME Return(h) PROVE task' \in [Handlers -> Tasks]
    BY <1>1, IdleType, AfterSuspend DEF Return
  <1>2. CASE RunLaunched(h)
    <2>1. task[h].n \in Runs /\ task[h].record \in Record
      BY <1>2, TaskFields DEF RunLaunched
    <2>2. experiments' \in [Ids -> Record \cup {None}]
      BY <1>2, <2>1, RunIds, AfterSave DEF RunLaunched
    <2>3. [pc |-> "testing", record |-> task[h].record] \in RunTasks
      BY <2>1 DEF RunTasks
    <2>4. run' \in [Runs -> RunTasks]
      BY <1>2, <2>1, <2>3 DEF RunLaunched, TypeOK
    <2> QED BY <1>1, <1>2, <2>2, <2>4 DEF RunLaunched, TypeOK
  <1>3. CASE RunNotLaunched(h)
    <2>1. task[h].n \in Runs /\ task[h].record \in Record
      BY <1>3, TaskFields DEF RunNotLaunched
    <2>2. experiments' \in [Ids -> Record \cup {None}]
      BY <1>3, <2>1, RunIds, AfterSave DEF RunNotLaunched
    <2> QED BY <1>1, <1>3, <2>2 DEF RunNotLaunched, TypeOK
  <1>4. CASE Closed(h)
    <2>1. task[h].id \in Ids /\ task[h].record \in Record
      BY <1>4, TaskFields DEF Closed
    <2>2. experiments' \in [Ids -> Record \cup {None}]
      BY <1>4, <2>1, AfterSave DEF Closed
    <2> QED BY <1>1, <1>4, <2>2 DEF Closed, TypeOK
  <1>5. ASSUME NEW r \in Results, NEW d \in {"unmeasured", "within", "above"},
               RoundGraded(h, r, d)
        PROVE  TypeOK'
    <2> DEFINE v == task[h].version
               s == EvaluatePromotion(r, FALSE, d)
               k == [version |-> v, extreme |-> FALSE, result |-> r, state |-> s]
               i == [kind |-> "round", version |-> v]
               t == [pc |-> "logging", id |-> i, record |-> k]
    <2>1. v \in Versions /\ s \in States /\ r \in Result
      BY <1>5, TaskFields, VerdictType, ResultsAssumption DEF RoundGraded
    <2> HIDE DEF v, s
    <2>2. k \in Record /\ i \in Ids
      BY <2>1 DEF Record, Ids
    <2> HIDE DEF k, i
    <2>3. t \in Tasks
      BY <2>2 DEF Tasks
    <2>4. Suspend(h, t)
      BY <1>5 DEF RoundGraded, i, k, s, v
    <2> HIDE DEF t
    <2> QED BY <1>5, <2>3, <2>4, AfterSuspend DEF RoundGraded, TypeOK
  <1>6. CASE RoundLogged(h)
    <2> DEFINE t == [pc |-> "recording", version |-> task[h].record.version,
                     closing |-> None]
    <2>1. task[h].id \in Ids /\ task[h].record \in Record
      BY <1>6, TaskFields DEF RoundLogged
    <2>2. experiments' \in [Ids -> Record \cup {None}]
      BY <1>6, <2>1, AfterSave DEF RoundLogged
    <2>3. task[h].record.version \in Versions
      BY <2>1 DEF Record
    <2>4. t \in Tasks
      BY <2>3 DEF Tasks, Closing
    <2>5. disk' \subseteq Versions /\ (Suspend(h, t) \/ Return(h))
      BY <1>6, <2>3 DEF RoundLogged, TypeOK
    <2> HIDE DEF t
    <2>6. task' \in [Handlers -> Tasks]
      BY <1>1, <2>4, <2>5, AfterSuspend
    <2> QED BY <1>6, <2>2, <2>5, <2>6 DEF RoundLogged, TypeOK
  <1>7. ASSUME task[h].pc \in InStore, NEW c \in Versions \cup {None}, Upserting(h, c)
        PROVE  task' \in [Handlers -> Tasks]
    <2> DEFINE t == [pc |-> "upserting", version |-> task[h].version,
                     closing |-> task[h].closing, held |-> c]
    <2>1. t \in Tasks
      BY <1>7, TaskFields DEF Tasks
    <2>2. Suspend(h, t)
      BY <1>7 DEF Upserting
    <2> HIDE DEF t
    <2> QED BY <2>1, <2>2, AfterSuspend
  <1>8. CASE Demotes(h)
    <2>1. ASSUME NEW c \in Versions,
                 Suspend(h, [pc |-> "waiting", version |-> task[h].version,
                             closing |-> task[h].closing, held |-> c])
          PROVE  task' \in [Handlers -> Tasks]
      <3> DEFINE t == [pc |-> "waiting", version |-> task[h].version,
                       closing |-> task[h].closing, held |-> c]
      <3>1. t \in Tasks
        BY <1>8, TaskFields DEF Tasks, Demotes, InStore
      <3>2. Suspend(h, t)
        BY <2>1
      <3> HIDE DEF t
      <3> QED BY <3>1, <3>2, AfterSuspend
    <2>2. task[h].pc \in InStore
      BY <1>8 DEF Demotes, InStore
    <2>3. task' \in [Handlers -> Tasks]
      BY <1>7, <1>8, <2>1, <2>2 DEF Demotes, Champions
    <2> QED BY <1>8, <2>3 DEF Demotes, TypeOK
  <1>9. CASE DemotesAfterWait(h)
    <2>1. task[h].held \in Versions /\ task[h].pc \in InStore
      BY <1>9, TaskFields DEF DemotesAfterWait, InStore
    <2>2. task' \in [Handlers -> Tasks]
      BY <1>7, <1>9, <2>1 DEF DemotesAfterWait
    <2> QED BY <1>9, <2>2 DEF DemotesAfterWait, TypeOK
  <1>10. CASE Commits(h)
    <2> DEFINE t == [pc |-> "closing", id |-> task[h].closing.id,
                     record |-> task[h].closing.record]
    <2>1. task[h].closing \in Closing
      BY <1>10, TaskFields DEF Commits, InStore
    <2>2. task[h].closing # None => t \in Tasks
      BY <2>1 DEF Closing, Tasks
    <2>3. (task[h].closing # None /\ Suspend(h, t)) \/ Return(h)
      BY <1>10 DEF Commits
    <2> HIDE DEF t
    <2>4. task' \in [Handlers -> Tasks]
      BY <1>1, <2>2, <2>3, AfterSuspend
    <2>5. lineage' \in [Versions -> {"absent", "recorded", "champion"}]
      BY <1>10 DEF Commits, TypeOK
    <2> QED BY <1>10, <2>4, <2>5 DEF Commits, TypeOK
  <1>11. CASE Aborts(h) \/ RoundFails(h)
    BY <1>1, <1>11 DEF Aborts, RoundFails, TypeOK
  <1>12. CASE StoreFails(h)
    <2>1. experiments' \in [Ids -> Record \cup {None}]
      <3>1. CASE task[h].pc = "logging"
        <4>1. task[h].id \in Ids /\ task[h].record \in Record
          BY <3>1, TaskFields
        <4> QED BY <1>12, <3>1, <4>1, AfterSave DEF StoreFails
      <3>2. CASE task[h].pc # "logging"
        BY <1>12, <3>2 DEF StoreFails, TypeOK
      <3> QED BY <3>1, <3>2
    <2> QED BY <1>1, <1>12, <2>1 DEF StoreFails, TypeOK
  <1> QED
    BY <1>2, <1>3, <1>4, <1>5, <1>6, <1>8, <1>9, <1>10, <1>11, <1>12 DEF Proceed

LEMMA RunAloneType ==
  ASSUME TypeOK, NEW n \in Runs, RunAlone(n), permits' \in 0..Permits
  PROVE  TypeOK'
  <1> run[n] \in RunTasks
    BY DEF TypeOK
  <1>1. run[n].record \in Record
    BY RunFields DEF RunAlone, TestEnds, TestFails, RunSettles, RunSaveFails
  <1>2. ASSUME NEW r \in Record, NEW pc \in {"saving", "failing"},
               RunProceeds(n, [pc |-> pc, record |-> r])
        PROVE  run' \in [Runs -> RunTasks]
    <2>1. [pc |-> pc, record |-> r] \in RunTasks
      BY DEF RunTasks
    <2> QED BY <1>2, <2>1, AfterProceeds
  <1>3. Rejected(run[n].record) \in Record
    BY <1>1, RecordType
  <1>4. ASSUME NEW r \in Results, TestEnds(n, r) PROVE TypeOK'
    <2> DEFINE s == RunVerdict(r, run[n].record.extreme)
               k == [run[n].record EXCEPT !.result = r, !.state = s]
    <2>1. s \in States /\ r \in Result
      BY VerdictType, ResultsAssumption
    <2> HIDE DEF s
    <2>2. k \in Record
      BY <1>1, <2>1 DEF Record
    <2>3. RunProceeds(n, [pc |-> "saving", record |-> k])
      BY <1>4 DEF TestEnds, s
    <2> HIDE DEF k
    <2>4. run' \in [Runs -> RunTasks]
      BY <1>2, <2>2, <2>3
    <2> QED BY <1>4, <2>4 DEF TestEnds, TypeOK
  <1>5. CASE TestFails(n)
    BY <1>2, <1>3, <1>5 DEF TestFails, TypeOK
  <1>6. CASE RunSettles(n) \/ RunSaveFails(n)
    <2>1. experiments' \in [Ids -> Record \cup {None}]
      BY <1>1, <1>6, RunIds, AfterSave DEF RunSettles, RunSaveFails
    <2>2. run' \in [Runs -> RunTasks]
      BY <1>2, <1>3, <1>6, IdleType, AfterProceeds DEF RunSettles, RunSaveFails
    <2> QED BY <1>6, <2>1, <2>2 DEF RunSettles, RunSaveFails, TypeOK
  <1> QED
    BY <1>4, <1>5, <1>6 DEF RunAlone

LEMMA CrashType == TypeOK /\ Crash => TypeOK'
  BY IdleType, BoundsAssumption DEF TypeOK, Crash

-----------------------------------------------------------------------------
(* Permits are conserved. *)

Launching == {h \in Handlers : task[h].pc = "launching"}
Busy      == {n \in Runs : run[n].pc # "none"}

\* Each request that launches a run has a number of its own that no run has
\* taken yet, so that the launch moves the permit from one to the other.
PermitInv ==
  /\ IsFiniteSet(Launching)
  /\ permits + Cardinality(Launching) + Cardinality(Busy) = Permits
  /\ \A h \in Launching : task[h].n <= launched /\ task[h].n \notin Busy
  /\ \A g, h \in Launching : g # h => task[g].n # task[h].n
  /\ \A n \in Busy : n <= launched

LEMMA BusyFinite ==
  /\ IsFiniteSet(Busy) /\ Cardinality(Busy) \in Nat
  /\ \A S \in SUBSET Runs : IsFiniteSet(S) /\ Cardinality(S) \in Nat
  <1>1. IsFiniteSet(Runs)
    BY FS_Interval, BoundsAssumption DEF Runs
  <1> QED
    BY <1>1, FS_Subset, FS_CardinalityType DEF Busy

LEMMA InitPermits == Init => PermitInv
  <1> SUFFICES ASSUME Init PROVE PermitInv
    OBVIOUS
  <1>1. Launching = {} /\ Busy = {} /\ permits = Permits
    BY DEF Init, Launching, Busy, Idle, NoRun
  <1>2. IsFiniteSet({}) /\ Cardinality({}) = 0
    BY FS_EmptySet
  <1> QED
    BY <1>1, <1>2, BoundsAssumption DEF PermitInv

\* What a step may do to the permits and their holders.
Launches(h) ==      \* h takes one
  /\ permits > 0 /\ permits' = permits - 1 /\ launched' = launched + 1
  /\ h \notin Launching /\ Launching' = Launching \cup {h} /\ task'[h].n = launched'
  /\ Busy' = Busy
HandsOver(h) ==     \* the run of h takes over
  /\ h \in Launching /\ Launching' = Launching \ {h}
  /\ Busy' = Busy \cup {task[h].n} /\ task[h].n \in Runs
  /\ permits' = permits /\ launched' = launched
GivesBack(h) ==     \* h gives it back
  /\ h \in Launching /\ Launching' = Launching \ {h}
  /\ permits' = permits + 1 /\ launched' = launched /\ Busy' = Busy
Releases(n) ==      \* the run n gives it back
  /\ n \in Busy /\ Busy' = Busy \ {n}
  /\ permits' = permits + 1 /\ launched' = launched /\ Launching' = Launching
Keeps ==
  /\ permits' = permits /\ launched' = launched
  /\ Launching' = Launching /\ Busy' = Busy
Restarts ==
  /\ permits' = Permits /\ launched' = launched
  /\ Launching' = {} /\ Busy' = {}

\* The number of a launching request does not change.
Numbered == \A h \in Launching' \cap Launching : task'[h] = task[h]

\* These moves conserve the permits.
LEMMA MovesConserve ==
  ASSUME TypeOK, PermitInv, Numbered,
         \/ \E h \in Handlers : Launches(h) \/ HandsOver(h) \/ GivesBack(h)
         \/ \E n \in Runs : Releases(n)
         \/ Keeps \/ Restarts
  PROVE  PermitInv' /\ permits' \in 0..Permits
  <1> DEFINE L == Cardinality(Launching)
             B == Cardinality(Busy)
  <1>1. /\ IsFiniteSet(Launching) /\ L \in Nat /\ B \in Nat
        /\ permits + L + B = Permits
        /\ permits \in Nat /\ Permits \in Nat /\ launched \in Nat
    BY BusyFinite, FS_CardinalityType, BoundsAssumption DEF PermitInv, TypeOK
  <1>2. ASSUME IsFiniteSet(Launching'), permits' \in Nat,
               permits' + Cardinality(Launching') + Cardinality(Busy') = Permits
        PROVE  permits' \in 0..Permits
    <2>1. Cardinality(Launching') \in Nat
      BY <1>2, FS_CardinalityType
    <2>2. Busy' \in SUBSET Runs
      BY DEF Busy
    <2>3. Cardinality(Busy') \in Nat
      BY <2>2, BusyFinite
    <2> QED BY <1>1, <1>2, <2>1, <2>3
  <1>3. \A h \in Launching : task[h].n \in Runs
    BY TaskFields DEF Launching, TypeOK
  <1>4. \A n \in Runs : n \in Nat
    BY DEF Runs
  <1>5. ASSUME NEW h \in Handlers, Launches(h) PROVE PermitInv' /\ permits' \in Nat
    <2>1. IsFiniteSet(Launching') /\ Cardinality(Launching') = L + 1
      BY <1>1, <1>5, FS_AddElement DEF Launches
    <2>2. permits' + Cardinality(Launching') + Cardinality(Busy') = Permits /\ permits' \in Nat
      BY <1>1, <1>5, <2>1 DEF Launches
    <2>3. \A g \in Launching' : task'[g].n <= launched' /\ task'[g].n \notin Busy'
      BY <1>1, <1>3, <1>4, <1>5 DEF Launches, PermitInv, Numbered
    <2>4. \A g, k \in Launching' : g # k => task'[g].n # task'[k].n
      BY <1>1, <1>3, <1>4, <1>5 DEF Launches, PermitInv, Numbered
    <2>5. \A n \in Busy' : n <= launched'
      BY <1>1, <1>4, <1>5 DEF Launches, PermitInv, Busy
    <2> QED BY <2>1, <2>2, <2>3, <2>4, <2>5 DEF PermitInv
  <1>6. ASSUME NEW h \in Handlers, HandsOver(h) PROVE PermitInv' /\ permits' \in Nat
    <2>1. IsFiniteSet(Launching') /\ Cardinality(Launching') = L - 1
      BY <1>1, <1>6, FS_RemoveElement DEF HandsOver
    <2>2. Cardinality(Busy') = B + 1
      BY <1>6, BusyFinite, FS_AddElement DEF HandsOver, PermitInv
    <2>3. permits' + Cardinality(Launching') + Cardinality(Busy') = Permits /\ permits' \in Nat
      BY <1>1, <1>6, <2>1, <2>2 DEF HandsOver
    <2>4. \A g \in Launching' : g # h /\ g \in Launching /\ task'[g] = task[g]
      BY <1>6 DEF HandsOver, Numbered
    <2>5. \A g \in Launching' : task'[g].n <= launched' /\ task'[g].n \notin Busy'
      BY <1>6, <2>4 DEF HandsOver, PermitInv
    <2>6. \A g, k \in Launching' : g # k => task'[g].n # task'[k].n
      BY <2>4 DEF PermitInv
    <2>7. \A n \in Busy' : n <= launched'
      BY <1>6 DEF HandsOver, PermitInv
    <2> QED BY <2>1, <2>3, <2>5, <2>6, <2>7 DEF PermitInv
  <1>7. ASSUME NEW h \in Handlers, GivesBack(h) PROVE PermitInv' /\ permits' \in Nat
    <2>1. IsFiniteSet(Launching') /\ Cardinality(Launching') = L - 1
      BY <1>1, <1>7, FS_RemoveElement DEF GivesBack
    <2>2. permits' + Cardinality(Launching') + Cardinality(Busy') = Permits /\ permits' \in Nat
      BY <1>1, <1>7, <2>1 DEF GivesBack
    <2>3. \A g \in Launching' : g \in Launching /\ task'[g] = task[g]
      BY <1>7 DEF GivesBack, Numbered
    <2> QED BY <1>7, <2>1, <2>2, <2>3 DEF PermitInv, GivesBack
  <1>8. ASSUME NEW n \in Runs, Releases(n) PROVE PermitInv' /\ permits' \in Nat
    <2>1. Cardinality(Busy') = B - 1
      BY <1>8, BusyFinite, FS_RemoveElement DEF Releases
    <2>2. permits' + Cardinality(Launching') + Cardinality(Busy') = Permits /\ permits' \in Nat
      BY <1>1, <1>8, <2>1 DEF Releases
    <2>3. \A g \in Launching' : g \in Launching /\ task'[g] = task[g]
      BY <1>8 DEF Releases, Numbered
    <2> QED BY <1>1, <1>8, <2>2, <2>3 DEF PermitInv, Releases
  <1>9. ASSUME Keeps PROVE PermitInv' /\ permits' \in Nat
    <2>1. \A g \in Launching' : g \in Launching /\ task'[g] = task[g]
      BY <1>9 DEF Keeps, Numbered
    <2> QED BY <1>1, <1>9, <2>1 DEF PermitInv, Keeps
  <1>10. ASSUME Restarts PROVE PermitInv' /\ permits' \in Nat
    BY <1>1, <1>10, FS_EmptySet DEF PermitInv, Restarts
  <1>11. PermitInv' /\ permits' \in Nat
    BY <1>5, <1>6, <1>7, <1>8, <1>9, <1>10
  <1> QED
    BY <1>2, <1>11 DEF PermitInv

\* A step of h that has nothing to do with a launch.
Aside(h) ==
  /\ task[h].pc # "launching" /\ task'[h].pc # "launching"
  /\ \A g \in Handlers \ {h} : task'[g] = task[g]
  /\ UNCHANGED <<permits, launched, run>>

LEMMA HandlerMoves ==
  ASSUME TypeOK, NEW h \in Handlers, Request(h) \/ Proceed(h)
  PROVE  (Launches(h) \/ HandsOver(h) \/ GivesBack(h) \/ Keeps) /\ Numbered
  <1> USE AfterSuspend, IdleType DEF Return
  <1> DEFINE Goal == (Launches(h) \/ HandsOver(h) \/ GivesBack(h) \/ Keeps) /\ Numbered
  <1>1. ASSUME Aside(h) PROVE Goal
    BY <1>1 DEF Aside, Keeps, Launching, Busy, Numbered
  <1>2. ASSUME NEW c \in Changes, NEW v \in Versions, RunRequested(h, c, v) PROVE Goal
    <2>1. /\ task[h].pc # "launching" /\ task'[h].pc = "launching" /\ task'[h].n = launched'
          /\ \A g \in Handlers \ {h} : task'[g] = task[g]
      BY <1>2 DEF RunRequested
    <2>2. Launching' = Launching \cup {h} /\ h \notin Launching
      BY <2>1 DEF Launching
    <2>3. Launches(h)
      BY <1>2, <2>1, <2>2 DEF RunRequested, Launches, Busy
    <2>4. Launching \subseteq Handlers
      BY DEF Launching
    <2> QED BY <2>1, <2>2, <2>3, <2>4 DEF Numbered
  <1>3. ASSUME task[h].pc = "launching", Return(h)
        PROVE  h \in Launching /\ Launching' = Launching \ {h} /\ Numbered
    BY <1>3 DEF Launching, Numbered
  <1>4. CASE RunLaunched(h)
    <2>1. task[h].n \in Runs
      BY <1>4, TaskFields DEF RunLaunched, TypeOK
    <2>2. /\ run'[task[h].n].pc = "testing"
          /\ \A n \in Runs \ {task[h].n} : run'[n] = run[n]
      BY <1>4, <2>1 DEF RunLaunched, TypeOK
    <2>3. Busy' = Busy \cup {task[h].n}
      BY <2>1, <2>2 DEF Busy
    <2> QED BY <1>3, <1>4, <2>1, <2>3 DEF RunLaunched, HandsOver
  <1>5. CASE RunNotLaunched(h)
    BY <1>3, <1>5 DEF RunNotLaunched, GivesBack, Busy
  <1>6. /\ task[h].pc # "launching" /\ UNCHANGED <<permits, launched, run>>
        /\ (\E t : t.pc # "launching" /\ Suspend(h, t)) \/ Return(h)
        => Aside(h)
    BY DEF Aside
  <1> DEFINE Plain(t) == t.pc # "launching"
             recording(v, c)   == [pc |-> "recording", version |-> v, closing |-> c]
             closing(i, r)     == [pc |-> "closing", id |-> i, record |-> r]
             logging(i, r)     == [pc |-> "logging", id |-> i, record |-> r]
             waiting(v, c, k)  == [pc |-> "waiting", version |-> v, closing |-> c, held |-> k]
             upsert(v, c, k)   == [pc |-> "upserting", version |-> v, closing |-> c, held |-> k]
  <1>7. \A v, c, k : /\ Plain(recording(v, c)) /\ Plain(closing(v, c)) /\ Plain(logging(v, c))
                     /\ Plain(waiting(v, c, k)) /\ Plain(upsert(v, c, k))
    OBVIOUS
  <1>8. ASSUME NEW kind \in Surfaces, NEW c \in Changes, NEW v \in Versions,
               SaveDraft(h, kind, c, v)
        PROVE  Aside(h)
    BY <1>8 DEF SaveDraft, Aside
  <1>9. ASSUME NEW d \in RoundDims, NEW v \in Versions, RoundStarts(h, d, v) PROVE Aside(h)
    BY <1>9 DEF RoundStarts, Aside
  <1>10. CASE Closed(h) \/ RoundFails(h) \/ Aborts(h) \/ StoreFails(h)
    <2>1. task[h].pc # "launching" /\ Return(h) /\ UNCHANGED <<permits, launched, run>>
      BY <1>10 DEF Closed, RoundFails, Aborts, StoreFails
    <2> QED BY <1>1, <1>6, <2>1
  <1> HIDE DEF recording, closing, logging, waiting, upsert
  <1>11. ASSUME NEW id \in Ids, Approve(h, id) \/ Reject(h, id) PROVE Aside(h)
    <2>1. /\ task[h].pc # "launching" /\ UNCHANGED <<permits, launched, run>>
          /\ \E v, c : Suspend(h, recording(v, c)) \/ Suspend(h, closing(v, c))
      BY <1>11 DEF Approve, Reject, recording, closing
    <2> QED BY <1>6, <1>7, <2>1
  <1>12. ASSUME NEW v \in Versions, Rollback(h, v) PROVE Aside(h)
    BY <1>12 DEF Rollback, Aside
  <1>13. ASSUME NEW r \in Results, NEW d \in {"unmeasured", "within", "above"},
                RoundGraded(h, r, d)
         PROVE  Aside(h)
    <2>1. /\ task[h].pc # "launching" /\ UNCHANGED <<permits, launched, run>>
          /\ \E v, c : Suspend(h, logging(v, c))
      BY <1>13 DEF RoundGraded, logging
    <2> QED BY <1>6, <1>7, <2>1
  <1>14. CASE RoundLogged(h)
    <2>1. /\ task[h].pc # "launching" /\ UNCHANGED <<permits, launched, run>>
          /\ \E v, c : Suspend(h, recording(v, c)) \/ Return(h)
      BY <1>14 DEF RoundLogged, recording
    <2> QED BY <1>1, <1>6, <1>7, <2>1
  <1>15. CASE Demotes(h) \/ DemotesAfterWait(h)
    <2>1. /\ task[h].pc # "launching" /\ UNCHANGED <<permits, launched, run>>
          /\ \E v, c, k : Suspend(h, waiting(v, c, k)) \/ Suspend(h, upsert(v, c, k))
      BY <1>15 DEF Demotes, DemotesAfterWait, Upserting, waiting, upsert
    <2> QED BY <1>1, <1>6, <1>7, <2>1
  <1>16. CASE Commits(h)
    <2>1. /\ task[h].pc # "launching" /\ UNCHANGED <<permits, launched, run>>
          /\ \E v, c : Suspend(h, closing(v, c)) \/ Return(h)
      BY <1>16 DEF Commits, closing
    <2> QED BY <1>1, <1>6, <1>7, <2>1
  <1> QED
    BY <1>1, <1>2, <1>4, <1>5, <1>8, <1>9, <1>10, <1>11, <1>12, <1>13, <1>14, <1>15, <1>16
       DEF Request, Proceed

LEMMA RunMoves ==
  ASSUME TypeOK, NEW n \in Runs, RunAlone(n)
  PROVE  (Releases(n) \/ Keeps) /\ Numbered
  <1> USE AfterProceeds, IdleType
  <1> DEFINE Goal == (Releases(n) \/ Keeps) /\ Numbered
  <1>1. run[n].pc # "none" /\ task' = task /\ launched' = launched
    BY DEF RunAlone, TestEnds, TestFails, RunSettles, RunSaveFails
  <1>2. ASSUME run'[n].pc # "none", \A m \in Runs \ {n} : run'[m] = run[m],
               permits' = permits
        PROVE  Goal
    BY <1>1, <1>2 DEF Keeps, Launching, Busy, Numbered
  <1>3. ASSUME RunProceeds(n, NoRun), permits' = permits + 1 PROVE Goal
    <2>1. run'[n].pc = "none" /\ \A m \in Runs \ {n} : run'[m] = run[m]
      BY <1>3
    <2>2. n \in Busy /\ Busy' = Busy \ {n}
      BY <1>1, <2>1 DEF Busy
    <2> QED BY <1>1, <1>3, <2>2 DEF Releases, Launching, Numbered
  <1>4. ASSUME NEW r, NEW pc \in {"saving", "failing"},
               RunProceeds(n, [pc |-> pc, record |-> r]), permits' = permits
        PROVE  Goal
    <2>1. run'[n].pc = pc /\ \A m \in Runs \ {n} : run'[m] = run[m]
      BY <1>4
    <2> QED BY <1>2, <1>4, <2>1
  <1>5. ASSUME NEW r \in Results, TestEnds(n, r) PROVE Goal
    BY <1>4, <1>5 DEF TestEnds
  <1>6. CASE TestFails(n)
    BY <1>4, <1>6 DEF TestFails
  <1>7. CASE RunSettles(n)
    BY <1>3, <1>7 DEF RunSettles
  <1>8. CASE RunSaveFails(n)
    BY <1>3, <1>4, <1>8 DEF RunSaveFails
  <1> QED
    BY <1>5, <1>6, <1>7, <1>8 DEF RunAlone

LEMMA StepPermits == TypeOK /\ PermitInv /\ [Next]_vars => TypeOK' /\ PermitInv'
  <1> SUFFICES ASSUME TypeOK, PermitInv, [Next]_vars PROVE TypeOK' /\ PermitInv'
    OBVIOUS
  <1>1. CASE UNCHANGED vars
    BY <1>1 DEF vars, TypeOK, PermitInv, Launching, Busy
  <1>2. ASSUME NEW h \in Handlers, Request(h) \/ Proceed(h) PROVE TypeOK' /\ PermitInv'
    <2>1. PermitInv' /\ permits' \in 0..Permits
      BY <1>2, HandlerMoves, MovesConserve
    <2> QED BY <1>2, <2>1, RequestType, ProceedType
  <1>3. ASSUME NEW n \in Runs, RunAlone(n) PROVE TypeOK' /\ PermitInv'
    <2>1. PermitInv' /\ permits' \in 0..Permits
      BY <1>3, RunMoves, MovesConserve
    <2> QED BY <1>3, <2>1, RunAloneType
  <1>4. CASE Crash
    <2>1. Restarts /\ Numbered
      BY <1>4 DEF Crash, Restarts, Launching, Busy, Numbered, Idle, NoRun
    <2> QED BY <1>4, <2>1, CrashType, MovesConserve
  <1> QED
    BY <1>1, <1>2, <1>3, <1>4 DEF Next

\* Every record keeps its type, and whatever fails, in whatever order, no permit
\* of the run semaphore is lost or invented.
THEOREM PermitsConserved == Spec => []PermitsAccounted
  <1>1. Init => TypeOK /\ PermitInv
    BY InitType, InitPermits
  <1>2. TypeOK /\ PermitInv => PermitsAccounted
    BY DEF PermitInv, PermitsAccounted, Launching, Busy
  <1> QED
    BY <1>1, <1>2, StepPermits, PTL DEF Spec

-----------------------------------------------------------------------------
(* The version store is one register of the champion. *)

Recorded == {v \in Versions : lineage[v] # "absent"}

\* What is suspended holds by the lineage: an approval closes the record of the
\* version it records, and only what was recorded is closed as promoted; the
\* row a transaction has demoted, or waits for, is another one of the lineage.
TaskSound(t, recorded) ==
  /\ t.pc = "launching" => t.record.state = "running"
  /\ t.pc = "logging" => t.id.kind = "round"
  /\ (t.pc \in InStore /\ t.closing # None) =>
       t.closing.record.version = t.version
  /\ (t.pc = "closing" /\ t.record.state = "promoted") => t.record.version \in recorded
  /\ (t.pc = "waiting" \/ (t.pc = "upserting" /\ t.held # None)) =>
       t.held \in recorded \ {t.version}

RecordInv ==
  /\ \A h \in Handlers : TaskSound(task[h], Recorded)
  /\ \A n \in Busy : run[n].record.state # "promoted"
  /\ ApprovedIsRecorded

LEMMA InitRecords == Init => RecordInv
  <1> SUFFICES ASSUME Init PROVE RecordInv
    OBVIOUS
  <1>1. \A h \in Handlers : task[h].pc = "idle"
    BY IdleType DEF Init
  <1>2. Busy = {}
    BY IdleType DEF Init, Busy
  <1>3. ApprovedIsRecorded
    BY RunIds DEF Init, ApprovedIsRecorded
  <1> QED
    BY <1>1, <1>2, <1>3 DEF RecordInv, TaskSound, InStore

\* Only a commit changes the lineage: it crowns its version in place of any
\* other champion and drops none.
LEMMA LineageShape ==
  ASSUME TypeOK, RecordInv, [Next]_vars
  PROVE  \/ lineage' = lineage
         \/ \E h \in Handlers :
              LET v == task[h].version
              IN  /\ Commits(h) /\ v \in Versions
                  /\ v = Bootstrap \/ ParentOf(v) \in Recorded
                  /\ Recorded' = Recorded \cup {v}
                  /\ Champions' = {v}
  <1>1. CASE UNCHANGED vars
    BY <1>1 DEF vars
  <1>2. ASSUME NEW h \in Handlers, Request(h) \/ Proceed(h), ~Commits(h)
        PROVE  lineage' = lineage
    BY <1>2 DEF Request, Proceed, RunRequested, SaveDraft, Approve, Reject, Rollback,
                RoundStarts, RunLaunched, RunNotLaunched, Closed, RoundGraded, RoundFails,
                RoundLogged, Demotes, DemotesAfterWait, Aborts, StoreFails
  <1>3. ASSUME NEW n \in Runs, RunAlone(n) PROVE lineage' = lineage
    BY <1>3 DEF RunAlone, TestEnds, TestFails, RunSettles, RunSaveFails
  <1>4. CASE Crash
    BY <1>4 DEF Crash
  <1>5. ASSUME NEW h \in Handlers, Commits(h)
        PROVE  LET v == task[h].version
               IN  /\ v \in Versions
                   /\ v = Bootstrap \/ ParentOf(v) \in Recorded
                   /\ Recorded' = Recorded \cup {v}
                   /\ Champions' = {v}
    <2> DEFINE v == task[h].version
               k == task[h].held
    <2>1. task[h] \in Tasks /\ task[h].pc = "upserting"
      BY <1>5 DEF Commits, TypeOK
    <2>2. v \in Versions
      BY <2>1, TaskFields DEF InStore
    <2>3. (k = None \/ k \in Recorded) /\ k # v
      BY <2>1, <2>2, NoneAssumption DEF RecordInv, TaskSound
    <2>4. /\ v = Bootstrap \/ lineage[ParentOf(v)] # "absent"
          /\ Champions \subseteq {v, k}
      BY <1>5 DEF Commits, Insertable
    <2>5. lineage' = [w \in Versions |-> CASE w = v -> "champion"
                                          [] w = k -> "recorded"
                                          [] OTHER -> lineage[w]]
      BY <1>5 DEF Commits
    <2> HIDE DEF v, k
    <2>6. v = Bootstrap \/ ParentOf(v) \in Recorded
      BY <2>2, <2>4, ParentType DEF Recorded
    <2>7. \A w \in Versions : lineage'[w] = CASE w = v -> "champion"
                                             [] w = k -> "recorded"
                                             [] OTHER -> lineage[w]
      BY <2>5
    <2>8. /\ lineage'[v] = "champion"
          /\ \A w \in Versions \ {v} :
               lineage'[w] = IF w = k THEN "recorded" ELSE lineage[w]
      BY <2>2, <2>3, <2>7
    <2>9. Recorded' = Recorded \cup {v}
      <3>1. ASSUME NEW w \in Versions \ {v}
            PROVE  lineage'[w] # "absent" <=> lineage[w] # "absent"
        <4>1. CASE w = k
          <5>1. lineage[w] # "absent"
            BY <2>3, <4>1, NoneAssumption DEF Recorded
          <5> QED BY <2>8, <4>1, <5>1
        <4>2. CASE w # k
          BY <2>8, <4>2
        <4> QED BY <4>1, <4>2
      <3> QED BY <2>2, <2>8, <3>1 DEF Recorded
    <2>10. Champions' = {v}
      <3>1. ASSUME NEW w \in Versions \ {v} PROVE lineage'[w] # "champion"
        <4>1. CASE w = k
          BY <2>8, <4>1
        <4>2. CASE w # k
          BY <2>4, <2>8, <4>2 DEF Champions
        <4> QED BY <4>1, <4>2
      <3> QED BY <2>2, <2>8, <3>1 DEF Champions
    <2> QED BY <2>2, <2>6, <2>9, <2>10 DEF v
  <1> QED
    BY <1>1, <1>2, <1>3, <1>4, <1>5 DEF Next

LEMMA RecordedGrows ==
  ASSUME TypeOK, RecordInv, [Next]_vars
  PROVE  Recorded \subseteq Recorded'
  <1>1. lineage' = lineage => Recorded' = Recorded
    BY DEF Recorded
  <1> QED
    BY <1>1, LineageShape

\* What a suspended request holds by it stays true.
LEMMA SoundGrows ==
  ASSUME NEW t, NEW r, NEW q, TaskSound(t, r), r \subseteq q
  PROVE  TaskSound(t, q)
  BY DEF TaskSound

\* The task a step leaves its handler with holds by the lineage.
LEMMA TaskStep ==
  ASSUME TypeOK, RecordInv, NEW h \in Handlers, Request(h) \/ Proceed(h)
  PROVE  TaskSound(task'[h], Recorded')
  <1> DEFINE s == task[h]
             t == task'[h]
  <1> USE AfterSuspend, IdleType DEF Return
  <1>1. s \in Tasks /\ TaskSound(s, Recorded)
    BY DEF TypeOK, RecordInv
  <1>2. TaskSound(s, Recorded')
    BY <1>1, RecordedGrows, SoundGrows DEF Next
  <1>3. ASSUME NEW pc \in {"idle", "grading"}, t.pc = pc PROVE TaskSound(t, Recorded')
    BY <1>3 DEF TaskSound, InStore
  <1>4. ASSUME NEW c \in Changes, NEW v \in Versions, RunRequested(h, c, v)
        PROVE  TaskSound(t, Recorded')
    <2> DEFINE r == [version |-> v, extreme |-> c.extreme, result |-> Neutral,
                     state |-> "running"]
    <2>1. r.state = "running"
      OBVIOUS
    <2>2. Suspend(h, [pc |-> "launching", n |-> launched', record |-> r])
      BY <1>4 DEF RunRequested
    <2> HIDE DEF r
    <2>3. t.pc = "launching" /\ t.record = r
      BY <2>2
    <2> HIDE DEF t
    <2> QED BY <2>1, <2>3 DEF TaskSound, InStore
  <1>5. ASSUME NEW kind \in Surfaces, NEW c \in Changes, NEW v \in Versions,
               SaveDraft(h, kind, c, v)
        PROVE  t = s
    BY <1>5 DEF SaveDraft
  <1>6. ASSUME NEW v, NEW k, NEW x, x = [pc |-> "recording", version |-> v, closing |-> k],
               Suspend(h, x), k # None => k.record.version = v
        PROVE  TaskSound(t, Recorded')
    <2>1. x.pc = "recording" /\ x.version = v /\ x.closing = k
      BY <1>6
    <2>2. t = x
      BY <1>6
    <2> HIDE DEF t
    <2> QED BY <1>6, <2>1, <2>2 DEF TaskSound
  <1>7. ASSUME NEW id \in Ids, Approve(h, id) PROVE TaskSound(t, Recorded')
    <2> DEFINE e == experiments[id]
               r == [e EXCEPT !.state = "promoted"]
               k == [id |-> id, record |-> r]
               x == [pc |-> "recording", version |-> e.version, closing |-> k]
    <2>1. e \in Record
      BY <1>7 DEF Approve, TypeOK
    <2>2. r.version = e.version
      BY <2>1, RecordType DEF States
    <2>3. Suspend(h, x)
      BY <1>7 DEF Approve
    <2> HIDE DEF r
    <2>4. k.record.version = e.version
      BY <2>2
    <2> HIDE DEF k
    <2> QED BY <1>6, <2>3, <2>4
  <1>8. ASSUME NEW v \in Versions, Rollback(h, v) PROVE TaskSound(t, Recorded')
    <2> DEFINE x == [pc |-> "recording", version |-> v, closing |-> None]
    <2>1. Suspend(h, x)
      BY <1>8 DEF Rollback
    <2> HIDE DEF t
    <2> QED BY <1>6, <2>1
  <1>9. ASSUME NEW id \in Ids, Reject(h, id) PROVE TaskSound(t, Recorded')
    <2> DEFINE r == [experiments[id] EXCEPT !.state = "rejected"]
               x == [pc |-> "closing", id |-> id, record |-> r]
    <2>1. experiments[id] \in Record
      BY <1>9 DEF Reject, TypeOK
    <2>2. r.state = "rejected"
      BY <2>1, RecordType DEF States
    <2>3. Suspend(h, x)
      BY <1>9 DEF Reject
    <2> HIDE DEF r
    <2>4. t.pc = "closing" /\ t.record = r
      BY <2>3
    <2> HIDE DEF t
    <2> QED BY <2>2, <2>4 DEF TaskSound, InStore
  <1>10. ASSUME NEW d \in RoundDims, NEW v \in Versions, RoundStarts(h, d, v)
         PROVE  TaskSound(t, Recorded')
    <2>1. t.pc = "grading"
      BY <1>10 DEF RoundStarts
    <2> QED BY <1>3, <2>1
  <1>11. CASE Return(h)
    <2>1. t.pc = "idle"
      BY <1>11
    <2> QED BY <1>3, <2>1
  <1>12. ASSUME NEW r \in Results, NEW d \in {"unmeasured", "within", "above"},
                RoundGraded(h, r, d)
         PROVE  TaskSound(t, Recorded')
    <2> DEFINE i == [kind |-> "round", version |-> s.version]
               k == [version |-> s.version, extreme |-> FALSE, result |-> r,
                     state |-> EvaluatePromotion(r, FALSE, d)]
    <2>1. i.kind = "round"
      OBVIOUS
    <2>2. Suspend(h, [pc |-> "logging", id |-> i, record |-> k])
      BY <1>12 DEF RoundGraded
    <2> HIDE DEF i, k
    <2>3. t.pc = "logging" /\ t.id = i
      BY <2>2
    <2> HIDE DEF t
    <2> QED BY <2>1, <2>3 DEF TaskSound, InStore
  <1>13. CASE RoundLogged(h)
    <2> DEFINE x == [pc |-> "recording", version |-> s.record.version, closing |-> None]
    <2>1. Suspend(h, x) \/ Return(h)
      BY <1>13 DEF RoundLogged
    <2> QED BY <1>6, <1>11, <2>1
  <1>14. ASSUME NEW k, s.pc \in InStore,
                k = None \/ k \in Recorded \ {s.version},
                NEW pc \in {"waiting", "upserting"}, pc = "waiting" => k # None,
                Suspend(h, [pc |-> pc, version |-> s.version, closing |-> s.closing,
                            held |-> k])
         PROVE  TaskSound(t, Recorded')
    <2>1. t.pc = pc /\ t.version = s.version /\ t.closing = s.closing /\ t.held = k
      BY <1>14
    <2>2. k = None \/ k \in Recorded' \ {s.version}
      BY <1>14, RecordedGrows DEF Next
    <2>3. s.closing # None => s.closing.record.version = s.version
      BY <1>1, <1>14 DEF TaskSound
    <2> HIDE DEF t, s
    <2> QED BY <1>14, <2>1, <2>2, <2>3 DEF TaskSound, InStore
  <1>15. CASE Demotes(h)
    <2>1. s.pc \in InStore
      BY <1>15 DEF Demotes, InStore
    <2>2. \A c \in Champions \ {s.version} : c \in Recorded \ {s.version} /\ c # None
      BY NoneAssumption DEF Champions, Recorded
    <2>3. \/ Upserting(h, None)
          \/ \E c \in Champions \ {s.version} :
               \/ Upserting(h, c)
               \/ Suspend(h, [pc |-> "waiting", version |-> s.version,
                              closing |-> s.closing, held |-> c])
      BY <1>15 DEF Demotes
    <2> QED BY <1>14, <2>1, <2>2, <2>3 DEF Upserting
  <1>16. CASE DemotesAfterWait(h)
    <2>1. s.pc = "waiting" /\ s.pc \in InStore
      BY <1>16 DEF DemotesAfterWait, InStore
    <2>2. s.held \in Recorded \ {s.version}
      BY <1>1, <2>1 DEF TaskSound
    <2>3. Upserting(h, None) \/ Upserting(h, s.held)
      BY <1>16 DEF DemotesAfterWait
    <2> QED BY <1>14, <2>1, <2>2, <2>3 DEF Upserting
  <1>17. CASE Commits(h)
    <2>1. ASSUME s.closing # None,
                 Suspend(h, [pc |-> "closing", id |-> s.closing.id,
                             record |-> s.closing.record])
          PROVE  TaskSound(t, Recorded')
      <3>1. t.pc = "closing" /\ t.record = s.closing.record
        BY <2>1
      <3>2. s.closing.record.version = s.version
        BY <1>1, <1>17, <2>1 DEF TaskSound, InStore, Commits
      <3>3. s.version \in Recorded'
        <4>1. s.version \in Versions
          BY <1>1, <1>17, TaskFields DEF Commits, InStore
        <4>2. lineage'[s.version] = "champion"
          <5>1. s.held # s.version
            BY <1>1, <1>17, <4>1, NoneAssumption DEF TaskSound, Commits
          <5> QED BY <1>17, <4>1, <5>1 DEF Commits
        <4> QED BY <4>1, <4>2 DEF Recorded
      <3> HIDE DEF t, s
      <3> QED BY <3>1, <3>2, <3>3 DEF TaskSound, InStore
    <2>2. (s.closing # None /\ Suspend(h, [pc |-> "closing", id |-> s.closing.id,
                                           record |-> s.closing.record])) \/ Return(h)
      BY <1>17 DEF Commits
    <2> QED BY <1>11, <2>1, <2>2
  <1>18. CASE \/ RunLaunched(h) \/ RunNotLaunched(h) \/ Closed(h) \/ RoundFails(h)
              \/ Aborts(h) \/ StoreFails(h)
    <2>1. Return(h)
      BY <1>18 DEF RunLaunched, RunNotLaunched, Closed, RoundFails, Aborts, StoreFails
    <2> QED BY <1>11, <2>1
  <1> HIDE DEF s, t
  <1> QED
    BY <1>2, <1>4, <1>5, <1>7, <1>8, <1>9, <1>10, <1>12, <1>13, <1>15, <1>16, <1>17, <1>18
       DEF Request, Proceed, t

\* No background run holds a record that says promoted.
LEMMA RunsUnpromoted ==
  ASSUME TypeOK, RecordInv, [Next]_vars
  PROVE  \A n \in Busy' : run'[n].record.state # "promoted"
  <1> DEFINE Goal == \A n \in Busy' : run'[n].record.state # "promoted"
  <1>1. \A n \in Busy : n \in Runs /\ run[n].record.state # "promoted"
    BY DEF RecordInv, Busy
  <1>2. CASE run' = run
    BY <1>1, <1>2 DEF Busy
  <1>3. ASSUME NEW n \in Runs, \A m \in Runs \ {n} : run'[m] = run[m],
               run'[n].pc = "none" \/ run'[n].record.state # "promoted"
        PROVE  Goal
    BY <1>1, <1>3 DEF Busy
  <1>4. ASSUME NEW h \in Handlers, RunLaunched(h) PROVE Goal
    <2>1. task[h].n \in Runs /\ task[h].record.state = "running"
      BY <1>4, TaskFields DEF RunLaunched, TypeOK, RecordInv, TaskSound
    <2>2. run'[task[h].n] = [pc |-> "testing", record |-> task[h].record]
          /\ \A m \in Runs \ {task[h].n} : run'[m] = run[m]
      BY <1>4, <2>1 DEF RunLaunched, TypeOK
    <2> QED BY <1>3, <2>1, <2>2
  <1>5. ASSUME NEW h \in Handlers, Request(h) \/ Proceed(h), ~RunLaunched(h)
        PROVE  run' = run
    BY <1>5 DEF Request, Proceed, RunRequested, SaveDraft, Approve, Reject, Rollback,
                RoundStarts, RunNotLaunched, Closed, RoundGraded, RoundFails, RoundLogged, Demotes,
                DemotesAfterWait, Commits, Aborts, StoreFails
  <1>6. ASSUME NEW n \in Runs, RunAlone(n) PROVE Goal
    <2> run[n] \in RunTasks
      BY DEF TypeOK
    <2>1. run[n].record \in Record
      BY <1>6, RunFields DEF RunAlone, TestEnds, TestFails, RunSettles, RunSaveFails
    <2>2. ASSUME NEW r, r.state # "promoted", NEW pc, RunProceeds(n, [pc |-> pc, record |-> r])
          PROVE  Goal
      <3>1. run'[n] = [pc |-> pc, record |-> r] /\ \A m \in Runs \ {n} : run'[m] = run[m]
        BY <2>2, AfterProceeds
      <3> HIDE DEF Goal
      <3> QED BY <1>3, <2>2, <3>1
    <2>3. ASSUME NEW r \in Results, TestEnds(n, r) PROVE Goal
      <3> DEFINE s == RunVerdict(r, run[n].record.extreme)
                 k == [run[n].record EXCEPT !.result = r, !.state = s]
      <3>1. s # "promoted"
        BY VerdictType
      <3>2. RunProceeds(n, [pc |-> "saving", record |-> k])
        BY <2>3 DEF TestEnds
      <3> HIDE DEF s
      <3>3. k.state = s
        BY <2>1 DEF Record
      <3> HIDE DEF k, Goal
      <3> QED BY <2>2, <3>1, <3>2, <3>3
    <2>4. Rejected(run[n].record).state # "promoted"
      BY <2>1, RecordType
    <2>5. ASSUME RunProceeds(n, NoRun) PROVE Goal
      <3>1. run'[n].pc = "none" /\ \A m \in Runs \ {n} : run'[m] = run[m]
        BY <2>5, AfterProceeds, IdleType
      <3> HIDE DEF Goal
      <3> QED BY <1>3, <3>1
    <2>6. CASE TestFails(n) \/ RunSettles(n) \/ RunSaveFails(n)
      <3>1. \/ RunProceeds(n, NoRun)
            \/ RunProceeds(n, [pc |-> "failing", record |-> Rejected(run[n].record)])
        BY <2>6 DEF TestFails, RunSettles, RunSaveFails
      <3> HIDE DEF Goal
      <3> QED BY <2>2, <2>4, <2>5, <3>1 DEF Goal
    <2> HIDE DEF Goal
    <2> QED BY <1>6, <2>3, <2>6 DEF RunAlone, Goal
  <1>7. CASE Crash
    BY <1>7, IdleType DEF Crash, Busy
  <1>8. CASE UNCHANGED vars
    BY <1>2, <1>8 DEF vars
  <1> QED
    BY <1>2, <1>4, <1>5, <1>6, <1>7, <1>8 DEF Next

\* A step saves a run's record as promoted only if its version is recorded.
LEMMA SaveShape ==
  ASSUME TypeOK, RecordInv, [Next]_vars, NEW n \in Runs
  PROVE  LET e == experiments'[RunId(n)]
         IN  \/ e = experiments[RunId(n)]
             \/ e.state # "promoted"
             \/ e.version \in Recorded
  <1> DEFINE e == experiments'[RunId(n)]
             Goal == \/ e = experiments[RunId(n)]
                     \/ e.state # "promoted"
                     \/ e.version \in Recorded
  <1> USE RunIds
  <1>1. ASSUME NEW id \in Ids, NEW r \in Record, Save(id, r) \/ SaveUnanswered(id, r),
               \/ id # RunId(n) \/ r.state # "promoted" \/ r.version \in Recorded
        PROVE  Goal
    BY <1>1, AfterSave
  <1> HIDE DEF Goal
  <1>2. ASSUME NEW k, k # "run", NEW v PROVE [kind |-> k, version |-> v] # RunId(n)
    <2>1. RunId(n).kind = "run"
      BY DEF RunId
    <2> QED BY <1>2, <2>1
  <1>3. ASSUME experiments' = experiments PROVE Goal
    BY <1>3 DEF Goal
  <1>4. ASSUME NEW h \in Handlers, Request(h) \/ Proceed(h) PROVE Goal
    <2>1. task[h] \in Tasks /\ TaskSound(task[h], Recorded)
      BY DEF TypeOK, RecordInv
    <2>2. ASSUME NEW kind \in Surfaces, NEW c \in Changes, NEW v \in Versions,
                 SaveDraft(h, kind, c, v)
          PROVE  Goal
      <3> DEFINE r == [version |-> v, extreme |-> c.extreme, result |-> Neutral,
                       state |-> IF kind = "draft" THEN "running" ELSE "draft"]
                 i == [kind |-> kind, version |-> v]
      <3>1. r \in Record
        BY ChangesAssumption DEF Record, Neutral, Result, States
      <3>2. i \in Ids
        BY DEF Ids
      <3>3. Save(i, r)
        BY <2>2 DEF SaveDraft
      <3>4. r.state # "promoted"
        OBVIOUS
      <3> HIDE DEF i, r
      <3> QED BY <1>1, <3>1, <3>2, <3>3, <3>4
    <2>3. CASE RunLaunched(h) \/ RunNotLaunched(h)
      <3>1. task[h].n \in Runs /\ task[h].record \in Record /\ task[h].record.state = "running"
        BY <2>1, <2>3, TaskFields DEF RunLaunched, RunNotLaunched, TaskSound
      <3> QED BY <1>1, <2>3, <3>1 DEF RunLaunched, RunNotLaunched
    <2>4. CASE Closed(h)
      <3>1. task[h].id \in Ids /\ task[h].record \in Record
            /\ (task[h].record.state # "promoted" \/ task[h].record.version \in Recorded)
        BY <2>1, <2>4, TaskFields DEF Closed, TaskSound
      <3> QED BY <1>1, <2>4, <3>1 DEF Closed
    <2>5. CASE RoundLogged(h) \/ (StoreFails(h) /\ task[h].pc = "logging")
      <3>1. task[h].id \in Ids /\ task[h].record \in Record /\ task[h].id.kind = "round"
        BY <2>1, <2>5, TaskFields DEF RoundLogged, TaskSound
      <3>2. task[h].id # RunId(n)
        BY <3>1 DEF RunId
      <3> QED BY <1>1, <2>5, <3>1, <3>2 DEF RoundLogged, StoreFails
    <2>6. CASE /\ ~\E kind \in Surfaces, c \in Changes, v \in Versions : SaveDraft(h, kind, c, v)
               /\ ~RunLaunched(h) /\ ~RunNotLaunched(h) /\ ~Closed(h) /\ ~RoundLogged(h)
               /\ ~(StoreFails(h) /\ task[h].pc = "logging")
      <3>1. experiments' = experiments
        BY <1>4, <2>6 DEF Request, Proceed, RunRequested, Approve, Reject, Rollback, RoundStarts,
                RoundGraded, RoundFails, Demotes, DemotesAfterWait, Commits, Aborts, StoreFails
      <3> QED BY <1>3, <3>1
    <2> QED BY <2>2, <2>3, <2>4, <2>5, <2>6
  <1>5. ASSUME NEW m \in Runs, RunAlone(m) PROVE Goal
    <2>1. CASE RunSettles(m) \/ RunSaveFails(m)
      <3>1. run[m].pc # "none" /\ run[m] \in RunTasks
        BY <2>1 DEF RunSettles, RunSaveFails, TypeOK
      <3>2. run[m].record \in Record /\ run[m].record.state # "promoted"
        BY <3>1, RunFields DEF RecordInv, Busy
      <3> QED BY <1>1, <2>1, <3>2 DEF RunSettles, RunSaveFails
    <2>2. CASE ~RunSettles(m) /\ ~RunSaveFails(m)
      BY <1>3, <1>5, <2>2 DEF RunAlone, TestEnds, TestFails
    <2> QED BY <2>1, <2>2
  <1>6. ASSUME Crash \/ UNCHANGED vars PROVE Goal
    BY <1>3, <1>6 DEF Crash, vars
  <1>7. Goal
    BY <1>4, <1>5, <1>6 DEF Next
  <1> QED
    BY <1>7 DEF Goal

LEMMA StepRecords == TypeOK /\ RecordInv /\ [Next]_vars => RecordInv'
  <1> SUFFICES ASSUME TypeOK, RecordInv, [Next]_vars PROVE RecordInv'
    OBVIOUS
  <1>1. \A n \in Busy' : run'[n].record.state # "promoted"
    BY RunsUnpromoted
  <1>2. ApprovedIsRecorded'
    <2> SUFFICES ASSUME NEW n \in Runs, experiments'[RunId(n)] # None,
                        experiments'[RunId(n)].state = "promoted"
                 PROVE  lineage'[experiments'[RunId(n)].version] # "absent"
      BY DEF ApprovedIsRecorded
    <2>1. CASE experiments'[RunId(n)].version \in Recorded
      BY <2>1, RecordedGrows DEF Recorded
    <2>2. CASE experiments'[RunId(n)] = experiments[RunId(n)]
      <3>1. experiments[RunId(n)] \in Record
        BY <2>2, RunIds DEF TypeOK
      <3>2. experiments[RunId(n)].version \in Versions
        BY <3>1 DEF Record
      <3>3. lineage[experiments[RunId(n)].version] # "absent"
        BY <2>2 DEF RecordInv, ApprovedIsRecorded
      <3> QED BY <2>2, <3>2, <3>3, RecordedGrows DEF Recorded
    <2> QED BY <2>1, <2>2, SaveShape
  <1>3. \A h \in Handlers : TaskSound(task[h], Recorded')
    BY RecordedGrows, SoundGrows DEF RecordInv
  <1>4. CASE UNCHANGED vars
    BY <1>1, <1>2, <1>3, <1>4 DEF vars, RecordInv
  <1>5. ASSUME NEW h \in Handlers, Request(h) \/ Proceed(h)
        PROVE  \A g \in Handlers : TaskSound(task'[g], Recorded')
    <2>1. \A g \in Handlers \ {h} : task'[g] = task[g]
      <3>1. task' = task \/ \E t : Suspend(h, t)
        BY <1>5 DEF Request, Proceed, RunRequested, SaveDraft, Approve, Reject, Rollback,
                RoundStarts, RunLaunched, RunNotLaunched, Closed, RoundGraded, RoundFails,
                RoundLogged, Demotes, DemotesAfterWait, Upserting, Commits, Aborts, StoreFails, Return
      <3> QED BY <3>1, AfterSuspend
    <2>2. TaskSound(task'[h], Recorded')
      BY <1>5, TaskStep
    <2> QED BY <1>3, <2>1, <2>2
  <1>6. ASSUME NEW n \in Runs, RunAlone(n) PROVE task' = task
    BY <1>6 DEF RunAlone, TestEnds, TestFails, RunSettles, RunSaveFails
  <1>7. CASE Crash
    <2>1. \A h \in Handlers : task'[h].pc = "idle"
      BY <1>7, IdleType DEF Crash
    <2>2. \A h \in Handlers : TaskSound(task'[h], Recorded')
      BY <2>1 DEF TaskSound, InStore
    <2> QED BY <1>1, <1>2, <2>2 DEF RecordInv
  <1> QED
    BY <1>1, <1>2, <1>3, <1>4, <1>5, <1>6, <1>7 DEF Next, RecordInv

\* An experiment is closed as promoted after its version is in the lineage, and
\* no version leaves it: no failure or crash in between shows the operator a
\* promotion that did not happen.
THEOREM ApprovalsAreRecorded == Spec => []ApprovedIsRecorded
  <1>1. Init => TypeOK /\ PermitInv /\ RecordInv
    BY InitType, InitPermits, InitRecords
  <1>2. TypeOK /\ PermitInv /\ RecordInv /\ [Next]_vars => TypeOK' /\ PermitInv' /\ RecordInv'
    BY StepPermits, StepRecords
  <1>3. RecordInv => ApprovedIsRecorded
    BY DEF RecordInv
  <1> QED
    BY <1>1, <1>2, <1>3, PTL DEF Spec

LEMMA InitRegister == Init => Register!Init
  <1> SUFFICES ASSUME Init PROVE Register!Init
    OBVIOUS
  <1>1. \/ Recorded = {} /\ Champions = {}
        \/ Recorded = {Bootstrap} /\ Champions = {Bootstrap}
    BY BootstrapType DEF Init, Recorded, Champions
  <1> QED
    BY <1>1 DEF Register!Init, Recorded

\* A commit is Crown of its version, whatever other transactions are open;
\* every other step leaves the register alone.
LEMMA StepRegister ==
  TypeOK /\ RecordInv /\ [Next]_vars => [Register!Next]_(Register!vars)
  <1> SUFFICES ASSUME TypeOK, RecordInv, [Next]_vars PROVE [Register!Next]_(Register!vars)
    OBVIOUS
  <1>1. CASE lineage' = lineage
    BY <1>1 DEF Register!vars, Champions
  <1>2. ASSUME NEW v \in Versions, v = Bootstrap \/ ParentOf(v) \in Recorded,
               Recorded' = Recorded \cup {v}, Champions' = {v}
        PROVE  Register!Next
    BY <1>2 DEF Register!Next, Register!Crown, Recorded
  <1> QED
    BY <1>1, <1>2, LineageShape

\* The store is one register of the champion to everyone who reads it: it goes
\* from one champion to the next in one step, never to none, and the lineage
\* only grows, every child after its parent.
THEOREM RefinesRegister == Spec => ImplementsRegister
  <1>1. Init => TypeOK /\ PermitInv /\ RecordInv /\ Register!Init
    BY InitType, InitPermits, InitRecords, InitRegister
  <1>2. TypeOK /\ PermitInv /\ RecordInv /\ [Next]_vars =>
          TypeOK' /\ PermitInv' /\ RecordInv' /\ [Register!Next]_(Register!vars)
    BY StepPermits, StepRecords, StepRegister
  <1> QED
    BY <1>1, <1>2, PTL DEF Spec, ImplementsRegister, Register!Spec

-----------------------------------------------------------------------------
(* Decisions, one request at a time over a store that answers. *)

\* With two requests an approval and a rejection of one record may overlap, and
\* a save that was made but not answered lets a run settle a second time: both
\* overturn a decision, so the theorems below need these two.
Serial   == \A g, h \in Handlers : g = h
Reliable == "store" \notin Faults

RoundId(v) == [kind |-> "round", version |-> v]

\* A round promoted v, and its record says so.
Won(v) == LET r == experiments[RoundId(v)]
          IN  r # None /\ r.version = v /\ r.state = "promoted" /\ Passed(r.result)

\* The record waits for a human.
Open(id) == experiments[id] # None /\ experiments[id].state = "blocked"

\* What a request or round goes on with is still so: a round records what it
\* promoted, a rollback what is in the lineage, an approval the version of a
\* record that met the bar, and what is closed was open.
Warranted(h) ==
  LET t == task[h] IN
  /\ t.pc = "logging" => /\ t.id = RoundId(t.record.version)
                         /\ t.record.state # "blocked"
                         /\ t.record.state = "promoted" => Passed(t.record.result)
  /\ (t.pc \in InStore /\ t.closing = None) => t.version \in Recorded \/ Won(t.version)
  /\ (t.pc \in InStore /\ t.closing # None) =>
       /\ experiments[t.closing.id] # None /\ MeetsBar(experiments[t.closing.id])
       /\ experiments[t.closing.id].version = t.version
  /\ t.pc = "closing" => Open(t.id)

\* The record of a run says running until it settles, and is not there before
\* its launch; only runs are blocked.
RunsRun == \A n \in Busy : experiments[RunId(n)] # None /\ experiments[RunId(n)].state = "running"
Unused  == \A n \in Runs : (n > launched \/ \E h \in Launching : task[h].n = n)
                              => experiments[RunId(n)] = None
OnlyRuns == \A id \in Ids : Open(id) => id.kind = "run"

DecisionInv == RunsRun /\ Unused /\ OnlyRuns /\ \A h \in Handlers : Warranted(h)

LEMMA RunIdFacts ==
  /\ \A n \in Runs : RunId(n) \in Ids /\ RunId(n).kind = "run"
  /\ \A m, n \in Runs : RunId(m) = RunId(n) => m = n
  <1>1. \A n : RunId(n).kind = "run" /\ RunId(n).n = n
    BY DEF RunId
  <1> QED
    BY <1>1, RunIds

LEMMA RoundIdFacts ==
  ASSUME NEW v \in Versions
  PROVE  RoundId(v) \in Ids /\ RoundId(v).kind = "round"
  BY DEF RoundId, Ids

LEMMA InitDecisions == Init => DecisionInv
  <1> SUFFICES ASSUME Init PROVE DecisionInv
    OBVIOUS
  <1>1. Launching = {} /\ Busy = {}
    BY IdleType DEF Init, Launching, Busy
  <1>2. \A id \in Ids : experiments[id] = None
    BY DEF Init
  <1>3. \A h \in Handlers : task[h].pc = "idle"
    BY IdleType DEF Init
  <1>4. RunsRun /\ Unused /\ OnlyRuns
    BY <1>1, <1>2, RunIdFacts DEF RunsRun, Unused, OnlyRuns, Open
  <1> QED
    BY <1>3, <1>4 DEF DecisionInv, Warranted, InStore

\* A task that holds nothing.
LEMMA Rests ==
  ASSUME NEW h \in Handlers, task'[h].pc \in {"idle", "launching", "grading"}
  PROVE  Warranted(h)'
  BY DEF Warranted, InStore

\* The only request there is.
LEMMA OneHandler ==
  ASSUME Serial, NEW h \in Handlers, task'[h].pc # "launching", Warranted(h)'
  PROVE  Launching' = {} /\ \A g \in Handlers : Warranted(g)'
  BY DEF Serial, Launching

\* A step that saves nothing.
LEMMA NothingSaved ==
  ASSUME DecisionInv, UNCHANGED <<experiments, launched>>, Busy' \subseteq Busy,
         \A h \in Launching' : h \in Launching /\ task'[h] = task[h],
         \A h \in Handlers : Warranted(h)'
  PROVE  DecisionInv'
  <1>1. RunsRun' /\ OnlyRuns'
    BY DEF DecisionInv, RunsRun, OnlyRuns, Open
  <1>2. Unused'
    BY DEF DecisionInv, Unused
  <1> QED
    BY <1>1, <1>2 DEF DecisionInv

\* A step that saves a record which is not a run's.
LEMMA AnotherSaved ==
  ASSUME TypeOK, DecisionInv, NEW id \in Ids, id.kind # "run", NEW r \in Record,
         r.state # "blocked", Save(id, r), UNCHANGED <<launched, run>>,
         \A h \in Launching' : h \in Launching /\ task'[h] = task[h],
         \A h \in Handlers : Warranted(h)'
  PROVE  DecisionInv'
  <1>1. experiments'[id] = r /\ \A i \in Ids \ {id} : experiments'[i] = experiments[i]
    BY DEF Save, TypeOK
  <1>2. \A n \in Runs : experiments'[RunId(n)] = experiments[RunId(n)]
    BY <1>1, RunIdFacts
  <1>3. RunsRun'
    BY <1>2 DEF DecisionInv, RunsRun, Busy
  <1>4. Unused'
    BY <1>2 DEF DecisionInv, Unused
  <1>5. OnlyRuns'
    BY <1>1 DEF DecisionInv, OnlyRuns, Open
  <1> QED
    BY <1>3, <1>4, <1>5 DEF DecisionInv

\* A request that is taken up.
LEMMA RequestDecisions ==
  ASSUME TypeOK, Serial, DecisionInv, NEW h \in Handlers, Request(h)
  PROVE  DecisionInv'
  <1> DEFINE t == task'[h]
  <1> USE AfterSuspend, IdleType
  <1>1. ASSUME NEW c \in Changes, NEW v \in Versions, RunRequested(h, c, v)
        PROVE  DecisionInv'
    <2> DEFINE r == [version |-> v, extreme |-> c.extreme, result |-> Neutral,
                     state |-> "running"]
    <2>1. Suspend(h, [pc |-> "launching", n |-> launched', record |-> r])
      BY <1>1 DEF RunRequested
    <2> HIDE DEF r
    <2>2. t.pc = "launching" /\ t.n = launched'
      BY <2>1
    <2>3. UNCHANGED <<experiments, run>> /\ launched \in Nat /\ launched' = launched + 1
      BY <1>1, BoundsAssumption DEF RunRequested, TypeOK
    <2>4. RunsRun' /\ OnlyRuns'
      BY <2>3 DEF DecisionInv, RunsRun, Busy, OnlyRuns, Open
    <2>5. Unused'
      <3>1. ASSUME NEW n \in Runs, n > launched' \/ \E g \in Launching' : task'[g].n = n
            PROVE  n > launched
        <4>1. n \in Nat /\ (n > launched' \/ n = launched')
          BY <2>2, <3>1, BoundsAssumption DEF Serial, Launching, Runs
        <4> QED BY <2>3, <4>1
      <3> QED BY <2>3, <3>1 DEF DecisionInv, Unused
    <2>6. \A g \in Handlers : Warranted(g)'
      BY <2>2, Rests DEF Serial
    <2> QED BY <2>4, <2>5, <2>6 DEF DecisionInv
  <1>2. ASSUME NEW kind \in Surfaces, NEW c \in Changes, NEW v \in Versions,
               SaveDraft(h, kind, c, v)
        PROVE  DecisionInv'
    <2> DEFINE r == [version |-> v, extreme |-> c.extreme, result |-> Neutral,
                     state |-> IF kind = "draft" THEN "running" ELSE "draft"]
               i == [kind |-> kind, version |-> v]
    <2>1. r \in Record /\ r.state # "blocked"
      BY ChangesAssumption DEF Record, Neutral, Result, States
    <2>2. i \in Ids /\ i.kind # "run"
      BY SurfacesAssumption DEF Ids
    <2>3. Save(i, r)
      BY <1>2 DEF SaveDraft
    <2> HIDE DEF i, r
    <2>4. t.pc = "idle" /\ UNCHANGED <<launched, run>>
      BY <1>2 DEF SaveDraft
    <2>5. Warranted(h)'
      BY <2>4, Rests
    <2>6. Launching' = {} /\ \A g \in Handlers : Warranted(g)'
      BY <2>4, <2>5, OneHandler
    <2> QED BY <2>1, <2>2, <2>3, <2>4, <2>6, AnotherSaved
  <1>3. ASSUME UNCHANGED <<experiments, launched, run>>, t.pc # "launching", Warranted(h)'
        PROVE  DecisionInv'
    <2>1. Launching' = {} /\ \A g \in Handlers : Warranted(g)'
      BY <1>3, OneHandler
    <2>2. Busy' = Busy
      BY <1>3 DEF Busy
    <2> QED BY <1>3, <2>1, <2>2, NothingSaved
  <1>4. ASSUME NEW id \in Ids, Approve(h, id) PROVE DecisionInv'
    <2> DEFINE e == experiments[id]
               r == [e EXCEPT !.state = "promoted"]
               k == [id |-> id, record |-> r]
    <2>1. e # None /\ MeetsBar(e) /\ e \in Record /\ experiments' = experiments
      BY <1>4 DEF Approve, TypeOK
    <2>2. r \in Record
      BY <2>1, RecordType DEF States
    <2>3. Suspend(h, [pc |-> "recording", version |-> e.version, closing |-> k])
      BY <1>4 DEF Approve
    <2> HIDE DEF r
    <2>4. k # None /\ k.id = id
      BY <2>2, NoneAssumption
    <2> HIDE DEF k
    <2>5. t.pc = "recording" /\ t.version = e.version /\ t.closing = k
      BY <2>3
    <2>6. Warranted(h)'
      BY <2>1, <2>4, <2>5 DEF Warranted, InStore
    <2> QED BY <1>3, <1>4, <2>5, <2>6 DEF Approve
  <1>5. ASSUME NEW id \in Ids, Reject(h, id) PROVE DecisionInv'
    <2> DEFINE r == [experiments[id] EXCEPT !.state = "rejected"]
    <2>1. Open(id) /\ experiments' = experiments
      BY <1>5 DEF Reject, Open
    <2>2. Suspend(h, [pc |-> "closing", id |-> id, record |-> r])
      BY <1>5 DEF Reject
    <2> HIDE DEF r
    <2>3. t.pc = "closing" /\ t.id = id
      BY <2>2
    <2>4. Warranted(h)'
      BY <2>1, <2>3 DEF Warranted, InStore, Open
    <2> QED BY <1>3, <1>5, <2>3, <2>4 DEF Reject
  <1>6. ASSUME NEW v \in Versions, Rollback(h, v) PROVE DecisionInv'
    <2>1. t.pc = "recording" /\ t.version = v /\ t.closing = None
      BY <1>6 DEF Rollback
    <2>2. v \in Recorded'
      BY <1>6 DEF Rollback, Recorded
    <2>3. Warranted(h)'
      BY <2>1, <2>2 DEF Warranted, InStore
    <2> QED BY <1>3, <1>6, <2>1, <2>3 DEF Rollback
  <1>7. ASSUME NEW d \in RoundDims, NEW v \in Versions, RoundStarts(h, d, v)
        PROVE  DecisionInv'
    <2>1. t.pc = "grading"
      BY <1>7 DEF RoundStarts
    <2> QED BY <1>3, <1>7, <2>1, Rests DEF RoundStarts
  <1> QED
    BY <1>1, <1>2, <1>4, <1>5, <1>6, <1>7 DEF Request

\* A request or round that goes on.
LEMMA ProceedDecisions ==
  ASSUME TypeOK, PermitInv, RecordInv, Serial, Reliable, DecisionInv,
         NEW h \in Handlers, Proceed(h)
  PROVE  DecisionInv'
  <1> DEFINE s == task[h]
             t == task'[h]
  <1> USE AfterSuspend, IdleType
  <1>1. s \in Tasks /\ Warranted(h)
    BY DEF TypeOK, DecisionInv
  <1>2. ASSUME UNCHANGED <<experiments, launched, run>>, t.pc # "launching", Warranted(h)'
        PROVE  DecisionInv'
    <2>1. Launching' = {} /\ \A g \in Handlers : Warranted(g)'
      BY <1>2, OneHandler
    <2>2. Busy' = Busy
      BY <1>2 DEF Busy
    <2> QED BY <1>2, <2>1, <2>2, NothingSaved
  <1>3. ASSUME Return(h) PROVE t.pc = "idle" /\ Warranted(h)'
    <2>1. t.pc = "idle"
      BY <1>3 DEF Return
    <2> QED BY <2>1, Rests
  <1>4. CASE RunLaunched(h)
    <2> DEFINE n == s.n
               r == s.record
    <2>1. n \in Runs /\ r \in Record /\ r.state = "running" /\ h \in Launching
      BY <1>1, <1>4, TaskFields DEF RunLaunched, RecordInv, TaskSound, Launching
    <2>2. n <= launched /\ n \notin Busy
      BY <2>1 DEF PermitInv
    <2>3. Save(RunId(n), r) /\ launched' = launched /\ Return(h)
          /\ run' = [run EXCEPT ![n] = [pc |-> "testing", record |-> r]]
      BY <1>4 DEF RunLaunched
    <2> HIDE DEF n, r, s
    <2>4. /\ experiments'[RunId(n)] = r
          /\ \A id \in Ids \ {RunId(n)} : experiments'[id] = experiments[id]
      BY <2>1, <2>3, RunIdFacts DEF Save, TypeOK
    <2>5. Busy' \subseteq Busy \cup {n}
      BY <2>3 DEF Busy, TypeOK
    <2>6. RunsRun'
      <3>1. ASSUME NEW m \in Busy', m # n
            PROVE  experiments'[RunId(m)] # None /\ experiments'[RunId(m)].state = "running"
        BY <2>1, <2>4, <2>5, <3>1, RunIdFacts DEF DecisionInv, RunsRun, Busy
      <3>2. experiments'[RunId(n)] # None /\ experiments'[RunId(n)].state = "running"
        BY <2>1, <2>4, NoneAssumption
      <3> QED BY <3>1, <3>2 DEF RunsRun
    <2>7. t.pc # "launching" /\ Warranted(h)'
      BY <1>3, <2>3
    <2>8. Launching' = {} /\ \A g \in Handlers : Warranted(g)'
      BY <2>7, OneHandler
    <2>9. Unused'
      <3>1. ASSUME NEW m \in Runs, m > launched' PROVE experiments'[RunId(m)] = None
        <4>1. m \in Nat /\ n \in Nat /\ launched \in Nat
          BY <2>1, BoundsAssumption DEF Runs, TypeOK
        <4>2. m > launched /\ m # n
          BY <2>2, <2>3, <3>1, <4>1
        <4> QED BY <2>1, <2>4, <4>2, RunIdFacts DEF DecisionInv, Unused
      <3> QED BY <2>8, <3>1 DEF Unused
    <2>10. OnlyRuns'
      BY <2>1, <2>4, RunIdFacts DEF DecisionInv, OnlyRuns, Open
    <2> QED BY <2>6, <2>8, <2>9, <2>10 DEF DecisionInv
  <1>5. CASE Closed(h)
    <2> DEFINE i == s.id
               r == s.record
    <2>1. i \in Ids /\ r \in Record /\ Open(i)
      BY <1>1, <1>5, TaskFields DEF Closed, Warranted
    <2>2. Save(i, r) /\ UNCHANGED <<launched, run>> /\ Return(h)
      BY <1>5 DEF Closed
    <2> HIDE DEF i, r, s
    <2>3. i.kind = "run"
      BY <2>1 DEF DecisionInv, OnlyRuns
    <2>4. \A id \in Ids \ {i} : experiments'[id] = experiments[id]
      BY <2>1, <2>2 DEF Save, TypeOK
    <2>5. RunsRun'
      <3>1. \A m \in Busy : RunId(m) # i
        BY <2>1 DEF DecisionInv, RunsRun, Open
      <3> QED BY <2>2, <2>4, <3>1, RunIdFacts DEF DecisionInv, RunsRun, Busy
    <2>6. t.pc # "launching" /\ Warranted(h)'
      BY <1>3, <2>2
    <2>7. Launching' = {} /\ \A g \in Handlers : Warranted(g)'
      BY <2>6, OneHandler
    <2>8. Unused'
      <3>1. ASSUME NEW m \in Runs, m > launched PROVE experiments'[RunId(m)] = None
        <4>1. RunId(m) # i /\ experiments[RunId(m)] = None
          BY <2>1, <3>1 DEF DecisionInv, Unused, Open
        <4> QED BY <2>4, <4>1, RunIdFacts
      <3> QED BY <2>2, <2>7, <3>1 DEF Unused
    <2>9. OnlyRuns'
      BY <2>3, <2>4 DEF DecisionInv, OnlyRuns, Open
    <2> QED BY <2>5, <2>7, <2>8, <2>9 DEF DecisionInv
  <1>6. ASSUME NEW r \in Results, NEW d \in {"unmeasured", "within", "above"},
               RoundGraded(h, r, d)
        PROVE  DecisionInv'
    <2> DEFINE v == s.version
               e == EvaluatePromotion(r, FALSE, d)
               k == [version |-> v, extreme |-> FALSE, result |-> r, state |-> e]
    <2>1. Suspend(h, [pc |-> "logging", id |-> RoundId(v), record |-> k])
      BY <1>6 DEF RoundGraded, RoundId
    <2>2. e # "blocked" /\ (e = "promoted" => Passed(r))
      BY DEF EvaluatePromotion
    <2> HIDE DEF v, e
    <2>3. k.version = v /\ k.result = r /\ k.state = e
      OBVIOUS
    <2> HIDE DEF k
    <2>4. t.pc = "logging" /\ t.id = RoundId(v) /\ t.record = k
      BY <2>1
    <2>5. Warranted(h)'
      BY <2>2, <2>3, <2>4 DEF Warranted, InStore
    <2> QED BY <1>2, <1>6, <2>4, <2>5 DEF RoundGraded
  <1>7. CASE RoundLogged(h)
    <2>0. PICK r, i, v : r = s.record /\ i = s.id /\ v = r.version
      OBVIOUS
    <2>1. s.pc = "logging" /\ r \in Record /\ v \in Versions
      BY <1>1, <1>7, <2>0, TaskFields DEF RoundLogged, Record
    <2>2. /\ i = RoundId(v) /\ r.state # "blocked"
          /\ r.state = "promoted" => Passed(r.result)
      BY <1>1, <2>0, <2>1 DEF Warranted
    <2>3. /\ Save(i, r) /\ UNCHANGED <<launched, run>>
          /\ \/ r.state = "promoted"
                /\ Suspend(h, [pc |-> "recording", version |-> v, closing |-> None])
             \/ Return(h)
      BY <1>7, <2>0 DEF RoundLogged
    <2>4. i \in Ids /\ i.kind # "run"
      BY <2>1, <2>2, RoundIdFacts
    <2>5. experiments'[i] = r
      BY <2>1, <2>3, <2>4 DEF Save, TypeOK
    <2>6. CASE r.state = "promoted"
               /\ Suspend(h, [pc |-> "recording", version |-> v, closing |-> None])
      <3>1. t.pc = "recording" /\ t.version = v /\ t.closing = None
        BY <2>6
      <3>2. Won(v)'
        BY <2>0, <2>1, <2>2, <2>5, <2>6, NoneAssumption DEF Won
      <3>3. Warranted(h)'
        BY <3>1, <3>2 DEF Warranted, InStore
      <3>4. t.pc # "launching"
        BY <3>1
      <3>5. Launching' = {} /\ \A g \in Handlers : Warranted(g)'
        BY <3>3, <3>4, OneHandler
      <3> QED BY <2>1, <2>2, <2>3, <2>4, <3>5, AnotherSaved
    <2>7. CASE Return(h)
      <3>1. t.pc # "launching" /\ Warranted(h)'
        BY <1>3, <2>7
      <3>2. Launching' = {} /\ \A g \in Handlers : Warranted(g)'
        BY <3>1, OneHandler
      <3> QED BY <2>1, <2>2, <2>3, <2>4, <3>2, AnotherSaved
    <2> QED BY <2>3, <2>6, <2>7
  <1>8. ASSUME s.pc \in InStore, UNCHANGED <<lineage, experiments>>,
               t.pc \in InStore, t.version = s.version, t.closing = s.closing
        PROVE  t.pc # "launching" /\ Warranted(h)'
    <2>1. Recorded' = Recorded /\ (Won(s.version) => Won(s.version)')
      BY <1>8 DEF Recorded, Won
    <2>2. t.pc # "launching" /\ t.pc # "logging" /\ t.pc # "closing"
      BY <1>8 DEF InStore
    <2> QED BY <1>1, <1>8, <2>1, <2>2 DEF Warranted, Won
  <1>9. CASE Demotes(h) \/ DemotesAfterWait(h)
    <2>1. s.pc \in InStore /\ UNCHANGED <<lineage, experiments, launched, run>>
      BY <1>9 DEF Demotes, DemotesAfterWait, InStore
    <2>2. \E pc \in {"waiting", "upserting"}, c \in Versions \cup {None} :
            Suspend(h, [pc |-> pc, version |-> s.version, closing |-> s.closing, held |-> c])
      <3>1. DemotesAfterWait(h) => s.held \in Versions
        BY <1>1, TaskFields DEF DemotesAfterWait
      <3> QED BY <1>9, <3>1 DEF Demotes, DemotesAfterWait, Upserting, Champions
    <2>3. t.pc \in InStore /\ t.version = s.version /\ t.closing = s.closing
      BY <2>2 DEF InStore
    <2> QED BY <1>2, <1>8, <2>1, <2>3
  <1>10. CASE Commits(h)
    <2>1. s.pc \in InStore /\ UNCHANGED <<experiments, launched, run>>
      BY <1>10 DEF Commits, InStore
    <2>2. \/ s.closing # None
             /\ Suspend(h, [pc |-> "closing", id |-> s.closing.id,
                            record |-> s.closing.record])
          \/ Return(h)
      BY <1>10 DEF Commits
    <2>3. CASE s.closing # None
               /\ Suspend(h, [pc |-> "closing", id |-> s.closing.id,
                              record |-> s.closing.record])
      <3>1. t.pc = "closing" /\ t.id = s.closing.id
        BY <2>3
      <3>2. Open(s.closing.id)
        BY <1>1, <2>1, <2>3 DEF Warranted, MeetsBar, Open
      <3>3. Warranted(h)'
        BY <2>1, <3>1, <3>2 DEF Warranted, InStore, Open
      <3> QED BY <1>2, <2>1, <3>1, <3>3
    <2>4. CASE Return(h)
      BY <1>2, <1>3, <2>1, <2>4
    <2> QED BY <2>2, <2>3, <2>4
  <1>11. CASE Aborts(h) \/ RoundFails(h)
    BY <1>2, <1>3, <1>11 DEF Aborts, RoundFails
  <1> QED
    BY <1>4, <1>5, <1>6, <1>7, <1>9, <1>10, <1>11
       DEF Proceed, Reliable, RunNotLaunched, StoreFails

\* A background run that goes on.
LEMMA RunDecisions ==
  ASSUME TypeOK, PermitInv, Reliable, DecisionInv, NEW n \in Runs, RunAlone(n)
  PROVE  DecisionInv'
  <1>1. UNCHANGED <<lineage, launched, task>>
    BY DEF RunAlone, TestEnds, TestFails, RunSettles, RunSaveFails
  <1>2. Launching' = Launching
    BY <1>1 DEF Launching
  <1>3. CASE RunSettles(n)
    <2> DEFINE r == run[n].record
    <2>1. n \in Busy /\ r \in Record
      BY <1>3, RunFields DEF RunSettles, Busy, TypeOK
    <2>2. Save(RunId(n), r) /\ RunProceeds(n, NoRun)
      BY <1>3 DEF RunSettles
    <2> HIDE DEF r
    <2>3. /\ experiments'[RunId(n)] = r
          /\ \A id \in Ids \ {RunId(n)} : experiments'[id] = experiments[id]
      BY <2>1, <2>2, RunIdFacts DEF Save, TypeOK
    <2>4. Busy' = Busy \ {n}
      BY <2>2, AfterProceeds, IdleType DEF Busy
    <2>5. RunsRun'
      BY <2>3, <2>4, RunIdFacts DEF DecisionInv, RunsRun, Busy
    <2>6. Unused'
      <3>1. ASSUME NEW m \in Runs, m > launched \/ \E g \in Launching : task[g].n = m
            PROVE  experiments'[RunId(m)] = None
        <4>1. n \in Nat /\ m \in Nat /\ launched \in Nat
          BY BoundsAssumption DEF Runs, TypeOK
        <4>2. m # n
          BY <2>1, <3>1, <4>1 DEF PermitInv
        <4> QED BY <2>3, <3>1, <4>2, RunIdFacts DEF DecisionInv, Unused
      <3> QED BY <1>1, <1>2, <3>1 DEF Unused
    <2>7. OnlyRuns'
      BY <2>3, RunIdFacts DEF DecisionInv, OnlyRuns, Open
    <2>8. \A id \in Ids : (id.kind = "round" \/ Open(id)) => experiments'[id] = experiments[id]
      BY <2>1, <2>3, RunIdFacts DEF DecisionInv, RunsRun, Open
    <2>9. ASSUME NEW h \in Handlers PROVE Warranted(h)'
      <3>1. task[h] \in Tasks /\ Warranted(h)
        BY DEF TypeOK, DecisionInv
      <3>2. Recorded' = Recorded
        BY <1>1 DEF Recorded
      <3>3. \A v \in Versions : Won(v) => Won(v)'
        BY <2>8, RoundIdFacts DEF Won
      <3>4. \A id \in Ids : Open(id) => Open(id)'
        BY <2>8 DEF Open
      <3>5. ASSUME task[h].pc \in InStore
            PROVE  /\ task[h].version \in Versions
                   /\ task[h].closing # None =>
                        experiments'[task[h].closing.id] = experiments[task[h].closing.id]
        <4>1. task[h].version \in Versions /\ task[h].closing \in Closing
          BY <3>1, <3>5, TaskFields
        <4>2. task[h].closing # None =>
                task[h].closing.id \in Ids /\ Open(task[h].closing.id)
          BY <3>1, <3>5, <4>1 DEF Closing, Warranted, MeetsBar, Open
        <4> QED BY <2>8, <4>1, <4>2
      <3>6. task[h].pc = "closing" => task[h].id \in Ids
        BY <3>1, TaskFields
      <3>7. CASE task[h].pc \in InStore
        BY <1>1, <3>1, <3>2, <3>3, <3>5, <3>7 DEF Warranted, InStore
      <3>8. CASE task[h].pc \notin InStore
        BY <1>1, <3>1, <3>4, <3>6, <3>8 DEF Warranted
      <3> QED BY <3>7, <3>8
    <2> QED BY <2>5, <2>6, <2>7, <2>9 DEF DecisionInv
  <1>4. CASE TestFails(n) \/ \E r \in Results : TestEnds(n, r)
    <2>1. experiments' = experiments /\ run[n].pc # "none"
      BY <1>4 DEF TestFails, TestEnds
    <2>2. \A m \in Runs \ {n} : run'[m] = run[m]
      BY <1>4, AfterProceeds DEF TestFails, TestEnds
    <2>3. Busy' \subseteq Busy
      BY <2>1, <2>2 DEF Busy
    <2>4. \A h \in Handlers : Warranted(h)'
      BY <1>1, <2>1 DEF DecisionInv, Warranted, Won, Open, Recorded
    <2> QED BY <1>1, <1>2, <2>1, <2>3, <2>4, NothingSaved
  <1> QED
    BY <1>3, <1>4 DEF RunAlone, Reliable, RunSaveFails

LEMMA StepDecisions ==
  ASSUME Serial, Reliable
  PROVE  TypeOK /\ PermitInv /\ RecordInv /\ DecisionInv /\ [Next]_vars => DecisionInv'
  <1> SUFFICES ASSUME TypeOK, PermitInv, RecordInv, DecisionInv, [Next]_vars
               PROVE  DecisionInv'
    OBVIOUS
  <1>1. CASE UNCHANGED vars
    <2>1. Launching' = Launching /\ Busy' = Busy /\ task' = task
      BY <1>1 DEF vars, Launching, Busy
    <2>2. \A h \in Handlers : Warranted(h)'
      BY <1>1 DEF vars, DecisionInv, Warranted, Won, Open, Recorded
    <2> QED BY <1>1, <2>1, <2>2, NothingSaved DEF vars
  <1>2. CASE Crash
    <2>1. \A h \in Handlers : task'[h].pc = "idle"
      BY <1>2, IdleType DEF Crash
    <2>2. Launching' = {} /\ Busy' = {}
      BY <1>2, IdleType DEF Crash, Launching, Busy
    <2>3. \A h \in Handlers : Warranted(h)'
      BY <2>1, Rests
    <2> QED BY <1>2, <2>2, <2>3, NothingSaved DEF Crash
  <1> QED
    BY <1>1, <1>2, RequestDecisions, ProceedDecisions, RunDecisions DEF Next

\* Only a commit brings in a version, and what it goes on with is warranted.
LEMMA StepEarned ==
  ASSUME TypeOK, RecordInv, DecisionInv, [Next]_vars, NEW v \in Versions,
         lineage[v] = "absent", lineage'[v] # "absent"
  PROVE  \E id \in Ids : LET r == experiments[id]
                         IN  /\ r # None
                             /\ r.version = v /\ Passed(r.result)
                             /\ \/ id.kind = "run" /\ r.extreme /\ r.state = "blocked"
                                \/ id.kind = "round" /\ r.state = "promoted"
  <1>1. v \in Recorded' /\ v \notin Recorded
    BY DEF Recorded
  <1>2. PICK h \in Handlers : Commits(h) /\ v = task[h].version
    <2>1. lineage' # lineage
      OBVIOUS
    <2> QED BY <1>1, <2>1, LineageShape
  <1>3. task[h].pc \in InStore /\ task[h] \in Tasks /\ Warranted(h)
    BY <1>2 DEF Commits, InStore, TypeOK, DecisionInv
  <1>4. CASE task[h].closing = None
    <2>1. Won(v)
      BY <1>1, <1>2, <1>3, <1>4 DEF Warranted
    <2> QED BY <2>1, RoundIdFacts DEF Won
  <1>5. CASE task[h].closing # None
    <2>1. PICK id \in Ids : id = task[h].closing.id
      BY <1>3, <1>5, TaskFields DEF Closing
    <2>2. experiments[id] # None /\ MeetsBar(experiments[id]) /\ experiments[id].version = v
      BY <1>2, <1>3, <1>5, <2>1 DEF Warranted
    <2>3. id.kind = "run"
      BY <2>2 DEF DecisionInv, OnlyRuns, Open, MeetsBar
    <2> QED BY <2>2, <2>3 DEF MeetsBar
  <1> QED
    BY <1>4, <1>5

\* What a run's record says in the end no step saves over.
LEMMA StepSettled ==
  ASSUME TypeOK, PermitInv, RecordInv, Reliable, DecisionInv, [Next]_vars, NEW n \in Runs,
         experiments[RunId(n)] # None,
         experiments[RunId(n)].state \in {"promoted", "rejected"}
  PROVE  experiments'[RunId(n)] = experiments[RunId(n)]
  <1>1. ASSUME NEW id, NEW r, id # RunId(n), Save(id, r)
        PROVE  experiments'[RunId(n)] = experiments[RunId(n)]
    BY <1>1, RunIdFacts DEF Save, TypeOK
  <1>2. ASSUME NEW k, k # "run", NEW v PROVE [kind |-> k, version |-> v] # RunId(n)
    <2>1. RunId(n).kind = "run"
      BY RunIdFacts
    <2> QED BY <1>2, <2>1
  <1>3. ASSUME NEW h \in Handlers, RunLaunched(h)
        PROVE  experiments'[RunId(n)] = experiments[RunId(n)]
    <2>1. h \in Launching /\ task[h].n \in Runs /\ Save(RunId(task[h].n), task[h].record)
      BY <1>3, TaskFields DEF RunLaunched, Launching, TypeOK
    <2>2. experiments[RunId(task[h].n)] = None
      BY <2>1 DEF DecisionInv, Unused
    <2> QED BY <1>1, <2>1, <2>2
  <1>4. ASSUME NEW h \in Handlers, Closed(h)
        PROVE  experiments'[RunId(n)] = experiments[RunId(n)]
    <2>1. Open(task[h].id) /\ Save(task[h].id, task[h].record)
      BY <1>4 DEF Closed, DecisionInv, Warranted
    <2> QED BY <1>1, <2>1 DEF Open
  <1>5. ASSUME NEW h \in Handlers, RoundLogged(h)
        PROVE  experiments'[RunId(n)] = experiments[RunId(n)]
    <2>1. task[h].id.kind = "round" /\ Save(task[h].id, task[h].record)
      BY <1>5 DEF RoundLogged, RecordInv, TaskSound
    <2> QED BY <1>1, <2>1, RunIdFacts
  <1>6. ASSUME NEW h \in Handlers, NEW kind \in Surfaces, NEW c \in Changes,
               NEW v \in Versions, SaveDraft(h, kind, c, v)
        PROVE  experiments'[RunId(n)] = experiments[RunId(n)]
    <2>1. kind # "run"
      BY SurfacesAssumption
    <2> QED BY <1>1, <1>2, <1>6, <2>1 DEF SaveDraft
  <1>7. ASSUME NEW m \in Runs, RunSettles(m)
        PROVE  experiments'[RunId(n)] = experiments[RunId(n)]
    <2>1. m \in Busy /\ Save(RunId(m), run[m].record)
      BY <1>7 DEF RunSettles, Busy
    <2>2. experiments[RunId(m)].state = "running"
      BY <2>1 DEF DecisionInv, RunsRun
    <2> QED BY <1>1, <2>1, <2>2
  <1>8. ASSUME experiments' = experiments
        PROVE  experiments'[RunId(n)] = experiments[RunId(n)]
    BY <1>8
  <1>9. ASSUME NEW h \in Handlers, Request(h) \/ Proceed(h)
        PROVE  experiments'[RunId(n)] = experiments[RunId(n)]
    <2>1. \/ experiments' = experiments
          \/ RunLaunched(h) \/ Closed(h) \/ RoundLogged(h)
          \/ \E kind \in Surfaces, c \in Changes, v \in Versions : SaveDraft(h, kind, c, v)
      BY <1>9 DEF Request, Proceed, RunRequested, Approve, Reject, Rollback, RoundStarts,
              RunNotLaunched, RoundGraded, RoundFails, Demotes, DemotesAfterWait, Commits, Aborts,
              StoreFails, Reliable
    <2> QED BY <1>3, <1>4, <1>5, <1>6, <1>8, <2>1
  <1>10. ASSUME NEW m \in Runs, RunAlone(m)
         PROVE  experiments'[RunId(n)] = experiments[RunId(n)]
    BY <1>7, <1>8, <1>10 DEF RunAlone, TestEnds, TestFails, RunSaveFails, Reliable
  <1> QED
    BY <1>8, <1>9, <1>10 DEF Next, Crash, vars

\* Whatever crashes and however the background runs interleave with it, one
\* request at a time crowns only a version that passed the gate: one that a round promoted,
\* or an extreme one whose record a human approved while it was still blocked.
THEOREM ChampionsEarned ==
  ASSUME Serial, Reliable
  PROVE  Spec => ChampionsAreEarned
  <1>1. Init => TypeOK /\ PermitInv /\ RecordInv /\ DecisionInv
    BY InitType, InitPermits, InitRecords, InitDecisions
  <1>2. TypeOK /\ PermitInv /\ RecordInv /\ DecisionInv /\ [Next]_vars =>
          TypeOK' /\ PermitInv' /\ RecordInv' /\ DecisionInv'
    BY StepPermits, StepRecords, StepDecisions
  <1>3. TypeOK /\ RecordInv /\ DecisionInv /\ [Next]_vars =>
          [\A v \in Versions :
             (lineage[v] = "absent" /\ lineage'[v] # "absent") =>
                \E id \in Ids : LET r == experiments[id]
                                IN  /\ r # None
                                    /\ r.version = v /\ Passed(r.result)
                                    /\ \/ id.kind = "run" /\ r.extreme /\ r.state = "blocked"
                                       \/ id.kind = "round" /\ r.state = "promoted"]_vars
    BY StepEarned
  <1> QED
    BY <1>1, <1>2, <1>3, PTL DEF Spec, ChampionsAreEarned

\* A run that was promoted or rejected stays so: neither a late verdict, nor a
\* second decision, nor a relaunch after a crash saves over it.
THEOREM DecisionsStand ==
  ASSUME Serial, Reliable
  PROVE  Spec => SettledIsFinal
  <1>1. Init => TypeOK /\ PermitInv /\ RecordInv /\ DecisionInv
    BY InitType, InitPermits, InitRecords, InitDecisions
  <1>2. TypeOK /\ PermitInv /\ RecordInv /\ DecisionInv /\ [Next]_vars =>
          TypeOK' /\ PermitInv' /\ RecordInv' /\ DecisionInv'
    BY StepPermits, StepRecords, StepDecisions
  <1>3. TypeOK /\ PermitInv /\ RecordInv /\ DecisionInv /\ [Next]_vars =>
          [\A n \in Runs : LET r == experiments[RunId(n)]
                           IN  (r # None /\ r.state \in {"promoted", "rejected"})
                                 => experiments'[RunId(n)].state = r.state]_vars
    BY StepSettled
  <1> QED
    BY <1>1, <1>2, <1>3, PTL DEF Spec, SettledIsFinal

=============================================================================
