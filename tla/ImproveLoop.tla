---------------------------- MODULE ImproveLoop ----------------------------
(***************************************************************************)
(* The improvement loop: A/B runs of a challenger against the champion     *)
(* (src/api/improve.py), the promotion gate and the autonomous round       *)
(* (src/loop/promotion.py) and the version store (src/memory/store.py,     *)
(* migrations/001_init.sql).  One action is what a request handler, a      *)
(* round or a background run does between two awaits; record_version is a  *)
(* database transaction of two statements under READ COMMITTED.            *)
(*                                                                         *)
(* A challenger's version is its parent's plus the dimension it changes,   *)
(* so a version is the path of changed dimensions from the bootstrap; the  *)
(* seed, which is constant for runs, is left out of it.                    *)
(***************************************************************************)
EXTENDS Naturals, Sequences, FiniteSets

CONSTANTS Handlers,     \* requests and rounds that may be in flight at once
          Changes,      \* what a challenger may change: [dim, extreme]
          RoundDims,    \* the dimensions the generator of a round picks from
          Results,      \* the graded results of an A/B
          Surfaces,     \* the drafts an operator may save: "draft", "scaffold"
          Permits,      \* run_max_concurrency
          MaxRuns,      \* bound on the launched runs
          MaxDepth,     \* bound on the generations after the bootstrap
          Faults,       \* which faults may happen: "store", "disk", "crash"
          None          \* the absent value

Dims == {c.dim : c \in Changes}

ASSUME ChangesAssumption == \A c \in Changes : c.extreme \in BOOLEAN
ASSUME RoundDimsAssumption == RoundDims \subseteq Dims
ASSUME SurfacesAssumption == Surfaces \subseteq {"draft", "scaffold"}
ASSUME BoundsAssumption == Permits \in Nat \ {0} /\ MaxRuns \in Nat /\ MaxDepth \in Nat
ASSUME FaultsAssumption == Faults \subseteq {"store", "disk", "crash"}

\* The graded comparison, guardrails and qualification accuracy, as the gate
\* and the approval read them.
Result == [better: BOOLEAN, regressed: BOOLEAN, qual_held: BOOLEAN]

ASSUME ResultsAssumption == Results \subseteq Result

\* The defaults of a record whose A/B produced nothing.
Neutral == [better |-> FALSE, regressed |-> FALSE, qual_held |-> TRUE]

Versions    == UNION {[1..n -> Dims] : n \in 0..MaxDepth}
Bootstrap   == <<>>
ParentOf(v) == SubSeq(v, 1, Len(v) - 1)

Runs   == 1..MaxRuns
Ids    == [kind: {"run"}, n: Runs]
          \cup [kind: {"round"} \cup Surfaces, version: Versions]
RunId(n)   == [kind |-> "run", n |-> n]
States == {"draft", "running", "blocked", "rejected", "paused", "promoted"}
Record == [version: Versions, extreme: BOOLEAN, result: Result, state: States]

ASSUME NoneAssumption == /\ None \notin Versions
                         /\ None \notin Record
                         /\ None \notin [id: Ids, record: Record]

VARIABLES lineage,       \* version_lineage: absent, recorded or champion
          disk,          \* the versions with a config yaml
          experiments,   \* the experiment rows
          permits,       \* the free permits of run_semaphore
          launched,      \* the runs launched so far (unique_run_id)
          task,          \* what each handler or round is suspended on
          run            \* what each background run is suspended on

vars == <<lineage, disk, experiments, permits, launched, task, run>>

\* `held` is the champion row a transaction has demoted and not committed;
\* `closing` the row an approval saves after its version is recorded.
Closing == [id: Ids, record: Record] \cup {None}
Tasks == [pc: {"idle"}]
         \cup [pc: {"launching"}, n: Runs, record: Record]
         \cup [pc: {"grading"}, version: Versions]
         \cup [pc: {"logging", "closing"}, id: Ids, record: Record]
         \cup [pc: {"recording"}, version: Versions, closing: Closing]
         \cup [pc: {"waiting"}, version: Versions, closing: Closing, held: Versions]
         \cup [pc: {"upserting"}, version: Versions, closing: Closing,
               held: Versions \cup {None}]
RunTasks == [pc: {"none"}] \cup [pc: {"testing", "saving", "failing"}, record: Record]

Idle  == [pc |-> "idle"]
NoRun == [pc |-> "none"]

TypeOK == /\ lineage \in [Versions -> {"absent", "recorded", "champion"}]
          /\ disk \subseteq Versions
          /\ experiments \in [Ids -> Record \cup {None}]
          /\ permits \in 0..Permits
          /\ launched \in 0..MaxRuns
          /\ task \in [Handlers -> Tasks]
          /\ run \in [Runs -> RunTasks]

Champions == {v \in Versions : lineage[v] = "champion"}

\* The migrations leave the lineage empty; an operator may have recorded the
\* bootstrap as its first champion.
Init == /\ \E root \in {"absent", "champion"} :
             lineage = [v \in Versions |-> IF v = Bootstrap THEN root ELSE "absent"]
        /\ disk = {Bootstrap}
        /\ experiments = [id \in Ids |-> None]
        /\ permits = Permits /\ launched = 0
        /\ task = [h \in Handlers |-> Idle]
        /\ run = [n \in Runs |-> NoRun]

Suspend(h, t) == task' = [task EXCEPT ![h] = t]
Return(h)     == Suspend(h, Idle)
Save(id, r)   == experiments' = [experiments EXCEPT ![id] = r]

\* A write whose acknowledgement is lost was made all the same.
SaveUnanswered(id, r) == Save(id, r) \/ UNCHANGED experiments

-----------------------------------------------------------------------------
(* The champion's config and the gate. *)

\* resolve_champion_config: the champion if its yaml is there, else the
\* bootstrap; a store that does not answer is an empty one.
Baselines ==
  {IF v \in disk THEN v ELSE Bootstrap : v \in Champions}
  \cup (IF Champions = {} \/ "store" \in Faults THEN {Bootstrap} ELSE {})

\* The versions a change of dimension d may yield.
Challengers(d) == {Append(b, d) : b \in {v \in Baselines : Len(v) < MaxDepth}}

Passed(r) == r.better /\ ~r.regressed /\ r.qual_held

\* Faulty: the qualification accuracy is not asked for.
EvaluatePromotionUnqualified(r, extreme, divergence) ==
  IF divergence = "above" THEN "paused"
  ELSE IF ~(r.better /\ ~r.regressed) THEN "rejected"
  ELSE IF extreme THEN "blocked" ELSE "promoted"

\* evaluate_promotion with the record's state for each of its statuses.
EvaluatePromotion(r, extreme, divergence) ==
  IF divergence = "above" THEN "paused"
  ELSE IF ~Passed(r) THEN "rejected"
  ELSE IF extreme THEN "blocked" ELSE "promoted"

\* A run measures no divergence: what it would promote it hands to a human.
RunVerdict(r, extreme) ==
  LET state == EvaluatePromotion(r, extreme, "unmeasured")
  IN  IF state = "promoted" THEN "blocked" ELSE state

\* The bar approve_ep asserts once more.
MeetsBar(r) == r.state = "blocked" /\ Passed(r.result) /\ r.extreme

-----------------------------------------------------------------------------
(* POST /api/experiments/run and its background task *)

\* A permit is free: it is taken, the running record is about to be saved.
RunRequested(h, c, v) ==
  /\ task[h] = Idle
  /\ permits > 0 /\ launched < MaxRuns
  /\ v \in Challengers(c.dim)
  /\ permits' = permits - 1
  /\ launched' = launched + 1
  /\ Suspend(h, [pc |-> "launching", n |-> launched',
                 record |-> [version |-> v, extreme |-> c.extreme, result |-> Neutral,
                             state |-> "running"]])
  /\ UNCHANGED <<lineage, disk, experiments, run>>

RunLaunched(h) ==
  /\ task[h].pc = "launching"
  /\ Save(RunId(task[h].n), task[h].record)
  /\ run' = [run EXCEPT ![task[h].n] = [pc |-> "testing", record |-> task[h].record]]
  /\ Return(h)
  /\ UNCHANGED <<lineage, disk, permits, launched>>

\* Faulty: the permit of a run that could not be saved is not given back.
RunNotLaunchedLeaks(h) ==
  /\ "store" \in Faults
  /\ task[h].pc = "launching"
  /\ SaveUnanswered(RunId(task[h].n), task[h].record)
  /\ Return(h)
  /\ UNCHANGED <<lineage, disk, permits, launched, run>>

\* The first save raised: the permit is given back, the request fails.
RunNotLaunched(h) ==
  /\ "store" \in Faults
  /\ task[h].pc = "launching"
  /\ SaveUnanswered(RunId(task[h].n), task[h].record)
  /\ permits' = permits + 1
  /\ Return(h)
  /\ UNCHANGED <<lineage, disk, launched, run>>

RunProceeds(n, t) == run' = [run EXCEPT ![n] = t]

\* Both arms are graded; the arms' episodes are saved at best effort and the
\* verdict is about to be saved under the run's id.
TestEnds(n, result) ==
  /\ run[n].pc = "testing"
  /\ RunProceeds(n, [pc |-> "saving",
                     record |-> [run[n].record EXCEPT
                       !.result = result,
                       !.state = RunVerdict(result, run[n].record.extreme)]])
  /\ UNCHANGED <<lineage, disk, experiments, permits, launched, task>>

Rejected(r) == [r EXCEPT !.result = Neutral, !.state = "rejected"]

\* The run timed out or raised.
TestFails(n) ==
  /\ run[n].pc = "testing"
  /\ RunProceeds(n, [pc |-> "failing", record |-> Rejected(run[n].record)])
  /\ UNCHANGED <<lineage, disk, experiments, permits, launched, task>>

\* The record is saved, by the verdict or by _settle_failed_run, and the
\* finally block releases the permit.
RunSettles(n) ==
  /\ run[n].pc \in {"saving", "failing"}
  /\ Save(RunId(n), run[n].record)
  /\ permits' = permits + 1
  /\ RunProceeds(n, NoRun)
  /\ UNCHANGED <<lineage, disk, launched, task>>

\* The save raised: a verdict is replaced by a failure; the failure of that
\* is swallowed and the permit released.
RunSaveFails(n) ==
  /\ "store" \in Faults
  /\ run[n].pc \in {"saving", "failing"}
  /\ SaveUnanswered(RunId(n), run[n].record)
  /\ IF run[n].pc = "saving"
       THEN /\ RunProceeds(n, [pc |-> "failing", record |-> Rejected(run[n].record)])
            /\ UNCHANGED permits
       ELSE RunProceeds(n, NoRun) /\ permits' = permits + 1
  /\ UNCHANGED <<lineage, disk, launched, task>>

-----------------------------------------------------------------------------
(* Drafts, approvals and rollback *)

\* POST /api/kb, /api/playbook (a running draft) and /api/experiments/scaffold.
SaveDraft(h, kind, c, v) ==
  /\ task[h] = Idle
  /\ kind \in Surfaces /\ v \in Challengers(c.dim)
  /\ kind = "draft" => ~c.extreme
  /\ Save([kind |-> kind, version |-> v],
          [version |-> v, extreme |-> c.extreme, result |-> Neutral,
           state |-> IF kind = "draft" THEN "running" ELSE "draft"])
  /\ UNCHANGED <<lineage, disk, permits, launched, task, run>>

\* Faulty: the record is closed before the version is recorded.
ApproveClosesFirst(h, id) ==
  /\ task[h] = Idle
  /\ experiments[id] # None /\ MeetsBar(experiments[id])
  /\ Save(id, [experiments[id] EXCEPT !.state = "promoted"])
  /\ Suspend(h, [pc |-> "recording", version |-> experiments[id].version, closing |-> None])
  /\ UNCHANGED <<lineage, disk, permits, launched, run>>

\* approve_ep reads the record, asserts the bar and goes on to record_version.
Approve(h, id) ==
  /\ task[h] = Idle
  /\ experiments[id] # None /\ MeetsBar(experiments[id])
  /\ Suspend(h, [pc |-> "recording", version |-> experiments[id].version,
                 closing |-> [id |-> id,
                              record |-> [experiments[id] EXCEPT !.state = "promoted"]]])
  /\ UNCHANGED <<lineage, disk, experiments, permits, launched, run>>

\* Faulty: any record may be rejected.
RejectAny(h, id) ==
  /\ task[h] = Idle
  /\ experiments[id] # None
  /\ Suspend(h, [pc |-> "closing", id |-> id,
                 record |-> [experiments[id] EXCEPT !.state = "rejected"]])
  /\ UNCHANGED <<lineage, disk, experiments, permits, launched, run>>

Reject(h, id) ==
  /\ task[h] = Idle
  /\ experiments[id] # None /\ experiments[id].state = "blocked"
  /\ Suspend(h, [pc |-> "closing", id |-> id,
                 record |-> [experiments[id] EXCEPT !.state = "rejected"]])
  /\ UNCHANGED <<lineage, disk, experiments, permits, launched, run>>

\* The last save of an approval or a rejection.
Closed(h) ==
  /\ task[h].pc = "closing"
  /\ Save(task[h].id, task[h].record)
  /\ Return(h)
  /\ UNCHANGED <<lineage, disk, permits, launched, run>>

Rollback(h, v) ==
  /\ task[h] = Idle
  /\ lineage[v] # "absent"
  /\ Suspend(h, [pc |-> "recording", version |-> v, closing |-> None])
  /\ UNCHANGED <<lineage, disk, experiments, permits, launched, run>>

-----------------------------------------------------------------------------
(* run_improvement_round, with its promotion and its record persisted *)

RoundStarts(h, d, v) ==
  /\ task[h] = Idle
  /\ d \in RoundDims /\ v \in Challengers(d)
  /\ Suspend(h, [pc |-> "grading", version |-> v])
  /\ UNCHANGED <<lineage, disk, experiments, permits, launched, run>>

\* The experiment is graded and the divergence measured, or not measurable.
RoundGraded(h, result, divergence) ==
  /\ task[h].pc = "grading"
  /\ LET v == task[h].version
     IN  Suspend(h, [pc |-> "logging", id |-> [kind |-> "round", version |-> v],
                     record |-> [version |-> v, extreme |-> FALSE, result |-> result,
                                 state |-> EvaluatePromotion(result, FALSE, divergence)]])
  /\ UNCHANGED <<lineage, disk, experiments, permits, launched, run>>

\* The experiment raised, and the round with it.  (A divergence that cannot be
\* measured is an unmeasured one.)
RoundFails(h) ==
  /\ task[h].pc = "grading"
  /\ Return(h)
  /\ UNCHANGED <<lineage, disk, experiments, permits, launched, run>>

\* The round's record is saved; promote() writes the config (a failure of the
\* disk is swallowed) and goes on to record_version.
RoundLogged(h) ==
  LET r == task[h].record
  IN  /\ task[h].pc = "logging"
      /\ Save(task[h].id, r)
      /\ IF r.state = "promoted"
           THEN /\ disk' \in {disk \cup {r.version}}
                             \cup (IF "disk" \in Faults THEN {disk} ELSE {})
                /\ Suspend(h, [pc |-> "recording", version |-> r.version, closing |-> None])
           ELSE Return(h) /\ UNCHANGED disk
      /\ UNCHANGED <<lineage, permits, launched, run>>

-----------------------------------------------------------------------------
(* record_version *)

\* Another transaction has written row v and not committed.
Locked(h, v) == \E g \in Handlers \ {h} : task[g].pc = "upserting" /\ task[g].held = v

Upserting(h, c) ==
  Suspend(h, [pc |-> "upserting", version |-> task[h].version,
              closing |-> task[h].closing, held |-> c])

\* Faulty: the demotion is committed on its own.
DemotesAlone(h) ==
  /\ task[h].pc = "recording"
  /\ LET prior == Champions \ {task[h].version}
     IN  /\ lineage' = [v \in Versions |-> IF v \in prior THEN "recorded" ELSE lineage[v]]
         /\ Upserting(h, None)
  /\ UNCHANGED <<disk, experiments, permits, launched, run>>

\* The UPDATE that demotes the champion; it waits for the row if another
\* transaction has it.
Demotes(h) ==
  /\ task[h].pc = "recording"
  /\ LET prior == Champions \ {task[h].version}
     IN  IF prior = {} THEN Upserting(h, None)
         ELSE \E c \in prior :
                IF Locked(h, c)
                  THEN Suspend(h, [pc |-> "waiting", version |-> task[h].version,
                                   closing |-> task[h].closing, held |-> c])
                  ELSE Upserting(h, c)
  /\ UNCHANGED <<lineage, disk, experiments, permits, launched, run>>

\* Faulty: the row is waited for until its demotion is undone.
DemotesAfterWaitOnlyChampion(h) ==
  /\ task[h].pc = "waiting"
  /\ LET c == task[h].held
     IN  ~Locked(h, c) /\ lineage[c] = "champion" /\ Upserting(h, c)
  /\ UNCHANGED <<lineage, disk, experiments, permits, launched, run>>

\* The awaited row is free: the UPDATE looks at it again, and at no other.
DemotesAfterWait(h) ==
  /\ task[h].pc = "waiting"
  /\ LET c == task[h].held
     IN  ~Locked(h, c) /\ Upserting(h, IF lineage[c] = "champion" THEN c ELSE None)
  /\ UNCHANGED <<lineage, disk, experiments, permits, launched, run>>

\* What the foreign key and the partial unique index ask of the upsert.
Insertable(v, held) ==
  /\ v = Bootstrap \/ lineage[ParentOf(v)] # "absent"
  /\ Champions \subseteq {v, held}

\* The upsert and the commit; then an approval closes its record.  An
\* unanswered commit fails the request all the same.
Commits(h) ==
  LET v == task[h].version
  IN  /\ task[h].pc = "upserting" /\ ~Locked(h, v)
      /\ Insertable(v, task[h].held)
      /\ lineage' = [w \in Versions |-> CASE w = v            -> "champion"
                                          [] w = task[h].held -> "recorded"
                                          [] OTHER            -> lineage[w]]
      /\ \/ task[h].closing # None
            /\ Suspend(h, [pc |-> "closing", id |-> task[h].closing.id,
                           record |-> task[h].closing.record])
         \/ (task[h].closing = None \/ "store" \in Faults) /\ Return(h)
      /\ UNCHANGED <<disk, experiments, permits, launched, run>>

\* The upsert is refused and the transaction rolled back: 500.
Aborts(h) ==
  /\ task[h].pc = "upserting" /\ ~Locked(h, task[h].version)
  /\ ~Insertable(task[h].version, task[h].held)
  /\ Return(h)
  /\ UNCHANGED <<lineage, disk, experiments, permits, launched, run>>

\* The store raised: the request or the round fails where it is.  The record of
\* a round may have been saved all the same.
StoreFails(h) ==
  /\ "store" \in Faults
  /\ task[h].pc \in {"logging", "closing", "recording", "waiting", "upserting"}
  /\ IF task[h].pc = "logging" THEN SaveUnanswered(task[h].id, task[h].record)
     ELSE UNCHANGED experiments
  /\ Return(h)
  /\ UNCHANGED <<lineage, disk, permits, launched, run>>

\* The process dies and is started again: the store and the disk remain.
Crash ==
  /\ "crash" \in Faults
  /\ task' = [h \in Handlers |-> Idle]
  /\ run' = [n \in Runs |-> NoRun]
  /\ permits' = Permits
  /\ UNCHANGED <<lineage, disk, experiments, launched>>

-----------------------------------------------------------------------------
Request(h) ==
  \/ \E c \in Changes, v \in Versions : RunRequested(h, c, v)
  \/ \E kind \in Surfaces, c \in Changes, v \in Versions : SaveDraft(h, kind, c, v)
  \/ \E id \in Ids : Approve(h, id)
  \/ \E id \in Ids : Reject(h, id)
  \/ \E v \in Versions : Rollback(h, v)
  \/ \E d \in RoundDims, v \in Versions : RoundStarts(h, d, v)

Proceed(h) ==
  \/ RunLaunched(h)
  \/ RunNotLaunched(h)
  \/ Closed(h)
  \/ \E r \in Results, d \in {"unmeasured", "within", "above"} : RoundGraded(h, r, d)
  \/ RoundFails(h)
  \/ RoundLogged(h)
  \/ Demotes(h)
  \/ DemotesAfterWait(h)
  \/ Commits(h)
  \/ Aborts(h)
  \/ StoreFails(h)

RunAlone(n) ==
  \/ \E r \in Results : TestEnds(n, r)
  \/ TestFails(n)
  \/ RunSettles(n)
  \/ RunSaveFails(n)

Next == \/ \E h \in Handlers : Request(h) \/ Proceed(h)
        \/ \E n \in Runs : RunAlone(n)
        \/ Crash

Spec == Init /\ [][Next]_vars

\* Every started request and run goes on, and the store gives a locked row to
\* its waiters in turn (so the fairness is strong); nobody is obliged to start
\* a request.
FairSpec == /\ Spec
            /\ \A h \in Handlers : SF_vars(Proceed(h))
            /\ \A n \in Runs : WF_vars(RunAlone(n))

-----------------------------------------------------------------------------
(* What the loop promises. *)

\* Well typed, and the permits of the runs are never lost nor invented: each is free, held by
\* a request that launches a run, or by a run.
PermitsAccounted ==
  /\ TypeOK
  /\ permits + Cardinality({h \in Handlers : task[h].pc = "launching"})
             + Cardinality({n \in Runs : run[n].pc # "none"}) = Permits

\* An approved experiment's version is in the lineage: the record says
\* promoted only after the version was recorded.
ApprovedIsRecorded ==
  \A n \in Runs : (experiments[RunId(n)] # None /\ experiments[RunId(n)].state = "promoted")
                    => lineage[experiments[RunId(n)].version] # "absent"

\* A version enters the lineage only with a result that passed the gate: an
\* extreme one of a run that a human approved, or one a round promoted.
ChampionsAreEarned ==
  [][\A v \in Versions :
       (lineage[v] = "absent" /\ lineage'[v] # "absent") =>
          \E id \in Ids : LET r == experiments[id]
                          IN  /\ r # None
                              /\ r.version = v /\ Passed(r.result)
                              /\ \/ id.kind = "run" /\ r.extreme /\ r.state = "blocked"
                                 \/ id.kind = "round" /\ r.state = "promoted"]_vars

\* A decision is final: what was promoted or rejected stays so.
SettledIsFinal ==
  [][\A n \in Runs : LET r == experiments[RunId(n)]
                     IN  (r # None /\ r.state \in {"promoted", "rejected"})
                           => experiments'[RunId(n)].state = r.state]_vars

\* The version store is one register of the champion.
Register == INSTANCE ChampionRegister WITH
              Lineages <- Versions, Parent <- ParentOf, Root <- Bootstrap,
              recorded <- {v \in Versions : lineage[v] # "absent"}, champion <- Champions

ImplementsRegister == Register!Spec

Running(n) == experiments[RunId(n)] # None /\ experiments[RunId(n)].state = "running"

\* Everything comes to its end: a launched run does not stay `running`, and a
\* request returns, as transactions do not wait for each other for ever.
EverythingSettles ==
  /\ \A n \in Runs : Running(n) ~> ~Running(n)
  /\ \A h \in Handlers : task[h].pc # "idle" ~> task[h].pc = "idle"

=============================================================================
