---------------------------- MODULE ReplayBuild ----------------------------
(***************************************************************************)
(* The replay build (src/api/replay_routes.py): a request selects the      *)
(* completed calls and starts a background job that replays each of them;  *)
(* requests and jobs share one in-memory store.  One action is what a      *)
(* handler or a job does between two awaits.                               *)
(***************************************************************************)
EXTENDS Naturals, Sequences, FiniteSets

CONSTANTS Builders,     \* build requests that may be in flight at once
          Calls,        \* the completed calls
          MaxCalls,     \* the clamped max_calls of a request
          Cap,          \* _CONCURRENCY_CAP
          MaxJobs,      \* bound on the started jobs
          None          \* no task yet

ASSUME BoundsAssumption == /\ MaxCalls \in Nat \ {0} /\ Cap \in Nat \ {0}
                           /\ MaxJobs \in Nat
ASSUME CallsAssumption == IsFiniteSet(Calls)
ASSUME NoneAssumption == None \notin Nat

Jobs   == 1..MaxJobs
Phases == {"waiting", "replaying", "replayed", "failed"}

\* What a request may find eligible, the newest calls first, capped.
Batches == {cs \in SUBSET Calls : Cardinality(cs) <= MaxCalls}

\* Jobs are numbered in the order they start; the ones of a job's calls that
\* are replayed have their semaphore's slots.
Job == [calls: UNION {[cs -> Phases] : cs \in Batches \ {{}}}, ended: BOOLEAN]

VARIABLES status, total, done, results, current,  \* _ReplayStore
          jobs,                                   \* the background tasks
          listing                                 \* the requests awaiting list_episodes

store == <<status, total, done, results, current>>
vars  == <<store, jobs, listing>>

TypeOK == /\ status \in {"idle", "running", "done"}
          /\ total \in 0..MaxCalls
          /\ done \in 0..(MaxJobs * MaxCalls)
          /\ results \in Seq(Calls)
          /\ current \in Jobs \cup {None}
          /\ jobs \in Seq(Job) /\ Len(jobs) <= MaxJobs
          /\ listing \subseteq Builders

Init == /\ status = "idle" /\ total = 0 /\ done = 0
        /\ results = <<>> /\ current = None
        /\ jobs = <<>>
        /\ listing = {}

IsRunning == status = "running" /\ current # None /\ ~jobs[current].ended

\* The calls of job j in phase p.
In(j, p) == {c \in DOMAIN jobs[j].calls : jobs[j].calls[c] = p}
Pending(j) == In(j, "waiting") \cup In(j, "replaying")

-----------------------------------------------------------------------------
\* POST /api/replay/build passes the check (else it is a 409).
BuildRequested(b) ==
  /\ b \notin listing
  /\ ~IsRunning
  /\ listing' = listing \cup {b}
  /\ UNCHANGED <<store, jobs>>

\* Nothing is eligible, or the store raised: the request returns.
NothingListed(b) ==
  /\ b \in listing
  /\ listing' = listing \ {b}
  /\ UNCHANGED <<store, jobs>>

\* Faulty: the results of the build before are kept.
BuildListedKeepsResults(b, batch) ==
  /\ b \in listing /\ batch # {} /\ Len(jobs) < MaxJobs
  /\ listing' = listing \ {b}
  /\ status' = "running" /\ total' = Cardinality(batch)
  /\ done' = 0 /\ current' = Len(jobs) + 1
  /\ jobs' = Append(jobs, [calls |-> [c \in batch |-> "waiting"], ended |-> FALSE])
  /\ UNCHANGED results

\* The calls are listed: the store is reset and the job is started.
BuildListed(b, batch) ==
  /\ b \in listing /\ batch # {} /\ Len(jobs) < MaxJobs
  /\ listing' = listing \ {b}
  /\ status' = "running" /\ total' = Cardinality(batch)
  /\ done' = 0 /\ results' = <<>> /\ current' = Len(jobs) + 1
  /\ jobs' = Append(jobs, [calls |-> [c \in batch |-> "waiting"], ended |-> FALSE])

\* Faulty: a replay that raised keeps its slot.
ReplayStartsLeaking(j, c) ==
  /\ c \in In(j, "waiting")
  /\ Cardinality(In(j, "replaying") \cup In(j, "failed")) < Cap
  /\ jobs' = [jobs EXCEPT ![j].calls[c] = "replaying"]
  /\ UNCHANGED <<store, listing>>

\* A replay gets a slot of its job's semaphore.
ReplayStarts(j, c) ==
  /\ c \in In(j, "waiting")
  /\ Cardinality(In(j, "replaying")) < Cap
  /\ jobs' = [jobs EXCEPT ![j].calls[c] = "replaying"]
  /\ UNCHANGED <<store, listing>>

\* replay_call returned a fidelity, or raised; either way it counts.
ReplayEnds(j, c, phase) ==
  /\ c \in In(j, "replaying")
  /\ jobs' = [jobs EXCEPT ![j].calls[c] = phase]
  /\ results' = IF phase = "replayed" THEN Append(results, c) ELSE results
  /\ done' = done + 1
  /\ UNCHANGED <<status, total, current, listing>>

\* All of the job's replays are gathered.
JobEnds(j) ==
  /\ ~jobs[j].ended /\ Pending(j) = {}
  /\ jobs' = [jobs EXCEPT ![j].ended = TRUE]
  /\ status' = "done"
  /\ UNCHANGED <<total, done, results, current, listing>>

-----------------------------------------------------------------------------
Build(b) == \/ BuildRequested(b)
            \/ NothingListed(b)
            \/ \E batch \in Batches : BuildListed(b, batch)

Replay(j) == \/ \E c \in DOMAIN jobs[j].calls :
                  \/ ReplayStarts(j, c)
                  \/ \E phase \in {"replayed", "failed"} : ReplayEnds(j, c, phase)
             \/ JobEnds(j)

Next == \/ \E b \in Builders : Build(b)
        \/ \E j \in DOMAIN jobs : Replay(j)

Spec == Init /\ [][Next]_vars

\* The event loop goes on with every job; a replay ends (its turns and the
\* model's calls are bounded).
FairSpec == Spec /\ \A j \in Jobs : WF_vars(j \in DOMAIN jobs /\ Replay(j))

-----------------------------------------------------------------------------
\* The store tells the last build, and no other runs: the progress the client
\* polls counts its calls and those that have ended, all of them when the status
\* says done, and the results are one for each call replayed.
StoreTellsTheBuild ==
  /\ TypeOK
  /\ Cardinality({j \in DOMAIN jobs : ~jobs[j].ended \/ Pending(j) # {}}) <= 1
  /\ status = "done" => done = total
  /\ current # None =>
       /\ total = Cardinality(DOMAIN jobs[current].calls)
       /\ done = total - Cardinality(Pending(current))
       /\ Len(results) = Cardinality(In(current, "replayed"))
       /\ {results[i] : i \in DOMAIN results} = In(current, "replayed")

\* A build ends, however many of its replays raise.
BuildsEnd == status = "running" ~> status = "done"
=============================================================================
