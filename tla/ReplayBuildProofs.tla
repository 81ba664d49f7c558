------------------------- MODULE ReplayBuildProofs -------------------------
(***************************************************************************)
(* Theorems about the replay builds, for every set of calls, every bound   *)
(* on the calls of a build and every width of its semaphore.               *)
(***************************************************************************)
EXTENDS ReplayBuild, FiniteSetTheorems, TLAPS

-----------------------------------------------------------------------------
(* The calls of a job. *)

\* The calls of the job r in phase p.
Among(r, p) == {c \in DOMAIN r.calls : r.calls[c] = p}
Unfinished(r) == Among(r, "waiting") \cup Among(r, "replaying")

LEMMA InJob ==
  ASSUME NEW j
  PROVE  /\ \A p : In(j, p) = Among(jobs[j], p)
         /\ Pending(j) = Unfinished(jobs[j])
  BY DEF In, Among, Pending, Unfinished

\* A batch is a finite set of calls, and so is what is in a phase.
LEMMA JobSets ==
  ASSUME NEW r \in Job
  PROVE  /\ DOMAIN r.calls \subseteq Calls
         /\ IsFiniteSet(DOMAIN r.calls)
         /\ Cardinality(DOMAIN r.calls) \in 0..MaxCalls
         /\ \A c \in DOMAIN r.calls : r.calls[c] \in Phases
         /\ IsFiniteSet(Unfinished(r)) /\ IsFiniteSet(Among(r, "replayed"))
         /\ Cardinality(Unfinished(r)) \in 0..Cardinality(DOMAIN r.calls)
         /\ Cardinality(Among(r, "replayed")) \in Nat
  <1>1. PICK cs \in Batches \ {{}} : r.calls \in [cs -> Phases]
    BY DEF Job
  <1>2. DOMAIN r.calls = cs /\ cs \subseteq Calls /\ Cardinality(cs) <= MaxCalls
    BY <1>1 DEF Batches
  <1>3. IsFiniteSet(cs)
    BY <1>2, CallsAssumption, FS_Subset
  <1>4. Cardinality(cs) \in 0..MaxCalls
    BY <1>2, <1>3, BoundsAssumption, FS_CardinalityType
  <1>5. /\ Unfinished(r) \subseteq cs /\ Among(r, "replayed") \subseteq cs
    BY <1>2 DEF Unfinished, Among
  <1>6. /\ IsFiniteSet(Unfinished(r)) /\ Cardinality(Unfinished(r)) <= Cardinality(cs)
        /\ IsFiniteSet(Among(r, "replayed"))
    BY <1>3, <1>5, FS_Subset
  <1>7. Cardinality(Unfinished(r)) \in Nat /\ Cardinality(Among(r, "replayed")) \in Nat
    BY <1>6, FS_CardinalityType
  <1> QED
    BY <1>1, <1>2, <1>3, <1>4, <1>6, <1>7

\* A fresh job has all its calls waiting.
LEMMA FreshJob ==
  ASSUME NEW batch \in Batches, batch # {},
         NEW r, r = [calls |-> [c \in batch |-> "waiting"], ended |-> FALSE]
  PROVE  /\ r \in Job /\ r.ended = FALSE
         /\ DOMAIN r.calls = batch /\ Unfinished(r) = batch /\ Among(r, "replayed") = {}
  <1>1. r.ended = FALSE /\ r.calls = [c \in batch |-> "waiting"]
    OBVIOUS
  <1>2. r.calls \in [batch -> Phases]
    BY <1>1 DEF Phases
  <1>3. r \in Job
    BY <1>2 DEF Job
  <1> QED
    BY <1>1, <1>3 DEF Unfinished, Among

\* One call of a job goes on to phase p.
LEMMA PhaseMoves ==
  ASSUME NEW r \in Job, NEW c \in DOMAIN r.calls, NEW p \in Phases, NEW k,
         k = [r EXCEPT !.calls = [r.calls EXCEPT ![c] = p]]
  PROVE  /\ k \in Job /\ k.ended = r.ended /\ DOMAIN k.calls = DOMAIN r.calls
         /\ k.calls[c] = p
         /\ \A d \in DOMAIN r.calls \ {c} : k.calls[d] = r.calls[d]
  <1> DEFINE f == [r.calls EXCEPT ![c] = p]
  <1>1. PICK cs \in Batches \ {{}} : r.calls \in [cs -> Phases]
    BY DEF Job
  <1>2. /\ f \in [cs -> Phases] /\ f[c] = p /\ DOMAIN f = DOMAIN r.calls
        /\ \A d \in DOMAIN r.calls \ {c} : f[d] = r.calls[d]
    BY <1>1
  <1> HIDE DEF f
  <1>3. k = [r EXCEPT !.calls = f]
    BY DEF f
  <1>4. k.calls = f /\ k.ended = r.ended
    BY <1>3 DEF Job
  <1>5. k \in Job
    BY <1>1, <1>2, <1>3 DEF Job
  <1> QED
    BY <1>2, <1>4, <1>5

-----------------------------------------------------------------------------
(* One build at a time. *)

\* Builds are asked for one after the other, as the one button of the page does.
OneBuilder == \A a, b \in Builders : a = b

\* The jobs before the current one have ended; no request that is listing its
\* calls will find one running.
Alone ==
  /\ current = IF jobs = <<>> THEN None ELSE Len(jobs)
  /\ \A j \in DOMAIN jobs : /\ jobs[j].ended => Pending(j) = {}
                            /\ j # current => jobs[j].ended
  /\ status = IF jobs = <<>> THEN "idle" ELSE IF jobs[current].ended THEN "done" ELSE "running"
  /\ jobs = <<>> => done = 0 /\ total = 0
  /\ listing # {} => ~IsRunning

\* The store against the calls of a job.
Counts(r) ==
  /\ total = Cardinality(DOMAIN r.calls)
  /\ done = total - Cardinality(Unfinished(r))
  /\ Len(results) = Cardinality(Among(r, "replayed"))
  /\ {results[i] : i \in DOMAIN results} = Among(r, "replayed")

IInv == TypeOK /\ Alone /\ (jobs # <<>> => Counts(jobs[current]))

\* The last job is the current one.
LEMMA Current ==
  ASSUME IInv, jobs # <<>>
  PROVE  /\ current = Len(jobs) /\ current \in DOMAIN jobs /\ current \in Nat /\ current # None
         /\ jobs[current] \in Job
  BY NoneAssumption DEF IInv, TypeOK, Alone

\* A call that is not finished is one of the current job, which runs.
LEMMA RunsCurrent ==
  ASSUME IInv, NEW j \in DOMAIN jobs, Pending(j) # {} \/ ~jobs[j].ended
  PROVE  j = current /\ ~jobs[j].ended /\ jobs # <<>> /\ status = "running" /\ listing = {}
  <1>1. jobs # <<>>
    BY DEF IInv, TypeOK
  <1>2. j = current /\ ~jobs[j].ended
    BY DEF IInv, Alone
  <1> QED
    BY <1>1, <1>2, Current DEF IInv, Alone, IsRunning

LEMMA InitBuild == Init => IInv
  <1> SUFFICES ASSUME Init PROVE IInv
    OBVIOUS
  <1>1. 0 \in 0..MaxCalls /\ 0 \in 0..(MaxJobs * MaxCalls)
    BY BoundsAssumption
  <1> QED
    BY <1>1, BoundsAssumption DEF Init, IInv, TypeOK, Alone

\* Within the bound on the jobs, what is counted of one is within its type.
LEMMA DoneType ==
  ASSUME NEW n \in 0..MaxCalls, MaxJobs # 0
  PROVE  n \in 0..(MaxJobs * MaxCalls)
  <1>1. MaxJobs \in Nat /\ MaxJobs >= 1 /\ MaxCalls \in Nat
    BY BoundsAssumption
  <1>2. \A a, b \in Nat : a >= 1 => a * b >= b
    OBVIOUS
  <1>3. MaxJobs * MaxCalls >= MaxCalls /\ MaxJobs * MaxCalls \in Nat
    BY <1>1, <1>2
  <1> QED
    BY <1>1, <1>3

\* A build that is listed alone starts a store of its own.
LEMMA Listed ==
  ASSUME OneBuilder, IInv, NEW b \in Builders, NEW batch \in Batches, BuildListed(b, batch)
  PROVE  IInv'
  <1> DEFINE r == [calls |-> [c \in batch |-> "waiting"], ended |-> FALSE]
             n == Len(jobs) + 1
  <1>1. /\ b \in listing /\ batch # {} /\ Len(jobs) < MaxJobs /\ listing' = listing \ {b}
        /\ status' = "running" /\ total' = Cardinality(batch)
        /\ done' = 0 /\ results' = <<>> /\ current' = n /\ jobs' = Append(jobs, r)
    BY DEF BuildListed
  <1>2. /\ r \in Job /\ r.ended = FALSE
        /\ DOMAIN r.calls = batch /\ Unfinished(r) = batch /\ Among(r, "replayed") = {}
    BY <1>1, FreshJob
  <1>3. listing' = {}
    BY <1>1 DEF OneBuilder, IInv, TypeOK
  <1>4. /\ jobs \in Seq(Job) /\ Len(jobs) \in Nat /\ jobs' \in Seq(Job) /\ Len(jobs') = n
        /\ DOMAIN jobs = 1..Len(jobs) /\ DOMAIN jobs' = 1..n /\ jobs' # <<>>
        /\ jobs'[n] = r /\ \A j \in DOMAIN jobs : jobs'[j] = jobs[j]
    BY <1>1, <1>2 DEF IInv, TypeOK
  <1> HIDE DEF r
  <1>5. Cardinality(batch) \in 0..MaxCalls
    BY <1>2, JobSets
  <1>6. TypeOK'
    <2>1. 0 \in 0..(MaxJobs * MaxCalls)
      BY BoundsAssumption
    <2>2. n \in Jobs /\ n <= MaxJobs
      BY <1>1, <1>4, BoundsAssumption DEF Jobs
    <2> QED
      BY <1>1, <1>3, <1>4, <1>5, <2>1, <2>2 DEF TypeOK
  <1>7. ASSUME NEW j \in DOMAIN jobs' PROVE (jobs'[j].ended => Pending(j)' = {}) /\ (j # n => jobs'[j].ended)
    <2>1. CASE j = n
      BY <1>2, <1>4, <2>1
    <2>2. CASE j # n
      <3>1. j \in DOMAIN jobs /\ jobs'[j] = jobs[j] /\ Pending(j)' = Pending(j)
        BY <1>4, <1>7, <2>2 DEF Pending, In
      <3>2. jobs[j].ended
        <4>1. ~IsRunning
          BY <1>1 DEF IInv, Alone
        <4>2. jobs # <<>>
          BY <3>1, <1>4
        <4>3. status # "running" \/ jobs[current].ended
          BY <4>1, <4>2, Current DEF IsRunning
        <4>4. jobs[current].ended
          BY <4>2, <4>3 DEF IInv, Alone
        <4> QED
          BY <3>1, <4>4 DEF IInv, Alone
      <3> QED
        BY <3>1, <3>2 DEF IInv, Alone
    <2> QED
      BY <2>1, <2>2
  <1>8. Alone'
    <2>1. jobs'[current'].ended = FALSE
      BY <1>1, <1>2, <1>4
    <2> QED
      BY <1>1, <1>3, <1>4, <1>7, <2>1 DEF Alone
  <1>9. Counts(jobs[current])'
    <2>1. jobs'[current'] = r
      BY <1>1, <1>4
    <2>2. Cardinality({}) = 0 /\ Cardinality(batch) \in Nat
      BY <1>5, BoundsAssumption, FS_EmptySet
    <2>3. Len(<<>>) = 0 /\ {results'[i] : i \in DOMAIN results'} = {}
      BY <1>1
    <2>4. total' - Cardinality(batch) = 0 /\ Len(results') = 0
      BY <1>1, <2>2
    <2> QED
      BY <1>1, <1>2, <2>1, <2>2, <2>3, <2>4 DEF Counts
  <1> QED
    BY <1>6, <1>8, <1>9 DEF IInv

\* A step of the current job: its record becomes k, the store still counts it.
LEMMA JobStep ==
  ASSUME IInv, jobs # <<>>, NEW k \in Job, jobs' = [jobs EXCEPT ![current] = k],
         k.ended => Unfinished(k) = {},
         UNCHANGED <<total, current, listing>>, listing = {},
         status' = IF k.ended THEN "done" ELSE "running",
         done' \in 0..MaxCalls, results' \in Seq(Calls),
         /\ total' = Cardinality(DOMAIN k.calls)
         /\ done' = total' - Cardinality(Unfinished(k))
         /\ Len(results') = Cardinality(Among(k, "replayed"))
         /\ {results'[i] : i \in DOMAIN results'} = Among(k, "replayed")
  PROVE  IInv'
  <1>1. /\ current = Len(jobs) /\ current \in DOMAIN jobs /\ current \in Nat /\ current # None
        /\ jobs \in Seq(Job) /\ Len(jobs) <= MaxJobs /\ MaxJobs # 0
    BY Current, BoundsAssumption DEF IInv, TypeOK
  <1>2. /\ jobs' \in Seq(Job) /\ Len(jobs') = Len(jobs) /\ DOMAIN jobs' = DOMAIN jobs
        /\ jobs'[current] = k /\ \A j \in DOMAIN jobs \ {current} : jobs'[j] = jobs[j]
        /\ jobs' # <<>>
    BY <1>1
  <1>3. TypeOK'
    BY <1>1, <1>2, DoneType DEF IInv, TypeOK
  <1>4. ASSUME NEW j \in DOMAIN jobs'
        PROVE  (jobs'[j].ended => Pending(j)' = {}) /\ (j # current => jobs'[j].ended)
    <2>1. CASE j = current
      <3>1. Pending(j)' = Unfinished(k)
        BY <1>2, <2>1 DEF Pending, In, Unfinished, Among
      <3> QED
        BY <1>2, <2>1, <3>1
    <2>2. CASE j # current
      <3>1. j \in DOMAIN jobs /\ jobs'[j] = jobs[j] /\ Pending(j)' = Pending(j)
        BY <1>2, <1>4, <2>2 DEF Pending, In
      <3> QED
        BY <2>2, <3>1 DEF IInv, Alone
    <2> QED
      BY <2>1, <2>2
  <1>5. Alone'
    BY <1>1, <1>2, <1>4 DEF Alone
  <1>6. Counts(jobs[current])'
    BY <1>2 DEF Counts
  <1> QED
    BY <1>3, <1>5, <1>6 DEF IInv

LEMMA StepBuild == OneBuilder /\ IInv /\ [Next]_vars => IInv'
  <1> SUFFICES ASSUME OneBuilder, IInv, [Next]_vars PROVE IInv'
    OBVIOUS
  <1> USE DEF store
  <1>1. ASSUME NEW b \in Builders, BuildRequested(b) PROVE IInv'
    <2>1. ~IsRunning /\ UNCHANGED <<store, jobs>> /\ listing' = listing \cup {b}
      BY <1>1 DEF BuildRequested
    <2>2. TypeOK'
      BY <2>1 DEF IInv, TypeOK
    <2>3. Alone'
      BY <2>1 DEF IInv, Alone, IsRunning, Pending, In
    <2> QED
      BY <2>1, <2>2, <2>3 DEF IInv, Counts
  <1>2. ASSUME NEW b \in Builders, NothingListed(b) PROVE IInv'
    <2>1. UNCHANGED <<store, jobs>> /\ listing' \subseteq listing
      BY <1>2 DEF NothingListed
    <2>2. TypeOK'
      BY <2>1 DEF IInv, TypeOK
    <2>3. Alone'
      BY <2>1 DEF IInv, Alone, IsRunning, Pending, In
    <2> QED
      BY <2>1, <2>2, <2>3 DEF IInv, Counts
  <1>3. ASSUME NEW j \in DOMAIN jobs, NEW c \in DOMAIN jobs[j].calls, ReplayStarts(j, c)
        PROVE  IInv'
    <2> DEFINE r == jobs[j]
               k == [r EXCEPT !.calls = [r.calls EXCEPT ![c] = "replaying"]]
    <2>1. c \in Pending(j) /\ r.calls[c] = "waiting" /\ jobs' = [jobs EXCEPT ![j] = k]
          /\ UNCHANGED <<store, listing>>
      BY <1>3 DEF ReplayStarts, Pending, In
    <2>2. j = current /\ ~r.ended /\ jobs # <<>> /\ status = "running" /\ listing = {}
      BY <2>1, RunsCurrent
    <2>3. r \in Job
      BY <2>2, Current
    <2>4. "replaying" \in Phases
      BY DEF Phases
    <2> HIDE DEF r
    <2>5. /\ k \in Job /\ k.ended = r.ended /\ DOMAIN k.calls = DOMAIN r.calls
          /\ k.calls[c] = "replaying"
          /\ \A d \in DOMAIN r.calls \ {c} : k.calls[d] = r.calls[d]
      BY <1>3, <2>3, <2>4, PhaseMoves DEF r
    <2> HIDE DEF k
    <2>6. Unfinished(k) = Unfinished(r) /\ Among(k, "replayed") = Among(r, "replayed")
      BY <2>1, <2>5 DEF Unfinished, Among
    <2>7. Counts(r)
      BY <2>2 DEF IInv, r
    <2>8. done \in 0..MaxCalls
      BY <2>3, <2>7, JobSets, BoundsAssumption DEF Counts
    <2>9. results \in Seq(Calls)
      BY DEF IInv, TypeOK
    <2> QED
      BY <2>1, <2>2, <2>5, <2>6, <2>7, <2>8, <2>9, JobStep DEF Counts
  <1>4. ASSUME NEW j \in DOMAIN jobs, NEW c \in DOMAIN jobs[j].calls,
               NEW p \in {"replayed", "failed"}, ReplayEnds(j, c, p)
        PROVE  IInv'
    <2> DEFINE r == jobs[j]
               k == [r EXCEPT !.calls = [r.calls EXCEPT ![c] = p]]
    <2>1. /\ c \in Pending(j) /\ r.calls[c] = "replaying" /\ jobs' = [jobs EXCEPT ![j] = k]
          /\ results' = IF p = "replayed" THEN Append(results, c) ELSE results
          /\ done' = done + 1 /\ UNCHANGED <<status, total, current, listing>>
      BY <1>4 DEF ReplayEnds, Pending, In
    <2>2. j = current /\ ~r.ended /\ jobs # <<>> /\ status = "running" /\ listing = {}
      BY <2>1, RunsCurrent
    <2>3. r \in Job
      BY <2>2, Current
    <2>4. p \in Phases
      BY DEF Phases
    <2> HIDE DEF r
    <2>5. /\ k \in Job /\ k.ended = r.ended /\ DOMAIN k.calls = DOMAIN r.calls
          /\ k.calls[c] = p
          /\ \A d \in DOMAIN r.calls \ {c} : k.calls[d] = r.calls[d]
      BY <1>4, <2>3, <2>4, PhaseMoves DEF r
    <2> HIDE DEF k
    <2>c. c \in DOMAIN r.calls
      BY <1>4 DEF r
    <2>6. /\ Unfinished(k) = Unfinished(r) \ {c} /\ c \in Unfinished(r)
          /\ c \notin Among(r, "replayed")
          /\ Among(k, "replayed") = IF p = "replayed" THEN Among(r, "replayed") \cup {c}
                                                      ELSE Among(r, "replayed")
      BY <2>1, <2>5, <2>c DEF Unfinished, Among
    <2>7. Counts(r)
      BY <2>2 DEF IInv, r
    <2>8. /\ IsFiniteSet(Unfinished(r)) /\ IsFiniteSet(Among(r, "replayed"))
          /\ Cardinality(DOMAIN r.calls) \in 0..MaxCalls
          /\ Cardinality(Unfinished(r)) \in 0..Cardinality(DOMAIN r.calls)
          /\ Cardinality(Among(r, "replayed")) \in Nat /\ c \in Calls
      BY <2>3, <2>c, JobSets
    <2>9. Cardinality(Unfinished(k)) = Cardinality(Unfinished(r)) - 1
      BY <2>6, <2>8, FS_RemoveElement
    <2>10. /\ Cardinality(Unfinished(k)) \in 0..Cardinality(DOMAIN r.calls)
      BY <2>5, <2>3, JobSets
    <2>11. done' = total' - Cardinality(Unfinished(k)) /\ done' \in 0..MaxCalls
      BY <2>1, <2>7, <2>8, <2>9, <2>10, BoundsAssumption DEF Counts
    <2>12. /\ results' \in Seq(Calls)
           /\ Len(results') = Cardinality(Among(k, "replayed"))
           /\ {results'[i] : i \in DOMAIN results'} = Among(k, "replayed")
      <3>1. results \in Seq(Calls) /\ Len(results) \in Nat
        BY DEF IInv, TypeOK
      <3>2. CASE p = "replayed"
        <4>1. Cardinality(Among(k, "replayed")) = Cardinality(Among(r, "replayed")) + 1
          BY <2>6, <2>8, <3>2, FS_AddElement
        <4>2. /\ results' \in Seq(Calls) /\ Len(results') = Len(results) + 1
              /\ DOMAIN results = 1..Len(results) /\ DOMAIN results' = 1..(Len(results) + 1)
              /\ \A i \in 1..Len(results) : results'[i] = results[i]
              /\ results'[Len(results) + 1] = c
          BY <2>1, <2>8, <3>1, <3>2
        <4>3. 1..(Len(results) + 1) = (1..Len(results)) \cup {Len(results) + 1}
          BY <3>1
        <4>4. {results'[i] : i \in DOMAIN results'} = {results[i] : i \in DOMAIN results} \cup {c}
          BY <4>2, <4>3
        <4> QED
          BY <2>6, <2>7, <3>2, <4>1, <4>2, <4>4 DEF Counts
      <3>3. CASE p # "replayed"
        BY <2>1, <2>6, <2>7, <3>1, <3>3 DEF Counts
      <3> QED
        BY <3>2, <3>3
    <2> QED
      BY <2>1, <2>2, <2>5, <2>7, <2>11, <2>12, JobStep DEF Counts
  <1>5. ASSUME NEW j \in DOMAIN jobs, JobEnds(j) PROVE IInv'
    <2> DEFINE r == jobs[j]
               k == [r EXCEPT !.ended = TRUE]
    <2>1. /\ ~r.ended /\ Unfinished(r) = {} /\ jobs' = [jobs EXCEPT ![j] = k]
          /\ status' = "done" /\ UNCHANGED <<total, done, results, current, listing>>
      BY <1>5, InJob DEF JobEnds
    <2>2. j = current /\ jobs # <<>> /\ listing = {}
      BY <2>1, RunsCurrent
    <2>3. r \in Job
      BY <2>2, Current
    <2>7. Counts(r)
      BY <2>2 DEF IInv
    <2> HIDE DEF r
    <2>4. k \in Job /\ k.ended = TRUE /\ k.calls = r.calls
      BY <2>3 DEF Job
    <2> HIDE DEF k
    <2>5. Unfinished(k) = Unfinished(r) /\ Among(k, "replayed") = Among(r, "replayed")
          /\ DOMAIN k.calls = DOMAIN r.calls
      BY <2>4 DEF Unfinished, Among
    <2>8. done \in 0..MaxCalls /\ results \in Seq(Calls)
      BY <2>3, <2>7, JobSets, BoundsAssumption DEF Counts, IInv, TypeOK
    <2> QED
      BY <2>1, <2>2, <2>4, <2>5, <2>7, <2>8, JobStep DEF Counts
  <1>6. CASE UNCHANGED vars
    <2>1. TypeOK'
      BY <1>6 DEF vars, IInv, TypeOK
    <2>2. Alone'
      BY <1>6 DEF vars, IInv, Alone, IsRunning, Pending, In
    <2> QED
      BY <1>6, <2>1, <2>2 DEF vars, IInv, Counts
  <1>7. CASE Next
    BY <1>1, <1>2, <1>3, <1>4, <1>5, <1>7, Listed DEF Next, Build, Replay
  <1> QED
    BY <1>6, <1>7

\* The store tells the build: what it counts are the calls of the last job, the
\* results those replayed, and "done" is said when all of them have ended.
LEMMA Tells == IInv => StoreTellsTheBuild
  <1> SUFFICES ASSUME IInv PROVE StoreTellsTheBuild
    OBVIOUS
  <1> DEFINE Busy == {j \in DOMAIN jobs : ~jobs[j].ended \/ Pending(j) # {}}
  <1>1. Busy \subseteq {current}
    BY RunsCurrent
  <1>2. Cardinality(Busy) <= 1
    <2>1. IsFiniteSet({current}) /\ Cardinality({current}) = 1
      BY FS_Singleton
    <2> QED
      BY <1>1, <2>1, FS_Subset
  <1>3. ASSUME jobs # <<>>
        PROVE  /\ total = Cardinality(DOMAIN jobs[current].calls)
               /\ done = total - Cardinality(Pending(current))
               /\ Len(results) = Cardinality(In(current, "replayed"))
               /\ {results[i] : i \in DOMAIN results} = In(current, "replayed")
    BY <1>3, InJob DEF IInv, Counts
  <1>4. ASSUME status = "done" PROVE done = total
    <2>1. jobs # <<>> /\ jobs[current].ended
      BY <1>4 DEF IInv, Alone
    <2>2. Pending(current) = {}
      BY <2>1, Current DEF IInv, Alone
    <2>3. Cardinality(Pending(current)) = 0 /\ total \in Nat
      BY <2>2, FS_EmptySet, BoundsAssumption DEF IInv, TypeOK
    <2> QED
      BY <1>3, <2>1, <2>3
  <1>5. current # None => jobs # <<>>
    BY DEF IInv, Alone
  <1> QED
    BY <1>2, <1>3, <1>4, <1>5 DEF StoreTellsTheBuild, IInv

\* A build that is asked for alone runs alone, and the progress and the results
\* the client polls are its own, however its replays end.
THEOREM StoresTellTheBuild ==
  ASSUME OneBuilder
  PROVE  Spec => []StoreTellsTheBuild
  <1>1. IInv /\ [Next]_vars => IInv'
    BY OneBuilder, StepBuild
  <1> QED
    BY <1>1, InitBuild, Tells, PTL DEF Spec
=============================================================================
