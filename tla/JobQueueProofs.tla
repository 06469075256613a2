--------------------------- MODULE JobQueueProofs ---------------------------
(***************************************************************************)
(* What JobQueue keeps for every number of jobs, every set of requests and *)
(* every combination of faults.                                            *)
(*                                                                         *)
(* Every step is first reduced to its effect on the three stores           *)
(* (NextEffect): an operation changes the jobs in memory, one by one or by *)
(* adding one, and may save them; an upload copies the file to the         *)
(* dataset; a restart reads back what was stored.                          *)
(***************************************************************************)
EXTENDS JobQueue, FiniteSetTheorems, TLAPS

\* The next state b of a job a that any operation but submit may give it.
Evolves(a, b) ==
    /\ b \in Job
    /\ b.request = a.request
    /\ ~SeveralAtOnce => (b.status \in ActiveStatuses => a.status \in ActiveStatuses)
    /\ Coherent(a) => Coherent(b)

AllEvolve ==
    \A j \in JobIds :
        jobs'[j] # jobs[j] => jobs[j] # NoJob /\ Evolves(jobs[j], jobs'[j])

Submitted(r) ==
    /\ submitted + 1 \in JobIds
    /\ ~SubmitIsDuplicate(r)
    /\ BelowCapacity
    /\ BelowQuota(r)
    /\ jobs' = [jobs EXCEPT ![submitted + 1] = NewJob(r)]
    /\ submitted' = submitted + 1

\* The lock is held over the upload of what was saved, the new job of submit included.
Saved ==
    /\ disk' = jobs'
    /\ lock'.op = "submit" => lock'.ids \subseteq Present(jobs')

Worked ==
    /\ Free
    /\ (AllEvolve /\ submitted' = submitted) \/ \E r \in Requests : Submitted(r)
    /\ jobs' \in Stores
    /\ (lock' = Unlocked /\ disk' = disk) \/ Saved
    /\ hub' = hub

Synced ==
    /\ jobs' = jobs
    /\ disk' = disk
    /\ lock' \in {lock, Unlocked}
    /\ hub' = hub \/ (~Free /\ hub' = disk)
    /\ HubEnabled \/ hub' = hub
    /\ submitted' = submitted

Restarted ==
    \E remote \in HubStores :
        /\ jobs' = Overlay(LocalStore, remote)
        /\ disk' \in {jobs', LocalStore}
        /\ hub' = hub
        /\ lock' = Unlocked
        /\ submitted' = submitted

-----------------------------------------------------------------------------
\* The counters attempt_count and stale_requeues stay in their range.
LEMMA BumpType == \A n \in 0..(CounterModulus - 1) : Bump(n) \in 0..(CounterModulus - 1)
  BY BoundsAssumption DEF Bump

\* The job submit creates has the type of a job and agrees with itself.
LEMMA NewJobType == \A r \in Requests : NewJob(r) \in Job /\ Coherent(NewJob(r))
  BY BoundsAssumption
  DEF NewJob, Job, Coherent, ActiveStatuses, FinalStatuses

\* claim_pending takes a pending job through an attempt that begins.
LEMMA ClaimedEvolves ==
  ASSUME NEW a \in Job, a.status = "pending"
  PROVE  Evolves(a, ClaimedJob(a))
  <1>1. Bump(a.attempts) \in 0..(CounterModulus - 1)
    BY BumpType DEF Job
  <1>2. QED
    BY <1>1 DEF Evolves, ClaimedJob, Job, Coherent, ActiveStatuses, FinalStatuses

\* reclaim_stale_jobs closes the attempt of an evaluating job.
LEMMA RequeuedEvolves ==
  ASSUME NEW a \in Job, a.status = "evaluating"
  PROVE  Evolves(a, RequeuedJob(a))
  <1>1. Bump(a.requeues) \in 0..(CounterModulus - 1)
    BY BumpType DEF Job
  <1>2. QED
    BY <1>1 DEF Evolves, RequeuedJob, Job, Coherent, ActiveStatuses, FinalStatuses

\* mark_finished and mark_failed, which look at no status, keep any job coherent.
LEMMA FinalEvolves ==
  ASSUME NEW a \in Job
  PROVE  Evolves(a, FinishedJob(a)) /\ Evolves(a, FailedJob(a))
  BY DEF Evolves, FinishedJob, FailedJob, Job, Coherent, ActiveStatuses, FinalStatuses

\* mark_evaluating, which looks at no status either, opens an attempt if none is open.
LEMMA EvaluatingEvolves ==
  ASSUME SeveralAtOnce, NEW a \in Job
  PROVE  Evolves(a, EvaluatingJob(a))
  <1>1. Bump(a.attempts) \in 0..(CounterModulus - 1)
    BY BumpType DEF Job
  <1>2. QED
    BY <1>1 DEF Evolves, EvaluatingJob, Job, Coherent, ActiveStatuses, FinalStatuses

\* update_progress changes an evaluating job only, and nothing else of it.
LEMMA ProgressEvolves ==
  ASSUME NEW a \in Job, a.status = "evaluating", NEW progress \in BOOLEAN
  PROVE  Evolves(a, [a EXCEPT !.progress = progress])
  BY DEF Evolves, Job, Coherent, ActiveStatuses, FinalStatuses

-----------------------------------------------------------------------------
\* What saving and syncing leaves of the file and the lock.
LEMMA SaveEffect ==
  ASSUME NEW op \in Operations, NEW ids \in SUBSET JobIds, NEW saved \in BOOLEAN,
         TypeOK, Free, SaveThenSync(op, ids, saved),
         op = "submit" => ids \subseteq Present(jobs')
  PROVE  /\ (lock' = Unlocked /\ disk' = disk) \/ Saved
         /\ lock' \in [op : Operations, ids : SUBSET JobIds] \cup {Unlocked}
  BY DEF SaveThenSync, TypeOK, Saved, Free

\* submit adds one job that passed its checks, and saves it or not.
LEMMA SubmitEffect ==
  ASSUME TypeOK, NEW r \in Requests, NEW saved \in BOOLEAN, SubmitNew(r, saved)
  PROVE  Worked /\ TypeOK'
  <1>1. submitted + 1 \in JobIds
    BY BoundsAssumption DEF SubmitNew, TypeOK, JobIds
  <1>2. jobs' \in Stores
    BY <1>1, NewJobType DEF SubmitNew, TypeOK, Stores
  <1>3. /\ (lock' = Unlocked /\ disk' = disk) \/ Saved
        /\ lock' \in [op : Operations, ids : SUBSET JobIds] \cup {Unlocked}
    <2>1. "submit" \in Operations
      BY DEF Operations
    <2>2. {submitted + 1} \in SUBSET JobIds
      BY <1>1
    <2>3. SaveThenSync("submit", {submitted + 1}, saved)
      BY DEF SubmitNew
    <2>4. {submitted + 1} \subseteq Present(jobs')
      BY <1>1, NewJobType, NoJobAssumption DEF SubmitNew, Present, TypeOK, Stores
    <2>5. QED
      BY <2>1, <2>2, <2>3, <2>4, SaveEffect DEF SubmitNew
  <1>4. Submitted(r)
    BY <1>1 DEF SubmitNew, Submitted
  <1>5. Worked
    BY <1>2, <1>3, <1>4 DEF Worked, SubmitNew
  <1>6. TypeOK'
    <2>1. submitted' \in 0..MaxJobs
      BY <1>1, BoundsAssumption DEF SubmitNew, TypeOK, JobIds
    <2>2. disk' \in Stores
      BY <1>2, <1>3 DEF TypeOK, Saved
    <2>3. QED
      BY <1>2, <1>3, <2>1, <2>2 DEF SubmitNew, TypeOK
  <1>7. QED
    BY <1>5, <1>6

\* An operation that lets some jobs evolve and leaves the others.
LEMMA EvolveEffect ==
  ASSUME TypeOK, Free, AllEvolve, jobs' \in [JobIds -> Job \cup {NoJob}],
         NEW op \in Operations \ {"submit"}, NEW ids \in SUBSET JobIds, NEW saved \in BOOLEAN,
         SaveThenSync(op, ids, saved),
         UNCHANGED <<hub, submitted, claimed>>
  PROVE  Worked /\ TypeOK'
  <1>1. /\ (lock' = Unlocked /\ disk' = disk) \/ Saved
        /\ lock' \in [op : Operations, ids : SUBSET JobIds] \cup {Unlocked}
    BY SaveEffect
  <1>2. jobs' \in Stores
    BY DEF Stores
  <1>3. disk' \in Stores
    BY <1>1, <1>2 DEF TypeOK, Saved
  <1>4. Worked
    BY <1>1, <1>2 DEF Worked
  <1>5. TypeOK'
    BY <1>1, <1>2, <1>3 DEF TypeOK
  <1>6. QED
    BY <1>4, <1>5

\* claim_pending lets the jobs it hands out evolve.
LEMMA ClaimEffect ==
  ASSUME TypeOK, NEW limit \in 1..MaxJobs, NEW saved \in BOOLEAN, ClaimPending(limit, saved)
  PROVE  Worked /\ TypeOK'
  <1> DEFINE ids == FirstPending(limit)
  <1>1. ids \in SUBSET JobIds /\ \A j \in ids : jobs[j] \in Job /\ jobs[j].status = "pending"
    BY DEF FirstPending, WithStatus, Present, TypeOK, Stores
  <1>2. \A j \in ids : Evolves(jobs[j], ClaimedJob(jobs[j]))
    BY <1>1, ClaimedEvolves
  <1>3. jobs' = [j \in JobIds |-> IF j \in ids THEN ClaimedJob(jobs[j]) ELSE jobs[j]]
    BY DEF ClaimPending
  <1>4. jobs' \in [JobIds -> Job \cup {NoJob}]
    BY <1>2, <1>3 DEF TypeOK, Stores, Evolves
  <1>5. AllEvolve
    BY <1>1, <1>2, <1>3, NoJobAssumption DEF AllEvolve
  <1>6. Free /\ SaveThenSync("claim", ids, saved) /\ UNCHANGED <<hub, submitted, claimed>>
    BY DEF ClaimPending
  <1>7. "claim" \in Operations \ {"submit"}
    BY DEF Operations
  <1>8. QED
    BY <1>1, <1>4, <1>5, <1>6, <1>7, EvolveEffect

\* reclaim_stale_jobs lets the jobs it requeues evolve.
LEMMA ReclaimEffect ==
  ASSUME TypeOK, NEW ids \in SUBSET JobIds, NEW saved \in BOOLEAN, ReclaimStaleJobs(ids, saved)
  PROVE  Worked /\ TypeOK'
  <1>1. \A j \in ids : jobs[j] \in Job /\ jobs[j].status = "evaluating"
    BY DEF ReclaimStaleJobs, WithStatus, Present, TypeOK, Stores
  <1>2. \A j \in ids : Evolves(jobs[j], RequeuedJob(jobs[j]))
    BY <1>1, RequeuedEvolves
  <1>3. jobs' = [j \in JobIds |-> IF j \in ids THEN RequeuedJob(jobs[j]) ELSE jobs[j]]
    BY DEF ReclaimStaleJobs
  <1>4. jobs' \in [JobIds -> Job \cup {NoJob}]
    BY <1>2, <1>3 DEF TypeOK, Stores, Evolves
  <1>5. AllEvolve
    BY <1>1, <1>2, <1>3, NoJobAssumption DEF AllEvolve
  <1>6. Free /\ SaveThenSync("write", {}, saved) /\ UNCHANGED <<hub, submitted, claimed>>
    BY DEF ReclaimStaleJobs
  <1>7. "write" \in Operations \ {"submit"} /\ {} \in SUBSET JobIds
    BY DEF Operations
  <1>8. QED
    BY <1>4, <1>5, <1>6, <1>7, EvolveEffect

\* A report changes one job.
LEMMA OneJobEffect ==
  ASSUME TypeOK, Free, NEW j \in JobIds, jobs[j] # NoJob, NEW b, Evolves(jobs[j], b),
         jobs' = [jobs EXCEPT ![j] = b],
         NEW saved \in BOOLEAN, SaveThenSync("write", {}, saved),
         UNCHANGED <<hub, submitted, claimed>>
  PROVE  Worked /\ TypeOK'
  <1>1. jobs' \in [JobIds -> Job \cup {NoJob}]
    BY DEF TypeOK, Stores, Evolves
  <1>2. AllEvolve
    BY DEF AllEvolve, TypeOK, Stores
  <1>3. "write" \in Operations \ {"submit"} /\ {} \in SUBSET JobIds
    BY DEF Operations
  <1>4. QED
    BY <1>1, <1>2, <1>3, EvolveEffect

\* Whatever a worker reports of a claimed job, that job evolves.
LEMMA ReportEffect ==
  ASSUME TypeOK, NEW j \in claimed, NEW saved \in BOOLEAN, Report(j, saved)
  PROVE  Worked /\ TypeOK'
  <1>1. j \in JobIds /\ (jobs[j] # NoJob => jobs[j] \in Job)
    BY DEF TypeOK, Stores
  <1>2. ASSUME NEW progress \in BOOLEAN, UpdateProgress(j, progress, saved)
        PROVE  Worked /\ TypeOK'
    <2>1. jobs[j] # NoJob /\ jobs[j].status = "evaluating"
      BY <1>2 DEF UpdateProgress, UpdateApplies
    <2>2. Evolves(jobs[j], [jobs[j] EXCEPT !.progress = progress])
      BY <1>1, <2>1, ProgressEvolves
    <2>3. jobs' = [jobs EXCEPT ![j] = [jobs[j] EXCEPT !.progress = progress]]
      BY <1>1, <1>2 DEF UpdateProgress, TypeOK, Stores
    <2>4. QED
      BY <1>1, <1>2, <2>1, <2>2, <2>3, OneJobEffect DEF UpdateProgress
  <1>3. CASE MarkFinished(j, saved)
    <2>1. Evolves(jobs[j], FinishedJob(jobs[j]))
      BY <1>1, <1>3, FinalEvolves DEF MarkFinished, Mark
    <2>2. QED
      BY <1>1, <1>3, <2>1, OneJobEffect DEF MarkFinished, Mark
  <1>4. CASE MarkFailed(j, saved)
    <2>1. Evolves(jobs[j], FailedJob(jobs[j]))
      BY <1>1, <1>4, FinalEvolves DEF MarkFailed, Mark
    <2>2. QED
      BY <1>1, <1>4, <2>1, OneJobEffect DEF MarkFailed, Mark
  <1>5. CASE SeveralAtOnce /\ MarkEvaluating(j, saved)
    <2>1. Evolves(jobs[j], EvaluatingJob(jobs[j]))
      BY <1>1, <1>5, EvaluatingEvolves DEF MarkEvaluating, Mark
    <2>2. QED
      BY <1>1, <1>5, <2>1, OneJobEffect DEF MarkEvaluating, Mark
  <1>6. QED
    BY <1>2, <1>3, <1>4, <1>5 DEF Report

\* The upload puts the file, and nothing newer, in the dataset.
LEMMA SyncEffect == TypeOK /\ SyncToHub => Synced /\ TypeOK'
  BY DEF SyncToHub, Synced, TypeOK, Unlocked, Free

\* A restart puts together what was stored.
LEMMA RestartEffect ==
  ASSUME TypeOK, NEW saved \in BOOLEAN, Restart(saved)
  PROVE  Restarted /\ TypeOK'
  <1>1. EmptyStore \in Stores
    BY DEF EmptyStore, Stores
  <1>2. LocalStore \in Stores /\ HubStores \subseteq Stores
    BY <1>1 DEF LocalStore, HubStores, TypeOK
  <1>3. PICK remote \in HubStores :
          /\ jobs' = Overlay(LocalStore, remote)
          /\ disk' = IF remote # EmptyStore /\ saved THEN jobs' ELSE LocalStore
    BY DEF Restart
  <1>4. jobs' \in Stores
    BY <1>2, <1>3 DEF Overlay, Stores
  <1>5. disk' \in Stores
    BY <1>2, <1>3, <1>4
  <1>6. Restarted
    BY <1>3 DEF Restarted, Restart
  <1>7. TypeOK'
    BY <1>4, <1>5 DEF Restart, TypeOK
  <1>8. QED
    BY <1>6, <1>7

\* Every step is one of these on the three stores.
LEMMA NextEffect ==
  ASSUME TypeOK, [Next]_vars
  PROVE  (Worked \/ Synced \/ Restarted) /\ TypeOK'
  <1>1. SaveOutcomes \subseteq BOOLEAN
    BY DEF SaveOutcomes
  <1>2. ASSUME NEW saved \in SaveOutcomes, Operation(saved)
        PROVE  Worked /\ TypeOK'
    <2>1. saved \in BOOLEAN
      BY <1>1
    <2>2. QED
      BY <1>2, <2>1, SubmitEffect, ClaimEffect, ReclaimEffect, ReportEffect DEF Operation
  <1>3. ASSUME NEW saved \in SaveOutcomes, Restart(saved)
        PROVE  Restarted /\ TypeOK'
    BY <1>1, <1>3, RestartEffect
  <1>4. CASE SyncToHub
    BY <1>4, SyncEffect
  <1>5. CASE UNCHANGED vars
    BY <1>5 DEF vars, Synced, TypeOK
  <1>6. QED
    BY <1>2, <1>3, <1>4, <1>5 DEF Next

-----------------------------------------------------------------------------
\* A queue with no job has its type.
LEMMA InitType == Init => TypeOK
  BY BoundsAssumption DEF Init, TypeOK, EmptyStore, Stores

\* The jobs, the file, the dataset's copy and the lock keep their types through every
\* operation, fault and restart of the queue.
THEOREM TypeCorrect == Spec => []TypeOK
  <1>1. TypeOK /\ [Next]_vars => TypeOK'
    BY NextEffect
  <1>2. QED
    BY InitType, <1>1, PTL DEF Spec

-----------------------------------------------------------------------------
CoherentStore(store) == \A j \in Present(store) : Coherent(store[j])

\* A merge of coherent stores is coherent, since it takes whole jobs.
LEMMA OverlayCoherent ==
  ASSUME NEW local, NEW remote, CoherentStore(local), CoherentStore(remote)
  PROVE  CoherentStore(Overlay(local, remote))
  BY DEF CoherentStore, Overlay, Present

\* The empty store is coherent.
LEMMA EmptyCoherent == CoherentStore(EmptyStore)
  BY DEF CoherentStore, EmptyStore, Present

\* Every job in memory, in the file and in the dataset agrees with itself, through
\* every fault, late report, requeue and restart.
THEOREM Coherence == Spec => []RecordsCoherent
  <1> DEFINE Inv == CoherentStore(jobs) /\ CoherentStore(disk) /\ CoherentStore(hub)
  <1>1. Init => Inv
    BY EmptyCoherent DEF Init
  <1>2. ASSUME TypeOK, Inv, [Next]_vars
        PROVE  Inv'
    <2>1. CASE Worked
      <3>1. CoherentStore(jobs')
        <4>1. CASE AllEvolve
          BY <1>2, <4>1 DEF AllEvolve, Evolves, CoherentStore, Present
        <4>2. CASE \E r \in Requests : Submitted(r)
          BY <1>2, <4>2, NewJobType DEF Submitted, CoherentStore, Present, TypeOK, Stores
        <4>3. QED
          BY <2>1, <4>1, <4>2 DEF Worked
      <3>2. QED
        BY <1>2, <2>1, <3>1 DEF Worked, Saved, CoherentStore, Present
    <2>2. CASE Synced
      BY <1>2, <2>2 DEF Synced, CoherentStore, Present
    <2>3. CASE Restarted
      <3>1. CoherentStore(LocalStore) /\ \A remote \in HubStores : CoherentStore(remote)
        BY <1>2, EmptyCoherent DEF LocalStore, HubStores
      <3>2. PICK remote \in HubStores :
              /\ jobs' = Overlay(LocalStore, remote)
              /\ disk' \in {jobs', LocalStore}
              /\ hub' = hub
        BY <2>3 DEF Restarted
      <3>3. CoherentStore(jobs')
        BY <3>1, <3>2, OverlayCoherent
      <3>4. CoherentStore(disk') /\ CoherentStore(hub')
        BY <1>2, <3>1, <3>2, <3>3
      <3>5. QED
        BY <3>3, <3>4 DEF CoherentStore, Present
    <2>4. QED
      BY <1>2, <2>1, <2>2, <2>3, NextEffect
  <1>3. Inv => RecordsCoherent
    BY DEF RecordsCoherent, CoherentStore
  <1>4. QED
    BY TypeCorrect, <1>1, <1>2, <1>3, PTL DEF Spec

-----------------------------------------------------------------------------
(***************************************************************************)
(* The rest needs a restart to find one store only: no dataset, or no disk *)
(* that survives.  A merge of two may put an older record over a newer.    *)
(* And it needs jobs to be evaluated one at a time: with more, a task may  *)
(* find its job settled by an older one and mark it evaluating again.      *)
(***************************************************************************)
OneStore == ~(HubEnabled /\ DiskSurvives)
OneAtATime == ~SeveralAtOnce

\* Then a restart starts from a store there was, or from none.
LEMMA RestartReads ==
  ASSUME OneStore, TypeOK, Restarted
  PROVE  /\ jobs' \in {disk, hub, EmptyStore}
         /\ disk' \in {disk, hub, EmptyStore}
         /\ hub' = hub
  <1>1. \A store \in Stores : Overlay(EmptyStore, store) = store /\ Overlay(store, EmptyStore) = store
    BY DEF Overlay, EmptyStore, Stores
  <1>2. disk \in Stores /\ hub \in Stores /\ EmptyStore \in Stores
    BY DEF TypeOK, EmptyStore, Stores
  <1>3. PICK remote \in HubStores :
          /\ jobs' = Overlay(LocalStore, remote)
          /\ disk' \in {jobs', LocalStore}
          /\ hub' = hub
    BY DEF Restarted
  <1>4. CASE ~HubEnabled
    <2>1. remote = EmptyStore
      BY <1>3, <1>4 DEF HubStores
    <2>2. LocalStore \in {disk, EmptyStore}
      BY DEF LocalStore
    <2>3. jobs' = LocalStore
      BY <1>1, <1>2, <1>3, <2>1, <2>2
    <2>4. QED
      BY <1>3, <2>2, <2>3
  <1>5. CASE ~DiskSurvives
    <2>1. LocalStore = EmptyStore
      BY <1>5 DEF LocalStore
    <2>2. remote \in {hub, EmptyStore}
      BY <1>3 DEF HubStores
    <2>3. jobs' = remote
      BY <1>1, <1>2, <1>3, <2>1, <2>2
    <2>4. QED
      BY <1>3, <2>1, <2>2, <2>3
  <1>6. QED
    BY <1>4, <1>5 DEF OneStore

Distinct(store) ==
    \A i, j \in Active(store) :
        store[i].request.fingerprint = store[j].request.fingerprint => i = j

\* The new job is the only active one that asks for its evaluation.
LEMMA SubmittedDistinct ==
  ASSUME TypeOK, NEW r \in Requests, Submitted(r), Distinct(jobs)
  PROVE  Distinct(jobs')
  <1> DEFINE n == submitted + 1
  <1>1. n \in JobIds /\ jobs' = [jobs EXCEPT ![n] = NewJob(r)]
    BY DEF Submitted
  <1>2. jobs'[n] = NewJob(r) /\ \A j \in JobIds \ {n} : jobs'[j] = jobs[j]
    BY <1>1 DEF TypeOK, Stores
  <1>3. NewJob(r).request = r
    BY DEF NewJob
  <1>4. \A j \in JobIds \ {n} : j \in Active(jobs') <=> j \in Active(jobs)
    BY <1>2 DEF Active, WithStatus, Present
  <1>5. \A j \in Active(jobs) : jobs[j].request.fingerprint # r.fingerprint
    BY DEF Submitted, SubmitIsDuplicate, ActiveLike
  <1>6. Active(jobs') \subseteq JobIds
    BY DEF Active, WithStatus, Present
  <1>7. QED
    BY <1>2, <1>3, <1>4, <1>5, <1>6 DEF Distinct

\* An operation that adds no job adds no active one.
LEMMA EvolvedDistinct ==
  ASSUME OneAtATime, AllEvolve, Distinct(jobs)
  PROVE  Distinct(jobs')
  <1>1. \A j \in Active(jobs') : j \in Active(jobs) /\ jobs'[j].request = jobs[j].request
    BY DEF OneAtATime, AllEvolve, Evolves, Active, WithStatus, Present
  <1>2. QED
    BY <1>1 DEF Distinct

\* The empty store has no duplicates.
LEMMA EmptyDistinct == Distinct(EmptyStore)
  BY DEF Distinct, Active, WithStatus, Present, EmptyStore

\* submit's dedupe holds while one job is evaluated at a time: two active jobs never ask for
\* the same evaluation, through requeues, late reports of an outcome, failed saves and
\* uploads, and restarts from one store.
THEOREM DedupeHolds == ASSUME OneStore, OneAtATime PROVE Spec => []OneActivePerFingerprint
  <1> DEFINE Inv == Distinct(jobs) /\ Distinct(disk) /\ Distinct(hub)
  <1>1. Init => Inv
    BY EmptyDistinct DEF Init
  <1>2. ASSUME TypeOK, Inv, [Next]_vars
        PROVE  Inv'
    <2>1. CASE Worked
      <3>1. Distinct(jobs')
        BY <1>2, <2>1, SubmittedDistinct, EvolvedDistinct DEF Worked
      <3>2. Distinct(disk') /\ Distinct(hub')
        BY <1>2, <2>1, <3>1 DEF Worked, Saved
      <3>3. QED
        BY <3>1, <3>2 DEF Distinct, Active, WithStatus, Present
    <2>2. CASE Synced
      BY <1>2, <2>2 DEF Synced, Distinct, Active, WithStatus, Present
    <2>3. CASE Restarted
      <3>1. Distinct(jobs') /\ Distinct(disk') /\ Distinct(hub')
        BY <1>2, <2>3, RestartReads, EmptyDistinct
      <3>2. QED
        BY <3>1 DEF Distinct, Active, WithStatus, Present
    <2>4. QED
      BY <1>2, <2>1, <2>2, <2>3, NextEffect
  <1>3. Inv => OneActivePerFingerprint
    BY DEF OneActivePerFingerprint, Distinct
  <1>4. QED
    BY TypeCorrect, <1>1, <1>2, <1>3, PTL DEF Spec

-----------------------------------------------------------------------------
Within(store) ==
    /\ Cardinality(Active(store)) <= MaxActive
    /\ MaxPerSubmitter > 0 =>
        \A r \in Requests : Cardinality(ActiveOf(store, r.submitter)) <= MaxPerSubmitter

\* The jobs of a store are finitely many.
LEMMA FiniteJobs ==
  ASSUME NEW S, S \subseteq JobIds
  PROVE  IsFiniteSet(S) /\ Cardinality(S) \in Nat
  <1>1. IsFiniteSet(JobIds)
    BY FS_Interval, BoundsAssumption DEF JobIds
  <1>2. QED
    BY <1>1, FS_Subset, FS_CardinalityType

\* An operation that adds no active job stays within the limits.
LEMMA FewerWithin ==
  ASSUME NEW a, NEW b, Within(a),
         Active(b) \subseteq Active(a),
         \A j \in Active(b) : b[j].request = a[j].request
  PROVE  Within(b)
  <1>1. Active(a) \subseteq JobIds
    BY DEF Active, WithStatus, Present
  <1>2. ASSUME NEW S \in SUBSET JobIds, NEW T \in SUBSET S
        PROVE  /\ Cardinality(T) <= Cardinality(S)
               /\ Cardinality(S) \in Nat
               /\ Cardinality(T) \in Nat
    BY FiniteJobs, FS_Subset
  <1>3. Cardinality(Active(b)) <= MaxActive
    BY <1>1, <1>2, BoundsAssumption DEF Within
  <1>4. ASSUME MaxPerSubmitter > 0, NEW r \in Requests
        PROVE  Cardinality(ActiveOf(b, r.submitter)) <= MaxPerSubmitter
    <2>1. ActiveOf(b, r.submitter) \subseteq ActiveOf(a, r.submitter)
      BY DEF ActiveOf
    <2>2. ActiveOf(a, r.submitter) \subseteq JobIds
      BY <1>1 DEF ActiveOf
    <2>3. Cardinality(ActiveOf(a, r.submitter)) <= MaxPerSubmitter
      BY <1>4 DEF Within
    <2>4. QED
      BY <1>2, <2>1, <2>2, <2>3, BoundsAssumption
  <1>5. QED
    BY <1>3, <1>4 DEF Within

\* submit counts the active jobs, and those of the submitter, before it adds one.
LEMMA SubmittedWithin ==
  ASSUME TypeOK, NEW r \in Requests, Submitted(r), Within(jobs)
  PROVE  Within(jobs')
  <1> DEFINE n == submitted + 1
  <1>1. n \in JobIds /\ jobs'[n] = NewJob(r) /\ \A j \in JobIds \ {n} : jobs'[j] = jobs[j]
    BY DEF Submitted, TypeOK, Stores
  <1>2. NewJob(r).request = r
    BY DEF NewJob
  <1>3. Active(jobs) \subseteq JobIds /\ Active(jobs') \subseteq Active(jobs) \cup {n}
    BY <1>1 DEF Active, WithStatus, Present
  <1>4. ASSUME NEW S \in SUBSET JobIds, NEW T \in SUBSET (S \cup {n})
        PROVE  /\ Cardinality(S) \in Nat
               /\ Cardinality(T) \in Nat
               /\ Cardinality(T) <= Cardinality(S) + 1
    <2>1. IsFiniteSet(S) /\ IsFiniteSet(S \cup {n}) /\ Cardinality(S) \in Nat
      BY <1>1, FiniteJobs
    <2>2. Cardinality(S \cup {n}) \in Nat /\ Cardinality(S \cup {n}) <= Cardinality(S) + 1
      BY <2>1, FS_AddElement
    <2>3. Cardinality(T) \in Nat /\ Cardinality(T) <= Cardinality(S \cup {n})
      BY <2>1, FS_Subset, FS_CardinalityType
    <2>4. QED
      BY <2>1, <2>2, <2>3
  <1>5. Cardinality(Active(jobs')) <= MaxActive
    <2>1. Cardinality(Active(jobs)) < MaxActive
      BY DEF Submitted, BelowCapacity
    <2>2. QED
      BY <1>3, <1>4, <2>1, BoundsAssumption
  <1>6. ASSUME MaxPerSubmitter > 0, NEW q \in Requests
        PROVE  Cardinality(ActiveOf(jobs', q.submitter)) <= MaxPerSubmitter
    <2> DEFINE old == ActiveOf(jobs, q.submitter)
               new == ActiveOf(jobs', q.submitter)
    <2>1. old \subseteq JobIds /\ Cardinality(old) <= MaxPerSubmitter
      BY <1>3, <1>6 DEF ActiveOf, Within
    <2>2. CASE q.submitter = r.submitter
      <3>1. Cardinality(old) < MaxPerSubmitter
        BY <1>6, <2>2 DEF Submitted, BelowQuota
      <3>2. new \subseteq old \cup {n}
        BY <1>1, <1>3 DEF ActiveOf, Active, WithStatus, Present
      <3>3. QED
        BY <1>4, <2>1, <3>1, <3>2, BoundsAssumption
    <2>3. CASE q.submitter # r.submitter
      <3>1. new \subseteq old
        BY <1>1, <1>2, <1>3, <2>3 DEF ActiveOf, Active, WithStatus, Present
      <3>2. Cardinality(new) <= Cardinality(old) /\ Cardinality(old) \in Nat /\ Cardinality(new) \in Nat
        BY <2>1, <3>1, FiniteJobs, FS_Subset
      <3>3. QED
        BY <2>1, <3>2, BoundsAssumption
    <2>4. QED
      BY <2>2, <2>3
  <1>7. QED
    BY <1>5, <1>6 DEF Within

\* The empty store is within the limits.
LEMMA EmptyWithin == Within(EmptyStore)
  <1>1. Active(EmptyStore) = {}
    BY DEF Active, WithStatus, Present, EmptyStore
  <1>2. \A r \in Requests : ActiveOf(EmptyStore, r.submitter) = {}
    BY <1>1 DEF ActiveOf
  <1>3. QED
    BY <1>1, <1>2, FS_EmptySet, BoundsAssumption DEF Within

\* submit's limits hold in every state, not only at submission, while one job is evaluated
\* at a time: requeues, late reports of an outcome, failed saves and restarts take no queue
\* over its capacity and no submitter over its quota.
THEOREM LimitsHold == ASSUME OneStore, OneAtATime PROVE Spec => []WithinLimits
  <1> DEFINE Inv == Within(jobs) /\ Within(disk) /\ Within(hub)
  <1>1. Init => Inv
    BY EmptyWithin DEF Init
  <1>2. ASSUME TypeOK, Inv, [Next]_vars
        PROVE  Inv'
    <2>1. CASE Worked
      <3>1. Within(jobs')
        <4>1. CASE AllEvolve
          <5>1. /\ Active(jobs') \subseteq Active(jobs)
                /\ \A j \in Active(jobs') : jobs'[j].request = jobs[j].request
            BY <4>1 DEF OneAtATime, AllEvolve, Evolves, Active, WithStatus, Present
          <5>2. QED
            BY <1>2, <5>1, FewerWithin
        <4>2. CASE \E r \in Requests : Submitted(r)
          BY <1>2, <4>2, SubmittedWithin
        <4>3. QED
          BY <2>1, <4>1, <4>2 DEF Worked
      <3>2. Within(disk') /\ Within(hub')
        BY <1>2, <2>1, <3>1 DEF Worked, Saved
      <3>3. QED
        BY <3>1, <3>2
    <2>2. CASE Synced
      BY <1>2, <2>2 DEF Synced
    <2>3. CASE Restarted
      BY <1>2, <2>3, RestartReads, EmptyWithin
    <2>4. QED
      BY <1>2, <2>1, <2>2, <2>3, NextEffect
  <1>3. Inv => WithinLimits
    BY DEF WithinLimits, Within
  <1>4. QED
    BY TypeCorrect, <1>1, <1>2, <1>3, PTL DEF Spec

-----------------------------------------------------------------------------
(***************************************************************************)
(* What is stored stays.  The jobs in memory are never behind the stores,  *)
(* the stores change only to what is in memory, and no number is used for  *)
(* two jobs.  While the lock is held, file and memory are the same.        *)
(***************************************************************************)
Fresh ==
    \A store \in {jobs, disk, hub} : \A j \in JobIds : j > submitted => store[j] = NoJob

InStep == Free \/ disk = jobs

Finals(store) == WithStatus(store, FinalStatuses)

\* submit numbers a job anew, and no other operation makes one.
LEMMA FreshStep ==
  ASSUME TypeOK, Fresh, Worked \/ Synced \/ Restarted
  PROVE  Fresh'
  <1>1. submitted \in Nat
    BY DEF TypeOK
  <1>2. CASE Worked
    <2>1. submitted' \in Nat /\ submitted' >= submitted
      BY <1>1, <1>2 DEF Worked, Submitted
    <2>2. \A j \in JobIds : j > submitted' => jobs'[j] = NoJob
      <3>1. CASE AllEvolve /\ submitted' = submitted
        BY <3>1 DEF AllEvolve, Fresh
      <3>2. CASE \E r \in Requests : Submitted(r)
        BY <1>1, <3>2 DEF Submitted, Fresh, TypeOK, Stores, JobIds
      <3>3. QED
        BY <1>2, <3>1, <3>2 DEF Worked
    <2>3. \A j \in JobIds : j > submitted' => disk[j] = NoJob /\ hub[j] = NoJob
      BY <1>1, <2>1 DEF Fresh, JobIds
    <2>4. QED
      BY <1>2, <2>2, <2>3 DEF Fresh, Worked, Saved
  <1>3. CASE Synced
    BY <1>3 DEF Synced, Fresh
  <1>4. CASE Restarted
    BY <1>4 DEF Restarted, Fresh, Overlay, LocalStore, HubStores, EmptyStore
  <1>5. QED
    BY <1>2, <1>3, <1>4

\* No operation takes a job out of memory, or an outcome from a job while one job is
\* evaluated at a time.
LEMMA WorkedKeeps ==
  ASSUME TypeOK, Fresh, Worked
  PROVE  /\ Present(jobs) \subseteq Present(jobs')
         /\ OneAtATime => Finals(jobs) \subseteq Finals(jobs')
  <1>1. CASE AllEvolve
    BY <1>1, NoJobAssumption
    DEF OneAtATime, AllEvolve, Evolves, Present, Finals, WithStatus, FinalStatuses,
        ActiveStatuses, Job
  <1>2. CASE \E r \in Requests : Submitted(r)
    <2>1. PICK r \in Requests : Submitted(r)
      BY <1>2
    <2>2. submitted + 1 > submitted /\ submitted + 1 \in JobIds
      BY <2>1 DEF TypeOK, Submitted
    <2>3. \A j \in Present(jobs) : j # submitted + 1
      BY <2>2 DEF Fresh, Present
    <2>4. \A j \in Present(jobs) : jobs'[j] = jobs[j]
      BY <2>1, <2>3 DEF Submitted, TypeOK, Stores, Present
    <2>5. QED
      BY <2>4 DEF Present, Finals, WithStatus
  <1>3. QED
    BY <1>1, <1>2 DEF Worked

\* While an operation uploads, the file is what is in memory.
LEMMA InStepStep ==
  ASSUME InStep, Worked \/ Synced \/ Restarted
  PROVE  InStep'
  BY DEF InStep, Worked, Saved, Synced, Restarted, Free

\* A deployment whose start always finds the store that lasts: its disk, or the dataset.
StoreIsFound == OneStore /\ (HubEnabled => ~HubLoadMayFail)

\* Such a restart starts from what was durable.
LEMMA RestartFinds ==
  ASSUME StoreIsFound, TypeOK, Restarted, HubEnabled \/ DiskSurvives
  PROVE  jobs' = Durable /\ Durable' = Durable
  <1>1. \A store \in Stores : Overlay(EmptyStore, store) = store /\ Overlay(store, EmptyStore) = store
    BY DEF Overlay, EmptyStore, Stores
  <1>2. disk \in Stores /\ hub \in Stores
    BY DEF TypeOK
  <1>3. PICK remote \in HubStores :
          /\ jobs' = Overlay(LocalStore, remote)
          /\ disk' \in {jobs', LocalStore}
          /\ hub' = hub
    BY DEF Restarted
  <1>4. CASE ~HubEnabled
    <2>1. remote = EmptyStore /\ LocalStore = disk /\ DiskSurvives
      BY <1>3, <1>4 DEF HubStores, LocalStore
    <2>2. QED
      BY <1>1, <1>2, <1>3, <2>1 DEF Durable
  <1>5. CASE HubEnabled
    <2>1. remote = hub /\ LocalStore = EmptyStore /\ ~DiskSurvives
      BY <1>3, <1>5 DEF HubStores, LocalStore, StoreIsFound, OneStore
    <2>2. QED
      BY <1>1, <1>2, <1>3, <2>1 DEF Durable
  <1>6. QED
    BY <1>4, <1>5

\* While one job is evaluated at a time, an outcome recorded where a restart finds it is
\* never undone, whatever late reports, requeues, failed saves and uploads, and restarts
\* follow.
THEOREM OutcomesStand == ASSUME StoreIsFound, OneAtATime PROVE Spec => DurableOutcomeIsFinal
  <1> DEFINE Lasting == IF HubEnabled \/ DiskSurvives
                        THEN Finals(Durable) \subseteq Finals(jobs)
                        ELSE hub = EmptyStore
             Inv == Fresh /\ InStep /\ Lasting
             Step == Finals(Durable) \subseteq Finals(Durable')
  <1>1. Init => Inv
    BY DEF Init, Fresh, InStep, Free, EmptyStore, Finals, WithStatus, Present, Durable
  <1>2. ASSUME TypeOK, Inv, [Next]_vars
        PROVE  Inv' /\ Step
    <2>1. Worked \/ Synced \/ Restarted
      BY <1>2, NextEffect
    <2>2. Fresh' /\ InStep'
      BY <1>2, <2>1, FreshStep, InStepStep
    <2>3. Lasting' /\ Step
      <3>1. CASE ~(HubEnabled \/ DiskSurvives)
        <4>1. hub' = hub
          BY <2>1, <3>1 DEF Worked, Synced, Restarted
        <4>2. QED
          BY <1>2, <3>1, <4>1 DEF Durable
      <3>2. CASE (HubEnabled \/ DiskSurvives) /\ Worked
        <4>1. Finals(jobs) \subseteq Finals(jobs')
          BY <1>2, <3>2, WorkedKeeps
        <4>2. Durable' = Durable \/ Durable' = jobs'
          BY <3>2 DEF Durable, Worked, Saved
        <4>3. QED
          BY <1>2, <3>2, <4>1, <4>2
      <3>3. CASE (HubEnabled \/ DiskSurvives) /\ Synced
        <4>1. Durable' = Durable \/ Durable' = jobs'
          BY <1>2, <3>3 DEF Durable, Synced, InStep
        <4>2. QED
          BY <1>2, <3>3, <4>1 DEF Synced
      <3>4. CASE (HubEnabled \/ DiskSurvives) /\ Restarted
        <4>1. jobs' = Durable /\ Durable' = Durable
          BY <1>2, <3>4, RestartFinds
        <4>2. QED
          BY <3>4, <4>1
      <3>5. QED
        BY <2>1, <3>1, <3>2, <3>3, <3>4
    <2>4. QED
      BY <2>2, <2>3
  <1>3. TypeOK /\ Inv /\ [Next]_vars =>
          [\A j \in WithStatus(Durable, FinalStatuses) : j \in WithStatus(Durable', FinalStatuses)]_vars
    BY <1>2 DEF Finals
  <1>4. QED
    BY TypeCorrect, <1>1, <1>2, <1>3, PTL DEF Spec, DurableOutcomeIsFinal
-----------------------------------------------------------------------------
(***************************************************************************)
(* No job is lost.  What is stored is also in memory, an upload carries    *)
(* all of it, and a restart finds all of it unless it may fail to read the *)
(* only store there is.                                                    *)
(***************************************************************************)
StoredIsKnown ==
    /\ Present(disk) \subseteq Present(jobs)
    /\ Present(hub) \subseteq Present(jobs)
    /\ DiskSurvives => Present(hub) \subseteq Present(disk)
    /\ ~HubEnabled => hub = EmptyStore

\* A job that submit is about to return is in the file.
ReturnedIsStored == lock.op = "submit" => lock.ids \subseteq Present(disk)

JobsKept == Fresh /\ InStep /\ StoredIsKnown /\ ReturnedIsStored

\* A deployment whose start finds a store: its disk, or a dataset that can be downloaded.
SomeStoreIsRead == HubLoadMayFail => DiskSurvives

\* A queue that starts has no job to lose.
LEMMA InitKeeps == Init => JobsKept
  BY DEF Init, JobsKept, Fresh, InStep, StoredIsKnown, ReturnedIsStored, Free, Unlocked,
         Present, EmptyStore

\* A merge has the jobs of both stores.
LEMMA OverlayHasBoth ==
  ASSUME NEW local \in Stores, NEW remote \in Stores
  PROVE  Present(Overlay(local, remote)) = Present(local) \cup Present(remote)
  BY DEF Overlay, Present

\* Every step keeps the jobs, takes none out of the dataset, and none out of a disk that
\* survives.
LEMMA StepKeeps ==
  ASSUME SomeStoreIsRead, TypeOK, JobsKept, [Next]_vars
  PROVE  /\ JobsKept'
         /\ Present(hub) \subseteq Present(hub')
         /\ DiskSurvives => Present(disk) \subseteq Present(disk')
  <1>1. Worked \/ Synced \/ Restarted
    BY NextEffect
  <1>2. Fresh' /\ InStep'
    BY <1>1, FreshStep, InStepStep DEF JobsKept
  <1>3. CASE Worked
    <2>1. Present(jobs) \subseteq Present(jobs')
      BY <1>3, WorkedKeeps DEF JobsKept
    <2>2. Present(disk') \in {Present(disk), Present(jobs')} /\ Present(hub') = Present(hub)
      BY <1>3 DEF Worked, Saved, Present
    <2>3. StoredIsKnown'
      BY <1>3, <2>1, <2>2 DEF JobsKept, StoredIsKnown, Worked
    <2>4. ReturnedIsStored'
      BY <1>3 DEF Worked, Saved, ReturnedIsStored, Unlocked, Present
    <2>5. QED
      BY <1>2, <2>1, <2>2, <2>3, <2>4 DEF JobsKept, StoredIsKnown
  <1>4. CASE Synced
    <2>1. hub' = hub \/ (hub' = jobs /\ disk = jobs)
      BY <1>4 DEF Synced, JobsKept, InStep
    <2>2. StoredIsKnown' /\ Present(hub) \subseteq Present(hub')
      BY <1>4, <2>1 DEF Synced, JobsKept, StoredIsKnown, Present
    <2>3. ReturnedIsStored' /\ Present(disk) = Present(disk')
      BY <1>4 DEF Synced, JobsKept, ReturnedIsStored, Unlocked, Present
    <2>4. QED
      BY <1>2, <2>2, <2>3 DEF JobsKept
  <1>5. CASE Restarted
    <2>1. PICK remote \in HubStores :
            /\ jobs' = Overlay(LocalStore, remote)
            /\ disk' \in {jobs', LocalStore}
            /\ hub' = hub
      BY <1>5 DEF Restarted
    <2>2. EmptyStore \in Stores /\ Present(EmptyStore) = {}
      BY DEF EmptyStore, Stores, Present
    <2>3. LocalStore \in Stores /\ remote \in Stores
      BY <2>1, <2>2 DEF LocalStore, HubStores, TypeOK
    <2>4. Present(jobs') = Present(LocalStore) \cup Present(remote)
      BY <2>1, <2>3, OverlayHasBoth
    <2>5. Present(LocalStore) \subseteq Present(disk') /\ Present(disk') \subseteq Present(jobs')
      BY <2>1, <2>4
    <2>6. Present(hub) \subseteq Present(jobs')
      <3>1. CASE DiskSurvives
        BY <2>4, <3>1 DEF LocalStore, JobsKept, StoredIsKnown
      <3>2. CASE ~DiskSurvives /\ HubEnabled
        BY <2>1, <2>4, <3>2 DEF HubStores, SomeStoreIsRead
      <3>3. CASE ~HubEnabled
        BY <2>2, <3>3 DEF JobsKept, StoredIsKnown
      <3>4. QED
        BY <3>1, <3>2, <3>3
    <2>7. DiskSurvives => Present(disk) \subseteq Present(disk')
      BY <2>5 DEF LocalStore
    <2>8. StoredIsKnown'
      BY <2>1, <2>5, <2>6, <2>7 DEF JobsKept, StoredIsKnown
    <2>9. ReturnedIsStored' /\ hub' = hub
      BY <1>5 DEF Restarted, ReturnedIsStored, Unlocked
    <2>10. QED
      BY <1>2, <2>7, <2>8, <2>9 DEF JobsKept
  <1>6. QED
    BY <1>1, <1>3, <1>4, <1>5

\* The dataset's copy of the queue never loses a job, though uploads fail and processes
\* die, as long as a start reads the file or the dataset.
THEOREM HubKeeps == ASSUME SomeStoreIsRead PROVE Spec => HubKeepsJobs
  <1>1. TypeOK /\ JobsKept /\ [Next]_vars => JobsKept' /\ [Present(hub) \subseteq Present(hub')]_vars
    BY StepKeeps
  <1>2. QED
    BY TypeCorrect, InitKeeps, <1>1, PTL DEF Spec, HubKeepsJobs

\* A job that submit returned is in the file of a disk that survives, and stays there,
\* whatever older copy is merged over it.
THEOREM DiskKeeps == ASSUME DiskSurvives PROVE Spec => DiskKeepsJobs
  <1>1. SomeStoreIsRead
    BY DEF SomeStoreIsRead
  <1>2. TypeOK /\ JobsKept /\ [Next]_vars =>
          /\ JobsKept'
          /\ [/\ Present(disk) \subseteq Present(disk')
              /\ lock.op = "submit" /\ lock' = Unlocked => lock.ids \subseteq Present(disk')]_vars
    BY <1>1, StepKeeps DEF JobsKept, ReturnedIsStored
  <1>3. QED
    BY TypeCorrect, InitKeeps, <1>2, PTL DEF Spec, DiskKeepsJobs
=============================================================================
