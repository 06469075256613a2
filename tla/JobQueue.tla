------------------------------ MODULE JobQueue ------------------------------
(***************************************************************************)
(* The submission queue of clawbench/queue.py: the jobs the process holds, *)
(* the file queue/jobs.json on its disk, the copy of that file in the HF   *)
(* dataset, and the asyncio lock under which every operation changes the   *)
(* jobs, saves them and uploads them.                                      *)
(*                                                                         *)
(* An operation is two steps.  The first acquires the lock, changes the    *)
(* jobs and saves the file: the code has no await in between.  The second, *)
(* SyncToHub, is the awaited upload, at whose end the lock is released and *)
(* the caller gets its answer.  A failed save raises in the first step, so *)
(* the change stays in memory and nothing is uploaded.                     *)
(*                                                                         *)
(* The callers are left open here: any job that claim_pending handed out   *)
(* in this process may be reported on, in any order and more than once.    *)
(* EvalWorker is the caller the repository has, and implements this one.   *)
(*                                                                         *)
(* A definition that nothing uses, before one it resembles, is that one    *)
(* with a plausible bug: PROJECT.json names the property that finds it.    *)
(***************************************************************************)
EXTENDS Integers, FiniteSets

CONSTANTS
    MaxJobs,          \* bound: submissions that create a job
    Requests,         \* records [fingerprint, submitter] within the deployment's limits
    NoJob,            \* a job_id that is not in a store
    MaxActive,        \* CLAWBENCH_MAX_ACTIVE_QUEUE_JOBS
    MaxPerSubmitter,  \* CLAWBENCH_MAX_ACTIVE_JOBS_PER_SUBMITTER, 0 for no limit
    CounterModulus,   \* bound: attempt_count and stale_requeues are kept modulo this
    HubEnabled,       \* HF_TOKEN is set
    DiskSurvives,     \* LOCAL_QUEUE_DIR outlives the process
    SeveralAtOnce,    \* MAX_CONCURRENT_JOBS > 1: a claimed job may be settled before its task begins
    SaveMayFail,      \* a write of jobs.json may raise (a full disk)
    UploadMayFail,    \* an upload may fail, which is only logged
    HubLoadMayFail    \* the download at startup may fail, which is only logged

ASSUME BoundsAssumption ==
    /\ MaxJobs \in Nat
    /\ MaxActive \in Nat \ {0}
    /\ MaxPerSubmitter \in Nat
    /\ CounterModulus \in Nat \ {0}

ASSUME FaultsAssumption ==
    {HubEnabled, DiskSurvives, SeveralAtOnce, SaveMayFail, UploadMayFail, HubLoadMayFail}
        \subseteq BOOLEAN

\* Jobs are numbered in the order of their submitted_at.
JobIds == 1..MaxJobs

ActiveStatuses == {"pending", "evaluating"}
FinalStatuses == {"finished", "failed"}

\* started, progress, result and error: started_at, current_task_id, result_id, error are set.
Job == [status : ActiveStatuses \cup FinalStatuses,
        request : Requests,
        started : BOOLEAN,
        progress : BOOLEAN,
        result : BOOLEAN,
        error : BOOLEAN,
        attempts : 0..(CounterModulus - 1),
        requeues : 0..(CounterModulus - 1)]

ASSUME NoJobAssumption == NoJob \notin Job

Stores == [JobIds -> Job \cup {NoJob}]
EmptyStore == [j \in JobIds |-> NoJob]

\* What the lock's holder will return: a new job, the claimed jobs, or nothing that is used.
Operations == {"submit", "claim", "write"}
Unlocked == [op |-> "none", ids |-> {}]

VARIABLES
    jobs,       \* JobQueue._jobs
    disk,       \* queue/jobs.json under LOCAL_QUEUE_DIR
    hub,        \* queue/jobs.json in the dataset repository
    lock,       \* the operation that holds _lock while it uploads
    submitted,  \* how many jobs were ever created
    claimed     \* jobs claim_pending returned in this process

vars == <<jobs, disk, hub, lock, submitted, claimed>>

-----------------------------------------------------------------------------
Present(store) == {j \in JobIds : store[j] # NoJob}
WithStatus(store, statuses) == {j \in Present(store) : store[j].status \in statuses}
Active(store) == WithStatus(store, ActiveStatuses)
ActiveLike(store, r) == {j \in Active(store) : store[j].request.fingerprint = r.fingerprint}
ActiveOf(store, s) == {j \in Active(store) : store[j].request.submitter = s}

Bump(n) == (n + 1) % CounterModulus
Free == lock = Unlocked
SaveOutcomes == IF SaveMayFail THEN BOOLEAN ELSE {TRUE}

NewJob(r) ==
    [status |-> "pending", request |-> r, started |-> FALSE, progress |-> FALSE,
     result |-> FALSE, error |-> FALSE, attempts |-> 0, requeues |-> 0]

ClaimedJobStaysPending(job) == [job EXCEPT !.started = TRUE, !.attempts = Bump(@)]
ClaimedJobRunning(job) == [job EXCEPT !.status = "running", !.started = TRUE, !.attempts = Bump(@)]
ClaimedJob(job) ==
    [job EXCEPT !.status = "evaluating", !.started = TRUE, !.progress = FALSE,
                !.result = FALSE, !.error = FALSE, !.attempts = Bump(@)]

RequeuedJob(job) ==
    [job EXCEPT !.status = "pending", !.started = FALSE, !.progress = FALSE,
                !.result = FALSE, !.error = FALSE, !.requeues = Bump(@)]

\* mark_evaluating counts an attempt only if none is open, and looks at no status.
EvaluatingJob(job) ==
    [job EXCEPT !.status = "evaluating", !.started = TRUE, !.progress = FALSE,
                !.result = FALSE, !.error = FALSE,
                !.attempts = IF job.started THEN @ ELSE Bump(@)]

FinishedJob(job) == [job EXCEPT !.status = "finished", !.progress = FALSE, !.result = TRUE]
FailedJob(job) == [job EXCEPT !.status = "failed", !.progress = FALSE, !.error = TRUE]

-----------------------------------------------------------------------------
\* What every operation does once it has changed the jobs: save, then hold the
\* lock over the upload; a save that raises releases the lock.
SaveThenSync(op, ids, saved) ==
    IF saved
    THEN /\ disk' = jobs'
         /\ lock' = [op |-> op, ids |-> ids]
    ELSE UNCHANGED <<disk, lock>>

\* submit returns an active job like r as it is, with no save and no upload.
SubmitIsPendingDuplicate(r) == \E j \in ActiveLike(jobs, r) : jobs[j].status = "pending"
SubmitIsDuplicate(r) == ActiveLike(jobs, r) # {}

BelowCapacity == Cardinality(Active(jobs)) < MaxActive
BelowPendingQuota(r) ==
    MaxPerSubmitter > 0 =>
        Cardinality(ActiveOf(jobs, r.submitter) \cap WithStatus(jobs, {"pending"})) < MaxPerSubmitter
BelowQuota(r) ==
    MaxPerSubmitter > 0 => Cardinality(ActiveOf(jobs, r.submitter)) < MaxPerSubmitter

\* A request over its limits is refused and changes nothing; so no action stands for it.
SubmitNew(r, saved) ==
    /\ Free
    /\ submitted < MaxJobs
    /\ ~SubmitIsDuplicate(r)
    /\ BelowCapacity
    /\ BelowQuota(r)
    /\ submitted' = submitted + 1
    /\ jobs' = [jobs EXCEPT ![submitted + 1] = NewJob(r)]
    /\ SaveThenSync("submit", {submitted + 1}, saved)
    /\ UNCHANGED <<hub, claimed>>

FirstPendingOrFailed(limit) ==
    LET pending == WithStatus(jobs, {"pending", "failed"})
    IN  {j \in pending : Cardinality({i \in pending : i < j}) < limit}
FirstPending(limit) ==
    LET pending == WithStatus(jobs, {"pending"})
    IN  {j \in pending : Cardinality({i \in pending : i < j}) < limit}

ClaimPending(limit, saved) ==
    LET ids == FirstPending(limit) IN
    /\ Free
    /\ limit > 0
    /\ ids # {}
    /\ jobs' = [j \in JobIds |-> IF j \in ids THEN ClaimedJob(jobs[j]) ELSE jobs[j]]
    /\ SaveThenSync("claim", ids, saved)
    /\ UNCHANGED <<hub, submitted, claimed>>

LateUpdateApplies(j) == jobs[j] # NoJob
UpdateApplies(j) == jobs[j] # NoJob /\ jobs[j].status = "evaluating"

UpdateProgress(j, progress, saved) ==
    /\ Free
    /\ UpdateApplies(j)
    /\ jobs' = [jobs EXCEPT ![j].progress = progress]
    /\ SaveThenSync("write", {}, saved)
    /\ UNCHANGED <<hub, submitted, claimed>>

\* ids: the evaluating jobs whose last_progress_at is older than the cutoff.
ReclaimStaleJobs(ids, saved) ==
    /\ Free
    /\ ids # {}
    /\ ids \subseteq WithStatus(jobs, {"evaluating"})
    /\ jobs' = [j \in JobIds |-> IF j \in ids THEN RequeuedJob(jobs[j]) ELSE jobs[j]]
    /\ SaveThenSync("write", {}, saved)
    /\ UNCHANGED <<hub, submitted, claimed>>

Mark(j, job, saved) ==
    /\ Free
    /\ jobs[j] # NoJob
    /\ jobs' = [jobs EXCEPT ![j] = job]
    /\ SaveThenSync("write", {}, saved)
    /\ UNCHANGED <<hub, submitted, claimed>>

MarkEvaluating(j, saved) == Mark(j, EvaluatingJob(jobs[j]), saved)
MarkFinished(j, saved) == Mark(j, FinishedJob(jobs[j]), saved)
MarkFailed(j, saved) == Mark(j, FailedJob(jobs[j]), saved)

\* The upload ends, whether or not it reached the dataset, and the operation returns.
SyncToHub ==
    /\ ~Free
    /\ hub' \in (IF HubEnabled THEN {disk} \cup (IF UploadMayFail THEN {hub} ELSE {})
                               ELSE {hub})
    /\ lock' = Unlocked
    /\ claimed' = IF lock.op = "claim" THEN claimed \cup lock.ids ELSE claimed
    /\ UNCHANGED <<jobs, disk, submitted>>

-----------------------------------------------------------------------------
\* A job in both stores is taken from the second.
HubReplacesLocal(local, remote) == IF remote = EmptyStore THEN local ELSE remote
OverlayActive(local, remote) == [j \in JobIds |-> IF j \in Active(remote) THEN remote[j] ELSE local[j]]
Overlay(local, remote) == [j \in JobIds |-> IF remote[j] # NoJob THEN remote[j] ELSE local[j]]

LocalStoreWithoutHub == IF DiskSurvives /\ ~HubEnabled THEN disk ELSE EmptyStore
LocalStore == IF DiskSurvives THEN disk ELSE EmptyStore
HubStores ==
    (IF HubEnabled THEN {hub} ELSE {})
        \cup (IF HubEnabled /\ ~HubLoadMayFail THEN {} ELSE {EmptyStore})

\* The process ends at any point and JobQueue() is built again: the local file,
\* then the dataset's copy over it, saved again if there was one to merge.
Restart(saved) ==
    \E remote \in HubStores :
        /\ jobs' = Overlay(LocalStore, remote)
        /\ disk' = IF remote # EmptyStore /\ saved THEN jobs' ELSE LocalStore
        /\ lock' = Unlocked
        /\ claimed' = {}
        /\ UNCHANGED <<hub, submitted>>

-----------------------------------------------------------------------------
Init ==
    /\ jobs = EmptyStore
    /\ disk = EmptyStore
    /\ hub = EmptyStore
    /\ lock = Unlocked
    /\ submitted = 0
    /\ claimed = {}

\* mark_evaluating is a task's first call, and only for a job that is not evaluating any
\* more: with one job at a time there is none (EvalWorkerProofs, Claimed), with
\* more a late report of an older task may come first.
Report(j, saved) ==
    \/ \E progress \in BOOLEAN : UpdateProgress(j, progress, saved)
    \/ MarkFinished(j, saved)
    \/ MarkFailed(j, saved)
    \/ SeveralAtOnce /\ MarkEvaluating(j, saved)

Operation(saved) ==
    \/ \E r \in Requests : SubmitNew(r, saved)
    \/ \E limit \in 1..MaxJobs : ClaimPending(limit, saved)
    \/ \E ids \in SUBSET JobIds : ReclaimStaleJobs(ids, saved)
    \/ \E j \in claimed : Report(j, saved)

Next ==
    \/ \E saved \in SaveOutcomes : Operation(saved) \/ Restart(saved)
    \/ SyncToHub

Spec == Init /\ [][Next]_vars

-----------------------------------------------------------------------------
\* Every variable has its type; the lock names the operation that uploads.
TypeOK ==
    /\ jobs \in Stores
    /\ disk \in Stores
    /\ hub \in Stores
    /\ lock \in [op : Operations, ids : SUBSET JobIds] \cup {Unlocked}
    /\ submitted \in 0..MaxJobs
    /\ claimed \subseteq JobIds

\* submit dedupes, with one job evaluated at a time: two active jobs never ask for the
\* same evaluation, also after requeues, late reports of an outcome and restarts.
OneActivePerFingerprint ==
    \A i, j \in Active(jobs) :
        jobs[i].request.fingerprint = jobs[j].request.fingerprint => i = j

\* With one job evaluated at a time, no sequence of operations and restarts takes the queue
\* over its capacity or a submitter over its quota, though requeues return jobs unchecked.
WithinLimits ==
    /\ Cardinality(Active(jobs)) <= MaxActive
    /\ MaxPerSubmitter > 0 =>
        \A r \in Requests : Cardinality(ActiveOf(jobs, r.submitter)) <= MaxPerSubmitter

\* A job's fields agree with its status and its two counters with each other: an
\* attempt is open while it has a start time, each requeue closes one, progress
\* is shown only while it evaluates, and an outcome only once it has one.
Coherent(job) ==
    /\ job.attempts = IF job.started THEN Bump(job.requeues) ELSE job.requeues
    /\ job.status = "pending" => ~job.started
    /\ job.status = "evaluating" => job.started
    /\ job.progress => job.status = "evaluating"
    /\ job.status = "finished" => job.result
    /\ job.status = "failed" => job.error
    /\ job.status \in ActiveStatuses => ~job.result /\ ~job.error

\* Whichever store a restart reads, each job in it is coherent.
RecordsCoherent ==
    \A store \in {jobs, disk, hub} : \A j \in Present(store) : Coherent(store[j])

\* The store a restart starts from.
Durable == IF DiskSurvives THEN disk ELSE hub

\* With one job evaluated at a time, a job recorded finished or failed where a restart
\* finds it is never recorded pending or evaluating again, whatever reports come late.
DurableOutcomeIsFinal ==
    [][\A j \in WithStatus(Durable, FinalStatuses) : j \in WithStatus(Durable', FinalStatuses)]_vars

\* The copy in the dataset, which exists to outlive restarts, never loses a job.
HubKeepsJobs == [][Present(hub) \subseteq Present(hub')]_vars

\* A job submit has returned is in the file of a disk that survives, and stays
\* there: a failed upload or an older copy in the dataset does not remove it.
DiskKeepsJobs ==
    [][/\ Present(disk) \subseteq Present(disk')
       /\ lock.op = "submit" /\ lock' = Unlocked => lock.ids \subseteq Present(disk')]_vars
=============================================================================
