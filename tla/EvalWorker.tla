----------------------------- MODULE EvalWorker -----------------------------
(***************************************************************************)
(* The caller JobQueue has: clawbench/worker.py's polling loop, the task   *)
(* it creates for each claimed job, the job's heartbeat, and the runs that *)
(* BenchmarkHarness._execute_runs gathers, all on one event loop.          *)
(*                                                                         *)
(* A step ends where the code awaits.  Whoever holds the queue's lock is   *)
(* the caller, and takes no step until SyncToHub has returned.             *)
(*                                                                         *)
(* As in JobQueue, a definition that nothing uses is the one that follows  *)
(* it with a plausible bug.                                                *)
(***************************************************************************)
EXTENDS JobQueue

CONSTANTS
    Tasks,             \* asyncio tasks running _process_job
    NoTask,
    MaxConcurrentJobs, \* MAX_CONCURRENT_JOBS
    RunsPerJob,        \* bound: (task, run_index) items of a job
    MaxRestarts,       \* bound: process restarts
    Unloadable,        \* requests whose tasks cannot be loaded: load_all_tasks raises for them
    RestartMayFail     \* a gateway restarted between two runs may not come up

ASSUME WorkerAssumption ==
    /\ NoTask \notin Tasks
    /\ {MaxConcurrentJobs, RunsPerJob} \subseteq Nat \ {0}
    /\ MaxRestarts \in Nat
    /\ MaxConcurrentJobs > 1 => SeveralAtOnce
    /\ Unloadable \subseteq Requests
    /\ RestartMayFail \in BOOLEAN

VARIABLES
    caller,    \* who awaits the operation that holds the queue's lock
    loop,      \* where start() is
    toSpawn,   \* jobs claimed, whose tasks are not created yet
    inFlight,  \* _in_flight_jobs
    task,      \* the tasks of _process_job
    restarts

workerVars == <<caller, loop, toSpawn, inFlight, task, restarts>>
allVars == <<vars, workerVars>>

\* pc: where _process_job is; hb: its heartbeat task; left: the runs gather still
\* holds; run: where the run that has the global semaphore is.
TaskPcs == {"none", "created", "marking", "begin", "launch", "probing", "benchmark",
            "uploading", "finishing", "failing", "cleanup", "done"}
RunPcs == {"waiting", "preparing", "probing", "announcing", "running"}
NoRun == [job |-> 0, pc |-> "none", hb |-> "off", left |-> 0, run |-> "waiting"]

Nobody == <<"none", NoTask>>
Loop == <<"loop", NoTask>>
App == <<"app", NoTask>>
Body(t) == <<"body", t>>
Beat(t) == <<"heartbeat", t>>
Run(t) == <<"run", t>>

Awaits(c) == caller = c
Live(t) == task[t].pc \notin {"none", "done"}
Spare(t) == ~Live(t) /\ task[t].left = 0 /\ \A j \in JobIds : inFlight[j] # t

Goto(t, pc) == task' = [task EXCEPT ![t].pc = pc]
At(t, pc) == task[t].pc = pc /\ ~Awaits(Body(t))
RunAt(t, at) == task[t].left > 0 /\ task[t].run = at /\ ~Awaits(Run(t))

\* A call of c that changes the queue: c awaits it if it was saved.
Call(c, saved) == caller' = IF saved THEN c ELSE caller

-----------------------------------------------------------------------------
\* The Gradio handlers: submit, on a call of their own.
AppSubmit(r, saved) ==
    /\ SubmitNew(r, saved)
    /\ Call(App, saved)
    /\ UNCHANGED <<loop, toSpawn, inFlight, task, restarts>>

OperationReturns ==
    /\ SyncToHub
    /\ caller' = Nobody
    /\ UNCHANGED <<loop, toSpawn, inFlight, task, restarts>>

-----------------------------------------------------------------------------
\* start(): a poll first reaps.  Tasks just created run before its sleep ends.
LoopReapRequeued ==
    /\ loop = "sleep"
    /\ \A t \in Tasks : task[t].pc # "created"
    /\ inFlight' = [j \in JobIds |->
                      IF inFlight[j] # NoTask /\ jobs[j].status # "evaluating"
                      THEN NoTask ELSE inFlight[j]]
    /\ loop' = "reclaim"
    /\ UNCHANGED <<vars, caller, toSpawn, task, restarts>>
LoopReap ==
    /\ loop = "sleep"
    /\ \A t \in Tasks : task[t].pc # "created"
    /\ inFlight' = [j \in JobIds |->
                      IF inFlight[j] # NoTask /\ task[inFlight[j]].pc = "done"
                      THEN NoTask ELSE inFlight[j]]
    /\ loop' = "reclaim"
    /\ UNCHANGED <<vars, caller, toSpawn, task, restarts>>

\* A lease lapses when nothing renews it: the job has no task, or its heartbeat died.
Renewed(j) ==
    \E t \in Tasks : Live(t) /\ task[t].job = j /\ task[t].hb # "dead"
LapsedAtWork ==
    {j \in WithStatus(jobs, {"evaluating"}) : ~Renewed(j) /\ \E t \in Tasks : Live(t) /\ task[t].job = j}
LapsedThoughRenewed == WithStatus(jobs, {"evaluating"})
Lapsed == {j \in WithStatus(jobs, {"evaluating"}) : ~Renewed(j)}

\* Some of the lapsed leases are older than STALE_EVALUATION_SECONDS by now.
LoopReclaim(ids, saved) ==
    /\ loop = "reclaim"
    /\ ReclaimStaleJobs(ids, saved)
    /\ Call(Loop, saved)
    /\ loop' = IF saved THEN "claim" ELSE "sleep"
    /\ UNCHANGED <<toSpawn, inFlight, task, restarts>>

LoopReclaimNothing ==
    /\ loop = "reclaim"
    /\ Free
    /\ loop' = "claim"
    /\ UNCHANGED <<vars, caller, toSpawn, inFlight, task, restarts>>

AllSlots == MaxConcurrentJobs
Slots == MaxConcurrentJobs - Cardinality({j \in JobIds : inFlight[j] # NoTask})

LoopClaim(saved) ==
    /\ loop = "claim"
    /\ ~Awaits(Loop)
    /\ toSpawn' = IF saved THEN FirstPending(Slots) ELSE {}
    /\ ClaimPending(Slots, saved)
    /\ Call(Loop, saved)
    /\ loop' = IF saved THEN "spawn" ELSE "sleep"
    /\ UNCHANGED <<inFlight, task, restarts>>

LoopClaimNothing ==
    /\ loop = "claim"
    /\ ~Awaits(Loop)
    /\ Free
    /\ Slots <= 0 \/ WithStatus(jobs, {"pending"}) = {}
    /\ loop' = "sleep"
    /\ UNCHANGED <<vars, caller, toSpawn, inFlight, task, restarts>>

\* create_task for every claimed job; a job still in flight loses its entry.
LoopSpawn ==
    /\ loop = "spawn"
    /\ ~Awaits(Loop)
    /\ \E f \in [toSpawn -> {t \in Tasks : Spare(t)}] :
        /\ \A i, j \in toSpawn : f[i] = f[j] => i = j
        /\ task' = [t \in Tasks |->
                      IF \E j \in toSpawn : f[j] = t
                      THEN [NoRun EXCEPT !.pc = "created",
                                         !.job = CHOOSE j \in toSpawn : f[j] = t]
                      ELSE task[t]]
        /\ inFlight' = [j \in JobIds |-> IF j \in toSpawn THEN f[j] ELSE inFlight[j]]
    /\ toSpawn' = {}
    /\ loop' = "sleep"
    /\ UNCHANGED <<vars, caller, restarts>>

-----------------------------------------------------------------------------
\* update_progress, which leaves alone a job that is not evaluating.
Tell(c, t, progress, saved) ==
    \/ UpdateProgress(task[t].job, progress, saved) /\ Call(c, saved)
    \/ Free /\ ~UpdateApplies(task[t].job) /\ saved /\ UNCHANGED <<vars, caller>>

\* _process_job: the tasks are loaded outside its try, so a request whose tasks cannot be
\* loaded ends every task of its job with the job still evaluating.
Loadable(j) == jobs[j].request \notin Unloadable

TaskLoad(t) ==
    /\ At(t, "created")
    /\ Loadable(task[t].job)
    /\ Goto(t, IF jobs[task[t].job].status = "evaluating" THEN "begin" ELSE "marking")
    /\ UNCHANGED <<vars, caller, loop, toSpawn, inFlight, restarts>>

TaskLoadFails(t) ==
    /\ At(t, "created")
    /\ ~Loadable(task[t].job)
    /\ Goto(t, "done")
    /\ UNCHANGED <<vars, caller, loop, toSpawn, inFlight, restarts>>

\* A job found requeued or settled is first marked evaluating, whatever it is by then.
TaskBegin(t, saved) ==
    /\ task[t].pc \in {"marking", "begin"}
    /\ ~Awaits(Body(t))
    /\ IF task[t].pc = "marking"
       THEN /\ MarkEvaluating(task[t].job, saved)
            /\ Call(Body(t), saved)
            /\ Goto(t, IF saved THEN "begin" ELSE "failing")
       ELSE /\ Tell(Body(t), t, FALSE, saved)
            /\ Goto(t, IF saved THEN "launch" ELSE "failing")
    /\ UNCHANGED <<loop, toSpawn, inFlight, restarts>>

\* The heartbeat is created; the old gateway is stopped and the job's own started.
TaskLaunch(t) ==
    /\ At(t, "launch")
    /\ task' = [task EXCEPT ![t].pc = "probing", ![t].hb = "on"]
    /\ UNCHANGED <<vars, caller, loop, toSpawn, inFlight, restarts>>

TaskProbe(t) ==
    /\ At(t, "probing")
    /\ \/ task' = [task EXCEPT ![t].pc = "benchmark", ![t].left = RunsPerJob]
       \/ Goto(t, "failing")
    /\ UNCHANGED <<vars, caller, loop, toSpawn, inFlight, restarts>>

TaskUploading(t, saved) ==
    /\ At(t, "uploading")
    /\ Tell(Body(t), t, FALSE, saved)
    /\ Goto(t, IF saved THEN "finishing" ELSE "failing")
    /\ UNCHANGED <<loop, toSpawn, inFlight, restarts>>

\* mark_finished is inside the try: when it raises, mark_failed follows.
TaskFinish(t, saved) ==
    /\ At(t, "finishing")
    /\ MarkFinished(task[t].job, saved)
    /\ Call(Body(t), saved)
    /\ Goto(t, IF saved THEN "cleanup" ELSE "failing")
    /\ UNCHANGED <<loop, toSpawn, inFlight, restarts>>

\* An exception of mark_failed passes through the finally clause.
TaskFail(t, saved) ==
    /\ At(t, "failing")
    /\ MarkFailed(task[t].job, saved)
    /\ Call(Body(t), saved)
    /\ Goto(t, "cleanup")
    /\ UNCHANGED <<loop, toSpawn, inFlight, restarts>>

\* A heartbeat that died raises where it is awaited, which ends the task all the same.
TaskCleanup(t) ==
    /\ At(t, "cleanup")
    /\ ~Awaits(Beat(t))
    /\ task' = [task EXCEPT ![t].pc = "done", ![t].hb = "off"]
    /\ UNCHANGED <<vars, caller, loop, toSpawn, inFlight, restarts>>

Heartbeat(t, saved) ==
    /\ task[t].hb = "on"
    /\ ~Awaits(Beat(t))
    /\ UpdateProgress(task[t].job, jobs[task[t].job].progress, saved)
    /\ Call(Beat(t), saved)
    /\ task' = IF saved THEN task ELSE [task EXCEPT ![t].hb = "dead"]
    /\ UNCHANGED <<loop, toSpawn, inFlight, restarts>>

-----------------------------------------------------------------------------
\* _execute_runs gathers every run at once; the global semaphore admits one at a
\* time, and the next when it is done or has raised.
RunTo(t, at) == task' = [task EXCEPT ![t].run = at]

RunDone(t, pc) ==
    task' = [task EXCEPT ![t].run = "waiting", ![t].left = @ - 1,
                         ![t].pc = IF @ = "benchmark" THEN pc ELSE @]

\* gather passes the first exception on at once and leaves the other runs going.
RunRaises(t) == RunDone(t, "failing")

\* prepare_run: report, then restart the gateway at a task boundary.
RunBegin(t, saved) ==
    /\ RunAt(t, "waiting")
    /\ Tell(Run(t), t, TRUE, saved)
    /\ IF saved THEN RunTo(t, "preparing") ELSE RunRaises(t)
    /\ UNCHANGED <<loop, toSpawn, inFlight, restarts>>

RunPrepare(t) ==
    /\ RunAt(t, "preparing")
    /\ RunTo(t, "announcing") \/ RunTo(t, "probing")
    /\ UNCHANGED <<vars, caller, loop, toSpawn, inFlight, restarts>>

RunProbe(t) ==
    /\ RunAt(t, "probing")
    /\ RunTo(t, "announcing") \/ (RestartMayFail /\ RunRaises(t))
    /\ UNCHANGED <<vars, caller, loop, toSpawn, inFlight, restarts>>

\* progress_callback
RunAnnounce(t, saved) ==
    /\ RunAt(t, "announcing")
    /\ Tell(Run(t), t, TRUE, saved)
    /\ IF saved THEN RunTo(t, "running") ELSE RunRaises(t)
    /\ UNCHANGED <<loop, toSpawn, inFlight, restarts>>

RunEnd(t) ==
    /\ RunAt(t, "running")
    /\ RunDone(t, IF task[t].left = 1 THEN "uploading" ELSE "benchmark")
    /\ UNCHANGED <<vars, caller, loop, toSpawn, inFlight, restarts>>

-----------------------------------------------------------------------------
\* The process dies with its tasks, and the Space starts it again.
ProcessRestart(saved) ==
    /\ restarts < MaxRestarts
    /\ Restart(saved)
    /\ caller' = Nobody
    /\ loop' = "sleep"
    /\ toSpawn' = {}
    /\ inFlight' = [j \in JobIds |-> NoTask]
    /\ task' = [t \in Tasks |-> NoRun]
    /\ restarts' = restarts + 1

WorkerInit ==
    /\ Init
    /\ caller = Nobody
    /\ loop = "sleep"
    /\ toSpawn = {}
    /\ inFlight = [j \in JobIds |-> NoTask]
    /\ task = [t \in Tasks |-> NoRun]
    /\ restarts = 0

LoopStep(saved) ==
    \/ LoopReap
    \/ LoopReclaimNothing
    \/ \E ids \in SUBSET Lapsed : LoopReclaim(ids, saved)
    \/ LoopClaim(saved)
    \/ LoopClaimNothing
    \/ LoopSpawn

BodyStep(t, saved) ==
    \/ TaskLoad(t)
    \/ TaskLoadFails(t)
    \/ TaskBegin(t, saved)
    \/ TaskLaunch(t)
    \/ TaskProbe(t)
    \/ TaskUploading(t, saved)
    \/ TaskFinish(t, saved)
    \/ TaskFail(t, saved)
    \/ TaskCleanup(t)

RunStep(t, saved) ==
    \/ RunBegin(t, saved)
    \/ RunPrepare(t)
    \/ RunProbe(t)
    \/ RunAnnounce(t, saved)
    \/ RunEnd(t)

WorkerNext ==
    \/ \E saved \in SaveOutcomes :
        \/ \E r \in Requests : AppSubmit(r, saved)
        \/ LoopStep(saved)
        \/ \E t \in Tasks : BodyStep(t, saved) \/ RunStep(t, saved) \/ Heartbeat(t, saved)
        \/ ProcessRestart(saved)
    \/ OperationReturns

WorkerSpec == WorkerInit /\ [][WorkerNext]_allVars

-----------------------------------------------------------------------------
\* asyncio.Lock serves its waiters in turn and every coroutine is resumed, so a step that
\* keeps becoming possible happens; a lease nobody renews lapses in the end, but only after
\* STALE_EVALUATION_SECONDS, so that polls that requeue nothing come again and again.
WorkerFairness ==
    /\ WF_allVars(OperationReturns)
    /\ SF_allVars(\E saved \in SaveOutcomes : LoopStep(saved))
    /\ SF_allVars(\E saved \in SaveOutcomes : LoopReclaim(Lapsed, saved))
    /\ SF_allVars(LoopReclaimNothing)
    /\ \A t \in Tasks :
        SF_allVars(\E saved \in SaveOutcomes : BodyStep(t, saved) \/ RunStep(t, saved))

FairWorkerSpec == WorkerSpec /\ WorkerFairness

-----------------------------------------------------------------------------
LiveTasks == {t \in Tasks : Live(t)}

\* The worker keeps its word: no job is evaluated by two tasks at a time, and no
\* more than MAX_CONCURRENT_JOBS are evaluated at all, whatever heartbeats die,
\* saves fail and leases are reclaimed.
EvaluationsExclusive ==
    /\ Cardinality(LiveTasks) <= MaxConcurrentJobs
    /\ \A t, u \in LiveTasks : task[t].job = task[u].job => t = u

\* The job of a task that starts is evaluating: _process_job's own call of
\* mark_evaluating is never needed.
ClaimedJobIsEvaluating ==
    \A t \in Tasks : task[t].pc = "created" => jobs[task[t].job].status = "evaluating"

\* An outcome in jobs.json is never undone and a failure never becomes a success,
\* whatever late tasks, failed saves and restarts follow.  The other way round it
\* happens: a finish that could not be saved is followed by mark_failed.
RecordedOutcomeStands ==
    [][\A j \in WithStatus(disk, FinalStatuses) :
         /\ j \in WithStatus(disk', FinalStatuses)
         /\ disk[j].status = "failed" => disk'[j].status = "failed"]_allVars

\* Every job whose tasks can be loaded is finished or failed in the end, through restarts,
\* leases nobody renews and older jobs that are requeued for ever because theirs cannot be.
EveryJobSettles ==
    \A j \in JobIds :
        (j \in Present(jobs) /\ Loadable(j)) ~> j \in WithStatus(jobs, FinalStatuses)

\* The jobs in memory go through the life cycle a submitter is promised.
JobStatus == [j \in JobIds |-> IF jobs[j] = NoJob THEN "none" ELSE jobs[j].status]
Lifecycle == INSTANCE JobLifecycle WITH Jobs <- JobIds, status <- JobStatus
ImplementsLifecycle == Lifecycle!Spec
=============================================================================
