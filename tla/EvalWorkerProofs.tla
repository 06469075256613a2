-------------------------- MODULE EvalWorkerProofs --------------------------
(***************************************************************************)
(* What the worker keeps for every number of jobs, runs, tasks and         *)
(* restarts and every set of requests.                                     *)
(*                                                                         *)
(* The worker is shown to be a caller of JobQueue (WorkerIsACaller), so    *)
(* that what JobQueueProofs proves of the queue holds under it; with one   *)
(* job at a time, that it never marks a claimed job evaluating again.  The *)
(* rest is about that default (MaxConcurrentJobs = 1): with more, a job    *)
(* that was reclaimed from a dead heartbeat is claimed again beside its    *)
(* first task, and none of it holds.                                       *)
(***************************************************************************)
EXTENDS EvalWorker, JobQueueProofs

-----------------------------------------------------------------------------
(***************************************************************************)
(* The inductive invariants.                                               *)
(***************************************************************************)
TaskRecords ==
    [job : 0..MaxJobs, pc : TaskPcs, hb : {"off", "on", "dead"},
     left : 0..RunsPerJob, run : RunPcs]

\* The worker's own variables have their types.
WorkerTyped ==
    /\ loop \in {"sleep", "reclaim", "claim", "spawn"}
    /\ toSpawn \subseteq JobIds
    /\ inFlight \in [JobIds -> Tasks \cup {NoTask}]
    /\ task \in [Tasks -> TaskRecords]
    /\ restarts \in 0..MaxRestarts

\* The operation the loop awaits, if it is a claim, returns the jobs it will create tasks for.
ClaimAwaited == caller = Loop /\ lock.op = "claim" /\ lock.ids = toSpawn

\* Whatever a task reports on, this process has claimed.
Owned ==
    /\ \A t \in Tasks : task[t] # NoRun => task[t].job \in claimed
    /\ toSpawn \subseteq claimed \/ ClaimAwaited
    /\ lock.op = "claim" => caller = Loop

\* Tasks mark their jobs evaluating only where several jobs are evaluated at once.
Unmarked == SeveralAtOnce \/ \A t \in Tasks : task[t].pc # "marking"

WorkerInv == TypeOK /\ Fresh /\ WorkerTyped /\ Owned /\ Unmarked

-----------------------------------------------------------------------------
\* Where a task has not come to the end of its job, and where it has not marked it.
EarlyPcs == {"created", "marking", "begin", "launch", "probing", "benchmark", "uploading",
             "finishing"}
BusyPcs == EarlyPcs \cup {"failing"}

\* A live task is the entry of its job in _in_flight_jobs; a job that was not marked has
\* no outcome, and is evaluating when its task begins, which does not mark it again.
Entered(t) ==
    /\ task[t].pc # "marking"
    /\ Live(t) => task[t].job \in JobIds /\ inFlight[task[t].job] = t
    /\ task[t].pc = "created" => JobStatus[task[t].job] = "evaluating" /\ task[t].hb = "off"
    /\ task[t].pc \in EarlyPcs => JobStatus[task[t].job] \in ActiveStatuses

\* A claimed job waits for its task while there is no entry at all.
Waiting(j) ==
    /\ loop = "spawn"
    /\ JobStatus[j] = "evaluating"
    /\ \A i \in JobIds : inFlight[i] = NoTask

AtMostOne(S) == \A i, j \in S : i = j

SerialInv ==
    /\ \A t \in Tasks : Entered(t)
    /\ AtMostOne({j \in JobIds : inFlight[j] # NoTask})
    /\ AtMostOne(toSpawn)
    /\ \A j \in toSpawn : Waiting(j)

\* What is in the file is in memory, or was taken further there.
FileInv ==
    /\ WithStatus(disk, FinalStatuses) \subseteq WithStatus(jobs, FinalStatuses)
    /\ WithStatus(disk, {"failed"}) \subseteq WithStatus(jobs, {"failed"})

\* Where every save succeeds, a task's job is evaluating until the task has marked it.
EvaluatedInv ==
    /\ disk = jobs
    /\ \A t \in Tasks :
        /\ task[t].hb # "dead"
        /\ task[t].pc \in BusyPcs => JobStatus[task[t].job] = "evaluating"

-----------------------------------------------------------------------------
(***************************************************************************)
(* A step of a task, of one of its runs, or of its heartbeat.              *)
(***************************************************************************)
FoundEvaluating(t) == jobs[task[t].job].status = "evaluating"

\* It moves that task alone, which was created, and never back.
Works(t) ==
    /\ task[t] # NoRun
    /\ \A u \in Tasks \ {t} : task'[u] = task[u]
    /\ task' \in [Tasks -> TaskRecords]
    /\ task'[t].job = task[t].job
    /\ Live(t)' => Live(t)
    /\ task'[t].pc = "created" =>
          task[t].pc = "created" /\ (task[t].hb = "off" => task'[t].hb = "off")
    /\ task'[t].pc = "marking" =>
          task[t].pc = "marking" \/ (task[t].pc = "created" /\ ~FoundEvaluating(t))
    /\ task'[t].pc \in EarlyPcs => task[t].pc \in EarlyPcs
    /\ task'[t].pc \in BusyPcs => task[t].pc \in BusyPcs
    /\ UNCHANGED <<loop, toSpawn, inFlight, restarts>>

\* It reports on the task's job, or leaves the queue alone.
Speaks(t, saved) ==
    \/ UNCHANGED <<vars, caller>>
    \/ \E progress \in BOOLEAN : UpdateProgress(task[t].job, progress, saved)
    \/ task[t].pc = "marking" /\ MarkEvaluating(task[t].job, saved)
    \/ /\ task[t].pc = "finishing"
       /\ task'[t].pc = IF saved THEN "cleanup" ELSE "failing"
       /\ MarkFinished(task[t].job, saved)
    \/ /\ task[t].pc = "failing"
       /\ task'[t].pc = "cleanup"
       /\ MarkFailed(task[t].job, saved)

\* A task that was created and that is given another record of the same job works.
LEMMA WorksIf ==
  ASSUME WorkerTyped, NEW t \in Tasks, task[t] # NoRun, NEW b \in TaskRecords,
         task' = [task EXCEPT ![t] = b],
         b.job = task[t].job,
         b.pc \notin {"none", "done"} => task[t].pc \notin {"none", "done"},
         b.pc = "created" => task[t].pc = "created" /\ (task[t].hb = "off" => b.hb = "off"),
         b.pc = "marking" =>
            task[t].pc = "marking" \/ (task[t].pc = "created" /\ ~FoundEvaluating(t)),
         b.pc \in EarlyPcs => task[t].pc \in EarlyPcs,
         b.pc \in BusyPcs => task[t].pc \in BusyPcs,
         UNCHANGED <<loop, toSpawn, inFlight, restarts>>
  PROVE  Works(t)
  <1>1. task' \in [Tasks -> TaskRecords] /\ task'[t] = b
    BY DEF WorkerTyped
  <1>2. \A u \in Tasks \ {t} : task'[u] = task[u]
    BY DEF WorkerTyped
  <1>3. QED
    BY <1>1, <1>2 DEF Works, Live

\* Steps of _process_job that only move it on.
LEMMA GotoWorks ==
  ASSUME WorkerTyped, NEW t \in Tasks, NEW pc \in TaskPcs \ {"created"}, Goto(t, pc),
         pc = "marking" => task[t].pc = "created" /\ ~FoundEvaluating(t),
         task[t].pc \notin {"none", "done"},
         pc \in EarlyPcs => task[t].pc \in EarlyPcs,
         pc \in BusyPcs => task[t].pc \in BusyPcs,
         UNCHANGED <<loop, toSpawn, inFlight, restarts>>
  PROVE  Works(t) /\ task'[t].pc = pc
  <1> DEFINE b == [task[t] EXCEPT !.pc = pc]
  <1>1. task[t] \in TaskRecords
    BY DEF WorkerTyped
  <1>2. b \in TaskRecords
    BY <1>1 DEF TaskRecords
  <1>3. b.job = task[t].job /\ b.pc = pc
    BY <1>1 DEF TaskRecords
  <1>4. task' = [task EXCEPT ![t] = b]
    BY DEF Goto
  <1>5. task[t] # NoRun
    BY DEF NoRun
  <1>6. Works(t)
    BY <1>2, <1>3, <1>4, <1>5, WorksIf
  <1>7. QED
    BY <1>3, <1>4, <1>6 DEF WorkerTyped

\* What a task tells the queue, once it may.
LEMMA TellSpeaks ==
  ASSUME NEW t \in Tasks, NEW c, NEW progress \in BOOLEAN, NEW saved \in BOOLEAN,
         Tell(c, t, progress, saved)
  PROVE  Speaks(t, saved)
  BY DEF Tell, Speaks, vars

\* Every step of _process_job.
LEMMA BodyEffect ==
  ASSUME WorkerTyped, NEW t \in Tasks, NEW saved \in BOOLEAN, BodyStep(t, saved)
  PROVE  Works(t) /\ Speaks(t, saved)
  <1>1. CASE TaskLoad(t) \/ TaskLoadFails(t)
    <2>1. task[t].pc = "created" /\ UNCHANGED <<vars, caller, loop, toSpawn, inFlight, restarts>>
      BY <1>1 DEF TaskLoad, TaskLoadFails, At
    <2>2. PICK pc \in {"begin", "marking", "done"} :
            Goto(t, pc) /\ (pc = "marking" => ~FoundEvaluating(t))
      BY <1>1 DEF TaskLoad, TaskLoadFails, FoundEvaluating
    <2>3. pc \in TaskPcs \ {"created"} /\ task[t].pc \in EarlyPcs /\ task[t].pc \in BusyPcs
      BY <2>1 DEF TaskPcs, EarlyPcs, BusyPcs
    <2>4. Works(t)
      BY <2>1, <2>2, <2>3, GotoWorks
    <2>5. QED
      BY <2>1, <2>4 DEF Speaks
  <1>2. CASE TaskBegin(t, saved) \/ TaskUploading(t, saved)
    <2>1. /\ task[t].pc \in {"marking", "begin", "uploading"}
          /\ UNCHANGED <<loop, toSpawn, inFlight, restarts>>
          /\ \/ Tell(Body(t), t, FALSE, saved)
             \/ task[t].pc = "marking" /\ MarkEvaluating(task[t].job, saved)
      BY <1>2 DEF TaskBegin, TaskUploading, At
    <2>2. PICK pc \in {"begin", "launch", "finishing", "failing"} : Goto(t, pc)
      BY <1>2 DEF TaskBegin, TaskUploading
    <2>3. pc \in TaskPcs \ {"created"} /\ task[t].pc \in EarlyPcs /\ task[t].pc \in BusyPcs
      BY <2>1 DEF TaskPcs, EarlyPcs, BusyPcs
    <2>4. Works(t)
      BY <2>1, <2>2, <2>3, GotoWorks
    <2>5. Speaks(t, saved)
      BY <2>1, TellSpeaks DEF Speaks
    <2>6. QED
      BY <2>4, <2>5
  <1>3. CASE TaskLaunch(t)
    <2> DEFINE b == [task[t] EXCEPT !.pc = "probing", !.hb = "on"]
    <2>1. task[t] \in TaskRecords /\ task[t].pc = "launch"
      BY <1>3 DEF WorkerTyped, TaskLaunch, At
    <2>2. b \in TaskRecords /\ b.job = task[t].job /\ b.pc = "probing"
      BY <2>1 DEF TaskRecords, TaskPcs
    <2>3. task' = [task EXCEPT ![t] = b]
      BY <1>3 DEF TaskLaunch
    <2>4. task[t] # NoRun /\ task[t].pc \in EarlyPcs /\ task[t].pc \in BusyPcs
      BY <2>1 DEF NoRun, EarlyPcs, BusyPcs
    <2>5. Works(t)
      BY <1>3, <2>1, <2>2, <2>3, <2>4, WorksIf DEF TaskLaunch
    <2>6. QED
      BY <1>3, <2>5 DEF TaskLaunch, Speaks
  <1>4. CASE TaskProbe(t)
    <2>1. task[t] \in TaskRecords /\ task[t].pc = "probing"
      BY <1>4 DEF WorkerTyped, TaskProbe, At
    <2>2. task[t] # NoRun /\ task[t].pc \in EarlyPcs /\ task[t].pc \in BusyPcs
      BY <2>1 DEF NoRun, EarlyPcs, BusyPcs
    <2>3. CASE task' = [task EXCEPT ![t].pc = "benchmark", ![t].left = RunsPerJob]
      <3> DEFINE b == [task[t] EXCEPT !.pc = "benchmark", !.left = RunsPerJob]
      <3>1. b \in TaskRecords /\ b.job = task[t].job /\ b.pc = "benchmark"
        <4>1. RunsPerJob \in 0..RunsPerJob
          BY WorkerAssumption
        <4>2. QED
          BY <2>1, <4>1 DEF TaskRecords, TaskPcs
      <3>2. task' = [task EXCEPT ![t] = b]
        BY <2>3
      <3>3. QED
        BY <1>4, <2>1, <2>2, <3>1, <3>2, WorksIf DEF TaskProbe, Speaks
    <2>4. CASE Goto(t, "failing")
      <3>1. Works(t)
        BY <1>4, <2>1, <2>2, <2>4, GotoWorks DEF TaskProbe, TaskPcs
      <3>2. QED
        BY <1>4, <3>1 DEF TaskProbe, Speaks
    <2>5. QED
      BY <1>4, <2>3, <2>4 DEF TaskProbe
  <1>5. CASE TaskFinish(t, saved)
    <2>1. /\ task[t].pc = "finishing"
          /\ UNCHANGED <<loop, toSpawn, inFlight, restarts>>
          /\ MarkFinished(task[t].job, saved)
      BY <1>5 DEF TaskFinish, At
    <2>2. PICK pc \in {"cleanup", "failing"} : Goto(t, pc) /\ pc = IF saved THEN "cleanup" ELSE "failing"
      BY <1>5 DEF TaskFinish
    <2>3. pc \in TaskPcs \ {"created"} /\ task[t].pc \in EarlyPcs /\ task[t].pc \in BusyPcs
      BY <2>1 DEF TaskPcs, EarlyPcs, BusyPcs
    <2>4. Works(t) /\ task'[t].pc = pc
      BY <2>1, <2>2, <2>3, GotoWorks
    <2>5. QED
      BY <2>1, <2>2, <2>4 DEF Speaks
  <1>6. CASE TaskFail(t, saved)
    <2>1. /\ task[t].pc = "failing"
          /\ UNCHANGED <<loop, toSpawn, inFlight, restarts>>
          /\ MarkFailed(task[t].job, saved)
          /\ Goto(t, "cleanup")
      BY <1>6 DEF TaskFail, At
    <2>2. "cleanup" \in TaskPcs \ {"created"} /\ "cleanup" \notin EarlyPcs /\ "cleanup" \notin BusyPcs
      BY DEF TaskPcs, EarlyPcs, BusyPcs
    <2>3. Works(t) /\ task'[t].pc = "cleanup"
      BY <2>1, <2>2, GotoWorks
    <2>4. QED
      BY <2>1, <2>3 DEF Speaks
  <1>7. CASE TaskCleanup(t)
    <2> DEFINE b == [task[t] EXCEPT !.pc = "done", !.hb = "off"]
    <2>1. task[t] \in TaskRecords /\ task[t].pc = "cleanup"
      BY <1>7 DEF WorkerTyped, TaskCleanup, At
    <2>2. b \in TaskRecords /\ b.job = task[t].job /\ b.pc = "done"
      BY <2>1 DEF TaskRecords, TaskPcs
    <2>3. task' = [task EXCEPT ![t] = b]
      BY <1>7 DEF TaskCleanup
    <2>4. task[t] # NoRun /\ b.pc \notin EarlyPcs /\ b.pc \notin BusyPcs
      BY <2>1, <2>2 DEF NoRun, EarlyPcs, BusyPcs
    <2>5. Works(t)
      BY <1>7, <2>1, <2>2, <2>3, <2>4, WorksIf DEF TaskCleanup
    <2>6. QED
      BY <1>7, <2>5 DEF TaskCleanup, Speaks
  <1>8. QED
    BY <1>1, <1>2, <1>3, <1>4, <1>5, <1>6, <1>7 DEF BodyStep

\* A run moves on.
LEMMA RunToWorks ==
  ASSUME WorkerTyped, NEW t \in Tasks, NEW at \in RunPcs, RunTo(t, at), task[t].left > 0,
         UNCHANGED <<loop, toSpawn, inFlight, restarts>>
  PROVE  Works(t)
  <1> DEFINE b == [task[t] EXCEPT !.run = at]
  <1>1. task[t] \in TaskRecords /\ task[t] # NoRun
    BY DEF WorkerTyped, NoRun
  <1>2. b \in TaskRecords /\ b.job = task[t].job /\ b.pc = task[t].pc /\ b.hb = task[t].hb
    BY <1>1 DEF TaskRecords
  <1>3. task' = [task EXCEPT ![t] = b]
    BY DEF RunTo
  <1>4. QED
    BY <1>1, <1>2, <1>3, WorksIf

\* A run ends, with its task's benchmark or after it.
LEMMA RunDoneWorks ==
  ASSUME WorkerTyped, NEW t \in Tasks, NEW pc \in {"failing", "uploading", "benchmark"},
         RunDone(t, pc), task[t].left > 0,
         UNCHANGED <<loop, toSpawn, inFlight, restarts>>
  PROVE  Works(t)
  <1> DEFINE b == [task[t] EXCEPT !.run = "waiting", !.left = @ - 1,
                                  !.pc = IF @ = "benchmark" THEN pc ELSE @]
  <1>1. task[t] \in TaskRecords /\ task[t] # NoRun
    BY DEF WorkerTyped, NoRun
  <1>2. task[t].left - 1 \in 0..RunsPerJob
    BY <1>1, WorkerAssumption DEF TaskRecords
  <1>3. b.pc = IF task[t].pc = "benchmark" THEN pc ELSE task[t].pc
    BY <1>1 DEF TaskRecords
  <1>4. b \in TaskRecords /\ b.job = task[t].job /\ b.hb = task[t].hb
    BY <1>1, <1>2 DEF TaskRecords, TaskPcs, RunPcs
  <1>5. task' = [task EXCEPT ![t] = b]
    BY DEF RunDone
  <1>6. /\ b.pc \notin {"none", "done"} => task[t].pc \notin {"none", "done"}
        /\ b.pc = "created" => task[t].pc = "created" /\ (task[t].hb = "off" => b.hb = "off")
        /\ b.pc = "marking" => task[t].pc = "marking"
        /\ b.pc \in EarlyPcs => task[t].pc \in EarlyPcs
        /\ b.pc \in BusyPcs => task[t].pc \in BusyPcs
    BY <1>3, <1>4 DEF EarlyPcs, BusyPcs
  <1>7. QED
    BY <1>1, <1>4, <1>5, <1>6, WorksIf

\* Every step of a run.
LEMMA RunEffect ==
  ASSUME WorkerTyped, NEW t \in Tasks, NEW saved \in BOOLEAN, RunStep(t, saved)
  PROVE  Works(t) /\ Speaks(t, saved)
  <1>1. {"waiting", "preparing", "probing", "announcing", "running"} \subseteq RunPcs
    BY DEF RunPcs
  <1>2. CASE RunBegin(t, saved) \/ RunAnnounce(t, saved)
    <2>1. task[t].left > 0 /\ UNCHANGED <<loop, toSpawn, inFlight, restarts>>
      BY <1>2 DEF RunBegin, RunAnnounce, RunAt
    <2>2. Tell(Run(t), t, TRUE, saved)
      BY <1>2 DEF RunBegin, RunAnnounce
    <2>3. (\E at \in {"preparing", "running"} : RunTo(t, at)) \/ RunDone(t, "failing")
      BY <1>2 DEF RunBegin, RunAnnounce, RunRaises
    <2>4. Works(t)
      BY <1>1, <2>1, <2>3, RunToWorks, RunDoneWorks
    <2>5. QED
      BY <2>1, <2>2, <2>4, TellSpeaks
  <1>3. CASE RunPrepare(t)
    <2>1. task[t].left > 0 /\ UNCHANGED <<vars, caller, loop, toSpawn, inFlight, restarts>>
      BY <1>3 DEF RunPrepare, RunAt
    <2>2. (\E at \in {"announcing", "probing"} : RunTo(t, at))
      BY <1>3 DEF RunPrepare
    <2>3. Works(t)
      BY <1>1, <2>1, <2>2, RunToWorks
    <2>4. QED
      BY <2>1, <2>2, <2>3 DEF Speaks
  <1>4. CASE RunProbe(t)
    <2>1. task[t].left > 0 /\ UNCHANGED <<vars, caller, loop, toSpawn, inFlight, restarts>>
      BY <1>4 DEF RunProbe, RunAt
    <2>2. RunTo(t, "announcing") \/ RunDone(t, "failing")
      BY <1>4 DEF RunProbe, RunRaises
    <2>3. Works(t)
      BY <1>1, <2>1, <2>2, RunToWorks, RunDoneWorks
    <2>4. QED
      BY <2>1, <2>3 DEF Speaks
  <1>5. CASE RunEnd(t)
    <2>1. task[t].left > 0 /\ UNCHANGED <<vars, caller, loop, toSpawn, inFlight, restarts>>
      BY <1>5 DEF RunEnd, RunAt
    <2>2. \E pc \in {"uploading", "benchmark"} : RunDone(t, pc)
      BY <1>5 DEF RunEnd
    <2>3. Works(t)
      BY <2>1, <2>2, RunDoneWorks
    <2>4. QED
      BY <2>1, <2>3 DEF Speaks
  <1>6. QED
    BY <1>2, <1>3, <1>4, <1>5 DEF RunStep

\* A beat of the heartbeat.
LEMMA BeatEffect ==
  ASSUME WorkerInv, NEW t \in Tasks, NEW saved \in BOOLEAN, Heartbeat(t, saved)
  PROVE  Works(t) /\ Speaks(t, saved)
  <1> DEFINE j == task[t].job
             hb == IF saved THEN task[t].hb ELSE "dead"
             b == [task[t] EXCEPT !.hb = hb]
  <1>1. task[t] \in TaskRecords /\ task[t] # NoRun
    BY DEF WorkerInv, WorkerTyped, Heartbeat, NoRun
  <1>2. j \in JobIds
    BY <1>1 DEF WorkerInv, Owned, TypeOK
  <1>3. jobs[j].progress \in BOOLEAN
    BY <1>2 DEF Heartbeat, UpdateProgress, UpdateApplies, WorkerInv, TypeOK, Stores, Job
  <1>4. hb \in {"off", "on", "dead"}
    BY <1>1 DEF TaskRecords
  <1>5. b \in TaskRecords /\ b.job = task[t].job /\ b.pc = task[t].pc /\ task[t].hb # "off"
    BY <1>1, <1>4 DEF TaskRecords, Heartbeat
  <1>6. task' = [task EXCEPT ![t] = b]
    <2>1. CASE saved
      <3>1. b = task[t]
        BY <1>1, <2>1 DEF TaskRecords
      <3>2. QED
        BY <2>1, <3>1 DEF Heartbeat, WorkerInv, WorkerTyped
    <2>2. CASE ~saved
      BY <2>2 DEF Heartbeat
    <2>3. QED
      BY <2>1, <2>2
  <1>7. Works(t)
    BY <1>1, <1>5, <1>6, WorksIf DEF Heartbeat, WorkerInv
  <1>8. QED
    BY <1>3, <1>7 DEF Heartbeat, Speaks

-----------------------------------------------------------------------------
(***************************************************************************)
(* The worker is a caller of the queue: each of its steps is one of        *)
(* JobQueue's, or none.                                                    *)
(***************************************************************************)
\* The steps of the worker by what they do to its tasks.
LEMMA StepCases ==
  ASSUME WorkerInv, WorkerNext
  PROVE  \/ \E saved \in SaveOutcomes :
              \/ \E r \in Requests : AppSubmit(r, saved)
              \/ LoopStep(saved)
              \/ \E t \in Tasks :
                    /\ Works(t) /\ Speaks(t, saved)
                    /\ BodyStep(t, saved) \/ RunStep(t, saved) \/ Heartbeat(t, saved)
              \/ ProcessRestart(saved)
         \/ OperationReturns
  <1>1. SaveOutcomes \subseteq BOOLEAN
    BY DEF SaveOutcomes
  <1>2. ASSUME NEW saved \in SaveOutcomes, NEW t \in Tasks,
               BodyStep(t, saved) \/ RunStep(t, saved) \/ Heartbeat(t, saved)
        PROVE  Works(t) /\ Speaks(t, saved)
    <2>1. saved \in BOOLEAN /\ WorkerTyped
      BY <1>1 DEF WorkerInv
    <2>2. CASE BodyStep(t, saved)
      BY <2>1, <2>2, BodyEffect
    <2>3. CASE RunStep(t, saved)
      BY <2>1, <2>3, RunEffect
    <2>4. CASE Heartbeat(t, saved)
      BY <2>1, <2>4, BeatEffect
    <2>5. QED
      BY <1>2, <2>2, <2>3, <2>4
  <1>3. QED
    BY <1>2 DEF WorkerNext

\* A claim of more jobs than there can be is a claim of all of them.
LEMMA ClaimOfMany ==
  ASSUME NEW limit \in Nat, limit > 0, NEW saved \in BOOLEAN, ClaimPending(limit, saved)
  PROVE  \E n \in 1..MaxJobs : ClaimPending(n, saved)
  <1> DEFINE pending == WithStatus(jobs, {"pending"})
             Before(j) == {i \in pending : i < j}
  <1>1. pending \subseteq JobIds /\ MaxJobs \in Nat
    BY BoundsAssumption DEF WithStatus, Present
  <1>2. CASE limit <= MaxJobs
    BY <1>1, <1>2
  <1>3. CASE limit > MaxJobs
    <2>1. ASSUME NEW j \in pending
          PROVE  Cardinality(Before(j)) \in Nat /\ Cardinality(Before(j)) < MaxJobs
      <3>1. j \in Nat /\ 1 <= j /\ j <= MaxJobs
        BY <1>1 DEF JobIds
      <3>2. Before(j) \subseteq 1..(j - 1)
        BY <1>1, <3>1 DEF JobIds
      <3>3. IsFiniteSet(1..(j - 1)) /\ Cardinality(1..(j - 1)) = j - 1
        BY <3>1, FS_Interval
      <3>4. Cardinality(Before(j)) <= j - 1 /\ Cardinality(Before(j)) \in Nat
        <4> HIDE DEF Before
        <4>1. IsFiniteSet(Before(j)) /\ Cardinality(Before(j)) <= Cardinality(1..(j - 1))
          BY <3>2, <3>3, FS_Subset
        <4>2. Cardinality(Before(j)) \in Nat
          BY <4>1, FS_CardinalityType
        <4>3. QED
          BY <3>3, <4>1, <4>2
      <3>5. QED
        BY <1>1, <3>1, <3>4
    <2>2. FirstPending(limit) = pending /\ FirstPending(MaxJobs) = pending
      <3> HIDE DEF Before
      <3>1. \A j \in pending : Cardinality(Before(j)) < limit /\ Cardinality(Before(j)) < MaxJobs
        BY <1>1, <1>3, <2>1
      <3>2. QED
        BY <3>1 DEF FirstPending, Before
    <2>3. MaxJobs \in 1..MaxJobs
      <3>1. pending # {}
        BY <2>2 DEF ClaimPending
      <3>2. QED
        BY <1>1, <3>1 DEF JobIds
    <2>4. ClaimPending(MaxJobs, saved)
      BY <2>2, <2>3 DEF ClaimPending
    <2>5. QED
      BY <2>3, <2>4
  <1>4. QED
    BY <1>1, <1>2, <1>3

\* What a task of a claimed job tells the queue is a report.
LEMMA SpeechIsReport ==
  ASSUME WorkerInv, NEW t \in Tasks, NEW saved \in SaveOutcomes, task[t] # NoRun, Speaks(t, saved)
  PROVE  Operation(saved) \/ UNCHANGED vars
  <1>1. task[t].job \in claimed /\ (task[t].pc = "marking" => SeveralAtOnce)
    BY DEF WorkerInv, Owned, Unmarked
  <1>2. QED
    BY <1>1 DEF Speaks, Operation, Report

\* Free slots are a number, and a number of them is positive.
LEMMA SlotsType == WorkerInv => Slots \in Int
  <1>1. {j \in JobIds : inFlight[j] # NoTask} \subseteq JobIds
    OBVIOUS
  <1>2. Cardinality({j \in JobIds : inFlight[j] # NoTask}) \in Nat
    BY <1>1, FiniteJobs
  <1>3. MaxConcurrentJobs \in Nat
    BY WorkerAssumption
  <1>4. QED
    BY <1>2, <1>3 DEF Slots

\* A step of the worker is a step of the queue, or leaves the queue as it is.
LEMMA StepImplements ==
  ASSUME WorkerInv, [WorkerNext]_allVars
  PROVE  [Next]_vars
  <1>1. ASSUME NEW saved \in SaveOutcomes, NEW r \in Requests, AppSubmit(r, saved)
        PROVE  Operation(saved)
    BY <1>1 DEF AppSubmit, Operation
  <1>2. ASSUME NEW saved \in SaveOutcomes, LoopStep(saved)
        PROVE  Operation(saved) \/ UNCHANGED vars
    <2>1. CASE LoopReap \/ LoopReclaimNothing \/ LoopClaimNothing \/ LoopSpawn
      BY <2>1 DEF LoopReap, LoopReclaimNothing, LoopClaimNothing, LoopSpawn, vars
    <2>2. ASSUME NEW ids \in SUBSET Lapsed, LoopReclaim(ids, saved)
          PROVE  Operation(saved)
      <3>1. ids \in SUBSET JobIds
        BY DEF Lapsed, WithStatus, Present
      <3>2. QED
        BY <2>2, <3>1 DEF LoopReclaim, Operation
    <2>3. CASE LoopClaim(saved)
      <3>1. ClaimPending(Slots, saved) /\ Slots > 0
        BY <2>3 DEF LoopClaim, ClaimPending
      <3>2. Slots \in Nat
        BY <3>1, SlotsType
      <3>3. saved \in BOOLEAN
        BY DEF SaveOutcomes
      <3>4. \E n \in 1..MaxJobs : ClaimPending(n, saved)
        BY <3>1, <3>2, <3>3, ClaimOfMany
      <3>5. QED
        BY <3>4 DEF Operation
    <2>4. QED
      BY <1>2, <2>1, <2>2, <2>3 DEF LoopStep
  <1>3. ASSUME NEW saved \in SaveOutcomes, NEW t \in Tasks, Works(t), Speaks(t, saved)
        PROVE  Operation(saved) \/ UNCHANGED vars
    BY <1>3, SpeechIsReport DEF Works
  <1>4. ASSUME NEW saved \in SaveOutcomes, ProcessRestart(saved)
        PROVE  Restart(saved)
    BY <1>4 DEF ProcessRestart
  <1>5. ASSUME OperationReturns PROVE SyncToHub
    BY <1>5 DEF OperationReturns
  <1>6. CASE WorkerNext
    BY <1>1, <1>2, <1>3, <1>4, <1>5, <1>6, StepCases DEF Next
  <1>7. CASE UNCHANGED allVars
    BY <1>7 DEF allVars
  <1>8. QED
    BY <1>6, <1>7

-----------------------------------------------------------------------------
\* The record of a task just created for a job.
CreatedFor(j) == [NoRun EXCEPT !.pc = "created", !.job = j]

\* create_task gives each claimed job a task that had none, and leaves the other tasks.
LEMMA SpawnEffect ==
  ASSUME WorkerTyped, LoopSpawn
  PROVE  /\ \A t \in Tasks :
              \/ task'[t] = task[t] /\ \A j \in toSpawn : inFlight'[j] # t
              \/ \E j \in toSpawn : inFlight'[j] = t /\ task'[t] = CreatedFor(j)
         /\ \A j \in toSpawn : inFlight'[j] \in Tasks /\ Spare(inFlight'[j])
         /\ \A j \in JobIds \ toSpawn : inFlight'[j] = inFlight[j]
         /\ inFlight' \in [JobIds -> Tasks \cup {NoTask}]
         /\ task' \in [Tasks -> TaskRecords]
  <1>1. PICK f \in [toSpawn -> {t \in Tasks : Spare(t)}] :
          /\ \A i, j \in toSpawn : f[i] = f[j] => i = j
          /\ task' = [t \in Tasks |->
                        IF \E j \in toSpawn : f[j] = t
                        THEN CreatedFor(CHOOSE j \in toSpawn : f[j] = t)
                        ELSE task[t]]
          /\ inFlight' = [j \in JobIds |-> IF j \in toSpawn THEN f[j] ELSE inFlight[j]]
    BY DEF LoopSpawn, CreatedFor
  <1>2. \A j \in toSpawn : inFlight'[j] = f[j] /\ f[j] \in Tasks /\ Spare(f[j])
    BY <1>1 DEF WorkerTyped
  <1>3. \A j \in JobIds \ toSpawn : inFlight'[j] = inFlight[j]
    BY <1>1
  <1>4. inFlight' \in [JobIds -> Tasks \cup {NoTask}]
    BY <1>1, <1>2 DEF WorkerTyped
  <1>5. ASSUME NEW t \in Tasks, NEW i \in toSpawn, f[i] = t
        PROVE  task'[t] = CreatedFor(i)
    <2>1. (CHOOSE j \in toSpawn : f[j] = t) = i
      BY <1>1, <1>5
    <2>2. QED
      BY <1>1, <1>5, <2>1
  <1>6. ASSUME NEW t \in Tasks, \A j \in toSpawn : f[j] # t
        PROVE  task'[t] = task[t]
    BY <1>1, <1>6
  <1>7. \A j \in JobIds : CreatedFor(j) \in TaskRecords
    <2>1. \A j \in JobIds : j \in 0..MaxJobs
      BY BoundsAssumption DEF JobIds
    <2>2. 0 \in 0..RunsPerJob
      BY WorkerAssumption
    <2>3. QED
      BY <2>1, <2>2 DEF CreatedFor, NoRun, TaskRecords, TaskPcs, RunPcs
  <1>8. \A t \in Tasks :
              \/ task'[t] = task[t] /\ \A j \in toSpawn : inFlight'[j] # t
              \/ \E j \in toSpawn : inFlight'[j] = t /\ task'[t] = CreatedFor(j)
    BY <1>2, <1>5, <1>6
  <1>9. task' \in [Tasks -> TaskRecords]
    <2>1. \A t \in Tasks : task'[t] \in TaskRecords
      BY <1>7, <1>8 DEF WorkerTyped
    <2>2. QED
      BY <1>1, <2>1
  <1>10. QED
    BY <1>2, <1>3, <1>4, <1>8, <1>9

\* What an operation leaves in the lock.
LEMMA LockAfter ==
  ASSUME NEW op, NEW ids, NEW saved \in BOOLEAN, SaveThenSync(op, ids, saved), Free
  PROVE  \/ saved /\ lock' = [op |-> op, ids |-> ids]
         \/ ~saved /\ lock' = Unlocked
  BY DEF SaveThenSync, Free

\* An operation of the queue that is not a claim does not disturb what the tasks own.
LEMMA NotAClaim ==
  ASSUME Owned, Free, NEW op, op # "claim", NEW ids, NEW saved \in BOOLEAN,
         SaveThenSync(op, ids, saved), UNCHANGED <<claimed, toSpawn>>
  PROVE  (toSpawn' \subseteq claimed') /\ lock'.op # "claim"
  <1>1. lock.op = "none"
    BY DEF Free, Unlocked
  <1>2. toSpawn \subseteq claimed
    BY <1>1 DEF Owned, ClaimAwaited
  <1>3. lock'.op # "claim"
    BY LockAfter DEF Unlocked
  <1>4. QED
    BY <1>2, <1>3

\* What a task tells the queue is no claim.
LEMMA SpeechOwned ==
  ASSUME WorkerInv, NEW t \in Tasks, NEW saved \in SaveOutcomes, Works(t), Speaks(t, saved)
  PROVE  Owned'
  <1>1. saved \in BOOLEAN /\ Owned
    BY DEF SaveOutcomes, WorkerInv
  <1>2. toSpawn' = toSpawn /\ \A u \in Tasks : task'[u] # NoRun => task[u] # NoRun /\ task'[u].job = task[u].job
    BY DEF Works
  <1>3. CASE UNCHANGED <<vars, caller>>
    BY <1>1, <1>2, <1>3 DEF vars, Owned, ClaimAwaited
  <1>4. CASE ~UNCHANGED <<vars, caller>>
    <2>1. Free /\ SaveThenSync("write", {}, saved) /\ claimed' = claimed
      BY <1>4 DEF Speaks, UpdateProgress, MarkEvaluating, MarkFinished, MarkFailed, Mark
    <2>2. (toSpawn' \subseteq claimed') /\ lock'.op # "claim"
      BY <1>1, <1>2, <2>1, NotAClaim
    <2>3. QED
      BY <1>1, <1>2, <2>1, <2>2 DEF Owned
  <1>5. QED
    BY <1>3, <1>4

\* The worker's own variables keep their types, and what its tasks report on is claimed.
LEMMA WorkerStep ==
  ASSUME WorkerInv, WorkerNext
  PROVE  WorkerTyped' /\ Owned'
  <1>1. WorkerTyped /\ Owned /\ SaveOutcomes \subseteq BOOLEAN
    BY DEF WorkerInv, SaveOutcomes
  <1>2. ASSUME NEW saved \in SaveOutcomes, NEW r \in Requests, AppSubmit(r, saved)
        PROVE  WorkerTyped' /\ Owned'
    <2>1. Free /\ SaveThenSync("submit", {submitted + 1}, saved) /\ claimed' = claimed
      BY <1>2 DEF AppSubmit, SubmitNew
    <2>2. UNCHANGED <<loop, toSpawn, inFlight, task, restarts>>
      BY <1>2 DEF AppSubmit
    <2>3. (toSpawn' \subseteq claimed') /\ lock'.op # "claim"
      BY <1>1, <2>1, <2>2, NotAClaim
    <2>4. QED
      BY <1>1, <2>1, <2>2, <2>3 DEF WorkerTyped, Owned
  <1>3. ASSUME NEW saved \in SaveOutcomes, LoopStep(saved)
        PROVE  WorkerTyped' /\ Owned'
    <2>1. CASE LoopReap
      <3>1. UNCHANGED <<vars, caller, toSpawn, task, restarts>> /\ loop' = "reclaim"
        BY <2>1 DEF LoopReap
      <3>2. inFlight' \in [JobIds -> Tasks \cup {NoTask}]
        BY <1>1, <2>1 DEF LoopReap, WorkerTyped
      <3>3. QED
        BY <1>1, <3>1, <3>2 DEF vars, WorkerTyped, Owned, ClaimAwaited
    <2>2. CASE LoopReclaimNothing \/ LoopClaimNothing
      <3>1. UNCHANGED <<vars, caller, toSpawn, inFlight, task, restarts>> /\ loop' \in {"claim", "sleep"}
        BY <2>2 DEF LoopReclaimNothing, LoopClaimNothing
      <3>2. QED
        BY <1>1, <3>1 DEF vars, WorkerTyped, Owned, ClaimAwaited
    <2>3. ASSUME NEW ids \in SUBSET Lapsed, LoopReclaim(ids, saved)
          PROVE  WorkerTyped' /\ Owned'
      <3>1. Free /\ SaveThenSync("write", {}, saved) /\ claimed' = claimed
        BY <2>3 DEF LoopReclaim, ReclaimStaleJobs
      <3>2. UNCHANGED <<toSpawn, inFlight, task, restarts>> /\ loop' \in {"claim", "sleep"}
        BY <2>3 DEF LoopReclaim
      <3>3. (toSpawn' \subseteq claimed') /\ lock'.op # "claim"
        BY <1>1, <3>1, <3>2, NotAClaim
      <3>4. QED
        BY <1>1, <3>1, <3>2, <3>3 DEF WorkerTyped, Owned
    <2>4. CASE LoopClaim(saved)
      <3>1. Free /\ SaveThenSync("claim", FirstPending(Slots), saved) /\ claimed' = claimed
        BY <2>4 DEF LoopClaim, ClaimPending
      <3>2. /\ UNCHANGED <<inFlight, task, restarts>>
            /\ loop' \in {"spawn", "sleep"}
            /\ toSpawn' = IF saved THEN FirstPending(Slots) ELSE {}
            /\ caller' = IF saved THEN Loop ELSE caller
        BY <2>4 DEF LoopClaim, Call
      <3>3. FirstPending(Slots) \subseteq JobIds
        BY DEF FirstPending, WithStatus, Present
      <3>4. WorkerTyped'
        BY <1>1, <3>2, <3>3 DEF WorkerTyped
      <3>5. CASE saved
        <4>1. lock' = [op |-> "claim", ids |-> FirstPending(Slots)]
          BY <3>1, <3>5 DEF SaveThenSync
        <4>2. QED
          BY <1>1, <3>1, <3>2, <3>4, <3>5, <4>1 DEF Owned, ClaimAwaited
      <3>6. CASE ~saved
        <4>1. lock' = Unlocked
          BY <3>1, <3>6 DEF SaveThenSync, Free
        <4>2. QED
          BY <1>1, <3>1, <3>2, <3>4, <3>6, <4>1 DEF Owned, Unlocked
      <3>7. QED
        BY <3>5, <3>6
    <2>5. CASE LoopSpawn
      <3>1. UNCHANGED <<vars, caller, restarts>> /\ loop' = "sleep" /\ toSpawn' = {} /\ caller # Loop
        BY <2>5 DEF LoopSpawn, Awaits
      <3>2. toSpawn \subseteq claimed
        BY <1>1, <3>1 DEF Owned, ClaimAwaited
      <3>3. \A t \in Tasks : task'[t] = task[t] \/ \E j \in toSpawn : task'[t] = CreatedFor(j)
        BY <1>1, <2>5, SpawnEffect
      <3>4. \A t \in Tasks : task'[t] = task[t] \/ task'[t].job \in toSpawn
        BY <3>3 DEF CreatedFor, NoRun
      <3>5. WorkerTyped'
        BY <1>1, <2>5, <3>1, SpawnEffect DEF WorkerTyped
      <3>6. claimed' = claimed /\ lock' = lock /\ caller' = caller
        BY <3>1 DEF vars
      <3>7. Owned'
        BY <1>1, <3>1, <3>2, <3>4, <3>6 DEF Owned
      <3>8. QED
        BY <3>5, <3>7
    <2>6. QED
      BY <1>3, <2>1, <2>2, <2>3, <2>4, <2>5 DEF LoopStep
  <1>4. ASSUME NEW saved \in SaveOutcomes, NEW t \in Tasks, Works(t), Speaks(t, saved)
        PROVE  WorkerTyped' /\ Owned'
    <2>1. WorkerTyped'
      BY <1>1, <1>4 DEF Works, WorkerTyped
    <2>2. QED
      BY <1>4, <2>1, SpeechOwned
  <1>5. ASSUME NEW saved \in SaveOutcomes, ProcessRestart(saved)
        PROVE  WorkerTyped' /\ Owned'
    <2>1. /\ lock' = Unlocked /\ loop' = "sleep" /\ toSpawn' = {}
          /\ inFlight' = [j \in JobIds |-> NoTask]
          /\ task' = [t \in Tasks |-> NoRun]
          /\ restarts' = restarts + 1 /\ restarts < MaxRestarts
      BY <1>5 DEF ProcessRestart, Restart
    <2>2. NoRun \in TaskRecords
      BY WorkerAssumption, BoundsAssumption DEF NoRun, TaskRecords, TaskPcs, RunPcs
    <2>3. restarts' \in 0..MaxRestarts
      BY <1>1, <2>1, WorkerAssumption DEF WorkerTyped
    <2>4. WorkerTyped'
      BY <2>1, <2>2, <2>3 DEF WorkerTyped
    <2>5. Owned'
      BY <2>1 DEF Owned, Unlocked
    <2>6. QED
      BY <2>4, <2>5
  <1>6. ASSUME OperationReturns PROVE WorkerTyped' /\ Owned'
    <2>1. UNCHANGED <<loop, toSpawn, inFlight, task, restarts>>
      BY <1>6 DEF OperationReturns
    <2>2. lock'.op = "none" /\ claimed' = IF lock.op = "claim" THEN claimed \cup lock.ids ELSE claimed
      BY <1>6 DEF OperationReturns, SyncToHub, Unlocked
    <2>3. QED
      BY <1>1, <2>1, <2>2 DEF WorkerTyped, Owned, ClaimAwaited
  <1>7. QED
    BY <1>2, <1>3, <1>4, <1>5, <1>6, StepCases

\* The types, the numbering of jobs and what tasks own are kept by every step.
LEMMA WorkerInductive ==
  ASSUME WorkerInv, [WorkerNext]_allVars
  PROVE  TypeOK' /\ Fresh' /\ WorkerTyped' /\ Owned'
  <1>1. TypeOK' /\ (Worked \/ Synced \/ Restarted)
    BY StepImplements, NextEffect DEF WorkerInv
  <1>2. Fresh'
    BY <1>1, FreshStep DEF WorkerInv
  <1>3. WorkerTyped' /\ Owned'
    <2>1. CASE UNCHANGED allVars
      BY <2>1 DEF WorkerInv, allVars, vars, workerVars, WorkerTyped, Owned, ClaimAwaited
    <2>2. QED
      BY <2>1, WorkerStep
  <1>4. QED
    BY <1>1, <1>2, <1>3

\* A worker that starts owns nothing.
LEMMA WorkerStarts == WorkerInit => WorkerInv
  <1>1. NoRun \in TaskRecords
    BY WorkerAssumption, BoundsAssumption DEF NoRun, TaskRecords, TaskPcs, RunPcs
  <1>2. 0 \in 0..MaxRestarts
    BY WorkerAssumption
  <1>3. ASSUME WorkerInit PROVE TypeOK /\ Fresh
    <2>1. Init
      BY <1>3 DEF WorkerInit
    <2>2. QED
      BY <2>1, InitType DEF Init, Fresh, EmptyStore
  <1>4. ASSUME WorkerInit PROVE WorkerTyped
    BY <1>1, <1>2, <1>4 DEF WorkerInit, WorkerTyped
  <1>5. ASSUME WorkerInit PROVE Owned
    BY <1>5 DEF WorkerInit, Init, Owned, Unlocked
  <1>6. ASSUME WorkerInit PROVE Unmarked
    BY <1>6 DEF WorkerInit, Unmarked, NoRun
  <1>7. QED
    BY <1>3, <1>4, <1>5, <1>6 DEF WorkerInv

-----------------------------------------------------------------------------
(***************************************************************************)
(* What the operations do to the statuses of the jobs.                     *)
(***************************************************************************)
\* The statuses in memory, one by one.
LEMMA StatusOf ==
  /\ JobStatus = [j \in JobIds |-> IF jobs[j] = NoJob THEN "none" ELSE jobs[j].status]
  /\ \A j \in JobIds : JobStatus[j] = IF jobs[j] = NoJob THEN "none" ELSE jobs[j].status
  BY DEF JobStatus

\* submit.
LEMMA SubmitStatus ==
  ASSUME TypeOK, Fresh, NEW r \in Requests, NEW saved, SubmitNew(r, saved)
  PROVE  \E j \in JobIds : JobStatus[j] = "none" /\ JobStatus' = [JobStatus EXCEPT ![j] = "pending"]
  <1> DEFINE n == submitted + 1
  <1>1. n \in JobIds /\ n > submitted
    BY BoundsAssumption DEF SubmitNew, TypeOK, JobIds
  <1>2. JobStatus[n] = "none"
    BY <1>1 DEF Fresh, JobStatus
  <1>3. jobs'[n] = NewJob(r) /\ \A j \in JobIds \ {n} : jobs'[j] = jobs[j]
    BY <1>1 DEF SubmitNew, TypeOK, Stores
  <1>4. NewJob(r) # NoJob /\ NewJob(r).status = "pending"
    BY NewJobType, NoJobAssumption DEF NewJob
  <1>5. JobStatus' = [JobStatus EXCEPT ![n] = "pending"]
    BY <1>3, <1>4 DEF JobStatus
  <1>6. QED
    BY <1>1, <1>2, <1>5

\* claim_pending.
LEMMA ClaimStatus ==
  ASSUME TypeOK, NEW limit, NEW saved, ClaimPending(limit, saved)
  PROVE  /\ FirstPending(limit) \subseteq JobIds
         /\ \A j \in FirstPending(limit) : JobStatus[j] = "pending"
         /\ JobStatus' = [j \in JobIds |-> IF j \in FirstPending(limit) THEN "evaluating" ELSE JobStatus[j]]
  <1> DEFINE ids == FirstPending(limit)
  <1>1. ids \subseteq JobIds /\ \A j \in ids : jobs[j] \in Job /\ jobs[j] # NoJob /\ jobs[j].status = "pending"
    BY NoJobAssumption DEF FirstPending, WithStatus, Present, TypeOK, Stores
  <1>2. jobs' = [j \in JobIds |-> IF j \in ids THEN ClaimedJob(jobs[j]) ELSE jobs[j]]
    BY DEF ClaimPending
  <1>3. \A j \in ids : ClaimedJob(jobs[j]) # NoJob /\ ClaimedJob(jobs[j]).status = "evaluating"
    <2>1. \A j \in ids : ClaimedJob(jobs[j]) \in Job
      BY <1>1, ClaimedEvolves DEF Evolves
    <2>2. \A j \in ids : ClaimedJob(jobs[j]).status = "evaluating"
      BY <1>1 DEF ClaimedJob, Job
    <2>3. QED
      BY <2>1, <2>2, NoJobAssumption
  <1>4. JobStatus' = [j \in JobIds |-> IF j \in ids THEN "evaluating" ELSE JobStatus[j]]
    <2> HIDE DEF ids
    <2>1. QED
      BY <1>2, <1>3 DEF JobStatus
  <1>5. \A j \in ids : JobStatus[j] = "pending"
    BY <1>1 DEF JobStatus
  <1>6. QED
    BY <1>1, <1>4, <1>5

\* reclaim_stale_jobs.
LEMMA ReclaimStatus ==
  ASSUME TypeOK, NEW ids, NEW saved, ReclaimStaleJobs(ids, saved)
  PROVE  /\ ids \subseteq JobIds
         /\ \A j \in ids : JobStatus[j] = "evaluating"
         /\ JobStatus' = [j \in JobIds |-> IF j \in ids THEN "pending" ELSE JobStatus[j]]
  <1>1. ids \subseteq JobIds /\ \A j \in ids : jobs[j] \in Job /\ jobs[j] # NoJob /\ jobs[j].status = "evaluating"
    BY NoJobAssumption DEF ReclaimStaleJobs, WithStatus, Present, TypeOK, Stores
  <1>2. jobs' = [j \in JobIds |-> IF j \in ids THEN RequeuedJob(jobs[j]) ELSE jobs[j]]
    BY DEF ReclaimStaleJobs
  <1>3. \A j \in ids : RequeuedJob(jobs[j]) # NoJob /\ RequeuedJob(jobs[j]).status = "pending"
    <2>1. \A j \in ids : RequeuedJob(jobs[j]) \in Job
      BY <1>1, RequeuedEvolves DEF Evolves
    <2>2. \A j \in ids : RequeuedJob(jobs[j]).status = "pending"
      BY <1>1 DEF RequeuedJob, Job
    <2>3. QED
      BY <2>1, <2>2, NoJobAssumption
  <1>4. JobStatus' = [j \in JobIds |-> IF j \in ids THEN "pending" ELSE JobStatus[j]]
    BY <1>2, <1>3 DEF JobStatus
  <1>5. \A j \in ids : JobStatus[j] = "evaluating"
    BY <1>1 DEF JobStatus
  <1>6. QED
    BY <1>1, <1>4, <1>5

\* A change of one job.
LEMMA OneStatus ==
  ASSUME TypeOK, NEW j \in JobIds, NEW b \in Job, jobs' = [jobs EXCEPT ![j] = b]
  PROVE  JobStatus' = [JobStatus EXCEPT ![j] = b.status]
  <1>1. jobs'[j] = b /\ b # NoJob /\ \A i \in JobIds \ {j} : jobs'[i] = jobs[i]
    BY NoJobAssumption DEF TypeOK, Stores
  <1>2. /\ JobStatus' \in [JobIds -> {JobStatus'[i] : i \in JobIds}]
        /\ JobStatus'[j] = b.status
        /\ \A i \in JobIds \ {j} : JobStatus'[i] = JobStatus[i]
    BY <1>1 DEF JobStatus
  <1>3. JobStatus = [i \in JobIds |-> JobStatus[i]]
    BY DEF JobStatus
  <1>4. QED
    BY <1>2, <1>3

\* update_progress.
LEMMA UpdateStatus ==
  ASSUME TypeOK, NEW j \in JobIds, NEW progress \in BOOLEAN, NEW saved, UpdateProgress(j, progress, saved)
  PROVE  JobStatus' = JobStatus
  <1> DEFINE b == [jobs[j] EXCEPT !.progress = progress]
  <1>1. jobs[j] \in Job /\ jobs[j] # NoJob
    BY DEF UpdateProgress, UpdateApplies, TypeOK, Stores
  <1>2. b \in Job /\ b.status = jobs[j].status
    BY <1>1 DEF Job
  <1>3. jobs' = [jobs EXCEPT ![j] = b]
    BY DEF UpdateProgress
  <1>4. JobStatus' = [JobStatus EXCEPT ![j] = b.status]
    BY <1>2, <1>3, OneStatus
  <1>5. QED
    BY <1>1, <1>2, <1>4 DEF JobStatus

\* mark_finished and mark_failed.
LEMMA MarkStatus ==
  ASSUME TypeOK, NEW j \in JobIds, NEW saved
  PROVE  /\ MarkFinished(j, saved) => JobStatus' = [JobStatus EXCEPT ![j] = "finished"]
         /\ MarkFailed(j, saved) => JobStatus' = [JobStatus EXCEPT ![j] = "failed"]
  <1>1. ASSUME NEW b, b \in {FinishedJob(jobs[j]), FailedJob(jobs[j])}, Mark(j, b, saved)
        PROVE  JobStatus' = [JobStatus EXCEPT ![j] = b.status]
    <2>1. jobs[j] \in Job
      BY <1>1 DEF Mark, TypeOK, Stores
    <2>2. b \in Job
      BY <1>1, <2>1, FinalEvolves DEF Evolves
    <2>3. QED
      BY <1>1, <2>2, OneStatus DEF Mark
  <1>2. ASSUME jobs[j] \in Job
        PROVE  FinishedJob(jobs[j]).status = "finished" /\ FailedJob(jobs[j]).status = "failed"
    BY <1>2 DEF FinishedJob, FailedJob, Job
  <1>3. jobs[j] # NoJob => jobs[j] \in Job
    BY DEF TypeOK, Stores
  <1>4. ASSUME MarkFinished(j, saved)
        PROVE  JobStatus' = [JobStatus EXCEPT ![j] = "finished"]
    BY <1>1, <1>2, <1>3, <1>4 DEF MarkFinished, Mark
  <1>5. ASSUME MarkFailed(j, saved)
        PROVE  JobStatus' = [JobStatus EXCEPT ![j] = "failed"]
    BY <1>1, <1>2, <1>3, <1>5 DEF MarkFailed, Mark
  <1>6. QED
    BY <1>4, <1>5

\* Speaking changes the status of the task's job at its end only, unless it is to mark it.
LEMMA SpeechStatus ==
  ASSUME TypeOK, NEW t \in Tasks, NEW saved, task[t].job \in JobIds, Speaks(t, saved),
         task[t].pc # "marking"
  PROVE  \/ JobStatus' = JobStatus
         \/ /\ task[t].pc = "finishing"
            /\ task'[t].pc = IF saved THEN "cleanup" ELSE "failing"
            /\ JobStatus' = [JobStatus EXCEPT ![task[t].job] = "finished"]
         \/ /\ task[t].pc = "failing"
            /\ task'[t].pc = "cleanup"
            /\ JobStatus' = [JobStatus EXCEPT ![task[t].job] = "failed"]
  <1>1. CASE UNCHANGED <<vars, caller>>
    BY <1>1 DEF vars, JobStatus
  <1>2. CASE \E progress \in BOOLEAN : UpdateProgress(task[t].job, progress, saved)
    BY <1>2, UpdateStatus
  <1>3. CASE ~UNCHANGED <<vars, caller>> /\ ~\E progress \in BOOLEAN : UpdateProgress(task[t].job, progress, saved)
    BY <1>3, MarkStatus DEF Speaks
  <1>4. QED
    BY <1>1, <1>2, <1>3

-----------------------------------------------------------------------------
(***************************************************************************)
(* Where one job is evaluated at a time, which is the default.             *)
(***************************************************************************)
\* One task is alive at most, and none while a claimed job waits for its task.
LEMMA SoleLive ==
  ASSUME SerialInv
  PROVE  /\ \A t, u \in Tasks : Live(t) /\ Live(u) => t = u
         /\ \A t \in Tasks : Live(t) => task[t].job \in JobIds /\ inFlight[task[t].job] = t
         /\ \A t \in Tasks : Live(t) => toSpawn = {}
         /\ loop # "spawn" => toSpawn = {}
  <1>1. \A t \in Tasks : Live(t) => task[t].job \in JobIds /\ inFlight[task[t].job] = t
    BY DEF SerialInv, Entered
  <1>2. \A t \in Tasks : t # NoTask
    BY WorkerAssumption
  <1>3. \A t, u \in Tasks : Live(t) /\ Live(u) => t = u
    BY <1>1, <1>2 DEF SerialInv, AtMostOne
  <1>4. \A t \in Tasks : Live(t) => toSpawn = {}
    BY <1>1, <1>2 DEF SerialInv, Waiting
  <1>5. loop # "spawn" => toSpawn = {}
    BY DEF SerialInv, Waiting
  <1>6. QED
    BY <1>1, <1>3, <1>4, <1>5

\* A task that is created or about its job is alive.
LEMMA EarlyLive ==
  ASSUME NEW t \in Tasks
  PROVE  task[t].pc \in EarlyPcs \cup {"failing"} => Live(t)
  BY DEF EarlyPcs, Live

\* The limit of one is a slot for one job, when there is no entry.
LEMMA OneSlot ==
  ASSUME MaxConcurrentJobs = 1, WorkerInv, Slots > 0
  PROVE  /\ \A j \in JobIds : inFlight[j] = NoTask
         /\ AtMostOne(FirstPending(Slots))
  <1> DEFINE entries == {j \in JobIds : inFlight[j] # NoTask}
             pending == WithStatus(jobs, {"pending"})
             Before(j) == {i \in pending : i < j}
  <1>1. IsFiniteSet(entries) /\ Cardinality(entries) \in Nat
    BY FiniteJobs
  <1>2. Slots = 1 - Cardinality(entries)
    BY DEF Slots
  <1>3. Cardinality(entries) = 0 /\ Slots = 1
    BY <1>1, <1>2
  <1>4. entries = {}
    BY <1>1, <1>3, FS_EmptySet
  <1>5. pending \subseteq JobIds
    BY DEF WithStatus, Present
  <1>6. ASSUME NEW i \in pending, NEW j \in pending, i < j
        PROVE  ~(Cardinality(Before(j)) < 1)
    <2>1. Before(j) \subseteq JobIds /\ i \in Before(j)
      BY <1>5, <1>6
    <2>2. IsFiniteSet(Before(j)) /\ Cardinality(Before(j)) \in Nat
      BY <2>1, FiniteJobs
    <2>3. Cardinality(Before(j)) # 0
      BY <2>1, <2>2, FS_EmptySet
    <2>4. QED
      BY <2>2, <2>3
  <1>7. FirstPending(Slots) = {j \in pending : Cardinality(Before(j)) < 1}
    BY <1>3 DEF FirstPending
  <1>8. \A i, j \in pending : i < j \/ j < i \/ i = j
    BY <1>5 DEF JobIds
  <1>9. AtMostOne(FirstPending(Slots))
    <2> HIDE DEF Before, pending
    <2>1. QED
      BY <1>6, <1>7, <1>8 DEF AtMostOne
  <1>10. QED
    BY <1>4, <1>9

\* Statuses that move without a task's doing, while no lease is renewed in vain.
LEMMA StatusFrame ==
  ASSUME SerialInv, UNCHANGED <<toSpawn, inFlight, task>>, loop' = loop \/ toSpawn = {},
         \A j \in JobIds : JobStatus'[j] = JobStatus[j] \/ JobStatus'[j] \in ActiveStatuses,
         \A j \in toSpawn : JobStatus'[j] = JobStatus[j],
         \A t \in Tasks : task[t].pc = "created" => JobStatus'[task[t].job] = JobStatus[task[t].job]
  PROVE  SerialInv'
  <1>1. ASSUME NEW t \in Tasks PROVE Entered(t)'
    <2>1. Entered(t) /\ task'[t] = task[t] /\ inFlight' = inFlight
      BY DEF SerialInv
    <2>2. task[t].pc \in EarlyPcs => task[t].job \in JobIds
      BY <2>1, EarlyLive DEF Entered
    <2>3. QED
      BY <2>1, <2>2 DEF Entered, Live
  <1>2. \A j \in toSpawn' : Waiting(j)'
    BY DEF SerialInv, Waiting
  <1>3. QED
    BY <1>1, <1>2 DEF SerialInv

\* A step of a task.
LEMMA TaskSerial ==
  ASSUME WorkerInv, SerialInv, NEW t \in Tasks, NEW saved, Works(t), Speaks(t, saved)
  PROVE  SerialInv'
  <1>1. task[t].job \in JobIds
    BY DEF Works, WorkerInv, Owned, TypeOK
  <1>2. UNCHANGED <<loop, toSpawn, inFlight>>
    BY DEF Works
  <1>3. \/ JobStatus' = JobStatus
        \/ /\ Live(t)
           /\ task'[t].pc \notin EarlyPcs
           /\ \E s : JobStatus' = [JobStatus EXCEPT ![task[t].job] = s]
    <2>1. task[t].pc # "marking"
      BY DEF SerialInv, Entered
    <2>2. QED
      BY <1>1, <2>1, SpeechStatus DEF WorkerInv, Live, EarlyPcs
  <1>4. ASSUME NEW u \in Tasks PROVE Entered(u)'
    <2>1. CASE u = t
      <3>1. Entered(t)
        BY DEF SerialInv
      <3>2. task'[t].pc = "created" => task'[t].pc \in EarlyPcs
        BY DEF EarlyPcs
      <3>3. task'[t].pc \in EarlyPcs => JobStatus' = JobStatus
        BY <1>3
      <3>4. task'[t].pc # "marking"
        <4>1. task[t].pc = "created" => FoundEvaluating(t)
          BY <1>1, <3>1, StatusOf DEF Entered, FoundEvaluating
        <4>2. QED
          BY <3>1, <4>1 DEF Entered, Works
      <3>5. QED
        BY <1>2, <2>1, <3>1, <3>2, <3>3, <3>4 DEF Entered, Works
    <2>2. CASE u # t
      <3>1. Entered(u) /\ task'[u] = task[u]
        BY <2>2 DEF SerialInv, Works
      <3>2. Live(u) => JobStatus' = JobStatus
        BY <1>3, <2>2, SoleLive
      <3>3. task[u].pc = "created" => task[u].pc \in EarlyPcs
        BY DEF EarlyPcs
      <3>4. task[u].pc \in EarlyPcs => JobStatus' = JobStatus
        BY <3>2, EarlyLive
      <3>5. QED
        BY <1>2, <3>1, <3>3, <3>4 DEF Entered, Live
    <2>3. QED
      BY <2>1, <2>2
  <1>5. ASSUME NEW j \in toSpawn PROVE Waiting(j)'
    <2>1. Waiting(j) /\ JobStatus' = JobStatus
      BY <1>3, SoleLive DEF SerialInv
    <2>2. QED
      BY <1>2, <2>1 DEF Waiting
  <1>6. QED
    BY <1>2, <1>4, <1>5 DEF SerialInv

\* A poll that creates the task of the job it claimed.
LEMMA SpawnSerial ==
  ASSUME WorkerInv, SerialInv, LoopSpawn
  PROVE  SerialInv'
  <1>1. WorkerTyped
    BY DEF WorkerInv
  <1>2. /\ \A t \in Tasks :
              \/ task'[t] = task[t] /\ \A j \in toSpawn : inFlight'[j] # t
              \/ \E j \in toSpawn : inFlight'[j] = t /\ task'[t] = CreatedFor(j)
        /\ \A j \in toSpawn : inFlight'[j] \in Tasks /\ Spare(inFlight'[j])
        /\ \A j \in JobIds \ toSpawn : inFlight'[j] = inFlight[j]
    BY <1>1, SpawnEffect
  <1>3. toSpawn' = {} /\ JobStatus' = JobStatus
    BY DEF LoopSpawn, vars, JobStatus
  <1>4. toSpawn \subseteq JobIds
    BY <1>1 DEF WorkerTyped
  <1>5. ASSUME NEW t \in Tasks PROVE Entered(t)'
    <2>1. CASE task'[t] = task[t] /\ \A j \in toSpawn : inFlight'[j] # t
      <3>1. Entered(t)
        BY DEF SerialInv
      <3>2. Live(t) => toSpawn = {}
        BY SoleLive
      <3>3. Live(t) => inFlight'[task[t].job] = inFlight[task[t].job]
        BY <1>2, <3>1, <3>2 DEF Entered
      <3>4. QED
        BY <1>3, <2>1, <3>1, <3>3 DEF Entered, Live
    <2>2. CASE \E j \in toSpawn : inFlight'[j] = t /\ task'[t] = CreatedFor(j)
      <3>1. PICK j \in toSpawn : inFlight'[j] = t /\ task'[t] = CreatedFor(j)
        BY <2>2
      <3>2. task'[t].job = j /\ task'[t].pc = "created" /\ task'[t].hb = "off"
        BY <3>1 DEF CreatedFor, NoRun
      <3>3. JobStatus'[j] = "evaluating" /\ j \in JobIds
        BY <1>3, <1>4 DEF SerialInv, Waiting
      <3>4. QED
        BY <3>1, <3>2, <3>3 DEF Entered, ActiveStatuses
    <2>3. QED
      BY <1>2, <2>1, <2>2
  <1>6. AtMostOne({j \in JobIds : inFlight'[j] # NoTask})
    <2>1. CASE toSpawn = {}
      BY <1>2, <2>1 DEF SerialInv, AtMostOne
    <2>2. CASE toSpawn # {}
      BY <1>2, <2>2 DEF SerialInv, AtMostOne, Waiting
    <2>3. QED
      BY <2>1, <2>2
  <1>7. QED
    BY <1>3, <1>5, <1>6 DEF SerialInv, AtMostOne

\* Every poll.
LEMMA LoopSerial ==
  ASSUME MaxConcurrentJobs = 1, WorkerInv, SerialInv, NEW saved \in BOOLEAN, LoopStep(saved)
  PROVE  SerialInv'
  <1>1. CASE LoopReap
    <2>1. UNCHANGED <<vars, task, toSpawn>> /\ toSpawn = {}
      BY <1>1, SoleLive DEF LoopReap
    <2>2. JobStatus' = JobStatus
      BY <2>1 DEF vars, JobStatus
    <2>3. \A j \in JobIds : inFlight'[j] = inFlight[j] \/ (inFlight'[j] = NoTask /\ task[inFlight[j]].pc = "done")
      BY <1>1 DEF LoopReap
    <2>4. ASSUME NEW t \in Tasks PROVE Entered(t)'
      <3>1. Entered(t) /\ task'[t] = task[t]
        BY <2>1 DEF SerialInv
      <3>2. Live(t) => inFlight'[task[t].job] = t
        BY <2>3, <3>1 DEF Entered, Live
      <3>3. QED
        BY <2>2, <3>1, <3>2 DEF Entered, Live
    <2>5. AtMostOne({j \in JobIds : inFlight'[j] # NoTask})
      BY <2>3 DEF SerialInv, AtMostOne
    <2>6. QED
      BY <2>1, <2>4, <2>5 DEF SerialInv, AtMostOne
  <1>2. CASE LoopReclaimNothing \/ LoopClaimNothing
    <2>1. UNCHANGED <<vars, task, toSpawn, inFlight>> /\ toSpawn = {}
      BY <1>2, SoleLive DEF LoopReclaimNothing, LoopClaimNothing
    <2>2. JobStatus' = JobStatus
      BY <2>1 DEF vars, JobStatus
    <2>3. QED
      BY <2>1, <2>2, StatusFrame
  <1>3. ASSUME NEW ids \in SUBSET Lapsed, LoopReclaim(ids, saved)
        PROVE  SerialInv'
    <2>1. UNCHANGED <<task, toSpawn, inFlight>> /\ toSpawn = {} /\ ReclaimStaleJobs(ids, saved)
      BY <1>3, SoleLive DEF LoopReclaim
    <2>2. /\ ids \subseteq JobIds
          /\ JobStatus' = [j \in JobIds |-> IF j \in ids THEN "pending" ELSE JobStatus[j]]
      BY <2>1, ReclaimStatus DEF WorkerInv
    <2>3. ASSUME NEW t \in Tasks, task[t].pc = "created"
          PROVE  task[t].job \in JobIds \ ids
      <3>1. Live(t) /\ task[t].hb # "dead" /\ task[t].job \in JobIds
        BY <2>3 DEF Live, SerialInv, Entered
      <3>2. Renewed(task[t].job)
        BY <3>1 DEF Renewed
      <3>3. QED
        BY <3>1, <3>2 DEF Lapsed
    <2>4. \A j \in JobIds : JobStatus'[j] = JobStatus[j] \/ JobStatus'[j] \in ActiveStatuses
      BY <2>2 DEF ActiveStatuses
    <2>5. \A t \in Tasks : task[t].pc = "created" => JobStatus'[task[t].job] = JobStatus[task[t].job]
      BY <2>2, <2>3
    <2>6. QED
      BY <2>1, <2>4, <2>5, StatusFrame
  <1>4. CASE LoopClaim(saved)
    <2>1. /\ UNCHANGED <<task, inFlight>>
          /\ ClaimPending(Slots, saved)
          /\ toSpawn' = IF saved THEN FirstPending(Slots) ELSE {}
          /\ loop' = IF saved THEN "spawn" ELSE "sleep"
      BY <1>4 DEF LoopClaim
    <2>2. Slots > 0
      BY <2>1 DEF ClaimPending
    <2>3. (\A j \in JobIds : inFlight[j] = NoTask) /\ AtMostOne(FirstPending(Slots))
      BY <2>2, OneSlot
    <2>4. /\ FirstPending(Slots) \subseteq JobIds
          /\ JobStatus' = [j \in JobIds |-> IF j \in FirstPending(Slots) THEN "evaluating" ELSE JobStatus[j]]
      BY <2>1, ClaimStatus DEF WorkerInv
    <2>5. \A t \in Tasks : ~Live(t)
      BY <2>3, SoleLive, WorkerAssumption
    <2>6. ASSUME NEW t \in Tasks PROVE Entered(t)'
      <3>1. ~Live(t) /\ task' = task
        BY <2>1, <2>5
      <3>2. QED
        BY <3>1 DEF Entered, Live, EarlyPcs
    <2>7. ASSUME NEW j \in toSpawn' PROVE Waiting(j)'
      BY <2>1, <2>3, <2>4 DEF Waiting
    <2>8. AtMostOne(toSpawn')
      BY <2>1, <2>3 DEF AtMostOne
    <2>9. QED
      BY <2>1, <2>6, <2>7, <2>8 DEF SerialInv, AtMostOne
  <1>5. CASE LoopSpawn
    BY <1>5, SpawnSerial
  <1>6. QED
    BY <1>1, <1>2, <1>3, <1>4, <1>5 DEF LoopStep

\* Every step of the worker, its loop, its tasks and the process keeps one job at a time.
LEMMA SerialStep ==
  ASSUME MaxConcurrentJobs = 1, WorkerInv, SerialInv, [WorkerNext]_allVars
  PROVE  SerialInv'
  <1>1. SaveOutcomes \subseteq BOOLEAN
    BY DEF SaveOutcomes
  <1>2. ASSUME NEW saved \in SaveOutcomes, NEW r \in Requests, AppSubmit(r, saved)
        PROVE  SerialInv'
    <2>1. UNCHANGED <<loop, toSpawn, inFlight, task>> /\ SubmitNew(r, saved)
      BY <1>2 DEF AppSubmit
    <2>2. PICK j \in JobIds : JobStatus[j] = "none" /\ JobStatus' = [JobStatus EXCEPT ![j] = "pending"]
      BY <2>1, SubmitStatus DEF WorkerInv
    <2>3. \A i \in JobIds : JobStatus'[i] = IF i = j THEN "pending" ELSE JobStatus[i]
      BY <2>2 DEF JobStatus
    <2>4. j \notin toSpawn
      BY <2>2 DEF SerialInv, Waiting
    <2>5. \A t \in Tasks : task[t].pc = "created" => task[t].job \in JobIds \ {j}
      BY <2>2 DEF SerialInv, Entered, Live
    <2>6. toSpawn \subseteq JobIds
      BY DEF WorkerInv, WorkerTyped
    <2>7. QED
      BY <2>1, <2>3, <2>4, <2>5, <2>6, StatusFrame DEF ActiveStatuses
  <1>3. ASSUME NEW saved \in SaveOutcomes, LoopStep(saved)
        PROVE  SerialInv'
    BY <1>1, <1>3, LoopSerial
  <1>4. ASSUME NEW saved \in SaveOutcomes, NEW t \in Tasks, Works(t), Speaks(t, saved)
        PROVE  SerialInv'
    BY <1>4, TaskSerial
  <1>5. ASSUME NEW saved \in SaveOutcomes, ProcessRestart(saved)
        PROVE  SerialInv'
    <2>1. task' = [t \in Tasks |-> NoRun] /\ toSpawn' = {} /\ inFlight' = [j \in JobIds |-> NoTask]
      BY <1>5 DEF ProcessRestart
    <2>2. QED
      BY <2>1 DEF SerialInv, Entered, Live, NoRun, EarlyPcs, AtMostOne
  <1>6. ASSUME OperationReturns
        PROVE  SerialInv'
    <2>1. UNCHANGED <<loop, toSpawn, inFlight, task, jobs>>
      BY <1>6 DEF OperationReturns, SyncToHub
    <2>2. JobStatus' = JobStatus
      BY <2>1 DEF JobStatus
    <2>3. QED
      BY <2>1, <2>2, StatusFrame
  <1>7. CASE UNCHANGED allVars
    <2>1. UNCHANGED <<loop, toSpawn, inFlight, task, jobs>>
      BY <1>7 DEF allVars, vars, workerVars
    <2>2. JobStatus' = JobStatus
      BY <2>1 DEF JobStatus
    <2>3. QED
      BY <2>1, <2>2, StatusFrame
  <1>8. QED
    BY <1>2, <1>3, <1>4, <1>5, <1>6, <1>7, StepCases

\* With one job at a time no task marks its job again; with more it may.
LEMMA WholeStep ==
  ASSUME WorkerInv, MaxConcurrentJobs = 1 => SerialInv, [WorkerNext]_allVars
  PROVE  WorkerInv' /\ (MaxConcurrentJobs = 1 => SerialInv')
  <1>1. TypeOK' /\ Fresh' /\ WorkerTyped' /\ Owned'
    BY WorkerInductive
  <1>2. MaxConcurrentJobs = 1 => SerialInv'
    BY SerialStep
  <1>3. MaxConcurrentJobs = 1 \/ SeveralAtOnce
    BY WorkerAssumption
  <1>4. SerialInv' => Unmarked'
    BY DEF SerialInv, Entered, Unmarked
  <1>5. Unmarked'
    BY <1>2, <1>3, <1>4 DEF Unmarked
  <1>6. QED
    BY <1>1, <1>2, <1>5 DEF WorkerInv

\* A worker that starts has no task.
LEMMA SerialStarts == WorkerInit => SerialInv
  BY DEF WorkerInit, SerialInv, Entered, Live, NoRun, EarlyPcs, AtMostOne

\* The worker's variables keep their types, and whatever a task, run or heartbeat reports on
\* was claimed by this process, through failed saves, lost leases and restarts.
THEOREM WorkerInvariance == WorkerSpec => []WorkerInv
  <1> DEFINE Inv == WorkerInv /\ (MaxConcurrentJobs = 1 => SerialInv)
  <1>1. WorkerInit => Inv
    BY WorkerStarts, SerialStarts
  <1>2. Inv /\ [WorkerNext]_allVars => Inv'
    BY WholeStep
  <1>3. QED
    BY <1>1, <1>2, PTL DEF WorkerSpec

\* One entry at most is in flight, of the one live task there may be, whose job has no outcome
\* before the task comes to its end.
THEOREM SerialInvariance == ASSUME MaxConcurrentJobs = 1 PROVE WorkerSpec => []SerialInv
  <1>1. WorkerInv /\ SerialInv /\ [WorkerNext]_allVars => SerialInv'
    BY SerialStep
  <1>2. QED
    BY <1>1, SerialStarts, WorkerInvariance, PTL DEF WorkerSpec

\* The worker implements the queue's specification: every call of a task, run, heartbeat or
\* poll, however late, is one that JobQueue allows; with one job at a time none of them is
\* mark_evaluating.
THEOREM WorkerIsACaller == WorkerSpec => Spec
  <1>1. WorkerInit => Init
    BY DEF WorkerInit
  <1>2. QED
    BY <1>1, WorkerInvariance, StepImplements, PTL DEF WorkerSpec, Spec

\* So what the queue keeps it keeps under its worker: with one job at a time, and where a
\* restart finds one store only, there are no duplicates and no excess, though the worker may
\* report late, and the jobs agree with themselves.
THEOREM QueueUnderWorker ==
  ASSUME OneStore, OneAtATime
  PROVE  WorkerSpec => [](RecordsCoherent /\ OneActivePerFingerprint /\ WithinLimits)
  BY WorkerIsACaller, Coherence, DedupeHolds, LimitsHold, PTL

\* No job is evaluated by two tasks at a time and no more than one job is evaluated, whatever
\* heartbeats die, saves fail and leases are reclaimed.
THEOREM Exclusive == ASSUME MaxConcurrentJobs = 1 PROVE WorkerSpec => []EvaluationsExclusive
  <1>1. ASSUME SerialInv PROVE EvaluationsExclusive
    <2>1. \A t, u \in LiveTasks : t = u
      BY <1>1, SoleLive DEF LiveTasks
    <2>2. CASE LiveTasks = {}
      <3>1. Cardinality(LiveTasks) = 0
        BY <2>2, FS_EmptySet
      <3>2. QED
        BY <2>1, <3>1 DEF EvaluationsExclusive
    <2>3. CASE LiveTasks # {}
      <3>1. PICK t \in LiveTasks : TRUE
        BY <2>3
      <3>2. LiveTasks = {t}
        BY <2>1, <3>1
      <3>3. Cardinality(LiveTasks) = 1
        BY <3>2, FS_Singleton
      <3>4. QED
        BY <2>1, <3>3 DEF EvaluationsExclusive
    <2>4. QED
      BY <2>2, <2>3
  <1>2. QED
    BY <1>1, SerialInvariance, PTL

\* A task that starts finds its job evaluating: no other task, lapsed lease or restart gets
\* between the claim and its task.
THEOREM Claimed == ASSUME MaxConcurrentJobs = 1 PROVE WorkerSpec => []ClaimedJobIsEvaluating
  <1>1. ASSUME WorkerInv, SerialInv PROVE ClaimedJobIsEvaluating
    <2>1. ASSUME NEW t \in Tasks, task[t].pc = "created"
          PROVE  jobs[task[t].job].status = "evaluating"
      <3>1. task[t].job \in JobIds /\ JobStatus[task[t].job] = "evaluating"
        BY <1>1, <2>1 DEF SerialInv, Entered, Live
      <3>2. QED
        BY <3>1, StatusOf
    <2>2. QED
      BY <2>1 DEF ClaimedJobIsEvaluating
  <1>2. QED
    BY <1>1, WorkerInvariance, SerialInvariance, PTL

-----------------------------------------------------------------------------
(***************************************************************************)
(* Outcomes and the life cycle of a job.                                   *)
(***************************************************************************)
\* What a step, other than a restart, does to the statuses.
LEMMA StatusMoves ==
  ASSUME WorkerInv, SerialInv, WorkerNext
  PROVE  \/ \E j \in JobIds :
              JobStatus[j] = "none" /\ JobStatus' = [JobStatus EXCEPT ![j] = "pending"]
         \/ \E S \in SUBSET JobIds :
              /\ S # {}
              /\ \A j \in S : JobStatus[j] = "pending"
              /\ JobStatus' = [j \in JobIds |-> IF j \in S THEN "evaluating" ELSE JobStatus[j]]
         \/ \E S \in SUBSET JobIds :
              /\ S # {}
              /\ \A j \in S : JobStatus[j] = "evaluating"
              /\ JobStatus' = [j \in JobIds |-> IF j \in S THEN "pending" ELSE JobStatus[j]]
         \/ \E t \in Tasks : \E s \in FinalStatuses :
              /\ task[t].job \in JobIds
              /\ \/ task[t].pc = "finishing" /\ s = "finished"
                 \/ task[t].pc = "failing" /\ s = "failed"
              /\ JobStatus' = [JobStatus EXCEPT ![task[t].job] = s]
         \/ JobStatus' = JobStatus
         \/ \E saved \in SaveOutcomes : ProcessRestart(saved)
  <1> DEFINE Taken == \E S \in SUBSET JobIds :
                 /\ S # {}
                 /\ \A j \in S : JobStatus[j] = "pending"
                 /\ JobStatus' = [j \in JobIds |-> IF j \in S THEN "evaluating" ELSE JobStatus[j]]
             Returned == \E S \in SUBSET JobIds :
                 /\ S # {}
                 /\ \A j \in S : JobStatus[j] = "evaluating"
                 /\ JobStatus' = [j \in JobIds |-> IF j \in S THEN "pending" ELSE JobStatus[j]]
  <1>1. TypeOK /\ Fresh
    BY DEF WorkerInv
  <1>2. ASSUME NEW saved \in SaveOutcomes, NEW r \in Requests, AppSubmit(r, saved)
        PROVE  \E j \in JobIds : JobStatus[j] = "none" /\ JobStatus' = [JobStatus EXCEPT ![j] = "pending"]
    BY <1>1, <1>2, SubmitStatus DEF AppSubmit
  <1>3. ASSUME NEW saved \in SaveOutcomes, LoopStep(saved)
        PROVE  Taken \/ Returned \/ JobStatus' = JobStatus
    <2>1. CASE LoopReap \/ LoopReclaimNothing \/ LoopClaimNothing \/ LoopSpawn
      <3>1. jobs' = jobs
        BY <2>1 DEF LoopReap, LoopReclaimNothing, LoopClaimNothing, LoopSpawn, vars
      <3>2. QED
        BY <3>1 DEF JobStatus
    <2>2. ASSUME NEW ids \in SUBSET Lapsed, LoopReclaim(ids, saved)
          PROVE  Returned
      <3>1. ReclaimStaleJobs(ids, saved) /\ ids # {}
        BY <2>2 DEF LoopReclaim, ReclaimStaleJobs
      <3>2. /\ ids \subseteq JobIds
            /\ \A j \in ids : JobStatus[j] = "evaluating"
            /\ JobStatus' = [j \in JobIds |-> IF j \in ids THEN "pending" ELSE JobStatus[j]]
        BY <1>1, <3>1, ReclaimStatus
      <3>3. QED
        BY <3>1, <3>2
    <2>3. CASE LoopClaim(saved)
      <3>1. ClaimPending(Slots, saved) /\ FirstPending(Slots) # {}
        BY <2>3 DEF LoopClaim, ClaimPending
      <3>2. /\ FirstPending(Slots) \subseteq JobIds
            /\ \A j \in FirstPending(Slots) : JobStatus[j] = "pending"
            /\ JobStatus' = [j \in JobIds |-> IF j \in FirstPending(Slots) THEN "evaluating" ELSE JobStatus[j]]
        BY <1>1, <3>1, ClaimStatus
      <3>3. QED
        BY <3>1, <3>2
    <2>4. QED
      BY <1>3, <2>1, <2>2, <2>3 DEF LoopStep
  <1>4. ASSUME NEW saved \in SaveOutcomes, NEW t \in Tasks, Works(t), Speaks(t, saved)
        PROVE  \/ \E s \in FinalStatuses :
                    /\ task[t].job \in JobIds
                    /\ \/ task[t].pc = "finishing" /\ s = "finished"
                       \/ task[t].pc = "failing" /\ s = "failed"
                    /\ JobStatus' = [JobStatus EXCEPT ![task[t].job] = s]
               \/ JobStatus' = JobStatus
    <2>1. task[t].job \in JobIds
      BY <1>4 DEF Works, WorkerInv, Owned, TypeOK
    <2>2. task[t].pc # "marking"
      BY DEF SerialInv, Entered
    <2>3. QED
      BY <1>1, <1>4, <2>1, <2>2, SpeechStatus DEF FinalStatuses
  <1>5. ASSUME OperationReturns PROVE JobStatus' = JobStatus
    BY <1>5 DEF OperationReturns, SyncToHub, JobStatus
  <1>6. QED
    BY <1>2, <1>3, <1>4, <1>5, StepCases

\* Where one job is evaluated at a time, no outcome in memory is undone and no failure
\* becomes a success.
LEMMA OutcomesMove ==
  ASSUME WorkerInv, SerialInv, WorkerNext, \A saved \in SaveOutcomes : ~ProcessRestart(saved),
         NEW j \in JobIds
  PROVE  /\ JobStatus[j] \in FinalStatuses => JobStatus'[j] \in FinalStatuses
         /\ JobStatus[j] = "failed" => JobStatus'[j] = "failed"
  <1>1. \A i \in JobIds : JobStatus[i] \in ActiveStatuses \cup {"none"} =>
          JobStatus[i] \notin FinalStatuses /\ JobStatus[i] # "failed"
    BY DEF FinalStatuses, ActiveStatuses
  <1>2. JobStatus = [i \in JobIds |-> JobStatus[i]]
    BY DEF JobStatus
  <1>3. ASSUME NEW t \in Tasks, NEW s \in FinalStatuses,
               task[t].job \in JobIds,
               \/ task[t].pc = "finishing" /\ s = "finished"
               \/ task[t].pc = "failing" /\ s = "failed",
               JobStatus' = [JobStatus EXCEPT ![task[t].job] = s]
        PROVE  /\ JobStatus[j] \in FinalStatuses => JobStatus'[j] \in FinalStatuses
               /\ JobStatus[j] = "failed" => JobStatus'[j] = "failed"
    <2>1. task[t].pc = "finishing" => JobStatus[task[t].job] \in ActiveStatuses
      BY DEF SerialInv, Entered, EarlyPcs
    <2>2. task[t].pc = "finishing" => JobStatus[task[t].job] # "failed"
      BY <1>1, <1>3, <2>1
    <2>3. CASE j = task[t].job
      BY <1>2, <1>3, <2>2, <2>3
    <2>4. CASE j # task[t].job
      BY <1>2, <1>3, <2>4
    <2>5. QED
      BY <2>3, <2>4
  <1>4. ASSUME NEW i \in JobIds, JobStatus[i] = "none", JobStatus' = [JobStatus EXCEPT ![i] = "pending"]
        PROVE  JobStatus[j] \in FinalStatuses => JobStatus'[j] = JobStatus[j]
    BY <1>2, <1>4 DEF FinalStatuses
  <1>5. ASSUME NEW S \in SUBSET JobIds, NEW from \in ActiveStatuses, NEW to,
               \A i \in S : JobStatus[i] = from,
               JobStatus' = [i \in JobIds |-> IF i \in S THEN to ELSE JobStatus[i]]
        PROVE  JobStatus[j] \in FinalStatuses => JobStatus'[j] = JobStatus[j]
    BY <1>1, <1>5
  <1>6. "pending" \in ActiveStatuses /\ "evaluating" \in ActiveStatuses /\ "failed" \in FinalStatuses
    BY DEF ActiveStatuses, FinalStatuses
  <1>7. QED
    BY <1>3, <1>4, <1>5, <1>6, StatusMoves

\* The jobs with a status, in memory, before a step and after it.
LEMMA StatusSets ==
  ASSUME NEW S, "none" \notin S
  PROVE  /\ WithStatus(jobs, S) = {j \in JobIds : JobStatus[j] \in S}
         /\ WithStatus(jobs', S) = {j \in JobIds : JobStatus'[j] \in S}
  BY DEF WithStatus, Present, JobStatus

\* A deployment with its file on a disk that survives, and no dataset: the default.
LocalOnly == DiskSurvives /\ ~HubEnabled

\* Its restart reads the file.
LEMMA LocalStep ==
  ASSUME LocalOnly, WorkerInv, [WorkerNext]_allVars
  PROVE  \/ jobs' = disk /\ disk' = disk
         \/ /\ disk' \in {disk, jobs'}
            /\ \A saved \in SaveOutcomes : ~ProcessRestart(saved)
  <1>1. TypeOK
    BY DEF WorkerInv
  <1>2. ASSUME NEW saved \in SaveOutcomes, ProcessRestart(saved)
        PROVE  jobs' = disk /\ disk' = disk
    <2>1. PICK remote \in HubStores :
            /\ jobs' = Overlay(LocalStore, remote)
            /\ disk' = IF remote # EmptyStore /\ saved THEN jobs' ELSE LocalStore
      BY <1>2 DEF ProcessRestart, Restart
    <2>2. remote = EmptyStore /\ LocalStore = disk
      BY <2>1 DEF HubStores, LocalStore, LocalOnly
    <2>3. Overlay(disk, EmptyStore) = disk
      BY <1>1 DEF Overlay, EmptyStore, TypeOK, Stores
    <2>4. QED
      BY <2>1, <2>2, <2>3
  <1>3. disk' \in {disk, jobs'} \/ Restarted
    BY <1>1, StepImplements, NextEffect DEF Worked, Saved, Synced
  <1>4. ASSUME Restarted
        PROVE  jobs' = disk /\ disk' = disk
    <2>1. PICK remote \in HubStores : jobs' = Overlay(LocalStore, remote) /\ disk' \in {jobs', LocalStore}
      BY <1>4 DEF Restarted
    <2>2. remote = EmptyStore /\ LocalStore = disk
      BY <2>1 DEF HubStores, LocalStore, LocalOnly
    <2>3. Overlay(disk, EmptyStore) = disk
      BY <1>1 DEF Overlay, EmptyStore, TypeOK, Stores
    <2>4. QED
      BY <2>1, <2>2, <2>3
  <1>5. QED
    BY <1>2, <1>3, <1>4

\* What the file records is never behind what it recorded.
LEMMA FileStep ==
  ASSUME LocalOnly, WorkerInv, SerialInv, FileInv, [WorkerNext]_allVars
  PROVE  /\ FileInv'
         /\ WithStatus(disk, FinalStatuses) \subseteq WithStatus(disk', FinalStatuses)
         /\ WithStatus(disk, {"failed"}) \subseteq WithStatus(disk', {"failed"})
  <1>1. CASE jobs' = disk /\ disk' = disk
    BY <1>1 DEF FileInv, WithStatus, Present
  <1>2. CASE disk' \in {disk, jobs'} /\ \A saved \in SaveOutcomes : ~ProcessRestart(saved)
    <2>1. \A j \in JobIds : /\ JobStatus[j] \in FinalStatuses => JobStatus'[j] \in FinalStatuses
                            /\ JobStatus[j] = "failed" => JobStatus'[j] = "failed"
      <3>1. CASE WorkerNext
        BY <1>2, <3>1, OutcomesMove
      <3>2. CASE UNCHANGED allVars
        BY <3>2 DEF allVars, vars, JobStatus
      <3>3. QED
        BY <3>1, <3>2
    <2>2. "none" \notin FinalStatuses /\ "none" \notin {"failed"}
      BY DEF FinalStatuses
    <2>3. /\ WithStatus(jobs, FinalStatuses) \subseteq WithStatus(jobs', FinalStatuses)
          /\ WithStatus(jobs, {"failed"}) \subseteq WithStatus(jobs', {"failed"})
      BY <2>1, <2>2, StatusSets
    <2>4. QED
      BY <1>2, <2>3 DEF FileInv, WithStatus, Present
  <1>3. QED
    BY <1>1, <1>2, LocalStep

\* An outcome in jobs.json is never undone, and a failure never becomes a success, whatever
\* late tasks, failed saves and restarts follow.
THEOREM RecordedStands ==
  ASSUME MaxConcurrentJobs = 1, LocalOnly
  PROVE  WorkerSpec => RecordedOutcomeStands
  <1> DEFINE Kept == \A j \in WithStatus(disk, FinalStatuses) :
                       /\ j \in WithStatus(disk', FinalStatuses)
                       /\ disk[j].status = "failed" => disk'[j].status = "failed"
  <1>1. WorkerInit => FileInv
    BY DEF WorkerInit, Init, FileInv
  <1>2. ASSUME WorkerInv, SerialInv, FileInv, [WorkerNext]_allVars
        PROVE  FileInv' /\ Kept
    <2>1. /\ FileInv'
          /\ WithStatus(disk, FinalStatuses) \subseteq WithStatus(disk', FinalStatuses)
          /\ WithStatus(disk, {"failed"}) \subseteq WithStatus(disk', {"failed"})
      BY <1>2, FileStep
    <2>2. ASSUME NEW j \in WithStatus(disk, FinalStatuses), disk[j].status = "failed"
          PROVE  disk'[j].status = "failed"
      <3>1. j \in WithStatus(disk, {"failed"})
        BY <2>2 DEF WithStatus
      <3>2. QED
        BY <2>1, <3>1 DEF WithStatus
    <2>3. QED
      BY <2>1, <2>2
  <1>3. WorkerInv /\ SerialInv /\ FileInv /\ [WorkerNext]_allVars => FileInv' /\ [Kept]_allVars
    BY <1>2
  <1>4. QED
    BY <1>1, <1>3, WorkerInvariance, SerialInvariance, PTL DEF WorkerSpec, RecordedOutcomeStands

-----------------------------------------------------------------------------
(***************************************************************************)
(* Where every save succeeds, no heartbeat dies and no lease of a live     *)
(* task lapses, so a task's job is evaluating until the task marks it.     *)
(***************************************************************************)
\* A heartbeat dies of a save that failed.
LEMMA BeatAfter ==
  ASSUME WorkerTyped, NEW t \in Tasks, NEW saved,
         BodyStep(t, saved) \/ RunStep(t, saved) \/ Heartbeat(t, saved)
  PROVE  task'[t].hb = "dead" => task[t].hb = "dead" \/ ~saved
  <1>1. task[t] \in TaskRecords /\ task \in [Tasks -> TaskRecords]
    BY DEF WorkerTyped
  <1>2. ASSUME NEW pc, Goto(t, pc) PROVE task'[t].hb = task[t].hb
    BY <1>1, <1>2 DEF Goto, TaskRecords
  <1>3. ASSUME NEW at, RunTo(t, at) PROVE task'[t].hb = task[t].hb
    BY <1>1, <1>3 DEF RunTo, TaskRecords
  <1>4. ASSUME NEW pc, RunDone(t, pc) PROVE task'[t].hb = task[t].hb
    BY <1>1, <1>4 DEF RunDone, TaskRecords
  <1>5. CASE BodyStep(t, saved)
    <2>1. CASE TaskLoad(t) \/ TaskLoadFails(t) \/ TaskBegin(t, saved) \/ TaskUploading(t, saved)
                 \/ TaskFinish(t, saved) \/ TaskFail(t, saved)
      BY <1>2, <2>1 DEF TaskLoad, TaskLoadFails, TaskBegin, TaskUploading, TaskFinish, TaskFail
    <2>2. CASE TaskLaunch(t)
      BY <1>1, <2>2 DEF TaskLaunch, TaskRecords
    <2>3. CASE TaskProbe(t)
      <3>1. CASE task' = [task EXCEPT ![t].pc = "benchmark", ![t].left = RunsPerJob]
        BY <1>1, <3>1 DEF TaskRecords
      <3>2. QED
        BY <1>2, <2>3, <3>1 DEF TaskProbe
    <2>4. CASE TaskCleanup(t)
      BY <1>1, <2>4 DEF TaskCleanup, TaskRecords
    <2>5. QED
      BY <1>5, <2>1, <2>2, <2>3, <2>4 DEF BodyStep
  <1>6. CASE RunStep(t, saved)
    BY <1>3, <1>4, <1>6 DEF RunStep, RunBegin, RunPrepare, RunProbe, RunAnnounce, RunEnd, RunRaises
  <1>7. CASE Heartbeat(t, saved)
    BY <1>7 DEF Heartbeat
  <1>8. QED
    BY <1>5, <1>6, <1>7

\* Where every save succeeds, the file is what is in memory, after a restart as well.
LEMMA InFile ==
  ASSUME ~SaveMayFail, LocalOnly, TypeOK, disk = jobs, [Next]_vars
  PROVE  disk' = jobs'
  <1>1. SaveOutcomes = {TRUE}
    BY DEF SaveOutcomes
  <1>2. ASSUME Operation(TRUE) PROVE disk' = jobs'
    <2>1. ASSUME NEW op, NEW ids, SaveThenSync(op, ids, TRUE) PROVE disk' = jobs'
      BY <2>1 DEF SaveThenSync
    <2>2. ASSUME NEW j, Report(j, TRUE) PROVE disk' = jobs'
      BY <2>1, <2>2 DEF Report, UpdateProgress, MarkFinished, MarkFailed, MarkEvaluating, Mark
    <2>3. QED
      BY <1>2, <2>1, <2>2 DEF Operation, SubmitNew, ClaimPending, ReclaimStaleJobs
  <1>3. ASSUME Restart(TRUE) PROVE disk' = jobs'
    <2>1. PICK remote \in HubStores :
            /\ jobs' = Overlay(LocalStore, remote)
            /\ disk' = IF remote # EmptyStore /\ TRUE THEN jobs' ELSE LocalStore
      BY <1>3 DEF Restart
    <2>2. remote = EmptyStore /\ LocalStore = disk
      BY <2>1 DEF HubStores, LocalStore, LocalOnly
    <2>3. Overlay(disk, EmptyStore) = disk
      BY DEF Overlay, EmptyStore, TypeOK, Stores
    <2>4. QED
      BY <2>1, <2>2, <2>3
  <1>4. ASSUME SyncToHub \/ UNCHANGED vars PROVE disk' = jobs'
    BY <1>4 DEF SyncToHub, vars
  <1>5. QED
    BY <1>1, <1>2, <1>3, <1>4 DEF Next

\* Every step keeps file and memory the same, and the jobs of busy tasks evaluating.
LEMMA EvaluatedStep ==
  ASSUME MaxConcurrentJobs = 1, ~SaveMayFail, LocalOnly,
         WorkerInv, SerialInv, EvaluatedInv, [WorkerNext]_allVars
  PROVE  EvaluatedInv'
  <1> DEFINE Kept == \A t \in Tasks :
               /\ task'[t].hb # "dead"
               /\ task'[t].pc \in BusyPcs => JobStatus'[task'[t].job] = "evaluating"
  <1>1. disk' = jobs'
    BY StepImplements, InFile DEF WorkerInv, EvaluatedInv
  <1>2. SaveOutcomes = {TRUE} /\ WorkerTyped /\ TypeOK /\ Fresh
    BY DEF SaveOutcomes, WorkerInv
  <1>3. \A t \in Tasks : task[t].pc \in BusyPcs => Live(t) /\ task[t].job \in JobIds
    BY EarlyLive, SoleLive DEF BusyPcs
  <1>4. JobStatus = [j \in JobIds |-> JobStatus[j]]
    BY DEF JobStatus
  <1>5. ASSUME UNCHANGED <<jobs, task>> PROVE Kept
    BY <1>5 DEF EvaluatedInv, JobStatus
  <1>6. ASSUME NEW r \in Requests, AppSubmit(r, TRUE) PROVE Kept
    <2>1. task' = task /\ SubmitNew(r, TRUE)
      BY <1>6 DEF AppSubmit
    <2>2. PICK j \in JobIds : JobStatus[j] = "none" /\ JobStatus' = [JobStatus EXCEPT ![j] = "pending"]
      BY <1>2, <2>1, SubmitStatus
    <2>3. \A t \in Tasks : task[t].pc \in BusyPcs => task[t].job \in JobIds \ {j}
      BY <1>3, <2>2 DEF EvaluatedInv
    <2>4. QED
      BY <1>4, <2>1, <2>2, <2>3 DEF EvaluatedInv
  <1>7. ASSUME LoopStep(TRUE) PROVE Kept
    <2>1. CASE LoopReap \/ LoopReclaimNothing \/ LoopClaimNothing
      BY <1>5, <2>1 DEF LoopReap, LoopReclaimNothing, LoopClaimNothing, vars
    <2>2. ASSUME NEW ids \in SUBSET Lapsed, LoopReclaim(ids, TRUE) PROVE Kept
      <3>1. task' = task /\ ReclaimStaleJobs(ids, TRUE)
        BY <2>2 DEF LoopReclaim
      <3>2. JobStatus' = [j \in JobIds |-> IF j \in ids THEN "pending" ELSE JobStatus[j]]
        BY <1>2, <3>1, ReclaimStatus
      <3>3. ASSUME NEW t \in Tasks, task[t].pc \in BusyPcs
            PROVE  task[t].job \in JobIds \ ids
        <4>1. Renewed(task[t].job)
          BY <1>3, <3>3 DEF Renewed, EvaluatedInv
        <4>2. QED
          BY <1>3, <3>3, <4>1 DEF Lapsed
      <3>4. QED
        BY <3>1, <3>2, <3>3 DEF EvaluatedInv
    <2>3. CASE LoopClaim(TRUE)
      <3>1. task' = task /\ Slots > 0
        BY <2>3 DEF LoopClaim, ClaimPending
      <3>2. \A t \in Tasks : ~Live(t)
        BY <3>1, OneSlot, SoleLive, WorkerAssumption
      <3>3. QED
        BY <1>3, <3>1, <3>2 DEF EvaluatedInv
    <2>4. CASE LoopSpawn
      <3>1. /\ \A t \in Tasks : task'[t] = task[t] \/ \E j \in toSpawn : task'[t] = CreatedFor(j)
            /\ jobs' = jobs
        BY <1>2, <2>4, SpawnEffect DEF LoopSpawn, vars
      <3>2. JobStatus' = JobStatus
        BY <3>1 DEF JobStatus
      <3>3. \A j \in toSpawn : CreatedFor(j).hb = "off" /\ CreatedFor(j).job = j
        BY DEF CreatedFor, NoRun
      <3>4. \A j \in toSpawn : JobStatus[j] = "evaluating"
        BY DEF SerialInv, Waiting
      <3>5. QED
        BY <3>1, <3>2, <3>3, <3>4 DEF EvaluatedInv
    <2>5. QED
      BY <1>7, <2>1, <2>2, <2>3, <2>4 DEF LoopStep
  <1>8. ASSUME NEW t \in Tasks, Works(t), Speaks(t, TRUE),
               BodyStep(t, TRUE) \/ RunStep(t, TRUE) \/ Heartbeat(t, TRUE)
        PROVE  Kept
    <2>1. task'[t].hb # "dead"
      BY <1>2, <1>8, BeatAfter DEF EvaluatedInv
    <2>2. task[t].job \in JobIds
      BY <1>8 DEF Works, WorkerInv, Owned, TypeOK
    <2>3. \/ JobStatus' = JobStatus
          \/ Live(t) /\ task'[t].pc = "cleanup"
      <3>1. task[t].pc # "marking"
        BY DEF SerialInv, Entered
      <3>2. QED
        BY <1>2, <1>8, <2>2, <3>1, SpeechStatus DEF Live
    <2>4. ASSUME NEW u \in Tasks
          PROVE  /\ task'[u].hb # "dead"
                 /\ task'[u].pc \in BusyPcs => JobStatus'[task'[u].job] = "evaluating"
      <3>1. CASE u = t
        <4>1. task'[t].pc \in BusyPcs => task[t].pc \in BusyPcs /\ task'[t].job = task[t].job
          BY <1>8 DEF Works
        <4>2. task'[t].pc \in BusyPcs => JobStatus' = JobStatus
          BY <2>3 DEF BusyPcs, EarlyPcs
        <4>3. QED
          BY <2>1, <3>1, <4>1, <4>2 DEF EvaluatedInv
      <3>2. CASE u # t
        <4>1. task'[u] = task[u]
          BY <1>8, <3>2 DEF Works
        <4>2. task[u].pc \in BusyPcs => JobStatus' = JobStatus
          BY <1>3, <2>3, <3>2, SoleLive
        <4>3. QED
          BY <4>1, <4>2 DEF EvaluatedInv
      <3>3. QED
        BY <3>1, <3>2
    <2>5. QED
      BY <2>4
  <1>9. ASSUME ProcessRestart(TRUE) PROVE Kept
    <2>1. task' = [t \in Tasks |-> NoRun]
      BY <1>9 DEF ProcessRestart
    <2>2. QED
      BY <2>1 DEF NoRun, BusyPcs, EarlyPcs
  <1>10. ASSUME OperationReturns \/ UNCHANGED allVars PROVE Kept
    BY <1>5, <1>10 DEF OperationReturns, SyncToHub, allVars, vars, workerVars
  <1>11. Kept
    BY <1>2, <1>6, <1>7, <1>8, <1>9, <1>10, StepCases
  <1>12. QED
    BY <1>1, <1>11 DEF EvaluatedInv

\* A worker that starts has nothing to evaluate.
LEMMA EvaluatedStarts == WorkerInit => EvaluatedInv
  BY DEF WorkerInit, Init, EvaluatedInv, NoRun, BusyPcs, EarlyPcs

\* The jobs in memory go through the life cycle a submitter is promised: only an evaluation
\* gives a job its outcome, a lost one puts it back, and a restart changes nothing.
THEOREM ImplementsJobLifecycle ==
  ASSUME MaxConcurrentJobs = 1, ~SaveMayFail, LocalOnly
  PROVE  WorkerSpec => ImplementsLifecycle
  <1>1. WorkerInit => Lifecycle!Init
    BY DEF WorkerInit, Init, Lifecycle!Init, JobStatus, EmptyStore
  <1>2. ASSUME WorkerInv, SerialInv, EvaluatedInv, WorkerNext
        PROVE  [Lifecycle!Next]_JobStatus
    <2>1. JobStatus = [i \in JobIds |-> JobStatus[i]]
      BY DEF JobStatus
    <2>2. ASSUME NEW j \in JobIds, NEW s, JobStatus' = [JobStatus EXCEPT ![j] = s]
          PROVE  JobStatus' = [i \in JobIds |-> IF i \in {j} THEN s ELSE JobStatus[i]]
      BY <2>1, <2>2
    <2>3. ASSUME NEW j \in JobIds, JobStatus[j] = "none", JobStatus' = [JobStatus EXCEPT ![j] = "pending"]
          PROVE  Lifecycle!Submit(j)
      BY <2>2, <2>3 DEF Lifecycle!Submit, Lifecycle!Move
    <2>4. ASSUME NEW S \in SUBSET JobIds, S # {}, \A j \in S : JobStatus[j] = "pending",
                 JobStatus' = [j \in JobIds |-> IF j \in S THEN "evaluating" ELSE JobStatus[j]]
          PROVE  Lifecycle!Start(S)
      BY <2>4 DEF Lifecycle!Start, Lifecycle!Move
    <2>5. ASSUME NEW S \in SUBSET JobIds, S # {}, \A j \in S : JobStatus[j] = "evaluating",
                 JobStatus' = [j \in JobIds |-> IF j \in S THEN "pending" ELSE JobStatus[j]]
          PROVE  Lifecycle!Requeue(S)
      BY <2>5 DEF Lifecycle!Requeue, Lifecycle!Move
    <2>6. ASSUME NEW t \in Tasks, NEW s \in FinalStatuses, task[t].job \in JobIds,
                 \/ task[t].pc = "finishing" /\ s = "finished"
                 \/ task[t].pc = "failing" /\ s = "failed",
                 JobStatus' = [JobStatus EXCEPT ![task[t].job] = s]
          PROVE  Lifecycle!Settle(task[t].job)
      <3>1. JobStatus[task[t].job] = "evaluating"
        BY <1>2, <2>6 DEF EvaluatedInv, BusyPcs, EarlyPcs
      <3>2. QED
        BY <2>2, <2>6, <3>1 DEF Lifecycle!Settle, Lifecycle!Move
    <2>7. ASSUME NEW saved \in SaveOutcomes, ProcessRestart(saved)
          PROVE  JobStatus' = JobStatus
      <3>1. jobs' = disk
        BY <1>2, <2>7, LocalStep
      <3>2. QED
        BY <1>2, <3>1 DEF EvaluatedInv, JobStatus
    <2>8. QED
      BY <1>2, <2>3, <2>4, <2>5, <2>6, <2>7, StatusMoves DEF Lifecycle!Next
  <1>3. ASSUME UNCHANGED allVars PROVE UNCHANGED JobStatus
    BY <1>3 DEF allVars, vars, JobStatus
  <1>4. WorkerInv /\ SerialInv /\ EvaluatedInv /\ [WorkerNext]_allVars => EvaluatedInv' /\ [Lifecycle!Next]_JobStatus
    BY <1>2, <1>3, EvaluatedStep
  <1>5. QED
    BY <1>1, <1>4, EvaluatedStarts, WorkerInvariance, SerialInvariance, PTL
    DEF WorkerSpec, ImplementsLifecycle, Lifecycle!Spec
=============================================================================
