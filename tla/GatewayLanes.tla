---------------------------- MODULE GatewayLanes ----------------------------
(***************************************************************************)
(* The lanes of a job: each has a gateway process on a port of its own, and *)
(* runs its tasks on it one after the other (clawbench/worker.py,           *)
(* _run_parallel_benchmark and _run_parallel_lane; clawbench/harness.py,    *)
(* _execute_runs and _run_single, with their cache of runs).                *)
(*                                                                         *)
(* Jobs follow one another, each the same request again, as after a failure.*)
(* An actor <<j, l>> is lane l of job j: its coroutine, and the runs that   *)
(* asyncio.gather keeps going in the background after one of them raised.   *)
(* The worker knows its gateways by lane index only. A step is what the     *)
(* code does between two awaits; a run's conversation with its gateway and  *)
(* the gateway's start are each one await.                                  *)
(***************************************************************************)
EXTENDS LanePlan, FiniteSets

CONSTANTS
    Tasks,       \* the job's tasks, in the order they are loaded
    Requested,   \* max_parallel_lanes
    Runs,        \* runs_per_task
    Jobs,        \* bound: jobs, one after the other
    MaxFaults,   \* bound: gateways that die or do not come up, awaits that raise
    NoTask       \* no task was prepared yet

\* The harness keeps its results by task id, and no id of the catalogue is used twice.
ASSUME TasksAssumption ==
    /\ Tasks \in Seq(Range(Tasks))
    /\ \A t \in Range(Tasks) : t.tier \in Nat
    /\ \A t, u \in Range(Tasks) : t.id = u.id => t = u
    /\ \A t \in Range(Tasks) : t.id # NoTask
ASSUME RequestedAssumption == Requested \in Nat \ {0}
ASSUME JobsAssumption == Jobs \in Nat \ {0} /\ Runs \in Nat \ {0} /\ MaxFaults \in Nat
Planned == Plan(Tasks, Requested, TRUE)
Lanes == DOMAIN Planned
LaneTasks == [l \in Lanes |-> Planned[l].tasks]
ASSUME LanesAssumption == Len(Planned) > 1   \* a plan of one lane is run serially
Actors == (1..Jobs) \X Lanes

\* harness.run loads a lane's tasks anew, in their order; browser runs come first.
LoadedTasks(l) == Among(Tasks, Range(LaneTasks[l]))
BrowserTasks == {task \in Range(Tasks) : IsBrowser(task)}
RunsOf(tasks) == [n \in 1..(Len(tasks) * Runs) |-> [task |-> tasks[((n - 1) \div Runs) + 1], run |-> (n - 1) % Runs]]
Items == [l \in Lanes |-> RunsOf(Among(LoadedTasks(l), BrowserTasks))
                         \o RunsOf(Among(LoadedTasks(l), Range(Tasks) \ BrowserTasks))]
HasBrowser(l) == \E i \in DOMAIN LaneTasks[l] : IsBrowser(LaneTasks[l][i])

VARIABLES
    job,       \* the job at hand, and those before it are over
    lane,      \* where each lane's coroutine is
    item,      \* the run each lane has come to, in the order of Items
    step,      \* where that run is
    last,      \* last_task_id of prepare_run
    gateway,   \* _parallel_gateway_processes: the process of each lane index
    talking,   \* the process the run at hand talks to
    cache,     \* the run cache, whose keys name a task and a run
    raised,    \* lanes of which some run raised, so that the rest go on unwatched
    faults     \* how often something failed

vars == <<job, lane, item, step, last, gateway, talking, cache, raised, faults>>

\* A process is named by the actor that started it and the run it was started before (0: the first).
\* `used` are the runs that talked to it.
ProcessIds == Nat \X (Lanes \cup {0}) \X Nat
AllRuns == [task : Range(Tasks), run : 0..(Runs - 1)]
Processes == [id : ProcessIds, alive : BOOLEAN, used : SUBSET (Actors \X AllRuns)]
NoProcess == [id |-> <<0, 0, 0>>, alive |-> FALSE, used |-> {}]
Process(a) == [id |-> <<a[1], a[2], item[a]>>, alive |-> TRUE, used |-> {}]

LaneStates == {"waiting", "staggered", "booting", "preflight", "running", "done", "failed"}
Steps == {"none", "preparing", "staggered", "booting", "announcing", "working"}

TypeOK ==
    /\ job \in 1..(Jobs + 1)
    /\ lane \in [Actors -> LaneStates]
    /\ step \in [Actors -> Steps]
    /\ item \in [Actors -> Nat] /\ \A a \in Actors : item[a] <= Len(Items[a[2]]) + 1
    /\ last \in [Actors -> {NoTask} \cup {t.id : t \in Range(Tasks)}]
    /\ gateway \in [Lanes -> Processes]
    /\ talking \in [Actors -> ProcessIds]
    /\ cache \subseteq AllRuns
    /\ raised \subseteq Actors /\ faults \in 0..MaxFaults

Init ==
    /\ job = 1
    /\ lane = [a \in Actors |-> IF a[1] = 1 THEN "staggered" ELSE "waiting"]
    /\ item = [a \in Actors |-> 0]
    /\ step = [a \in Actors |-> "none"]
    /\ last = [a \in Actors |-> NoTask]
    /\ gateway = [l \in Lanes |-> NoProcess]
    /\ talking = [a \in Actors |-> NoProcess.id]
    /\ cache = {} /\ raised = {} /\ faults = 0

Fine == UNCHANGED faults
Fault == faults < MaxFaults /\ faults' = faults + 1
NumberOfRuns(l) == Len(Items[l])
Item(a) == Items[a[2]][item[a]]
Alive(a, id) == gateway[a[2]].alive /\ gateway[a[2]].id = id

-----------------------------------------------------------------------------
(***************************************************************************)
(* _ensure_parallel_gateway: after the stagger a live process with the      *)
(* lane's index is taken as it is; otherwise one is started and waited for. *)
(* A process that does not come up is left where it is.                     *)
(***************************************************************************)
StartProcess(a) == gateway' = [gateway EXCEPT ![a[2]] = Process(a)]

ComesUp(a) == Alive(a, Process(a).id) /\ Fine
FailsWhileAlive(a) == Alive(a, Process(a).id) /\ Fault
Fails(a) == IF Alive(a, Process(a).id) THEN Fault ELSE Fine

LaneStarts(a) ==
    /\ lane[a] = "staggered"
    /\ \/ /\ gateway[a[2]].alive
          /\ lane' = [lane EXCEPT ![a] = "preflight"] /\ UNCHANGED gateway /\ Fine
       \/ /\ ~gateway[a[2]].alive
          /\ \/ lane' = [lane EXCEPT ![a] = "booting"] /\ StartProcess(a) /\ Fine
             \/ lane' = [lane EXCEPT ![a] = "failed"] /\ UNCHANGED gateway /\ Fault
    /\ UNCHANGED <<job, item, step, last, talking, cache, raised>>

LaneBoots(a) ==
    /\ lane[a] = "booting"
    /\ \/ ComesUp(a) /\ lane' = [lane EXCEPT ![a] = "preflight"]
       \/ Fails(a) /\ lane' = [lane EXCEPT ![a] = "failed"]
    /\ UNCHANGED <<job, item, step, last, gateway, talking, cache, raised>>

\* The lane comes to its next run, or has none left.
Goes(a) ==
    /\ item' = [item EXCEPT ![a] = @ + 1]
    /\ step' = [step EXCEPT ![a] = IF item[a] < NumberOfRuns(a[2]) THEN "preparing" ELSE "none"]

\* Lanes with browser tasks ask the gateway for its tools first.
Preflight(a) ==
    /\ lane[a] = "preflight"
    /\ \/ /\ HasBrowser(a[2]) => gateway[a[2]].alive
          /\ Fine
          /\ lane' = [lane EXCEPT ![a] = "running"]
          /\ Goes(a)
       \/ /\ HasBrowser(a[2])
          /\ IF gateway[a[2]].alive THEN Fault ELSE Fine
          /\ lane' = [lane EXCEPT ![a] = "failed"]
          /\ UNCHANGED <<item, step>>
    /\ UNCHANGED <<job, last, gateway, talking, cache, raised>>

-----------------------------------------------------------------------------
(***************************************************************************)
(* _execute_runs with a concurrency of one: the semaphore lets one run in,  *)
(* in their order. A run that raises ends harness.run, and the lane with it;*)
(* the runs behind it are let in all the same.                              *)
(***************************************************************************)
Raises(a) ==
    /\ Goes(a)
    /\ raised' = raised \cup {a}
    /\ lane' = [lane EXCEPT ![a] = IF @ = "running" THEN "failed" ELSE @]

\* prepare_run's restart: it stops what has the lane's index, and stays a lane's stagger away.
\* What may raise is the save before it and, for the first lane, which has no stagger, the start.
StopGateway(a) == gateway' = [gateway EXCEPT ![a[2]] = NoProcess]

RestartDue(a) == ShouldRestart(Item(a).task, Item(a).run, last[a], NoTask)

Prepared(a) ==
    /\ last' = [last EXCEPT ![a] = Item(a).task.id]
    /\ step' = [step EXCEPT ![a] = "announcing"]

Prepare(a) ==
    /\ step[a] = "preparing"
    /\ \/ /\ Fine
          /\ IF RestartDue(a)
             THEN /\ IF a[2] = 1
                     THEN StartProcess(a) /\ step' = [step EXCEPT ![a] = "booting"]
                     ELSE StopGateway(a) /\ step' = [step EXCEPT ![a] = "staggered"]
                  /\ UNCHANGED last
             ELSE Prepared(a) /\ UNCHANGED gateway
          /\ UNCHANGED <<lane, item, raised>>
       \/ /\ Fault /\ Raises(a) /\ UNCHANGED last
          /\ UNCHANGED gateway \/ (RestartDue(a) /\ a[2] = 1 /\ StopGateway(a))
    /\ UNCHANGED <<job, talking, cache>>

RestartStarts(a) ==
    /\ step[a] = "staggered"
    /\ \/ /\ gateway[a[2]].alive
          /\ Prepared(a) /\ UNCHANGED <<lane, item, gateway, raised>> /\ Fine
       \/ /\ ~gateway[a[2]].alive
          /\ \/ /\ StartProcess(a) /\ step' = [step EXCEPT ![a] = "booting"] /\ Fine
                /\ UNCHANGED <<lane, item, raised>>
             \/ Raises(a) /\ UNCHANGED gateway /\ Fault
          /\ UNCHANGED last
    /\ UNCHANGED <<job, talking, cache>>

RestartBoots(a) ==
    /\ step[a] = "booting"
    /\ \/ ComesUp(a) /\ Prepared(a) /\ UNCHANGED <<lane, item, raised>>
       \/ Fails(a) /\ Raises(a) /\ UNCHANGED last
    /\ UNCHANGED <<job, gateway, talking, cache>>

\* progress_callback, and the start of _run_single: a cached run is over at once, one whose gateway
\* is gone fails at once and is not cached.
Cached(a) == Item(a) \in cache
Announce(a) ==
    /\ step[a] = "announcing"
    /\ \/ /\ Fine
          /\ IF ~Cached(a) /\ gateway[a[2]].alive
             THEN /\ step' = [step EXCEPT ![a] = "working"]
                  /\ talking' = [talking EXCEPT ![a] = gateway[a[2]].id]
                  /\ gateway' = [gateway EXCEPT ![a[2]].used = @ \cup {<<a, Item(a)>>}]
                  /\ UNCHANGED item
             ELSE Goes(a) /\ UNCHANGED <<talking, gateway>>
          /\ UNCHANGED <<lane, raised>>
       \/ Fault /\ Raises(a) /\ UNCHANGED <<talking, gateway>>
    /\ UNCHANGED <<job, last, cache>>

\* The conversation and its scoring. A run whose gateway went away fails with an error, and is not
\* cached, or returns what it heard so far, is scored and cached (send_and_wait swallows the rest).
Work(a) ==
    /\ step[a] = "working"
    /\ \/ cache' = cache \cup {Item(a)} /\ Fine
       \/ UNCHANGED cache /\ IF Alive(a, talking[a]) THEN Fault ELSE Fine
    /\ Goes(a)
    /\ talking' = [talking EXCEPT ![a] = NoProcess.id]
    /\ UNCHANGED <<job, lane, last, gateway, raised>>

LaneEnds(a) ==
    /\ lane[a] = "running" /\ item[a] > NumberOfRuns(a[2])
    /\ \/ Fine /\ lane' = [lane EXCEPT ![a] = "done"]
       \/ Fault /\ lane' = [lane EXCEPT ![a] = "failed"]
    /\ UNCHANGED <<job, item, step, last, gateway, talking, cache, raised>>

-----------------------------------------------------------------------------
(***************************************************************************)
(* The job: all of its lanes, whatever became of them; then every gateway   *)
(* the worker knows is stopped, and the next job's lanes start.             *)
(***************************************************************************)
LanesOver == \A l \in Lanes : lane[<<job, l>>] \in {"done", "failed"}

FinishJobLanesDone ==
    /\ job <= Jobs /\ LanesOver
    /\ gateway' = [l \in Lanes |-> IF lane[<<job, l>>] = "done" THEN NoProcess ELSE gateway[l]]
    /\ job' = job + 1
    /\ lane' = [a \in Actors |-> IF a[1] = job' THEN "staggered" ELSE lane[a]]
    /\ UNCHANGED <<item, step, last, talking, cache, raised, faults>>

FinishJob ==
    /\ job <= Jobs /\ LanesOver
    /\ gateway' = [l \in Lanes |-> NoProcess]
    /\ job' = job + 1
    /\ lane' = [a \in Actors |-> IF a[1] = job' THEN "staggered" ELSE lane[a]]
    /\ UNCHANGED <<item, step, last, talking, cache, raised, faults>>

GatewayDies(l) ==
    /\ gateway[l].alive
    /\ Fault
    /\ gateway' = [gateway EXCEPT ![l].alive = FALSE]
    /\ UNCHANGED <<job, lane, item, step, last, talking, cache, raised>>

-----------------------------------------------------------------------------
LaneStep(a) == LaneStarts(a) \/ LaneBoots(a) \/ Preflight(a) \/ LaneEnds(a)
RunStep(a) == Prepare(a) \/ RestartStarts(a) \/ RestartBoots(a) \/ Announce(a) \/ Work(a)

Next ==
    \/ \E a \in Actors : LaneStep(a) \/ RunStep(a)
    \/ FinishJob
    \/ \E l \in Lanes : GatewayDies(l)

\* The event loop serves every coroutine, and every await in them has a time-out.
Spec ==
    /\ Init /\ [][Next]_vars
    /\ \A a \in Actors : WF_vars(LaneStep(a)) /\ WF_vars(RunStep(a))
    /\ WF_vars(FinishJob)

-----------------------------------------------------------------------------
\* A lane of some earlier job, with the same index, was left running by a run that raised.
Haunted(j, l) == \E a \in raised : a[1] < j /\ a[2] = l

\* No gateway has served two tasks, nor two runs of a task that asks for a fresh one each time:
\* also after restarts that failed, runs that raised and gateways that died (_prepare_run).
FreshGateway ==
    \A l \in Lanes : \A x, y \in gateway[l].used :
        \/ x = y
        \/ x[2].task = y[2].task /\ ~NeedsFreshGateway(x[2].task)
        \/ Haunted(job, l)

\* No gateway outlives its job, unless the job left runs behind, which start one after it.
GatewaysStop ==
    \A l \in Lanes : gateway[l].alive => gateway[l].id[1] = job \/ Haunted(job, l)

\* Browser runs use one fixed browser port: those of a job are never in progress together.
BrowserRunsApart ==
    \A a, b \in Actors :
        /\ step[a] = "working" /\ step[b] = "working"
        /\ IsBrowser(Item(a).task) /\ IsBrowser(Item(b).task)
        /\ a[1] = b[1]
        => a = b

\* Every job comes to its end, although gateways die or do not come up and runs are left behind.
JobsEnd == <>(job > Jobs)
=============================================================================
