# A TLA+ verification of ShellBench

ShellBench (package `clawbench`) runs agents against benchmark tasks and publishes
scores. It has two control planes. The *Space* is one Python process: a Gradio app takes
submissions, a queue keeps them, and a worker thread evaluates them through a gateway
process on a fixed port. *Native evaluation* is a fleet controller that leases machines,
starts one benchmark run on each, pulls checkpoints and a final archive, and schedules
reruns. This directory models both.

## Inventory

| Component | State it keeps | Operations | Interacts with | What is hard | What makes it correct |
|---|---|---|---|---|---|
| Queue, `clawbench/queue.py` | `_jobs`, `_lock`, `jobs.json`, its copy in an HF dataset | submit, claim_pending, update_progress, reclaim_stale_jobs, mark_*, load and merge at startup | worker and app call it; it uploads to the dataset | a crash between save and upload, saves and uploads that fail, two copies to merge, late reports | dedupe and limits hold, recorded outcomes stand, stored jobs are kept, records agree with themselves |
| Worker, `clawbench/worker.py` | `_in_flight_jobs`, the gateway process, heartbeats, lanes | poll, claim, process a job, heartbeat, restart the gateway, clean up | queue, harness, gateway | tasks interleave at every await, heartbeats die, loads and gateways fail, the process restarts | one evaluation of a job at a time, every job that can be loaded settles, what a job left behind changes no record |
| App, `app.py` | the worker's thread | submit, bulk submit, tables | queue, from other threads and event loops | one asyncio lock on several loops | submissions never stop the worker |
| Harness, `clawbench/harness.py` | run cache, semaphores | gather runs, run one with time-outs and retries, aggregate | client, services, worker's callbacks | one run raises while others go on; a cache across resubmissions | whatever one run does, the job ends and its gateways stop |
| Client, `clawbench/client.py` | socket, pending RPCs, event queues | connect, rpc, listener, send_and_wait, transcript | gateway | answers race time-outs, sockets close, events of another turn's run | a turn has what was said in it, nobody waits for ever, a result reaches its call |
| Services, `clawbench/services.py` | child processes | start all, stop all | harness | the n-th fails to start | whatever started is stopped |
| Fleet, `scripts/native_eval/fleet.py` | run index file, leases, one thread per lease | lease, hydrate, dispatch, follow, verify, stop, rerun, recover | ssh, cloud CLI, checkpoint loop | the controller restarts anywhere; remote steps happen with no answer | a run has one machine and is started once, a machine is stopped when its results are here and not before, limits hold, every planned run completes or uses up its attempts |
| Native run, `run_job.py`, `runtime.py`, `proxy.py`, `plan.py` | a directory per trial, a container each | plan, start trials, set up, run the agent, verify, accept | docker, the harness, the proxy | time-outs kill containers, the agent may leave anything anywhere | what runs is what was planned, and a success was judged |
| Checkpoint loop, `checkpoint_loop.py`, `remote_run.sh` | local archives, log, sequence number | poll, pull a checkpoint, pull the final files | ssh, the native run | partial downloads, restarts | an archive under its final name is whole; the last results are pulled |
| Adapters and canonical tasks, `clawbench/adapters`, `canonical` | an agent's sessions | convert a task, take or refuse it, set up, run phases, answer queries | agents | a time-out in a phase, history that is sent twice | a task means the same to every adapter that takes it |
| Scores, `scorer.py`, `judge.py`, `environment.py`, `trajectory.py`, `stats.py` | none | check completion, judge, classify, combine, aggregate | workspace, gateway | what could not be asked, gates of the judge | a score says what the checks found |
| Reports, `aggregate.py`, `harness_trajectories.py`, `research_audit.py`, `hub.py`, leaderboard | none | read trials, rebuild transcripts, match with the plan, rank | archives, dataset | missing, repeated, unfinished, forked pieces | a report never scores more than the results behind it |
| Catalogue, CLI, profiles, scripts | none that outlives a call | data, I/O, offline analysis | | | not modelled, see `PROJECT.json` |

`PROJECT.json` lists every component with its status, and under `hazards` the places in
this code that are hard to test, each at its line, with the properties that cover it or
the reason why none does yet.

## The modules

| Module | Models |
|---|---|
| `JobQueue` | the queue of one deployment with every fault of its disk and its dataset, and callers left open |
| `EvalWorker` | the worker, its runs and the app as the callers of `JobQueue` (it EXTENDS it) |
| `JobLifecycle` | what both promise a submitter: the abstract specification |
| `QueueLock` | the queue's `asyncio.Lock` on several event loops |
| `FleetController` | the fleet controller: its two kinds of threads, the run index, the machines and the runs on them |
| `RunAttempts` | what it promises of a planned run: the abstract specification |
| `GatewayClient` | the WebSocket client: connecting, calls, the listener, turns |
| `LanePlan`, `GatewayLanes` | how tasks are spread over lanes (pure), and the lanes of jobs that follow one another, with their gateways and the run cache |
| `NativeRun` | a native run on its machine, from trials to archive, and the checkpoint loop at home |
| `LaneSetup`, `RunPlan`, `TaskContainer` | what is prepared: a lane's configuration, a planned run's dispatch, a trial's container (pure) |
| `ChatTranscripts`, `SessionTree`, `HarnessTranscripts` | how transcripts are put together (pure) |
| `AgentAdapters` | canonical tasks, adapters, the scripted user (pure; extends `CompletionChecks`) |
| `CompletionChecks`, `RunScoring` | checks and judge; scores of runs, tasks and submissions (pure) |
| `RunReport`, `ResearchTables`, `HubResults` | report, audit, submissions and leaderboard (pure) |
| `Questions`, `MCReports`, `MCTranscripts`, `MCPlans`, `MCScores`, `MCAdapters`, `MCAlgorithms` | the inputs the pure modules are checked with, and what is promised of the results |
| `MCJobQueue`, `MCEvalWorker`, `MCFleet`, `MCLanes` | values for the constants of the modules they extend |
| `JobQueueProofs`, `EvalWorkerProofs` | theorems of `JobQueue`, and of `EvalWorker` on top of them |
| `FleetProofs`, `FleetRunProofs` | theorems of `FleetController`: the invariant of its labels, and what follows for runs, limits and attempts |
| `NativeRunProofs`, `GatewayLanesProofs`, `GatewayClientProofs` | theorems of the module each extends |
| `AlgorithmProofs` | theorems of `LanePlan`, `CompletionChecks` and `RunScoring`, for every input; `GatewayLanesProofs` builds on it |

`EvalWorker` extends `JobQueue` and is mapped to `JobLifecycle`; `FleetController` is mapped
to `RunAttempts`; `GatewayLanes` extends `LanePlan`. `GatewayClient` is what one run of
`EvalWorker` and `GatewayLanes` does with its gateway in detail, and `NativeRun` is what
one dispatch of `FleetController` comes to; neither pair is composed, since each has
too many states of its own.

### JobQueue

An operation of the queue is written as two steps, because it has one await. The first
takes the lock, decides, changes the jobs and saves `jobs.json`, with no await in
between; the second, `SyncToHub`, is the end of the upload, at which the lock is released
and the caller answered. `lock` says which operation is between the two. A save that
raises (`saved = FALSE`) leaves the change in memory, skips the upload and releases the
lock, as `async with` does. `Restart` is possible in every state, so also between the
two steps: it reads the local file, lays the dataset's copy over it record by record
(`Overlay`) and saves the result.

| Model | Code |
|---|---|
| `jobs`, `disk`, `hub` | `_jobs`, `LOCAL_QUEUE_DIR/jobs.json`, `queue/jobs.json` of the dataset |
| a job's number | the order of `submitted_at`, which `claim_pending` sorts by |
| `request.fingerprint`, `request.submitter` | `active_fingerprint()`, `_submitter_key()` |
| `started`, `progress`, `result`, `error` | whether `started_at`, `current_task_id`, `result_id`, `error` are set |
| `attempts`, `requeues` | `attempt_count`, `stale_requeues`, modulo `CounterModulus` |
| `claimed` | the jobs some caller has in its hands, the only ones that are reported on |
| `HubEnabled`, `DiskSurvives` | `HF_TOKEN` is set; `/data` is a persistent volume |
| `SeveralAtOnce` | `MAX_CONCURRENT_JOBS` is more than 1 |
| `SaveMayFail`, `UploadMayFail`, `HubLoadMayFail` | the three places where I/O fails: the first raises, the others are logged |

A submission over its limits and a duplicate change nothing, so they are not actions.
An operation that finds its job gone or in another status returns at once, which is no step
either. `mark_evaluating` looks at no status; its only caller looks whether the job is
evaluating, awaits the lock and calls it (`worker.py:269`), so that a job that was settled
meanwhile becomes active again. That takes a second slot: with one, nothing comes between a
claim and its task (`ClaimedJobIsEvaluating`). `SeveralAtOnce` says whether a report of that
kind is possible; `EvalWorker` assumes it is where it has more than one slot. Which leases
are stale is left open in `JobQueue`, so its properties hold for every clock.

### EvalWorker

Each action is the code between two awaits. `caller` is the coroutine that awaits the
upload of the operation holding the lock; it takes no step until that returned. The loop
(`loop`, `toSpawn`, `inFlight`) follows `start()`; the actions `Task*` follow
`_process_job`, with the loading of the tasks outside its `try`, `mark_finished` inside,
and a `finally` clause in which a dead heartbeat raises before the gateway is stopped;
`Heartbeat` is the coroutine next to it; the actions `Run*` follow one run through
`prepare_run`, the gateway's restart, `progress_callback` and the run itself. A run that raises
fails its job at once and leaves the other runs going, since `asyncio.gather` is called
without `return_exceptions`; they report on and restart the gateway, whoever's it is by then.
Which gateway a run talks to is not in this module: the lanes have theirs in `GatewayLanes`.

Whether the tasks of a job can be loaded is a matter of its request (`Unloadable`): the load is
outside the `try`, so such a job is claimed, dropped and requeued without end. A task that
finds its job not evaluating (`"marking"`) calls `mark_evaluating` first, as `worker.py:268-277`
does; at one slot it never has to.

A lease is renewed as long as its heartbeat lives, which the four heartbeats per lease
of `worker.py:33` are for; it may lapse as soon as it has none. Jobs run serially here:
lanes are in `GatewayLanes`.

### QueueLock

CPython 3.11's `asyncio.Lock`: the uncontended path looks at no event loop, a waiter binds
the lock to its own, a waiter of another loop raises, and a release schedules the waiter
on its loop without waking that loop's thread. The app calls `asyncio.run` for every
submission, so each has a loop of its own. The other two models take the lock to be a
mutex; this one shows when it is not.

### FleetController

The run index is a file that every update rewrites, so `index` survives a controller that
is killed (`Crash`), as do `cloud` and `local`; `main`, `thread` and `attempted` do not. A
command to the cloud or to a machine and the update that notes what came of it are two
actions, and the controller may die in between; a next one starts with
`StartController` and `ResumeEntry`.

| Model | Code |
|---|---|
| label `<<r, n>>` | the planned run `r` and its reruns `r-rerun<n>` |
| `index[l]` | `status`, whether there is a `requested_lease_slug`, `lease`, `bootstrapped_lease_id`, whether `run_exit_code` is 0 |
| `cloud[l]` | the machines that have the slug of `l`; how often `remote_run.sh` was started there and still runs, its `done` file and its archive |
| `local[l]` | `local_root`: nothing, checkpoints or logs, or the final archive |
| `thread[l]` | `_execute_entry(l)` in the pool, at the step it is about to take |
| `main` | `run()`: recovery, reruns, filling the pool, waiting |

`Start` to `Settle` follow one run through `_execute_entry`; `_schedule_rerun` is a step
that reads the index and one that appends to it, in a run's thread (`DecideRerun`,
`AppendRerun`) and in the main thread (`DecideExisting`, `AppendExisting`). The index's
own lock makes each update atomic and nothing more. A retry of a command is part of its
action; `CommandsMayFail` says that all of its tries may fail, also when the command had
its effect (a machine that is up after a warm-up that failed, a stop that took place).
`AnswersMayBeLost` is the same for the dispatch, which is retried: the run was started by
the try whose answer was lost, and perhaps once more. A run that dies at once may leave its
`done` file or not, and perhaps no trace of itself at all. The checkpoint loop appears by what
its caller sees of it. An archive is told apart by exit status and completeness only.

A machine that is lost and a new one may have the same number, as nothing keeps the old
one's. The commands are children of the controller; a killed controller's child is taken to
end with it.

### GatewayClient

Two coroutines call: the run ("main") and, during a turn, the task that waits for the
agent ("waiter"); the listener is a third. A call is registered, sent and then awaited;
an answer goes to the call it names, or to nobody. A send on a lost socket raises and
leaves its registration, as a cancelled call does; the listener's end tells no call. `Open`
to `Close` follow `connect()`, the calls that set a session up and `close()`; the turn's
actions follow `send_and_wait`: queues first, then the message, then the first of an event,
the answer to `agent.wait` and the deadline; an abort if it was not the agent's end; a drain
of the queue; the history, which replaces what was collected if it is longer.

The gateway is external. It acts when its frame is read, answers in any order or never, and
keeps one order per socket. That the event about an aborted run is sent before the answer
to the abort is what its protocol does and an assumption here: `TurnEndsByItsOwnRun` rests on
it. No clock: a time-out may expire whenever it runs.
A send takes one step: that it may block on a socket whose peer reads nothing, outside any
time-out (`client.py:648`), is not modelled.

### GatewayLanes and LanePlan

`LanePlan` is the worker's planner and its decision to restart a gateway before a run. In
`GatewayLanes` an actor `<<j, l>>` is lane `l` of job `j`: its coroutine, and the runs
that go on in the background after one of them raised. `gateway[l]` is what the worker
knows under the index `l`, whichever job started it; `talking` is the process a run has a
conversation with; `last` is `last_task_id`; `cache` are the keys of the run cache. A
stagger, a start and a conversation are one await each. `raised` remembers lanes that
left runs behind: `FreshGateway` and `GatewaysStop` except what these do to the same index in a
later job (`Haunted`), which is real behaviour of the code, see the remarks below. A restart
of lane 0 stops the old gateway before what may raise; the other lanes wait for their turn first.

### NativeRun

The machine's side is `remote_run.sh` and the trials of `run_job` (`StartTrial`, `SetUp`,
`RunAgent`, `Verified`, `FinishTrial`). The script sets up and waits for its proxy (`ProxyUp`,
`SetupFails`), runs the job (`FinishJob`, `JobDies`), packs (`PackFinal`, `PackFails`) and
goes through its trap (`Trap`), which begins with the proxy: if there is none to stop and the
script is failing, `stop_proxy`'s bare `return` passes that failure on and `set -e` ends the trap
before it writes `exit_status` and `done` (`script = "dead"`). `proxy` says whether there is one. A trial's outcome is made by `Outcome` from the
first error, the agent's exit, the verifier and the reward. The loop at home is a state machine
over `loop.pc`: look, pull a checkpoint by count or by clock, pull the three final files,
fall back to a diagnostic checkpoint, give up after `MaxSshFailures`. A file is absent,
partial or whole; it is copied under `.partial` and published at the end, one after the
other. `Crash` ends the loop anywhere, and the fleet starts it again on the same directory.

### The pure modules

These translate functions that keep no state: one operator per function or per idea in
it, on data cut down to what decides (a text is the set of what is searched in it, an id or
a model a member of a small set, a reward a whole number of parts). `Questions` turns each
into something TLC can check: a behaviour asks one question, whose fields are the arguments,
and a promise relates the answers to the question. No promise repeats the computation; each
is stated from the other side, as the table shows.

| Property | What it promises | Topics |
|---|---|---|
| `ReportsStandOnTheirResults` | a run on the leaderboard has as many results as tasks, all finished; its score is the mean over the plan of the first result of each task, by the intended model; what is repeated or foreign scores nothing, and what failed, is lacking or does not count is half of the plan at the most; what is shown is the latest of its key and ordered; the audit passes only what it saw | `report`, `board`, `hub`, `audit` |
| `TranscriptsAreWhole` | a session tree that counts has all accepted sub-agents, each message once, in order of time; a branch is the way to its leaf; a result is at the call it answers and stays there; of Codex, Claude Code, Hermes and the gateway | `tree`, `branch`, `claude`, `hermes`, `codex`, `entries`, `conversation`, `chat` |
| `PlannedRunIsWhatRuns` | a planned run passes validation and starts as planned, with its effort; the verifier finds its own tests only; a lane's configuration is fit at every start; progress is of running lanes; lanes are balanced and take each task once | `plan`, `trial`, `lane file`, `progress`, `lanes`, `submit` |
| `ScoresAreFair` | what must be and must not be is never complete, nor is what could not be looked at; a judge's numbers are shares whatever it answers, and it neither rescues a failed run nor moves a passed one by more than a tenth; artifacts fit their budget; averages lie between their parts, and every run is counted once | `completion`, `artifacts`, `judge`, `score`, `statistics` |
| `CanonicalTasksMeanTheSame` | an adapter that takes a task can answer all its questions, as the harness would; seeds are found again; over phases everything is heard once and in order | `canonical`, `seeds`, `phases` |

## Runs

| Run | Bounds | Shows |
|---|---|---|
| `jq_local` | 3 jobs, capacity 2, quota 1, 3 submitters of 3 evaluations, one at a time | a machine with a disk: dedupe, limits and outcomes |
| `jq_merge` | 2 jobs of 2 evaluations, several at once, counters modulo 2, uploads and downloads fail | disk and dataset together: no job is lost, records are coherent |
| `worker_live` | 2 jobs of 2 runs, 2 tasks, 1 restart, a request that cannot be loaded, gateway restarts fail | `JobLifecycle` is implemented, every job that can be loaded settles |
| `worker_faults` | the same, and saves fail | evaluations stay exclusive, outcomes on disk stand |
| `queue_lock` | 2 coroutines, 1 submission | **violated**: the worker stops polling |
| `fleet_serial` | 1 planned run, 2 attempts, 1 lease, every fault and one of crash and lost answer | `RunAttempts` is implemented, every planned run settles |
| `fleet_parallel` | 2 planned runs of a model that may have 1, 2 leases, 2 machines per label, commands fail, 1 crash | one machine and one start per run, stopped in time and not too early, limits hold |
| `client` | 2 turns, 1 message each, 2 attempts to connect, 1 fault of the gateway | turns are complete, runs are not left behind, a turn ends by its own run, the client finishes |
| `lanes` | the same job twice, 4 tasks (2 of the browser) on 2 lanes, 2 runs each, 1 fault | gateways stop with their job and are fresh where asked for; browser runs apart; every job ends |
| `native` | 2 trials at once, checkpoints every 2 results or by the clock (2), 1 ssh failure tolerated, 1 fault | success was judged, results come home, archives are whole and kept, the loop ends unless the script died in its trap |
| `algorithms` | 235,000 questions, see `MC*` | the promises of the pure modules |
| `fleet_race` | 2 planned runs, 2 attempts, 2 leases, no faults | **violated**: a failed run becomes one to recover |

The bounds are small and enough for what happens. Three jobs are a job that was requeued
or settled, a duplicate of it and one more; a queue of capacity two is full while one
submitter is within its quota. With counters modulo 2 an attempt that is counted twice or
not at all is seen. Two jobs of two runs are a job, what it leaves behind, and its
successor; a second task is what the first leaves behind needs. One restart is where the
worker loses its memory; the queue alone is run with any number. Restarts, heartbeats and
reports are not bounded otherwise.

The fleet's runs settle independently of each other but for limits, reruns and the main
thread. One planned run with a rerun shows what becomes of attempts, and it needs one
fault more than commands that fail, which may always. Two runs of one model show limits
and adoption: they overlap in clean-up, in recovery and after a crash. A second machine
per label is there to be leased by mistake, and the label after the last attempt to be
appended by mistake. `fleet_parallel` counts its runs up to symmetry (both are about the
same model, and no run is chosen by name), as `jq_merge` does its two evaluations and their
submitters, whose names no operation orders; the runs with liveness properties do not.

Two turns are what an event of an earlier turn needs, and two attempts a socket that is not
the first. Two jobs on two lanes are a job, what it leaves on an index, and its successor on
the same index; four tasks give each lane a next one, and two runs make a fresh gateway
within a task necessary. Two trials show one finished and one not at a checkpoint or a crash
of the job. One fault is the case these three are about: each kind of fault is tried in
each state, and two independent ones are seen only where the second is the loop's own crash.

A question has two to four of everything: two planned tasks with one trial more than
planned, or four with three to five results, some of them repeated, foreign or without a path; a root session with a child, a grandchild or a sibling; calls of two ids with results
in any order; four tasks on up to three lanes; two phases of two turns. `MC*` name the
sets. That every branch of the operators is met was seen by asking for states that take it
(runs that are eligible, trees that are real, dispatches that are not refused, judges
that count).

Deadlock is not checked: a queue whose jobs are settled and whose `MaxJobs` are used up
stops, and so do a client that closed, a last job, a loop that ended and a question that was
answered.

Each property of a passing run comes with a mutant (`PROJECT.json`): the same model with
one plausible bug in one definition, under which TLC finds the property violated. These
variants stand in the modules just before the definition they change.

### Fairness

`worker_live` assumes that the upload ends (`to_thread` returns, also when it failed),
that every coroutine that can run again and again does (strong fairness, since the lock
comes and goes: `asyncio.Lock` serves its waiters in order), that a lease nobody renews is
seen stale in the end, and that polls which requeue nothing come again and again: a lease
takes `STALE_EVALUATION_SECONDS`, many polls, to lapse, so that a job which is requeued for
ever leaves the others their turns. Heartbeats, submissions and restarts need not happen, and
no load has to succeed. `queue_lock` assumes only that
woken coroutines and threads run and that those of the worker call the queue again.
`fleet_serial` assumes that somebody runs the controller again while it reports
unfinished runs, which its exit status asks for (`fleet.py:372-373`); that its threads
run; that of the commands repeated for a label for ever (looking at its lease, warming up,
stopping) some works; and that a lease ends with its ttl if nothing ended it before
(`--ttl`, `fleet.py:667`). No run has to end by itself: the ttl is what settles a run that was
killed, or whose script died in its trap, and left no `done` file.
`client` assumes that the event loop runs the client's coroutines and that each of its
waits has a time-out; nothing is asked of the gateway. `lanes` assumes the same of every
coroutine of a lane. `native` assumes that trials end (they have time-outs), that the
script goes on, that the fleet starts the loop again, and that a copy ends or fails; weak
fairness is enough everywhere, as these steps stay possible until they are taken.

## What the violated runs show, and remarks

* `queue_lock`: one submission that meets the worker inside the lock makes the worker's
  later waits raise for ever (`app.py:304`, `queue.py:106`).
* `fleet_race`: a run's thread and the main thread both number the rerun of a failed run
  and append it; the second append raises, and its handler takes a settled run for one to
  recover (`fleet.py:286`, 606, 1379). With the order reversed the controller ends.

What else was met while modelling is not a run of its own, either because a constant of a
passing run excludes it or because nothing in the repository promises otherwise:

* `_load_hub` swallows a failed download, and the next operation uploads a queue without
  the jobs that are there (`queue.py:152`, 400): `HubKeepsJobs` fails with
  `DiskSurvives = FALSE` and `HubLoadMayFail = TRUE`.
* `_load_hub` prefers the dataset's record without comparing, and a crash between save and
  upload leaves an older one there (`queue.py:147`): a finished job is evaluated again, so
  `OneActivePerFingerprint` and the outcomes need one store (`jq_local`, `OneStore`).
* Runs of a failed job go on and restart the gateway of the next (`harness.py:238`,
  `worker.py:1135`), although a job is meant to inherit no process state (`worker.py:314`);
  `Haunted` names what that does to lanes.
* With two or more slots a task that finds its job not evaluating marks it so, whatever it is by
  then (`worker.py:269`): a job requeued, claimed again and settled before the second task began
  becomes active beside its resubmission and past the limits. `OneActivePerFingerprint`,
  `WithinLimits` and `DurableOutcomeIsFinal` fail with `SeveralAtOnce = TRUE`.
* A job whose tasks cannot be loaded is requeued without end and keeps its place in the capacity
  (`worker.py:260`): `EveryJobSettles` would fail for it.
* A native run whose script fails with no proxy to stop dies in its trap and leaves no `done`
  (`remote_run.sh:40-41`, 55): the loop polls until the lease ends. `LoopEnds` fails without its
  second disjunct, and without any fault but a proxy that does not start.
* A repeated or foreign result makes up for a missing one in every count of a report
  (`aggregate.py:683-697`, 911-913, 940), up to half of the plan: such a run stands on the
  leaderboard, with nothing for the missing task.
* An expected task without a path matches every row without one (`aggregate.py:702-706`), so
  that one takes the results of others; the promise about scores is for tasks with a path.
* A judge that answers NaN gives the full score and passes (`judge.py:360-365`).
* A file that a check or a judge reads and cannot ends the run with an error, and nothing is
  counted of its other checks (`environment.py:294`, 247, 271; `judge.py:203`).
* A run whose gateway died is scored with what it heard and cached, so that a resubmission
  does not run it again (`harness.py:293`).
* When a command times out the container is killed, the verifier then fails, and the
  outcome is `verifier_error` rather than `agent_error` (`runtime.py:532`; the tests of the
  aggregate at `tests/test_native_eval_aggregate.py:473-475` describe the latter).
* A reward file without a number is a clean run without a reward.
* A crash between the three files of `pull_final` makes every later pull refuse; results come
  home by the diagnostic checkpoint, with exit code 75.
* `_matches_expected` takes the first row of a name; a failed sub-agent's session of a single
  message leaves no step although the trajectory counts (`harness_trajectories.py:679`).
* In `parse_chat_messages` a call answered by id stays in line, and a later result
  without an id overwrites its output (`hermes_xml.py:398-442`).
* A turn of Hermes that expires ends the phase while its thread goes on writing to the
  workspace the verifier reads (`hermes.py:489`); its seeds lie where its own memory
  query does not look.
* When memory cannot be searched, a memory that must be there and must not be may both pass.
* The provider's file of the machine overrides the dispatched judge's model and effort; only
  the effort of the run is protected (`remote_run.sh:66-70`).
* A lane whose host has neither keys nor plugins is not sanitized again before a restart
  (`worker.py:662`).

## Theorems

A theorem holds for every number of jobs, runs, tasks, machines, turns or trials, every plan
and every combination of faults its statement does not exclude. "Nothing" under "Assumes"
means the named assumptions on the constants only (the bounds are numbers, each fault is
allowed or not, a value that stands for none is none of the others). Every inductive
invariant was first checked by TLC as an invariant of the runs of its module.

### JobQueue

`JobQueueProofs` reduces every step to its effect on the three stores (`NextEffect`): an
operation lets jobs evolve one by one or adds one job that passed submit's checks, and saves
or not; an upload copies the file; a restart reads back what was stored.

| Theorem | States | Assumes |
|---|---|---|
| `TypeCorrect` | `[]TypeOK` | nothing |
| `Coherence` | `[]RecordsCoherent`: counters, progress, result and error of a job agree with its status in memory, in the file and in the dataset | nothing |
| `DedupeHolds` | `[]OneActivePerFingerprint` | `OneStore`, `OneAtATime` |
| `LimitsHold` | `[]WithinLimits` | `OneStore`, `OneAtATime` |
| `OutcomesStand` | `DurableOutcomeIsFinal` | `StoreIsFound`, `OneAtATime` |
| `HubKeeps` | `HubKeepsJobs` | `SomeStoreIsRead` |
| `DiskKeeps` | `DiskKeepsJobs` | `DiskSurvives` |

`OneStore` says a restart reads the file or the dataset, never a merge of both: a merge may
bring an old record back (see the remarks), so these three cannot do without an assumption of
that kind. `StoreIsFound` adds that the dataset, if it is used, can be downloaded, and
`SomeStoreIsRead` that it can or that there is a disk: a download that fails unnoticed loses
jobs. `OneAtATime` is `~SeveralAtOnce`: no report marks a settled job as evaluating. With several
jobs at a time the code may do so, and these three properties fail.

None of these properties is inductive as the run states it, because a restart replaces the
jobs in memory by what was stored, perhaps long ago:

* `Coherence`, `DedupeHolds` and `LimitsHold` need the same of `disk` and `hub`. Each is
  kept because a step lets jobs evolve (a request never changes, and one job at a time an
  inactive job never becomes active again) or adds one job for which submit has just
  checked the property.
* `OutcomesStand` needs three parts: `Fresh` (a new job's number was never used, in any
  store), `InStep` (while an operation holds the lock over its upload, file and memory
  are the same, so what is uploaded is what the queue holds) and `Lasting` (the outcomes in
  the store a restart reads are also those in memory).
* `HubKeeps` and `DiskKeeps` need that every stored job is in memory, and one of the
  dataset also in a file that survives (`StoredIsKnown`): otherwise a restart that reads
  only the file would forget jobs, and the next upload would overwrite them.

### EvalWorker

| Theorem | States | Assumes |
|---|---|---|
| `WorkerIsACaller` | `WorkerSpec => Spec`: each step of the worker is a step of `JobQueue` or leaves the queue alone | nothing |
| `QueueUnderWorker` | records, dedupe and limits under the worker | `OneStore`, `OneAtATime` |
| `Exclusive` | `[]EvaluationsExclusive` | one job at a time |
| `Claimed` | `[]ClaimedJobIsEvaluating` | one job at a time |
| `RecordedStands` | `RecordedOutcomeStands` | one job at a time, `LocalOnly` (a disk and no dataset) |
| `ImplementsJobLifecycle` | the refinement of `JobLifecycle` | the same, and saves succeed |

`JobQueue` leaves its callers open but for two things: a report is about a job that was
claimed, and unless `SeveralAtOnce` none marks a job as evaluating. `WorkerInv` shows that the
worker keeps to the first, and `SerialInv` that with one slot it keeps to the second; with more,
`WorkerAssumption` makes `SeveralAtOnce` true. `SerialInv` says that a live task is the entry of
its job in `_in_flight_jobs`, there is one entry, a claimed job that waits for its task is
evaluating while there is no entry, and a job has no outcome before its task's end. The other
theorems rest on it. A lease that was reclaimed under a dead heartbeat is the hard case:
the job is pending again, but cannot be claimed before its task is gone. With two
jobs at a time it can (`worker.py:241`), so "one job at a time" (`MaxConcurrentJobs = 1`,
the default of `worker.py`) is what these theorems need, not what they were given for ease.
`RecordedStands` adds that memory holds every outcome that the file does
(`FileInv`); the refinement that file and memory are the same and a task's job is evaluating
until it is marked (`EvaluatedInv`): a save that raises ends a heartbeat, and the job is then
requeued under its task.

### FleetController

| Theorem | Module | States | Assumes |
|---|---|---|---|
| `TypeCorrect` | `FleetProofs` | `[]TypeOK` | nothing |
| `OneMachine` | `FleetProofs` | `[]OneMachinePerRun` | nothing |
| `Released` | `FleetProofs` | `[]MachinesReleased` | nothing |
| `WithinLimits` | `FleetRunProofs` | `[]ModelsWithinLimits` | nothing |
| `Started` | `FleetRunProofs` | `[]StartedOnce` | answers of a dispatch are not lost |
| `NotCut` | `FleetRunProofs` | `[]RunsAreNotCut` | the same |
| `Genuine` | `FleetRunProofs` | `[]CompletedIsGenuine` | the same |
| `Stays` | `FleetRunProofs` | `SettledStays` | `MaxLeases = 1` |
| `ImplementsRunAttempts` | `FleetRunProofs` | the refinement of `RunAttempts` | `MaxLeases = 1` |

The invariant is stated per label (`LabelInv`): what an entry says of itself, where its
machines are, and what a thread may rely on at each step (`PlaceOK`), for instance that
one that follows a run does so on the machine its entry names. Frame lemmas say that a label
nothing happens to keeps it. It holds through every fault, since it relates the index to the
cloud and not to what the controller remembers. `OnceInv` says what a machine did; where an
answer is lost a run really is started twice, so the assumption stays. `LimitInv` says that
a thread was let in while its model had room. The last two need `SerialInv` (one thread, and
what was decided of a rerun still holds when it is appended) and `ChainInv` (attempts are
numbered without gaps, and all but the last have failed); with two leases neither holds,
which is what `fleet_race` shows.

### NativeRun, GatewayLanes, GatewayClient

| Theorem | Module | States |
|---|---|---|
| `Judged` | `NativeRunProofs` | `[]SuccessWasJudged` |
| `HomeAtLast` | `NativeRunProofs` | `[]ResultsComeHome` |
| `WholeAndKept` | `NativeRunProofs` | `ArchivesAreWholeAndKept` |
| `Stop` | `GatewayLanesProofs` | `[]GatewaysStop` |
| `Fresh` | `GatewayLanesProofs` | `[]FreshGateway` |
| `BrowserApart` | `GatewayLanesProofs` | `[]BrowserRunsApart` |
| `Complete` | `GatewayClientProofs` | `[]TurnIsComplete` |
| `NotLeftBehind` | `GatewayClientProofs` | `[]RunIsNotLeftBehind` |
| `OwnRun` | `GatewayClientProofs` | `[]TurnEndsByItsOwnRun` |

All of these assume nothing; each module's `Invariance` is their inductive invariant.

* `NativeRun`: a success is judged because the script's status says what became of the
  trials (`MachineInv`), the archive is what lies at home under its name (`FilesInv`), and
  the three final files are copied whole and published in one order (`CopyInv`, `PhaseInv`).
  That results come home counts the faults each bad turn costs (`FaultInv`) and needs that a
  checkpoint never meets an older one of its number (`NumberInv`), which also shows that the
  bound `MaxSequence` is never met.
* `GatewayLanes`: only lanes of the job at hand start a gateway, and what goes on of an earlier
  job was left behind by a run that raised (`LaneOf`). A gateway is fresh because
  `last_task_id` says which task it served (`FreshOf`), which is so because ids name
  tasks (`TasksAssumption`; the harness keeps results by id, `harness.py:205`). That browser
  runs do not meet needs nothing of the invariant but where each lane's run is: the plan has
  one lane for all browser tasks (`PlanSerializes`), and a lane's runs are runs of the tasks
  the plan gave it (`ItemOfLane`). It assumes that tiers are numbers, as `_task_weight` makes
  them (`worker.py:558`), and that at least one lane is asked for (`RequestedAssumption`,
  `worker.py:259`).
* `GatewayClient`: where each message of a run is (`MessageInv`), what an answer says when it
  is given (`AnswerInv`), which requests the gateway may still answer (`RequestInv`), and
  which ends of runs the event queue may hold (`EndInv`). The proof of `OwnRun` failed at
  first for a good reason: after one failed abort, the end of that run may be taken for the
  end of the second turn's, whose own end is then met by a third turn. TLC confirmed it with
  three turns, and the property says so now: an abort of that turn *or an earlier one* failed.

### The lane planner and the score of a run

`AlgorithmProofs` proves these of all inputs, where `algorithms` asks about some.

| Theorem | States | Of |
|---|---|---|
| `PlanHoldsEveryTask` | the lanes hold exactly the job's tasks, each once | `LanePlan` |
| `PlanFits` | no more lanes than were asked for, none idle | `LanePlan` |
| `PlanSerializes` | browser tasks that must not meet are on one lane | `LanePlan` |
| `PlanIsEven` | a lane weighs what its tasks do; without its last task it is no heavier than any other lane that shares tasks out | `LanePlan` |
| `OnlyWholeRunsPass` | complete by count, complete by score and no check raised or failed are the same, and a run passes only then | `CompletionChecks`, `RunScoring` |
| `ArtifactsFitTheBudget` | the blocks shown to a judge and the lines between them end within the budget | `CompletionChecks` |
| `AnswersAreBounded` | a judge's numbers are shares, it passes only on a number at its threshold or over it, or on NaN, and it has erred if it raised or cannot be read | `CompletionChecks` |
| `JudgeRescuesNothing` | a score is a share; a judge leaves it alone where checks failed or it does not count, and moves a verified run's by a tenth at most | `RunScoring` |

Each assumes only that its inputs are what the code is given: lists of tasks whose tiers are
numbers (`Weighable`), no task twice where each is to be found once (`IsInjective`), lists of
checks (`IsTask`), shares between 0 and 1. A planner and a prompt are folds, and a recursive
definition is a choice: that what is chosen exists is shown by the least place where it would
not (`FoldExists`, `AmongIsFunction`, `SortExists`), and the fold is then followed step by step
with the invariant of its loop (`PlaceKeeps`, `ShowKeeps`). No induction over data is needed
beyond that one argument.

`LanePlan` and `CompletionChecks` are written with this in mind: `HeaviestFirst` chooses the
bijection that sorts, `Among` keeps a part of a list by a recursive function, and results,
kinds and blocks have operators of their own. The prover cannot expand the `SelectSeq`,
`SortSeq`, `:>` and `@@` of the libraries.

### Only model-checked

* Liveness: `EveryJobSettles`, `RunsSettle`, `ClientFinishes`, `JobsEnd`, `LoopEnds`. Temporal
  proofs under fairness need ENABLED, which is out of the prover's reach.
* The other promises of the pure modules: bounded questions on functions that use what the
  prover cannot expand, or on the instances their questions name.
* `QueueLock` and the two violated runs, which are about instances.

## Plan

1. Queue, worker, fleet, client, lanes, native run, checkpoint loop and the pure modules: done.
2. Theorems of every module with state, and both refinements: done.
3. Theorems of the lane planner, of what completes a run and of what a judge may add: done.
4. Next: the trajectory's share of a score and the statistics of a submission, whose means and
   powers are folds like those above.
5. `GatewayLanes` with concurrent jobs (`CLAWBENCH_MAX_CONCURRENT_JOBS` above 1), whose
   lanes share indices and ports.

## Not modelled

* `services.py`, `cli.py`, installation scripts and the preparation of workspaces and agent
  processes: sequential I/O whose effect is the file system's.
* Profiles, diagnostics, dynamics, factor analysis and plots: floating-point statistics,
  out of TLC's reach. The random samples of the bootstrap in `stats.py` are left out too.
* The task catalogue, schemas and prompts: data and text.
* Command lines of the harnesses (`harnesses.py`) and rendering of reports: text.
* Clocks: time-outs may expire whenever they run, leases lapse when nobody renews them. So no
  property speaks of how long something takes.
