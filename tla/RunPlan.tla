------------------------------ MODULE RunPlan ------------------------------
(***************************************************************************)
(* How a planned run of the native evaluation becomes a job on a machine:   *)
(* the task suite (native_eval/tasks.py), the plan (models.py, plan.py), the *)
(* controller's check of it and its dispatch (fleet.py), what the machine   *)
(* makes of the dispatch (remote_run.sh, proxy.py) and the job and its      *)
(* manifest (run_job.py), with the supplements of older archives (audit.py).*)
(*                                                                         *)
(* None is what is not set, or empty.  An operator that raises answers      *)
(* Refused.  An environment is a function from the names in it.             *)
(***************************************************************************)
EXTENDS Integers, Sequences, SequencesExt, FiniteSets, FiniteSetsExt, Functions, TLC

None == "none"
Refused == <<>>
REASONING_EFFORTS == {"low", "medium", "high", "xhigh"}
REAL_TRAJECTORY_HARNESSES == {"openclaw", "hermes", "codex"}

Or(value, default) == IF value = None THEN default ELSE value
Find(env, name) == IF name \in DOMAIN env THEN env[name] ELSE None

-----------------------------------------------------------------------------
\* A task's directory: its files, what task.toml says, and what could not be read of it.
RequiredFiles == {"task.toml", "instruction.md", "environment/Dockerfile", "solution/solve.sh", "tests/test.sh"}

\* A path of task.toml: absolute, of the directory, or else of its environment.
ResolveTaskPath(dir, value) ==
    IF value.absolute \/ value.name \in dir.files \/ <<"environment", value.name>> \notin dir.inner
    THEN <<"task", value.name>> ELSE <<"environment", value.name>>

LoadTask(dir) ==
    [name |-> dir.name, checksum |-> <<dir.name, dir.files>>,
     dockerfile |-> ResolveTaskPath(dir, dir.dockerfile),
     compose |-> "environment/docker-compose.yaml" \in dir.files,
     agentTimeout |-> IF dir.timeout = 0 THEN 900 ELSE dir.timeout,
     verifierEnv |-> dir.verifierEnv]

\* A reference to the environment, or its default.
ExpandEnv(value, env) == IF value.ref = None THEN value.text ELSE Or(Find(env, value.ref), value.text)
ResolvedVerifierEnv(task, env) == [name \in DOMAIN task.verifierEnv |-> ExpandEnv(task.verifierEnv[name], env)]

ValidTask(dir) == RequiredFiles \subseteq dir.files /\ dir.readable /\ dir.dockerfile.found /\ dir.contextFound
\* One bad directory refuses the suite.
ValidateSuite(dirs) ==
    IF dirs # <<>> /\ \A i \in DOMAIN dirs : ValidTask(dirs[i])
    THEN <<[i \in DOMAIN dirs |-> LoadTask(dirs[i])]>> ELSE Refused

-----------------------------------------------------------------------------
\* build_matrix_plan: every harness with every model, each repetition.
RunOf(harness, model, repetition, count, effort, kind) ==
    [label |-> <<harness.name, model.slug, effort, kind, count, repetition>>,
     harness |-> harness.name, harnessVersion |-> harness.version, slug |-> model.slug,
     model |-> model.id, provider |-> model.provider, proxy |-> model.proxy,
     repetition |-> repetition, count |-> count, effort |-> effort]

BuildMatrix(harnesses, models, repetitions, count, effort, kind) ==
    IF repetitions = <<>> \/ ~IsInjective(repetitions) THEN Refused
    ELSE <<FlattenSeq([h \in DOMAIN harnesses |-> FlattenSeq([m \in DOMAIN models |->
             [r \in DOMAIN repetitions |->
                RunOf(harnesses[h], models[m], repetitions[r], count, effort, kind)]])])>>

\* write_run_index. A qualification (r0) is one harness and model on Ten named tasks, never
\* scored; a full plan has all tasks, and repetitions from 1.
R0Asked(request, harnesses, models, Ten) ==
    /\ Len(harnesses) = 1 /\ Len(models) = 1
    /\ Len(request.tasks) = Ten
    /\ request.family # None
FullAsked(request) == request.tasks = <<>> /\ request.family = None

Entry(run, request) ==
    [run |-> run, effort |-> request.effort, judge |-> request.judge, judgeEffort |-> request.judgeEffort,
     phase |-> request.phase, family |-> request.family, tasks |-> request.tasks, rerunOf |-> None,
     eligible |-> IF request.phase = "r0" THEN "no" ELSE None,
     excluded |-> IF request.phase = "r0" THEN "r0_non_scoring_qualification" ELSE None]

WriteRunIndex(request, suite, harnesses, models, Ten) ==
    LET names == {suite[i].name : i \in DOMAIN suite}
        asked == /\ harnesses # <<>> /\ models # <<>>
                 /\ ToSet(request.tasks) \subseteq names
                 /\ IsInjective(request.tasks)
                 /\ IF request.phase = "r0" THEN R0Asked(request, harnesses, models, Ten) ELSE FullAsked(request)
        r0 == request.phase = "r0"
        runs == BuildMatrix(harnesses, models, IF r0 THEN <<0>> ELSE [i \in 1..request.repetitions |-> i],
                            IF r0 THEN Ten ELSE Len(suite), request.effort, IF r0 THEN "smoke" ELSE "full")
    IN  IF ~asked \/ runs = Refused THEN Refused
        ELSE <<[count |-> Len(suite), entries |-> [i \in DOMAIN runs[1] |-> Entry(runs[1][i], request)]]>>

\* _validate_plan, of one entry.
SubsetAllowed(entry, Ten) ==
    IF entry.phase = "r0"
    THEN /\ entry.run.repetition = 0 /\ Len(entry.tasks) = Ten
         /\ entry.eligible = "no" /\ entry.family # None
    ELSE entry.rerunOf # None
ValidEntry(index, entry, Ten) ==
    /\ IF entry.tasks = <<>> THEN entry.phase # "r0"
       ELSE IsInjective(entry.tasks) /\ SubsetAllowed(entry, Ten)
    /\ entry.phase # "r0" => entry.run.repetition # 0
    /\ entry.run.count = (IF entry.tasks = <<>> THEN index.count ELSE Len(entry.tasks))
    /\ entry.run.provider = "openai" => entry.effort \in REASONING_EFFORTS
    /\ entry.judgeEffort \in REASONING_EFFORTS

\* _prepare_inputs: the archives are there and whole; the runner's is made of its commit once.
PrepareInputs(inputs) ==
    LET commit == Or(inputs.commit, inputs.head)
        runner == IF inputs.archive # None \/ inputs.made \/ inputs.archives THEN inputs.runnerWhole ELSE FALSE
    IN  IF inputs.taskArchive /\ inputs.envFile /\ commit # None /\ runner /\ inputs.tasksWhole
        THEN <<[commit |-> commit]>> ELSE Refused

\* Lease.from_inspect and from_manifest.
Inspected(value) ==
    CASE ~value.ready /\ value.state \in {"active", "provisioning"} -> "not ready"
      [] value.ready /\ value.state = "active" -> IF value.whole THEN "lease" ELSE "error"
      [] OTHER -> "unavailable"

\* _inspect_lease: the answer of the first try that is not a passing failure, or of the last.
\* A lease that is gone is an error only for whom it is required.
CRABBOX_INSPECT_ATTEMPTS == 4
InspectLease(answers, required) ==
    LET settled == {i \in 1..CRABBOX_INSPECT_ATTEMPTS : answers[i].kind # "transient" \/ i = CRABBOX_INSPECT_ATTEMPTS}
        answer == answers[Min(settled)]
        found == IF answer.kind = "ok" THEN Inspected(answer.value)
                 ELSE IF answer.kind = "missing" THEN "unavailable" ELSE "error"
    IN  IF found = "unavailable" /\ ~required THEN "nothing" ELSE found

-----------------------------------------------------------------------------
\* _dispatch: the runner's environment and arguments.
DispatchEnv(config, entry) ==
    ("RUNNER_COMMIT" :> config.commit) @@ ("REASONING_EFFORT" :> entry.effort)
    @@ ("JUDGE_MODEL_ID" :> config.judge) @@ ("JUDGE_REASONING_EFFORT" :> Or(entry.judgeEffort, entry.effort))
    @@ ("QUALIFICATION_FAMILY" :> entry.family) @@ ("RUN_PHASE" :> Or(entry.phase, "full"))
    @@ ("LEADERBOARD_ELIGIBLE" :> IF entry.eligible = "no" THEN "false" ELSE None)
    @@ ("EXCLUSION_REASON" :> entry.excluded)
    @@ ("PARITY" :> IF <<entry.run.harness, entry.run.slug>> \in config.parity THEN "validated" ELSE None)

\* Its order on the command line is that of remote_run.sh.
DispatchArguments(entry, concurrency) ==
    [run |-> [entry.run EXCEPT !.effort = None], rerunOf |-> entry.rerunOf, tasks |-> ToSet(entry.tasks),
     concurrency |-> concurrency]

\* Up to four tries, as long as the connection is what failed; the exits in their order.
Dispatches(exits) ==
    \E i \in DOMAIN exits : /\ i <= 4 /\ exits[i] = "ok"
                            /\ \A j \in 1..(i - 1) : exits[j] = "connection"

\* remote_run.sh: the file of the provider's keys overrides what was dispatched, but for the
\* planned effort, which goes on the command line, where it must not conflict with a file that
\* sets another once the proxy is up.
RemoteEnv(env, file) == file @@ env

ResolveEffort(option, env) ==
    LET set == Find(env, "REASONING_EFFORT")
        effort == Or(option, set)
    IN  IF (option # None /\ set # None /\ option # set) \/ effort \notin REASONING_EFFORTS \cup {None}
        THEN Refused ELSE <<effort>>

\* write_proxy_config: the model's efforts, and the judge's route.
ProxyConfig(env, models) ==
    LET effort == Find(env, "REASONING_EFFORT")
        judgeEffort == IF "JUDGE_REASONING_EFFORT" \in DOMAIN env THEN env["JUDGE_REASONING_EFFORT"] ELSE effort
        judges == {m \in models : m.id = (IF "JUDGE_MODEL_ID" \in DOMAIN env THEN env["JUDGE_MODEL_ID"] ELSE "gpt-5.5")}
        effortOf(m, e) == IF m.provider = "openai" THEN e ELSE None
    IN  IF effort \notin REASONING_EFFORTS \/ judgeEffort \notin REASONING_EFFORTS \/ judges = {} THEN Refused
        ELSE LET judge == CHOOSE m \in judges : TRUE
             IN  <<[route \in {m.proxy : m \in models} \cup {"shellbench-judge"} |->
                     IF route = "shellbench-judge" THEN [model |-> judge.id, effort |-> effortOf(judge, judgeEffort)]
                     ELSE LET m == CHOOSE x \in models : x.proxy = route
                          IN  [model |-> m.id, effort |-> effortOf(m, effort)]]>>

\* Preparing the proxy may override the environment; the job itself may not.
PrepareProxy(option, env, models) ==
    LET resolved == IF option = None THEN env ELSE ("REASONING_EFFORT" :> option) @@ env
        effort == ResolveEffort(option, resolved)
        routes == ProxyConfig(resolved, models)
    IN  IF effort = Refused \/ routes = Refused THEN Refused ELSE <<[effort |-> effort[1], routes |-> routes[1]]>>

\* The job that the dispatched arguments start, with the environment that the proxy was made of.
RemoteRun(env, file, arguments, models) ==
    LET planned == Find(env, "REASONING_EFFORT")
        sourced == RemoteEnv(env, file)
        proxy == PrepareProxy(planned, sourced, models)
    IN  IF proxy = Refused THEN Refused
        ELSE LET exported == ("REASONING_EFFORT" :> proxy[1].effort) @@ sourced
                 effort == ResolveEffort(planned, exported)
             IN  IF effort = Refused THEN Refused
                 ELSE <<[run |-> [arguments.run EXCEPT !.effort = effort[1]], env |-> exported,
                         routes |-> proxy[1].routes, tasks |-> arguments.tasks, rerunOf |-> arguments.rerunOf]>>

-----------------------------------------------------------------------------
\* run_job: the tasks it takes of the suite, and the manifest it leaves.
JobTasks(suite, names, count) ==
    LET tasks == IF names = {} THEN suite ELSE SelectSeq(suite, LAMBDA t : t.name \in names)
    IN  IF names \subseteq {suite[i].name : i \in DOMAIN suite} /\ Len(tasks) = count THEN <<tasks>> ELSE Refused

\* _parity_metadata: a claim counts for the harness and the model it is about.
ParityValidated(claim, run) ==
    /\ claim.validated
    /\ \A key \in DOMAIN claim.scope :
          claim.scope[key] = (CASE key = "harness" -> run.harness [] key = "slug" -> run.slug [] OTHER -> run.model)
ParityReadable(claim) == "harness" \in DOMAIN claim.scope /\ DOMAIN claim.scope \cap {"slug", "model"} # {}

Manifest(job, tasks) ==
    [run |-> job.run, phase |-> Or(Find(job.env, "RUN_PHASE"), "full"), family |-> Find(job.env, "QUALIFICATION_FAMILY"),
     tasks |-> {tasks[i].name : i \in DOMAIN tasks}, repair |-> job.rerunOf # None,
     eligible |-> IF Find(job.env, "LEADERBOARD_ELIGIBLE") = "false" THEN "no" ELSE None,
     excluded |-> Find(job.env, "EXCLUSION_REASON"), judge |-> Find(job.env, "JUDGE_MODEL_ID"),
     judgeEffort |-> Find(job.env, "JUDGE_REASONING_EFFORT"),
     parity |-> Find(job.env, "PARITY") = "validated",
     trajectories |-> IF job.run.harness \in REAL_TRAJECTORY_HARNESSES THEN "real_harness_events" ELSE "unsupported",
     commit |-> Find(job.env, "RUNNER_COMMIT")]

\* _update_job_result: what is done, what raised, what is left, what is known of the usage.
JobStats(results, total) ==
    LET known == SelectSeq(results, LAMBDA r : r.tokens # -1)
    IN  [completed |-> Len(results), pending |-> total - Len(results),
         errored |-> Len(SelectSeq(results, LAMBDA r : r.raised)),
         tokens |-> IF known = <<>> THEN -1 ELSE FoldLeft(LAMBDA sum, r : sum + r.tokens, 0, known)]

\* The manifest of a job that ended: the identity and the trajectories of those whose agent ran.
FinishManifest(manifest, results) ==
    LET agents == SelectSeq(results, LAMBDA r : r.ran) IN
    ("identity" :> (agents # <<>> /\ \A i \in DOMAIN agents : agents[i].identity))
    @@ ("trajectories" :> (agents # <<>> /\ \A i \in DOMAIN agents : agents[i].real))
    @@ ("models" :> UNION {agents[i].models : i \in DOMAIN agents})

\* build_metadata_supplements: what an archived manifest lacks, if it says nothing else.
Supplements(fleet, manifests) ==
    LET lacks(m) == {field \in DOMAIN fleet : Find(m, field) = None}
        conflicts(m) == \E field \in DOMAIN fleet : Find(m, field) \notin {None, fleet[field]}
    IN  IF (\E field \in DOMAIN fleet : fleet[field] = None) \/ \E m \in manifests : conflicts(m) THEN Refused
        ELSE <<{[manifest |-> m, adds |-> [field \in lacks(m) |-> fleet[field]]] : m \in {x \in manifests : lacks(x) # {}}}>>
=============================================================================
