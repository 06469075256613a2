------------------------------ MODULE MCPlans ------------------------------
(***************************************************************************)
(* Questions about what is planned and what then runs: the plan of a native *)
(* run and the job its machine starts, the container of a trial, the files  *)
(* of a lane of the worker, and how tasks are spread over lanes.            *)
(***************************************************************************)
EXTENDS Questions, Integers, Sequences, SequencesExt, FiniteSets, FiniteSetsExt, Functions, TLC

Native == INSTANCE RunPlan
Container == INSTANCE TaskContainer
LaneFiles == INSTANCE LaneSetup
Lanes == INSTANCE LanePlan
Submissions == INSTANCE HubResults

-----------------------------------------------------------------------------
\* A suite of two tasks, or three; a qualification takes Ten of them, which is 2 here.
Ten == 2
TaskFile == [absolute |-> FALSE, name |-> "Dockerfile", found |-> TRUE]
Directory(name) == [name |-> name, files |-> Native!RequiredFiles, inner |-> {<<"environment", "Dockerfile">>},
                    dockerfile |-> TaskFile, timeout |-> 0, verifierEnv |-> <<>>, readable |-> TRUE, contextFound |-> TRUE]
Suites == {<<Directory("a"), Directory("b")>>, <<Directory("a"), Directory("b"), Directory("c")>>,
           <<Directory("a"), [Directory("b") EXCEPT !.readable = FALSE]>>}
Harnesses == <<[name |-> "openclaw", version |-> "v1"], [name |-> "claude-code", version |-> "v2"]>>
Models == <<[slug |-> "s1", id |-> "gpt", provider |-> "openai", proxy |-> "p1"],
            [slug |-> "s2", id |-> "other", provider |-> "anthropic", proxy |-> "p2"]>>
Requests == [tasks : {<<>>, <<"a", "b">>, <<"b", "c">>, <<"a", "a">>}, family : {"none", "q"}, effort : {"low", "high"},
             judge : {"gpt", "other"}, judgeEffort : {"low", "medium"}, phase : {"r0", "full"}, repetitions : {1, 2}]
ProviderFiles == {<<>>, "REASONING_EFFORT" :> "high", "KEY" :> "k"}
Config == [commit |-> "c", judge |-> "gpt", parity |-> {<<"openclaw", "s1">>}]

AskPlan == \E suite \in Suites, request \in Requests, n \in 1..2, m \in 1..2, file \in ProviderFiles :
              Ask([topic |-> "plan", suite |-> suite, request |-> request, file |-> file,
                   harnesses |-> SubSeq(Harnesses, 1, n), models |-> SubSeq(Models, 1, m)])

\* Every run that is planned passes the controller's check of the plan, has a label of its own and
\* is dispatched as what was planned: the job on the machine is of the same harness, model, tasks
\* and effort, and its proxy asks the model for that effort, even when the file with the
\* provider's keys sets another; its suite has the tasks it expects; and no qualification run can
\* come to the leaderboard (plan.py, fleet.py, remote_run.sh, run_job.py).
PlannedIsStarted(q) ==
    LET suite == Native!ValidateSuite(q.suite)
        plan == Native!WriteRunIndex(q.request, suite[1], q.harnesses, q.models, Ten)
        models == ToSet(Models)
        job(entry) == Native!RemoteRun(Native!DispatchEnv(Config, entry), q.file,
                                       Native!DispatchArguments(entry, 1), models)
        asPlanned(entry, started) ==
            LET tasks == Native!JobTasks(suite[1], started.tasks, started.run.count)
                manifest == Native!Manifest(started, tasks[1])
            IN  /\ started.run = entry.run
                /\ started.routes[entry.run.proxy] =
                     [model |-> entry.run.model, effort |-> IF entry.run.provider = "openai" THEN entry.effort ELSE "none"]
                /\ started.routes["shellbench-judge"].model = Config.judge
                /\ tasks # <<>> /\ entry.tasks # <<>> => manifest.tasks = ToSet(entry.tasks)
                /\ entry.phase = "r0" <=> manifest.eligible = "no"
    IN  (suite # <<>> /\ plan # <<>>) =>
          LET entries == plan[1].entries IN
          /\ IsInjective([i \in DOMAIN entries |-> entries[i].run.label])
          /\ \A entry \in ToSet(entries) :
                /\ Native!ValidEntry(plan[1], entry, Ten)
                /\ job(entry) # <<>> /\ asPlanned(entry, job(entry)[1])

-----------------------------------------------------------------------------
\* A trial: what the agent leaves may hide in the directory of the tests.
Image == [workdir |-> "none", directories |-> {"/app", "/workspace"}, cwd |-> "/", files |-> <<"/app", "given">> :> "old"]
TaskTests == <<"/tests", "test.sh">> :> "checks"
TrialTasks == [compose : BOOLEAN, served : BOOLEAN, agentTimeout : {0, 5}, tests : {TaskTests}]
Dockers == {[builds |-> b, runs |-> r, named |-> TRUE, slow |-> s] : b \in BOOLEAN, r \in BOOLEAN, s \in BOOLEAN}
Paths == {<<"/app", "given">>, <<"/app", "made">>, <<"/tests", "test.sh">>, <<"/tests", "conftest.py">>, <<"/downloads", "x">>}
Commands == {[takes |-> t, writes |-> [p \in ps |-> "agent"]] : t \in {1, 9}, ps \in SUBSET Paths}
Setups == {[takes |-> t, writes |-> [p \in ps |-> "agent"]] : t \in {1, 999}, ps \in {{}, {<<"/tests", "conftest.py">>}}}

AskTrial == \E task \in TrialTasks, docker \in Dockers, image \in {Image, [Image EXCEPT !.workdir = "/work"]},
               setup \in Setups, agent \in Commands :
              Ask([topic |-> "trial", task |-> task, docker |-> docker, image |-> image, setup |-> setup, agent |-> agent])

\* The verifier finds exactly the task's own tests in /tests, whatever the agent and its setup left
\* there, and everything else as the agent left it; a trial that was verified has its artifacts,
\* and of a task in one container every file the agent changed under the working directory is
\* among them (runtime.py, run_trial, install_tests, collect_artifacts).
TestsAreTheTasks(q) ==
    LET trial == Container!Trial(q.task, q.docker, q.image, q.setup, q.agent)
        left == q.agent.writes @@ q.setup.writes @@ q.image.files
        tests(files) == {p \in DOMAIN files : p[1] = "/tests"}
        workdir == IF q.image.workdir = "none" THEN "/app" ELSE q.image.workdir
    IN  trial.verified # <<>> =>
          LET seen == trial.verified[1] IN
          /\ Restrict(seen, tests(seen)) = TaskTests
          /\ Restrict(seen, DOMAIN seen \ tests(seen)) = Restrict(left, DOMAIN left \ tests(left))
          /\ trial.collected # <<>>
          /\ ~q.task.compose /\ ~q.task.served =>
                trial.collected[1].files = {p \in DOMAIN q.agent.writes \cup DOMAIN q.setup.writes : p[1] = workdir}

-----------------------------------------------------------------------------
\* A lane of the worker that starts up to three times, from a host whose file has or lacks chat
\* channels, plugins and keys.
GPT == [provider |-> "openai", id |-> "gpt"]
Host == [channels |-> [c \in {"telegram", "webchat", "whatsapp"} |-> "on"], plugins |-> {}, codex |-> FALSE, env |-> FALSE,
         browser |-> FALSE, exec |-> "none", model |-> [provider |-> "openrouter", id |-> "x"], sub |-> LaneFiles!NoModel,
         runtime |-> "", modelRuntimes |-> TRUE, providers |-> {}, auth |-> <<"own", LaneFiles!EnvProfile>>]
Hosts == {[Host EXCEPT !.plugins = plugins, !.env = env] :
            plugins \in {{}, {"whatsapp"}, {"codex", "memory"}, {"marxbiotech-git-tools", "memory"}}, env \in BOOLEAN}
LaneSettings == {[execHost |-> e, legacy |-> l, runtime |-> r] :
                    e \in {"node", "nowhere"}, l \in BOOLEAN, r \in {"", "codex", "pi"}}
LaneModels == {LaneFiles!NoModel, GPT, [provider |-> "openrouter", id |-> "y"], [provider |-> "local", id |-> "z"]}

AskLaneFile == \E host \in Hosts, model \in LaneModels, settings \in LaneSettings :
                  Ask([topic |-> "lane file", host |-> host, model |-> model, settings |-> settings])

\* However often the gateway cuts its file down, at every start it finds no chat channel that is on
\* and no stale plugin, the job's model as the primary one with its providers, and the host's keys
\* and plugins; and the profile of the environment's key comes first and once (worker.py,
\* _sanitize_lane_state_dir, _reinject_host_env_to_lane).
LaneIsFitAtEveryStart(q) ==
    LET starts == LaneFiles!LaneStarts(q.host, q.model, q.settings, 3) IN
    \A n \in DOMAIN starts :
        LET file == starts[n]
            kept == q.host.plugins \ (LaneFiles!StalePlugins \cup {"codex"})
        IN  /\ \A c \in DOMAIN file.channels : c \in LaneFiles!ChatChannels => file.channels[c] = "off"
            /\ "whatsapp" \notin DOMAIN file.channels /\ file.plugins \cap LaneFiles!StalePlugins = {}
            /\ kept \subseteq file.plugins /\ (q.host.env => file.env)
            /\ q.model # LaneFiles!NoModel =>
                 /\ file.model = q.model /\ file.sub = q.model
                 /\ {<<p, q.model.id>> : p \in LaneFiles!ProvidersOf(q.model)} \subseteq file.providers
            /\ q.host.env => file.browser /\ file.exec \in {"node", "gateway"}
            /\ Len(SelectSeq(file.auth, LAMBDA profile : profile = LaneFiles!EnvProfile)) <= 1
            /\ q.model = GPT /\ ~q.settings.legacy /\ q.settings.runtime = "codex" => Head(file.auth) = LaneFiles!EnvProfile

-----------------------------------------------------------------------------
\* The progress of a job on two lanes, and its tasks' statistics.
Marks == {<<"lane", l, t>> : l \in 1..2, t \in {"a", "b"}} \cup {<<"clear", l, "none">> : l \in 1..2}
         \cup {<<"serial", 0, "c">>, <<"say", 0, "none">>, <<"reset", 0, "none">>}
Mark(progress, m) ==
    CASE m[1] = "lane" -> LaneFiles!MarkLane(progress, m[2], m[3], 0, "running")
      [] m[1] = "clear" -> LaneFiles!ClearLane(progress, m[2])
      [] m[1] = "serial" -> LaneFiles!MarkSerial(progress, m[3], 0, "running")
      [] m[1] = "say" -> LaneFiles!MarkStatus(progress, "Scoring", FALSE)
      [] m[1] = "reset" -> LaneFiles!MarkStatus(progress, "Scoring", TRUE)

AskProgress == \E n \in 0..4 : \E marks \in [1..n -> Marks] : Ask([topic |-> "progress", marks |-> marks])

\* What the queue shows of a job are the tasks of the lanes that run one, each lane's last and none
\* that was cleared; and if no lane does, the task of the job itself (worker.py, JobProgressTracker).
ProgressIsOfRunningLanes(q) ==
    LET shown == LaneFiles!Snapshot(FoldLeft(Mark, LaneFiles!IdleProgress, q.marks))
        last(Holds(_)) == Max({n \in DOMAIN q.marks : Holds(q.marks[n])} \cup {0})
        ended == last(LAMBDA m : m[1] \in {"serial", "reset"})
        of(l) == last(LAMBDA m : m[1] \in {"lane", "clear"} /\ m[2] = l)
        active == {l \in 1..2 : of(l) > ended /\ q.marks[of(l)][1] = "lane"}
        laned == last(LAMBDA m : m[1] = "lane") > ended
    IN  shown.tasks = IF active # {} THEN {q.marks[of(l)][3] : l \in active}
                      ELSE IF ended > 0 /\ q.marks[ended][1] = "serial" /\ ~laned THEN {"c"} ELSE {}

-----------------------------------------------------------------------------
\* Up to four tasks on up to three lanes, and their statistics as the lanes return them.
TaskOf(id, tier, family) == [id |-> id, tier |-> tier, family |-> family, delicate |-> FALSE, phases |-> 1]
Kinds == {<<1, "browser">>, <<3, "browser">>, <<1, "repo">>, <<3, "tools">>, <<2, "none">>}

AskLanes == \E n \in 1..4 : \E kinds \in [1..n -> Kinds], requested \in 1..3, serialize \in BOOLEAN :
               Ask([topic |-> "lanes", tasks |-> [i \in 1..n |-> TaskOf(i, kinds[i][1], kinds[i][2])],
                    requested |-> requested, serialize |-> serialize])

\* Every task is on one lane, once; browser tasks that must not run side by side are on one lane;
\* there are no more lanes than were asked for; no lane that shares tasks was heavier than another
\* before its last task came to it; and the statistics of the lanes, in whatever order they
\* come, are put into the order of the job (worker.py, _plan_parallel_lanes, _order_task_stats).
LanesAreBalanced(q) ==
    LET lanes == Lanes!Plan(q.tasks, q.requested, q.serialize)
        of(task) == {l \in DOMAIN lanes : task \in ToSet(lanes[l].tasks)}
        browsers == {t \in ToSet(q.tasks) : t.family = "browser"}
        shared == {l \in DOMAIN lanes : ~q.serialize \/ ToSet(lanes[l].tasks) \cap browsers = {}}
        stats == FlattenSeq([l \in DOMAIN lanes |-> [i \in DOMAIN lanes[l].tasks |-> [task |-> lanes[l].tasks[i].id]]])
        names == [i \in DOMAIN q.tasks |-> q.tasks[i].id]
        ordered == LaneFiles!OrderTaskStats(names, stats)
    IN  /\ \A t \in ToSet(q.tasks) : Cardinality(of(t)) = 1
        /\ Len(stats) = Len(q.tasks) /\ Len(lanes) <= q.requested
        /\ q.serialize => Cardinality(UNION {of(t) : t \in browsers}) <= 1
        /\ \A l, k \in shared : lanes[l].weight - Lanes!TaskWeight(Last(lanes[l].tasks)) <= lanes[k].weight
        /\ [i \in DOMAIN ordered |-> ordered[i].task] = names
        /\ LaneFiles!OrderTaskStats(names, Tail(stats)) = <<>>

-----------------------------------------------------------------------------
\* Submissions of presets: one of them for each audience, and one the queue refuses.
Preset(label, id, audiences) == [label |-> label, model |-> [id |-> id, prefix |-> "p"], provider |-> "p", audiences |-> audiences]
Presets == <<Preset("A", "m1", {"claw"}), Preset("B", "m2", {"claw", "budget"}), Preset("C", "m3", {"budget"})>>
Forms == {[preset |-> "none", model |-> [id |-> m, prefix |-> "own"], provider |-> v, judge |-> "j", runs |-> 1, lanes |-> 1,
           tier |-> t, scenario |-> "all", prompt |-> "clear", audience |-> a] :
             m \in {"none", "m9"}, v \in {"none", "mine"}, t \in {"all", "1"}, a \in {"none", "All Presets", "claw", "budget"}}

AskSubmission == \E form \in Forms, refused \in SUBSET {"m1", "m2", "m9"} :
                    Ask([topic |-> "submit", form |-> form, refused |-> refused])

\* Submitting all presets of an audience is submitting each of them by its label, whatever model
\* was typed beside it; a refused one keeps no other back (app.py, submit_all_presets, submit_model).
AllPresetsAreEach(q) ==
    LET blocked == {r \in {Submissions!Request([model |-> m, provider |-> v], q.form) :
                            m \in {"m1", "m2", "m3", "m9"}, v \in {"p", "own", "mine"}} : r.model \in q.refused}
        chosen == Submissions!PresetsFor(Presets, q.form.audience)
        each(preset) == Submissions!SubmitModel([q.form EXCEPT !.preset = preset.label], Presets, blocked)
    IN  Submissions!SubmitAll(TRUE, q.form, Presets, blocked) = FlattenSeq([i \in DOMAIN chosen |-> each(chosen[i])])

-----------------------------------------------------------------------------
AskPlans == AskPlan \/ AskTrial \/ AskLaneFile \/ AskProgress \/ AskLanes \/ AskSubmission

\* What runs is what was planned, in the place that was prepared for it: see the promises of the
\* topics.
PlannedRunIsWhatRuns ==
    [][/\ About("plan", PlannedIsStarted)
       /\ About("trial", TestsAreTheTasks)
       /\ About("lane file", LaneIsFitAtEveryStart)
       /\ About("progress", ProgressIsOfRunningLanes)
       /\ About("lanes", LanesAreBalanced)
       /\ About("submit", AllPresetsAreEach)]_asked
=============================================================================
