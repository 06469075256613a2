----------------------------- MODULE LaneSetup -----------------------------
(***************************************************************************)
(* What the worker writes for the gateways of a job and says of its progress*)
(* (clawbench/worker.py): the configuration file of a lane, seeded from the *)
(* host's, sanitized, cut down by the gateway when it starts, and mended    *)
(* before it starts again; and the progress of a job over its lanes.        *)
(*                                                                         *)
(* A configuration is [channels, plugins, codex, env, browser, exec, model, *)
(* sub, runtime, modelRuntimes, providers, auth]: channels maps the chat    *)
(* channels it names to "on" or "off", plugins is the set of enabled ones,  *)
(* providers a set of <<provider, model id>>, auth the order of profiles.   *)
(* A model is [provider, id]; NoModel is none.                              *)
(***************************************************************************)
EXTENDS Integers, Sequences, SequencesExt, FiniteSetsExt, Functions

ChatChannels == {"telegram", "discord", "slack"}
StalePlugins == {"marxbiotech-git-tools", "whatsapp"}
NoModel == [provider |-> "", id |-> ""]
EnvProfile == "openai-codex:clawbench-env"

\* OPENCLAW_EXEC_HOST and the agent runtime, as the environment settings name them.
ExecHost(settings) ==
    IF settings.execHost \in {"auto", "gateway", "sandbox", "node"} THEN settings.execHost ELSE "gateway"
AgentRuntime(settings) == IF settings.legacy THEN "" ELSE settings.runtime

\* The entries of the providers that a model needs; one entry per model, however often.
ProvidersOf(model) ==
    CASE model.provider = "openai" -> {"openai", "openai-codex"}
      [] model.provider \in {"openai-codex", "openrouter"} -> {model.provider}
      [] OTHER -> {}
EnsureProviders(config, model) ==
    [config EXCEPT !.providers = @ \cup {<<provider, model.id>> : provider \in ProvidersOf(model)}]

\* The profile of the environment's key comes first, once.
EnsureAuthProfile(config, model, runtime) ==
    IF runtime # "codex" \/ model.provider # "openai" THEN config
    ELSE [config EXCEPT !.auth = <<EnvProfile>> \o SelectSeq(@, LAMBDA profile : profile # EnvProfile)]

\* Without an agent runtime its policy and the codex plugin go; with one, models keep none of their own.
StripRuntime(config) == [config EXCEPT !.runtime = "", !.modelRuntimes = FALSE, !.plugins = @ \ {"codex"}]
ModelRuntimePolicy(config, runtime, settings) ==
    IF settings.legacy THEN config
    ELSE [config EXCEPT !.modelRuntimes = FALSE,
                        !.plugins = IF runtime = "codex" /\ @ # {} THEN @ \cup {"codex"} ELSE @]

EvalDefaults(config, settings) ==
    [config EXCEPT !.browser = TRUE, !.exec = ExecHost(settings)]

WithModel(config, model) ==
    IF model = NoModel THEN config ELSE EnsureProviders([config EXCEPT !.model = model, !.sub = model], model)

\* _sanitize_lane_state_dir
Sanitize(config, model, settings) ==
    LET runtime == AgentRuntime(settings)
        quiet == [config EXCEPT !.channels = [c \in DOMAIN @ \ {"whatsapp"} |->
                                                IF c \in ChatChannels THEN "off" ELSE @[c]],
                                !.plugins = @ \ StalePlugins]
        ready == WithModel(IF runtime = "" THEN StripRuntime(EvalDefaults(quiet, settings))
                           ELSE [EvalDefaults(quiet, settings) EXCEPT !.runtime = runtime], model)
    IN  IF model = NoModel \/ runtime = "" THEN ready
        ELSE EnsureAuthProfile(ModelRuntimePolicy(ready, runtime, settings), model, runtime)

\* _configure_browser_runtime patches the host's file, also when a lane starts.
PatchHost(host, model, settings) ==
    LET runtime == AgentRuntime(settings)
        plain == IF runtime = "" THEN StripRuntime(host) ELSE [host EXCEPT !.runtime = runtime]
        patched == WithModel(EvalDefaults(plain, settings), model)
        named == IF model # NoModel THEN EnsureAuthProfile(patched, model, runtime)
                 ELSE EnsureAuthProfile(EnsureProviders(patched, patched.model), patched.model, runtime)
    IN  IF model = NoModel \/ runtime = "" THEN named ELSE ModelRuntimePolicy(named, runtime, settings)

\* The gateway writes its configuration anew when it starts, without these sections.
GatewayNormalizes(config) ==
    [config EXCEPT !.channels = <<>>, !.plugins = {}, !.env = FALSE, !.browser = FALSE]

\* _reinject_host_env_to_lane: the host's keys and plugins, sanitized again if there were any.
ReinjectRaw(lane, host) ==
    [lane EXCEPT !.env = @ \/ host.env, !.plugins = IF host.plugins # {} THEN host.plugins ELSE @]
ReinjectUnsanitized(lane, host, model, settings) == ReinjectRaw(lane, host)
Reinject(lane, host, model, settings) ==
    IF host.env \/ host.plugins # {} THEN Sanitize(ReinjectRaw(lane, host), model, settings) ELSE lane

\* A lane's file as its gateway finds it at each start: made from the host's file at first,
\* mended from it later.
LaneStarts(host, model, settings, starts) ==
    LET first == [lane |-> Sanitize(host, model, settings), host |-> host, seen |-> <<>>]
        start(state, n) ==
            LET lane == Reinject(state.lane, state.host, model, settings)
            IN  [lane |-> GatewayNormalizes(lane), host |-> PatchHost(state.host, model, settings),
                 seen |-> Append(state.seen, lane)]
    IN  FoldLeft(start, first, [n \in 1..starts |-> n]).seen

-----------------------------------------------------------------------------
\* JobProgressTracker: [task, run, total, message, lanes]; a lane's entry is [task, run, stage].
None == "none"
IdleProgress == [task |-> None, run |-> 0, message |-> "Queued for evaluation", lanes |-> <<>>]

MarkStatus(progress, message, clearActive) ==
    IF clearActive THEN [IdleProgress EXCEPT !.message = message] ELSE [progress EXCEPT !.message = message]

MarkSerial(progress, task, run, stage) ==
    [task |-> task, run |-> run + 1, message |-> stage, lanes |-> <<>>]

MarkLane(progress, lane, task, run, stage) ==
    [progress EXCEPT !.task = None, !.run = 0,
                     !.lanes = (lane :> [task |-> task, run |-> run + 1, stage |-> stage]) @@ @]

ClearLane(progress, lane) ==
    LET left == Restrict(progress.lanes, DOMAIN progress.lanes \ {lane})
    IN  [progress EXCEPT !.lanes = left,
                         !.message = IF DOMAIN left = {} /\ progress.task = None
                                     THEN "Waiting for benchmark aggregation" ELSE @]

\* What the queue shows: one lane's task and run, the tasks of several, or the job's own.
Snapshot(progress) ==
    LET lanes == DOMAIN progress.lanes IN
    CASE Cardinality(lanes) = 1 ->
           LET lane == progress.lanes[CHOOSE l \in lanes : TRUE] IN [tasks |-> {lane.task}, run |-> lane.run]
      [] Cardinality(lanes) > 1 -> [tasks |-> {progress.lanes[l].task : l \in lanes}, run |-> 0]
      [] OTHER -> [tasks |-> {progress.task} \ {None}, run |-> progress.run]

\* _order_task_stats: every task's own statistics in the order of the job, or nothing.
OrderTaskStats(tasks, stats) ==
    LET of(task) == {i \in DOMAIN stats : stats[i].task = task}
    IN  IF \/ \E i \in DOMAIN stats : Cardinality(of(stats[i].task)) > 1
           \/ \E i \in DOMAIN tasks : of(tasks[i]) = {}
        THEN <<>>
        ELSE [i \in DOMAIN tasks |-> stats[CHOOSE n \in of(tasks[i]) : TRUE]]

\* What a job's gateway may use of a session's tools: browser tasks need the browser.
BrowserSupported(families, tools) == "browser" \in families => "browser" \in tools
=============================================================================
