--------------------------- MODULE TaskContainer ---------------------------
(***************************************************************************)
(* The container a trial runs in (native_eval/runtime.py, class             *)
(* DockerTaskEnvironment): how it starts, where commands run, what an        *)
(* expired command does to it, and what is collected of it.                  *)
(*                                                                         *)
(* A container is a record of whether it is up, its working directory and    *)
(* its files by path; a path is a sequence of names. Docker is what its      *)
(* commands come to in a trial.                                             *)
(***************************************************************************)
EXTENDS Integers, Sequences, SequencesExt, FiniteSets, FiniteSetsExt, Functions

None == "none"
Down == [up |-> FALSE, workdir |-> None, files |-> <<>>, mounts |-> {}]

\* The directories of the host that the container sees; the toolchain alone cannot be written.
Mounts == {<<"/logs/agent", "rw">>, <<"/logs/verifier", "rw">>, <<"/logs/artifacts", "rw">>, <<"/toolchain", "ro">>}

\* _discover_workdir: what the image says, or the first of the usual ones that is there.
Workdir(image) ==
    IF image.workdir # None THEN image.workdir
    ELSE IF "/app" \in image.directories THEN "/app"
    ELSE IF "/workspace" \in image.directories THEN "/workspace" ELSE image.cwd

Container(image) == [up |-> TRUE, workdir |-> Workdir(image), files |-> image.files, mounts |-> Mounts]

\* A built image that runs, or a composed one whose main service is named.
StartSingle(docker) == IF docker.builds /\ docker.runs THEN "up" ELSE "DockerStartupError"
StartCompose(docker) == IF docker.runs /\ docker.named THEN "up" ELSE "DockerStartupError"

Start(task, docker, image) ==
    LET outcome == IF docker.slow THEN "EnvironmentStartTimeoutError"
                   ELSE IF task.compose THEN StartCompose(docker) ELSE StartSingle(docker)
    IN  [outcome |-> outcome, container |-> IF outcome = "up" THEN Container(image) ELSE Down]

\* A command in it: one that outlives its time limit takes the container with it.
Exec(container, command, limit) ==
    IF ~container.up THEN [outcome |-> "failed", container |-> container]
    ELSE IF limit # 0 /\ command.takes > limit
    THEN [outcome |-> "timeout", container |-> [container EXCEPT !.up = FALSE]]
    ELSE [outcome |-> "ended", container |-> [container EXCEPT !.files = command.writes @@ @]]

\* install_tests: nothing the agent left in /tests stays.
UnderTests(path) == path[1] = "/tests"
InstallTests(container, tests) ==
    [container EXCEPT !.files = tests @@ Restrict(@, {p \in DOMAIN @ : ~UnderTests(p)})]

\* Artifacts: of a composed or a served task whole directories; of another the files under the
\* working directory that docker says were added or changed, and that are still there.
ArtifactRoots == <<"/workspace", "/app/output", "/downloads", "/screenshots">>
Changed(container, image) ==
    {p \in DOMAIN container.files : p \notin DOMAIN image.files \/ container.files[p] # image.files[p]}

CollectDirectories(container) ==
    LET present(root) == \E p \in DOMAIN container.files : p[1] = root
    IN  [directories |-> SelectSeq(ArtifactRoots, present), files |-> {}]
CollectChanged(container, image) ==
    [directories |-> <<>>, files |-> {p \in Changed(container, image) : p[1] = container.workdir /\ Len(p) > 1}]

Artifacts(task, container, image) ==
    IF task.compose \/ task.served THEN CollectDirectories(container) ELSE CollectChanged(container, image)

\* stop: by name, or with the project's volumes and what it left.
Stop(task, container) == Down

-----------------------------------------------------------------------------
\* build_judge_env: the judge's route through the proxy, unless the task sets another.
JudgeEnv(env, proxy) ==
    [name \in DOMAIN env \cup DOMAIN proxy |->
        IF name \in DOMAIN env /\ (name \notin DOMAIN proxy \/ env[name] # None) THEN env[name] ELSE proxy[name]]

\* A trial in its container: the agent's setup and run, its cleanup, what is collected, and then
\* the tests. A setup that fails or expires ends it, and so does a container that is down when
\* something has to be read of it or put into it; docker diff still reads one that was killed.
\* The answer is what was collected, and what the verifier saw.
Trial(task, docker, image, setup, agent) ==
    LET begun == Start(task, docker, image)
        prepared == Exec(begun.container, setup, 300)
        ran == Exec(prepared.container, agent, task.agentTimeout)
        tested == InstallTests(ran.container, task.tests)
        none == [collected |-> <<>>, verified |-> <<>>]
    IN  IF begun.outcome # "up" \/ prepared.outcome # "ended" THEN none
        ELSE IF ~ran.container.up
        THEN [none EXCEPT !.collected = IF task.compose \/ task.served
                                        THEN <<CollectDirectories([files |-> <<>>])>>
                                        ELSE <<[directories |-> <<>>, files |-> {}]>>]
        ELSE [collected |-> <<Artifacts(task, ran.container, image)>>, verified |-> <<tested.files>>]
=============================================================================
