-------------------------- MODULE CompletionChecks --------------------------
(***************************************************************************)
(* What decides that a run completed its task (clawbench/environment.py),   *)
(* and what the judge is shown and answers (clawbench/judge.py).            *)
(*                                                                         *)
(* A text is the set of the tokens in it, and a pattern is a set of which   *)
(* it needs one; None is what is not there or not asked for.  A call of the *)
(* gateway is what it answers, or Raises; Refusal stands for a search or a  *)
(* list that raised, which otherwise are sets of texts; and Unreadable for  *)
(* the text of a file that cannot be read.  NaN is the value that JSON and  *)
(* float know for what is no number: nought over nought.                    *)
(***************************************************************************)
EXTENDS Integers, Sequences, SequencesExt, FiniteSets, FiniteSetsExt, Functions

One == 1000
None == "none"
Raises == "raises"
Refusal == {{Raises}}
Unreadable == {Raises}
NaN == <<0, 0>>

Matches(pattern, text) == pattern = {} \/ pattern \cap text # {}

\* A path of a task stands in the workspace or is refused; a directory is not a file.
VerifyFile(spec, files) ==
    LET there == spec.path \in DOMAIN files /\ ~files[spec.path].directory IN
    /\ ~spec.outside
    /\ there = spec.exists
    /\ spec.exists =>
        LET file == files[spec.path] IN
        /\ file.size >= spec.least
        /\ spec.contains \subseteq file.tokens
        /\ spec.lacks \cap file.tokens = {}
        /\ Matches(spec.matches, file.tokens)

FileRaises(spec, files) ==
    /\ spec.exists /\ ~spec.outside
    /\ spec.path \in DOMAIN files /\ ~files[spec.path].directory /\ files[spec.path].tokens = Unreadable

\* Only a call that changes memory, or one that names a memory file, shows that it was kept.
SearchesMemory(call) == call.family = "memory" /\ call.searches /\ ~call.writes
MemoryInTranscript(spec, calls) ==
    \E i \in DOMAIN calls :
        /\ calls[i].family = "memory" \/ calls[i].memoryPath
        /\ ~SearchesMemory(calls[i])
        /\ {spec.key} \cup spec.values \subseteq calls[i].tokens

\* A memory search that fails, or whose answer cannot be read, falls back on the files of the
\* agent, and these on what the transcript shows.
VerifyMemory(spec, search, agent, memory, calls) ==
    IF search # Refusal
    THEN IF spec.exists THEN search # {} /\ spec.values \subseteq UNION search ELSE search = {}
    ELSE /\ agent # None
         /\ IF ~spec.exists THEN spec.key \notin memory
            ELSE IF spec.key \in memory THEN spec.values \subseteq memory
            ELSE MemoryInTranscript(spec, calls)

\* The memory files that can be read and hold something.
AgentMemory(files) == UNION {files[name] : name \in {n \in DOMAIN files : files[n] # Unreadable}}

VerifySession(spec, answer) ==
    IF answer = Raises THEN ~spec.exists
    ELSE spec.exists /\ (spec.model = None \/ spec.model = answer)

VerifyCron(spec, jobs) ==
    /\ jobs # Refusal
    /\ IF spec.exists THEN jobs # {} /\ (spec.describes = None \/ spec.describes \in UNION jobs) ELSE jobs = {}

\* A path walks records by key and lists by index; what is not there is None.
ResolveStep(value, part) ==
    IF value.is = "record" /\ part[1] \in DOMAIN value.of
    THEN LET inner == value.of[part[1]]
         IN  IF part[2] = 0 THEN inner
             ELSE IF inner.is = "list" /\ part[2] <= Len(inner.of) THEN inner.of[part[2]] ELSE [is |-> None]
    ELSE [is |-> None]
ResolvePath(payload, path) == FoldLeft(ResolveStep, payload, path)

VerifyGateway(spec, answer) ==
    /\ answer.is # Raises
    /\ LET value == ResolvePath(answer, spec.path) IN
       /\ (value.is # None) = spec.exists
       /\ spec.exists => /\ spec.equals \in {<<>>, <<value>>}
                         /\ spec.contains = None \/ (value.is = "text" /\ spec.contains \in value.of)

-----------------------------------------------------------------------------
\* An execution check: what the process did, unless its directory was outside the workspace,
\* it could not be started, or it was killed at its time limit.
Same(value, wanted) == wanted \in {<<>>, <<value>>}
EndsAsAsked(spec, ended) ==
    /\ ended.code = spec.code
    /\ spec.stdoutContains \subseteq ended.stdout
    /\ spec.stdoutLacks \cap ended.stdout = {}
    /\ spec.stderrContains \subseteq ended.stderr
    /\ Matches(spec.stdoutMatches, ended.stdout)
    /\ Matches(spec.stderrMatches, ended.stderr)
    /\ Same(ended.stdout, spec.stdout)

\* The output may have to be that of a file of the workspace, too; a file that is not there, or
\* has no JSON, raises once it is looked at, and a path outside holds nothing that a process says.
EvaluateExecution(spec, ended) ==
    /\ EndsAsAsked(spec, ended)
    /\ Same(ended.stdout, spec.stdoutFile)
    /\ Same(ended.json, spec.json) /\ Same(ended.json, spec.jsonFile)
    /\ <<spec.json, spec.jsonFile>> # <<<<>>, <<>>>> => ended.json # None

Runs(spec, ended) == ~spec.outside /\ ended.how \notin {"refused", "timed out"}
RunExecutionCheck(spec, ended) == Runs(spec, ended) /\ EvaluateExecution(spec, ended)

ExecutionRaises(spec, ended) ==
    /\ Runs(spec, ended) /\ EndsAsAsked(spec, ended)
    /\ \/ spec.stdoutFile = <<Unreadable>>
       \/ /\ Same(ended.stdout, spec.stdoutFile) /\ Same(ended.json, spec.json)
          /\ ended.json # None /\ spec.jsonFile = <<Raises>>

\* Whether each check of a task holds, and of what kind it is.
CheckResults(task, world) ==
    [i \in DOMAIN task.files |-> VerifyFile(task.files[i], world.files)]
    \o [i \in DOMAIN task.memory |->
          VerifyMemory(task.memory[i], world.search, world.agent, AgentMemory(world.memory), world.calls)]
    \o [i \in DOMAIN task.session |-> VerifySession(task.session[i], world.session)]
    \o [i \in DOMAIN task.cron |-> VerifyCron(task.cron[i], world.cron)]
    \o [i \in DOMAIN task.gateway |-> VerifyGateway(task.gateway[i], world.gateway)]
    \o [i \in DOMAIN task.checks |-> RunExecutionCheck(task.checks[i], world.ended)]

CheckKinds(task) ==
    LET each(specs, kind) == [i \in DOMAIN specs |-> kind]
    IN  each(task.files, "file") \o each(task.memory, "memory") \o each(task.session, "session")
        \o each(task.cron, "cron") \o each(task.gateway, "gateway") \o each(task.checks, "exec")

\* A check that raises ends the run, and the result of its error has checked nothing.
Unchecked == [total |-> 0, passed |-> 0, failed |-> {}, score |-> 0]
CompletionRaises(task, world) ==
    \/ \E i \in DOMAIN task.files : FileRaises(task.files[i], world.files)
    \/ \E i \in DOMAIN task.checks : ExecutionRaises(task.checks[i], world.ended)

\* verify_completion: every check counts the same; a task without any is complete.
VerifyCompletion(task, world) ==
    LET results == CheckResults(task, world)
        passed == Cardinality({i \in DOMAIN results : results[i]})
    IN  IF CompletionRaises(task, world) THEN Unchecked
        ELSE [total |-> Len(results), passed |-> passed,
              failed |-> {CheckKinds(task)[i] : i \in {j \in DOMAIN results : ~results[j]}},
              score |-> IF results = <<>> THEN One ELSE (One * passed) \div Len(results)]

-----------------------------------------------------------------------------
\* The judge's prompt: artifacts in their order until the budget is spent, each with a header,
\* the last of them cut. A length is a number of characters.
Cut(length, limit) == IF limit <= 0 THEN 0 ELSE IF length < limit THEN length ELSE limit
ArtifactBlock(artifact, remaining, Header) ==
    IF artifact.kind # "file" THEN Header + 10
    ELSE Header + Cut(artifact.length, Max({0, remaining - Header - 11}))
ShowArtifact(shown, artifact, Header) ==
    IF shown.remaining <= 0 THEN shown
    ELSE LET size == Cut(ArtifactBlock(artifact, shown.remaining, Header), shown.remaining)
         IN  [blocks |-> Append(shown.blocks, size), remaining |-> shown.remaining - size - 2]
RenderArtifacts(artifacts, budget, Header) ==
    FoldLeft(LAMBDA shown, artifact : ShowArtifact(shown, artifact, Header),
             [blocks |-> <<>>, remaining |-> budget], artifacts).blocks

\* An artifact is read before it is known whether there is room for it.
PromptRaises(artifacts, budget, Header) ==
    /\ budget > 0
    /\ \E i \in 1..Min({Len(artifacts), Len(RenderArtifacts(artifacts, budget, Header)) + 1}) :
          artifacts[i].kind = "unreadable"

\* The excerpt of the transcript: the last ten messages, and four calls of each.
TranscriptExcerpt(messages) ==
    LET spoken == SelectSeq(SubSeq(messages, Max({1, Len(messages) - 9}), Len(messages)),
                            LAMBDA m : m.text \/ m.calls > 0)
    IN  [i \in DOMAIN spoken |-> [text |-> spoken[i].text, calls |-> Min({4, spoken[i].calls})]]

\* What of a judge's answer can be read: a JSON object as it is, in a fence or within other
\* text, or else lines with labels.
ExtractJson(answer) == IF answer.json \in {"whole", "fenced", "within"} THEN <<answer.payload>> ELSE <<>>
ExtractLabeled(answer) == IF answer.labels \cap {"score", "confidence"} = {} THEN <<>> ELSE <<answer.payload>>

\* A number outside 0 to 1 is brought into it, and what cannot be read as one is 0. NaN is less
\* than nothing and nothing less than it, so that the least of it and 1 is 1.
Clamp(value) ==
    IF value = <<>> THEN 0
    ELSE IF value = NaN THEN One
    ELSE Max({0, Min({One, value[1]})})

ParseJudge(answer, threshold) ==
    LET payload == ExtractJson(answer) \o ExtractLabeled(answer)
    IN  IF payload = <<>> THEN [enabled |-> TRUE, error |-> TRUE, score |-> 0, confidence |-> 0, passed |-> FALSE]
        ELSE LET score == Clamp(payload[1].score)
             IN  [enabled |-> TRUE, error |-> FALSE, score |-> score,
                  confidence |-> Clamp(payload[1].confidence), passed |-> score >= threshold]

\* judge_task_run: without a model or a rubric there is no judge; a prompt that cannot be put
\* together raises, out of the run; a session of its own is deleted whatever happened in it, and
\* a judge that raises in it is one that erred.
JudgeRun(model, rubric, threshold, promptRaises, session) ==
    LET judged == model # None /\ rubric
        silent(on) == [enabled |-> on, error |-> on, score |-> 0, confidence |-> 0, passed |-> FALSE]
    IN  [raised |-> judged /\ promptRaises,
         result |-> IF ~judged \/ promptRaises THEN silent(FALSE)
                    ELSE IF session.raises = None THEN ParseJudge(session.answer, threshold)
                    ELSE silent(TRUE),
         deleted |-> judged /\ ~promptRaises /\ session.raises # "create"]
=============================================================================
