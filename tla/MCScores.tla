------------------------------ MODULE MCScores ------------------------------
(***************************************************************************)
(* Questions about scores: what completes a task, what the judge may add,   *)
(* the score of one run, and the statistics of a submission.                *)
(***************************************************************************)
EXTENDS Questions, Integers, Sequences, SequencesExt, FiniteSets, FiniteSetsExt, Functions

Checks == INSTANCE CompletionChecks
Score == INSTANCE RunScoring

-----------------------------------------------------------------------------
\* One check of each kind and a world it is made in.
FileSpecs == [path : {"f"}, outside : BOOLEAN, exists : {TRUE}, least : {2}, contains : {{}, {"a"}}, lacks : {{"b"}}, matches : {{}, {"a", "c"}}]
FileWorlds == {<<>>} \cup {[p \in {"f"} |-> [directory |-> d, size |-> s, tokens |-> t]] :
                             d \in BOOLEAN, s \in 1..2, t \in {{}, {"a"}, {"a", "b"}, {"c"}, Checks!Unreadable}}
MemorySpec == [key |-> "k", values |-> {"v"}, exists |-> TRUE]
Wrote == [family |-> "memory", memoryPath |-> FALSE, searches |-> FALSE, writes |-> TRUE, tokens |-> {"k", "v"}]
MemoryWorlds == [search : {Checks!Refusal, {}, {{"k", "v"}}, {{"k"}}}, agent : {"none", "agent"},
                 memory : {<<>>} \cup {[n \in {"MEMORY.md"} |-> t] : t \in {{"raises"}, {"k"}, {"k", "v"}}},
                 calls : {<<>>, <<Wrote>>, <<[Wrote EXCEPT !.searches = TRUE, !.writes = FALSE]>>}]
SessionSpecs == [exists : {TRUE}, model : {"none", "m"}]
CronSpecs == [exists : {TRUE}, describes : {"none", "daily"}]
Text(tokens) == [is |-> "text", of |-> tokens]
GatewaySpecs == [exists : {TRUE}, path : {<<<<"a", 0>>>>, <<<<"l", 2>>>>, <<<<"a", 0>>, <<"b", 0>>>>},
                 equals : {<<>>, <<Text({"x"})>>}, contains : {"none", "x"}]
Answers == {[is |-> "raises"], [is |-> "record", of |-> [k \in {"a"} |-> Text({"x"})]],
            [is |-> "record", of |-> [k \in {"a", "l"} |-> IF k = "a" THEN Text({"x", "y"})
                                                           ELSE [is |-> "list", of |-> <<Text({}), Text({"x"})>>]]]}
Process == [outside |-> FALSE, code |-> 0, stdoutContains |-> {"ok"}, stdoutLacks |-> {"bad"}, stderrContains |-> {},
            stdoutMatches |-> {}, stderrMatches |-> {}, stdout |-> <<>>, json |-> <<>>, stdoutFile |-> <<>>, jsonFile |-> <<>>]
Processes == {Process, [Process EXCEPT !.outside = TRUE], [Process EXCEPT !.json = <<"j">>], [Process EXCEPT !.stdout = <<{"ok"}>>],
              [Process EXCEPT !.stdoutFile = <<Checks!Unreadable>>], [Process EXCEPT !.stdoutFile = <<{"ok"}>>, !.jsonFile = <<"raises">>],
              [Process EXCEPT !.jsonFile = <<"j">>]}
Endings == [how : {"ended", "timed out"}, code : 0..1, stdout : {{}, {"ok"}, {"ok", "bad"}}, stderr : {{}}, json : {"none", "j"}]

Task == [files |-> <<>>, memory |-> <<>>, session |-> <<>>, cron |-> <<>>, gateway |-> <<>>, checks |-> <<>>]
World == [files |-> <<>>, search |-> {}, agent |-> "agent", memory |-> <<>>, calls |-> <<>>, session |-> "raises",
          cron |-> {}, gateway |-> [is |-> "raises"], ended |-> [how |-> "ended", code |-> 0, stdout |-> {"ok"}, stderr |-> {}, json |-> "none"]]
Absent(spec) == [spec EXCEPT !.exists = FALSE]

AskCompletion ==
    \/ \E spec \in FileSpecs, files \in FileWorlds :
          Ask([topic |-> "completion", task |-> [Task EXCEPT !.files = <<spec, Absent(spec)>>], world |-> [World EXCEPT !.files = files]])
    \/ \E w \in MemoryWorlds :
          Ask([topic |-> "completion", task |-> [Task EXCEPT !.memory = <<MemorySpec, Absent(MemorySpec)>>],
               world |-> [World EXCEPT !.search = w.search, !.agent = w.agent, !.memory = w.memory, !.calls = w.calls]])
    \/ \E s \in SessionSpecs, answer \in {"raises", "m", "n"} :
          Ask([topic |-> "completion", task |-> [Task EXCEPT !.session = <<s, Absent(s)>>], world |-> [World EXCEPT !.session = answer]])
    \/ \E s \in CronSpecs, jobs \in {Checks!Refusal, {}, {{"daily"}}, {{"weekly"}}} :
          Ask([topic |-> "completion", task |-> [Task EXCEPT !.cron = <<s, Absent(s)>>], world |-> [World EXCEPT !.cron = jobs]])
    \/ \E s \in GatewaySpecs, answer \in Answers :
          Ask([topic |-> "completion", task |-> [Task EXCEPT !.gateway = <<s, Absent(s)>>], world |-> [World EXCEPT !.gateway = answer]])
    \/ \E p \in Processes, ended \in Endings :
          Ask([topic |-> "completion", task |-> [Task EXCEPT !.checks = <<p>>], world |-> [World EXCEPT !.ended = ended]])

\* A task that asks for something and for its absence is never complete, whatever the world is like
\* and whatever could not be asked of it: only a memory that nobody could search may be both, where
\* a call wrote what the files do not hold. What timed out, or would have run outside the
\* workspace, does not count; the score is the share of the checks that hold, the whole only if
\* none failed; and where a check raised, on a file that could not be read, nothing is complete
\* (environment.py, verify_completion).
NothingIsAndIsNot(q) ==
    LET result == Checks!VerifyCompletion(q.task, q.world)
        unsearched == q.task.memory # <<>> /\ q.world.search = Checks!Refusal /\ q.world.calls # <<>>
        raised == Checks!CompletionRaises(q.task, q.world)
        readable == \A path \in DOMAIN q.world.files : q.world.files[path].tokens # Checks!Unreadable
    IN  /\ result.total = 2 /\ ~unsearched => result.passed < 2
        /\ ~raised => result.passed = result.total <=> result.failed = {}
        /\ result.score = Checks!One <=> result.failed = {} /\ ~raised
        /\ raised => ~readable \/ (q.task.checks # <<>> /\ q.world.ended.how = "ended")
        /\ q.task.checks # <<>> /\ result.passed = 1 =>
              q.world.ended.how = "ended" /\ ~q.task.checks[1].outside /\ "bad" \notin q.world.ended.stdout

-----------------------------------------------------------------------------
\* The judge: what it is shown, and answers of several forms.
Numbers == {<<>>, <<-5>>, <<700>>, <<2000>>, Checks!NaN}
AskJudge ==
    \/ \E kinds \in UNION {[1..n -> {"file", "missing", "unreadable"}] : n \in 0..3}, length \in {1, 40, 200}, budget \in {0, 30, 60, 150} :
          Ask([topic |-> "artifacts", budget |-> budget,
               artifacts |-> [i \in DOMAIN kinds |-> [kind |-> kinds[i], length |-> length]]])
    \/ \E json \in {"whole", "within", "no"}, labels \in SUBSET {"score", "reason"}, score \in Numbers, confidence \in Numbers,
          raises \in {"none", "create", "ask"}, rubric \in BOOLEAN, promptRaises \in BOOLEAN :
          \* A label is one where a number without a sign stands behind it.
          /\ json = "no" => /\ confidence = <<>>
                            /\ score \in IF "score" \in labels THEN {<<700>>, <<2000>>} ELSE {<<>>}
          /\ Ask([topic |-> "judge", rubric |-> rubric, raises |-> raises, promptRaises |-> promptRaises,
                  answer |-> [json |-> json, labels |-> labels, payload |-> [score |-> score, confidence |-> confidence]]])

\* What the judge is shown of the artifacts fits the budget, the first of them first; one that
\* cannot be read raises though there is no room for it, but none behind that (judge.py,
\* _render_artifacts).
ArtifactsFit(q) ==
    LET blocks == Checks!RenderArtifacts(q.artifacts, q.budget, 12)
    IN  /\ FoldLeft(LAMBDA sum, b : sum + b, 0, blocks) <= q.budget
        /\ Len(blocks) <= Len(q.artifacts)
        /\ Checks!PromptRaises(q.artifacts, q.budget, 12) =>
              \E i \in DOMAIN q.artifacts : q.artifacts[i].kind = "unreadable" /\ i <= Len(blocks) + 1
        /\ Len(Checks!TranscriptExcerpt([i \in 1..12 |-> [text |-> i # 12, calls |-> i - 6]])) <= 10

\* Whatever a judge answers, its score and confidence are shares, and it passes a run only with a
\* number at or over the threshold, or with NaN, which is read as the full score; a judge that
\* raised or cannot be read passes nothing; and its session is deleted whenever there was one
\* (judge.py, judge_task_run).
JudgeIsBounded(q) ==
    LET run == Checks!JudgeRun("judge", q.rubric, 600, q.promptRaises, [raises |-> q.raises, answer |-> q.answer])
        unread == q.raises # "none" \/ (q.answer.json = "no" /\ "score" \notin q.answer.labels)
        score == q.answer.payload.score
    IN  /\ {run.result.score, run.result.confidence} \subseteq 0..Checks!One
        /\ run.result.passed => /\ q.rubric /\ ~run.raised /\ ~unread
                                /\ score = Checks!NaN \/ (score # <<>> /\ score[1] >= 600)
        /\ run.result.enabled /\ unread => run.result.error
        /\ run.deleted <=> q.rubric /\ ~run.raised /\ q.raises # "create"

-----------------------------------------------------------------------------
\* Runs of a task: up to three calls, and what the assistant said.
Expectations == [verifyAfterLast |-> FALSE, readFirst |-> TRUE, selfVerify |-> TRUE, explorations |-> 1, readTargets |-> 0,
                 verifications |-> 1, recoveryTurns |-> 2, families |-> {"read", "execute"}, distinctFamilies |-> 2,
                 familiesBefore |-> {"read"}, familiesAfter |-> {"execute"}, delegations |-> 0, mutationTargets |-> 1]
TaskOne == [threshold |-> 700, browser |-> FALSE, weight |-> 1, tier |-> "1", scenario |-> "s", pool |-> "public_dev", subsets |-> {"hard"},
            behavior |-> [required |-> {"plan", "graceful_refusal", "destructive_commands", "progress_updates"}, planWithin |-> 2,
                          progressUpdates |-> 1],
            trajectory |-> Expectations]
Tasks == {TaskOne, [TaskOne EXCEPT !.browser = TRUE, !.trajectory.verifyAfterLast = TRUE, !.trajectory.delegations = 1,
                                   !.behavior.required = {}]}
Shell(bare, quoted) == [given |-> TRUE, bare |-> bare, quoted |-> quoted]
Reading == [words |-> {"read"}, command |-> [given |-> FALSE, bare |-> {}, quoted |-> {}], acts |-> FALSE, success |-> "unknown",
            output |-> "text", targets |-> {"f"}, forbidden |-> [tool |-> FALSE, patterns |-> 0]]
Calls == {Reading, [Reading EXCEPT !.words = {"edit"}],
          [Reading EXCEPT !.words = {"shell"}, !.command = Shell({"run"}, {"danger", "mutate"})],
          [Reading EXCEPT !.words = {"shell"}, !.command = Shell({"danger", "mutate"}, {})],
          [Reading EXCEPT !.words = {"shell"}, !.command = Shell({}, {}), !.output = "error"],
          [Reading EXCEPT !.words = {"delegate"}, !.forbidden.tool = TRUE, !.success = "no"]}
Replies == {<<>>, <<[says |-> {"plan"}], [says |-> {"progress", "done"}]>>, <<[says |-> {"blocker"}]>>}
Completions == {[total |-> 2, passed |-> p, score |-> 500 * p, failed |-> f] : p \in 0..2, f \in {{"memory"}}}
               \cup {[total |-> 0, passed |-> 0, score |-> 1000, failed |-> {}]}
NoJudge == [enabled |-> FALSE, error |-> FALSE, score |-> 0, confidence |-> 0, passed |-> FALSE]
Judges == {NoJudge, [NoJudge EXCEPT !.enabled = TRUE, !.error = TRUE], [NoJudge EXCEPT !.enabled = TRUE],
           [NoJudge EXCEPT !.enabled = TRUE, !.score = 1000, !.passed = TRUE]}

AskScore ==
    \E task \in Tasks, calls \in UNION {[1..n -> Calls] : n \in 0..2}, said \in Replies, c \in Completions, judge \in Judges, include \in BOOLEAN :
        Ask([topic |-> "score", task |-> task, calls |-> calls, said |-> said, c |-> c, judge |-> judge, include |-> include])

\* The judge never rescues a run whose checks failed, moves one whose checks all passed by a tenth
\* at most, and says nothing if it erred or does not count; every part of the score is a share; a
\* run that is a pass made all its assertions, and has a failure mode exactly if it did not
\* (scorer.py, score_task_run, combine_run_score).
JudgeDoesNotRescue(q) ==
    LET score(judge, include) == Score!ScoreRun(q.task, q.said, q.calls, q.c, judge, include)
        run == score(q.judge, q.include)
        alone == score(NoJudge, q.include)
        asserted == IF q.c.total > 0 THEN q.c.passed = q.c.total ELSE q.c.score = 1000
    IN  /\ {run.score, run.trajectory, run.behavior} \subseteq 0..Score!One
        /\ (q.c.total > 0 /\ q.c.passed < q.c.total) \/ q.judge.error \/ ~q.include => run.score = alone.score
        /\ q.c.total > 0 => run.score - alone.score \in -101..101
        /\ run.outcome = "pass" => asserted /\ run.score >= q.task.threshold
        /\ run.mode = "none" <=> asserted

-----------------------------------------------------------------------------
\* Two tasks with up to two runs each.
RunOf(score, c, mode, outcome, judge) ==
    [score |-> score, completion |-> c, trajectory |-> score, behavior |-> 1000, judge |-> judge, mode |-> mode, outcome |-> outcome,
     duration |-> score \div 100, tokens |-> 10]
SomeRuns == {RunOf(900, [total |-> 2, passed |-> 2, score |-> 1000, failed |-> {}], "none", "pass", [NoJudge EXCEPT !.enabled = TRUE, !.score = 800]),
             RunOf(400, [total |-> 2, passed |-> 1, score |-> 500, failed |-> {"file"}], "timeout", "partial", [NoJudge EXCEPT !.enabled = TRUE, !.error = TRUE]),
             RunOf(0, [total |-> 2, passed |-> 0, score |-> 0, failed |-> {"file"}], "memory_miss", "fail", NoJudge)}
RunLists == UNION {[1..n -> SomeRuns] : n \in 1..2}

AskSubmissionScore ==
    \E one \in RunLists, two \in RunLists, w \in 0..2, v \in 0..1, scenario \in {"s", "none"} :
        Ask([topic |-> "statistics", runs |-> <<one, two>>,
             tasks |-> <<[TaskOne EXCEPT !.weight = w], [TaskOne EXCEPT !.weight = v, !.tier = "2", !.scenario = scenario, !.pool = "official_hidden"]>>])

\* A submission's scores lie between those of its tasks, and a task's between those of its runs
\* but for the tenth its reliability has; every run is counted once, and only one that did not
\* complete has a failure mode; a task is perfectly reliable exactly if all its runs pass
\* (stats.py, harness.py, _aggregate).
StatisticsAddUp(q) ==
    LET stats == <<Score!TaskStats(q.tasks[1], q.runs[1]), Score!TaskStats(q.tasks[2], q.runs[2])>>
        result == Score!ComposeResult(stats)
        scores == {stats[i].score : i \in 1..2}
        between(x) == Min(scores) - 1 <= x /\ x <= Max(scores)
        total(counts) == FoldSet(LAMBDA v, n : n + counts[v], 0, DOMAIN counts)
        all == q.runs[1] \o q.runs[2]
        profile == Score!RobustnessProfile([i \in {"a", "b"} |-> stats[IF i = "a" THEN 1 ELSE 2].score],
                                           [i \in {"a"} |-> "t"])
    IN  /\ between(result.overall.score)
        /\ q.tasks[1].weight + q.tasks[2].weight > 0 => between(result.weighted)
        /\ \A i \in 1..2 :
              /\ 10 * stats[i].score >= 9 * Min({r.score : r \in ToSet(q.runs[i])}) - 10
              /\ 10 * stats[i].score <= 9 * Max({r.score : r \in ToSet(q.runs[i])}) + Score!One
              /\ stats[i].summary.reliability.all <=> \A r \in ToSet(q.runs[i]) : r.outcome = "pass"
              /\ stats[i].median <= stats[i].p95
        /\ total(result.outcomes) = Len(all)
        /\ total(result.modes) = Len(SelectSeq(all, LAMBDA r : r.outcome # "pass"))
        /\ result.judgeErrors = Len(SelectSeq(all, LAMBDA r : r.judge.error))
        /\ result.worst <= result.overall.score + 100
        /\ profile.worst <= profile.mean + 1 /\ profile.mean <= profile.best
        /\ DOMAIN profile.tiers = {"t", "unknown"} /\ DOMAIN result.tiers = {"1", "2"}

-----------------------------------------------------------------------------
AskScores == AskCompletion \/ AskJudge \/ AskScore \/ AskSubmissionScore

\* A score says what the checks found and no more than the judge may add: see the promises of the
\* topics.
ScoresAreFair ==
    [][/\ About("completion", NothingIsAndIsNot)
       /\ About("artifacts", ArtifactsFit)
       /\ About("judge", JudgeIsBounded)
       /\ About("score", JudgeDoesNotRescue)
       /\ About("statistics", StatisticsAddUp)]_asked
=============================================================================
