----------------------------- MODULE MCReports -----------------------------
(***************************************************************************)
(* Questions about reports: the summary of a native run, the leaderboards   *)
(* of runs and of submissions, and the tables for research.                 *)
(***************************************************************************)
EXTENDS Questions, Integers, Sequences, SequencesExt, FiniteSets, FiniteSetsExt

Report == INSTANCE RunReport
Hub == INSTANCE HubResults
Research == INSTANCE ResearchTables

-----------------------------------------------------------------------------
\* A result of a task is under the task's path, in a trial directory with a name of its own.
Path(t) == <<"tasks", t>>
Good == [name |-> <<"a">>, path |-> Path("a"), outcome |-> "clean", exception |-> "none", exit |-> 0, reward |-> 12,
         judgeFailed |-> FALSE, finished |-> TRUE, real |-> TRUE, identity |-> TRUE]
ResultOf(r, t) == [r EXCEPT !.name = <<t>>, !.path = Path(t)]
Trial(has, r) == [has |-> has, name |-> <<r.name[1], "trial">>, result |-> r]
Result(r) == Trial("result", r)

Outcomes == {Good, [Good EXCEPT !.reward = 5], [Good EXCEPT !.finished = FALSE], [Good EXCEPT !.real = FALSE],
             [Good EXCEPT !.identity = FALSE], [Good EXCEPT !.judgeFailed = TRUE],
             [Good EXCEPT !.outcome = "verifier_error", !.reward = -1],
             [Good EXCEPT !.exception = "AgentTimeoutError", !.real = FALSE],
             [Good EXCEPT !.outcome = "pending", !.exception = "NonZeroAgentExitCodeError", !.exit = 70, !.reward = 0],
             [Good EXCEPT !.outcome = "", !.exception = "infra message", !.reward = 3]}
TrialsOf(t) == {Result(ResultOf(r, t)) : r \in Outcomes} \cup {Trial(has, ResultOf(Good, t)) : has \in {"none", "unreadable"}}

\* Up to two trials of the expected tasks, and perhaps one more of any.
Trials == UNION {[1..n -> TrialsOf("a") \cup TrialsOf("b")] : n \in 0..2}
More == {<<>>} \cup {<<Trial(has, ResultOf(Good, t))>> : has \in {"none", "result"}, t \in {"b", "c"}}

Planned(names) == [i \in DOMAIN names |-> [name |-> <<names[i]>>, path |-> Path(names[i])]]
Manifest == [tasks |-> Planned(<<"a", "b">>), expected |-> 2, harness |-> "openclaw", native |-> TRUE,
             realEvents |-> TRUE, accepted |-> "unknown",
             excluded |-> FALSE, identity |-> {<<"harness", "h">>, <<"model", "m">>},
             parity |-> [claimed |-> TRUE, scope |-> {<<"harness", "h">>, <<"model", "m">>}]]
Manifests == {Manifest, [Manifest EXCEPT !.native = FALSE, !.harness = "codex"], [Manifest EXCEPT !.tasks = <<>>],
              [Manifest EXCEPT !.tasks = <<>>, !.expected = 3, !.native = FALSE, !.parity.claimed = FALSE],
              [Manifest EXCEPT !.accepted = "no"], [Manifest EXCEPT !.excluded = TRUE],
              [Manifest EXCEPT !.realEvents = FALSE, !.accepted = "yes"]}

\* Four tasks, with a result of each, of some of them twice or of another; or one of them without
\* a path, in the manifest, in a result or in both.
FourPlanned == [Manifest EXCEPT !.tasks = Planned(<<"a", "b", "c", "d">>), !.expected = 4]
Pathless(f, i) == [f EXCEPT ![i].path = <<>>]
FourManifests == {FourPlanned, [FourPlanned EXCEPT !.tasks = Pathless(@, 1)]}
FourOutcomes == {ResultOf(Good, t) : t \in {"a", "b", "c", "d", "x"}} \cup
                {[ResultOf(Good, t) EXCEPT !.path = <<>>, !.reward = 5] : t \in {"a", "b"}} \cup
                {[ResultOf(Good, "d") EXCEPT !.judgeFailed = TRUE]}
FourTrials == UNION {[1..n -> {Result(r) : r \in FourOutcomes}] : n \in 3..5}

AskReport ==
    \/ \E trials \in Trials, more \in More, manifest \in Manifests :
            Ask([topic |-> "report", trials |-> trials \o more, manifest |-> manifest])
    \/ \E trials \in FourTrials, manifest \in FourManifests :
            Ask([topic |-> "report", trials |-> trials, manifest |-> manifest])

\* A run that may stand on the leaderboard has as many results as it was planned with tasks, all
\* finished, and no other file.  Of a planned task with a path the first result counts, and no
\* other: what is repeated or foreign scores nothing, though it can stand in for a task that has
\* no result; with such tasks and the failures of the infrastructure, what went wrong is half of
\* the planned tasks at the most.  The score is the mean reward over all planned tasks, and of a
\* native run every counted attempt that ended by itself shows a real trajectory by the intended
\* model (aggregate.py, _load_run, _summarize_run).
StandsOnItsResults(q) ==
    LET summary == Report!Summary(q.trials, q.manifest)
        planned == q.manifest.tasks
        expected == q.manifest.expected
        read == {i \in DOMAIN q.trials : q.trials[i].has # "none"}
        result(i) == q.trials[i].result
        own(t) == {i \in read : Report!BaseName(t.path) = result(i).name \/ t.path = result(i).path}
        counted == IF planned = <<>> THEN read ELSE {Min(own(t)) : t \in {p \in ToSet(planned) : own(p) # {}}}
        lacking == IF planned = <<>> THEN {} ELSE {t \in ToSet(planned) : own(t) = {}}
        failed == {i \in counted : result(i).judgeFailed \/ result(i).exception = "infra message"
                                   \/ (result(i).exit = 70 /\ q.manifest.harness = "openclaw")}
        reward(i) == IF result(i).reward = -1 THEN 0 ELSE result(i).reward
        total(trials) == FoldSet(LAMBDA i, sum : sum + reward(i), 0, trials)
        byItself(i) == result(i).outcome = "clean" /\ result(i).exception = "none" /\ ~result(i).judgeFailed
    IN  summary.eligible =>
          /\ ~q.manifest.excluded /\ q.manifest.accepted # "no"
          /\ Cardinality(read) = expected
          /\ \A i \in read : q.trials[i].has = "result" /\ result(i).finished
          /\ summary.score <= total(read) \div expected
          /\ (\A t \in ToSet(planned) : t.path # <<>>) =>
                /\ summary.score = total(counted) \div expected
                /\ Cardinality(counted) + Cardinality(lacking) = expected
                /\ 2 * (Cardinality(failed) + Cardinality(lacking) + Cardinality(DOMAIN q.trials \ counted)) <= expected
                /\ q.manifest.native => \A i \in counted :
                      byItself(i) => result(i).real /\ result(i).identity

-----------------------------------------------------------------------------
Runs == [eligible : BOOLEAN, score : {3, 6}, expected : {2}]
RunSets == UNION {[1..n -> Runs] : n \in 0..2}
Overlay == [kind |-> "none", names |-> {}, canonical |-> 1, repaired |-> 1, unknown |-> 0]
Overlays == {Overlay, [Overlay EXCEPT !.names = {"a"}], [Overlay EXCEPT !.kind = "names", !.names = {"a", "b"}],
             [Overlay EXCEPT !.kind = "unnamed"], [Overlay EXCEPT !.kind = "lineage"]}

AskBoard == \E one \in RunSets, two \in RunSets, overlay \in Overlays :
                Ask([topic |-> "board", pairs |-> <<one, two>>, overlay |-> overlay])

\* The leaderboard shows the pairs with an eligible run and no other, the best mean first; and the
\* tasks of a repaired run all come from somewhere (aggregate.py, build_report).
BoardIsHonest(q) ==
    LET board == Report!Leaderboard(q.pairs)
        standing(runs) == \E i \in DOMAIN runs : runs[i].eligible
    IN  /\ ToSet(board) = {runs \in ToSet(q.pairs) : standing(runs)}
        /\ \A i, j \in DOMAIN board : i < j => Report!MeanScore(board[i]) >= Report!MeanScore(board[j])
        /\ LET sources == Report!RepairSources(q.overlay, 2)
           IN  sources # <<>> => sources[1] + sources[2] + sources[3] = 2
        /\ Report!DeltaStatus(q.pairs[1], 3) # "available"

-----------------------------------------------------------------------------
Rows == {[id |-> id, model |-> key[1], prompt |-> "clear", scenario |-> "none", judge |-> key[2], score |-> s, time |-> t] :
         id \in 1..2, key \in {<<"m", "j">>, <<"m", "k">>, <<"n", "j">>}, s \in 1..2, t \in 1..2}
Uploads == UNION {[1..n -> Rows] : n \in 0..2}
Locals == {<<>>} \cup {<<row>> : row \in {r \in Rows : r.id = 1}}

AskHub == \E uploads \in Uploads, local \in Locals :
                Ask([topic |-> "hub", uploads |-> uploads, local |-> local])

\* What is uploaded twice stands once, as it was uploaded last; and the leaderboard shows, for
\* every model, prompt, scenario and judge that has a result on the hub or here, the latest of
\* them and only that, the best first (upload.py, app.py: load_leaderboard).
LatestOfEach(q) ==
    LET repo == FoldLeft(Hub!Upload, [exists |-> FALSE, files |-> <<>>], q.uploads)
        stored == Hub!LoadRows(repo)
        rows == ToSet(stored) \cup ToSet(q.local)
        shown == Hub!Leaderboard(stored, q.local)
        key(r) == <<r.model, r.prompt, r.scenario, r.judge>>
    IN  /\ ToSet(stored) = {q.uploads[i] : i \in {n \in DOMAIN q.uploads :
                                \A m \in n + 1..Len(q.uploads) : q.uploads[m].id # q.uploads[n].id}}
        /\ {key(shown[i]) : i \in DOMAIN shown} = {key(r) : r \in rows}
        /\ Len(shown) = Cardinality({key(r) : r \in rows})
        /\ \A i \in DOMAIN shown : \A r \in rows : key(r) = key(shown[i]) => r.time <= shown[i].time
        /\ \A i \in 1..Len(shown) - 1 : shown[i].score >= shown[i + 1].score

-----------------------------------------------------------------------------
NoTrace == [exists |-> FALSE, models |-> {}, steps |-> <<>>, metrics |-> <<-1>>]
TwoSteps == <<[tokens |-> <<-1, 3>>, cost |-> <<1>>, calls |-> <<"1", "none">>, results |-> <<[id |-> "1"], [id |-> "2"]>>],
              [tokens |-> <<-1>>, cost |-> <<-1>>, calls |-> <<>>, results |-> <<>>]>>
Traces == {NoTrace} \cup
          {[NoTrace EXCEPT !.exists = TRUE, !.models = ms, !.steps = TwoSteps] : ms \in SUBSET {"m", "n"}}
Files(name, traces) == {[f \in {name} |-> trace] : trace \in traces} \cup {<<>>}
SomeAgents == [model : {"none", "m"}, identity : {"yes", "no"}, costs : {<<-1>>, <<2>>}, tokens : {<<0>>}]
AllResults == {[readable |-> r, path |-> "none", task |-> "t", directory |-> "d", configured |-> "own",
             files |-> files, reward |-> 1, agent |-> agent] :
            r \in BOOLEAN, files \in Files("own", Traces) \cup Files("agent/trajectory.json", Traces), agent \in SomeAgents}
Second == {<<>>} \cup {<<[readable |-> r, path |-> "none", task |-> "u", directory |-> "d", configured |-> "own",
                         files |-> [f \in {"own"} |-> [NoTrace EXCEPT !.exists = TRUE, !.models = {m}]], reward |-> 1,
                         agent |-> [model |-> "none", identity |-> "yes", costs |-> <<-1>>, tokens |-> <<0>>]]>> :
                       r \in BOOLEAN, m \in {"m", "n"}}
Entry == [label |-> "l", model |-> "m", phase |-> "full", eligible |-> "none", version |-> "v"]

AskAudit == \E result \in AllResults, second \in Second :
                Ask([topic |-> "audit", results |-> <<result>> \o second])

\* A run passes the audit only if every one of its results could be read, has its trajectory and
\* shows the planned model and no other; every result that can be read is in one class, and the
\* tables of trials, turns and calls agree (research_audit.py, export_research_tables).
AuditSaysWhatWasSeen(q) ==
    LET archive == [jobs |-> [l \in {"l"} |-> q.results], toolchains |-> [l \in {"l"} |-> {"v"}]]
        tables == Research!ExportTables(<<Entry, [Entry EXCEPT !.label = "lost", !.phase = "r0"]>>, archive)
        run == tables.runs[1]
        sum == Research!Summary(tables)
        total(rows, Of(_)) == FoldLeft(LAMBDA n, row : n + Of(row), 0, rows)
    IN  /\ run.passed => \A i \in DOMAIN q.results :
             /\ q.results[i].readable
             /\ \E f \in DOMAIN q.results[i].files : q.results[i].files[f].exists
                   /\ q.results[i].files[f].models \subseteq {"m"}
             /\ q.results[i].agent.model \in {"none", "m"}
        /\ ~tables.runs[2].passed /\ sum.passed + sum.failed = 2
        /\ run.match + run.mismatch + run.notObserved + run.missing = sum.results
        /\ run.exact + run.unavailable = sum.results
        /\ sum.turns = total(tables.traces, LAMBDA row : row.turns)
        /\ sum.tools = total(tables.traces, LAMBDA row : row.calls)

-----------------------------------------------------------------------------
AskReports == AskReport \/ AskBoard \/ AskHub \/ AskAudit

\* A report never says more than the results behind it: see the promises of the four topics.
ReportsStandOnTheirResults ==
    [][/\ About("report", StandsOnItsResults)
       /\ About("board", BoardIsHonest)
       /\ About("hub", LatestOfEach)
       /\ About("audit", AuditSaysWhatWasSeen)]_asked
=============================================================================
