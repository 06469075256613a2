--------------------------- MODULE ResearchTables --------------------------
(***************************************************************************)
(* The tables for research that are made of the archives of the native runs *)
(* (native_eval/research_audit.py): one row per trial, turn and tool call,   *)
(* and the audit of each run, with the model that answered in it.            *)
(*                                                                         *)
(* An archive is the job directories by label, the harness that the machine  *)
(* says it installed, and the logs of the proxy; a run may have none.        *)
(* Unknown is a number that is not there; None a text that is not.           *)
(***************************************************************************)
EXTENDS Integers, Sequences, SequencesExt, FiniteSets, FiniteSetsExt, Functions

None == "none"
Unknown == -1

\* A number of the agent's own record; of zero or nothing there, one of the trajectory's.
FirstNumber(values) == FoldRight(LAMBDA v, rest : IF v # Unknown THEN v ELSE rest, values, Unknown)
Usage(agent, metrics) ==
    LET own == FirstNumber(agent) IN IF own \notin {Unknown, 0} THEN own ELSE FirstNumber(metrics)

Cost(agent, metrics) ==
    IF FirstNumber(agent) # Unknown THEN [cost |-> FirstNumber(agent), from |-> "exact_harness"]
    ELSE IF FirstNumber(metrics) # Unknown THEN [cost |-> FirstNumber(metrics), from |-> "exact_trace"]
    ELSE [cost |-> Unknown, from |-> "unavailable"]

StepUsage(step) ==
    [tokens |-> FirstNumber(step.tokens), cost |-> FirstNumber(step.cost),
     from |-> IF FirstNumber(step.cost) # Unknown THEN "exact_trace_turn" ELSE "unavailable"]

\* The name of the task: the last of its path, its name, or the directory's.
TaskName(result) == IF result.path # None THEN result.path ELSE IF result.task # None THEN result.task ELSE result.directory

\* The trajectory where the result says it is, or where the harness leaves it.
TrajectoryOf(result) ==
    IF result.configured \in DOMAIN result.files THEN result.files[result.configured]
    ELSE IF "agent/trajectory.json" \in DOMAIN result.files THEN result.files["agent/trajectory.json"]
    ELSE [exists |-> FALSE, models |-> {}, steps |-> <<>>, metrics |-> <<>>]

Observed(agent, trajectory) == ({agent.model} \ {None}) \cup trajectory.models

IdentityStatus(expected, observed, agent, trajectory) ==
    IF ~trajectory.exists THEN "trace_missing"
    ELSE IF observed = {} THEN "not_observed"
    ELSE IF observed = {expected} /\ agent.identity # "no" THEN "match" ELSE "mismatch"

\* What a call's answer was: the results with its id, and all of the step's if there are none.
Observation(step, id) ==
    LET own == SelectSeq(step.results, LAMBDA r : id = None \/ r.id = id)
    IN  IF own # <<>> THEN own ELSE step.results

\* The installed version is the set of what its text holds: a commit also holds its beginnings.
VersionStatus(requested, installed) ==
    IF installed = {} THEN "missing" ELSE IF requested \in installed THEN "match" ELSE "mismatch"

\* Of two archives with the same label, or two files, the last one found.
JobDirectories(found) ==
    [label \in {found[i].label : i \in DOMAIN found} |->
        found[Max({i \in DOMAIN found : found[i].label = label})].results]
LabeledFiles(found) ==
    [label \in {found[i].label : i \in DOMAIN found} |-> found[Max({i \in DOMAIN found : found[i].label = label})].path]

\* The rows of one result.
TraceRow(entry, result) ==
    LET trajectory == TrajectoryOf(result)
        observed == Observed(result.agent, trajectory)
        cost == Cost(result.agent.costs, trajectory.metrics)
    IN  [label |-> entry.label, task |-> TaskName(result), reward |-> result.reward, real |-> trajectory.exists,
         identity |-> IdentityStatus(entry.model, observed, result.agent, trajectory), observed |-> observed,
         turns |-> Len(trajectory.steps), cost |-> cost.cost, costFrom |-> cost.from,
         tokens |-> Usage(result.agent.tokens, trajectory.metrics),
         calls |-> FoldLeft(LAMBDA sum, s : sum + Len(s.calls), 0, trajectory.steps)]

TurnRows(entry, result) ==
    LET steps == TrajectoryOf(result).steps IN
    [i \in DOMAIN steps |-> [label |-> entry.label, task |-> TaskName(result), turn |-> i,
                             calls |-> Len(steps[i].calls), usage |-> StepUsage(steps[i])]]

ToolRows(entry, result) ==
    LET steps == TrajectoryOf(result).steps
        rowsOf(i) == [j \in DOMAIN steps[i].calls |->
                        [label |-> entry.label, task |-> TaskName(result), turn |-> i, tool |-> j,
                         seen |-> Observation(steps[i], steps[i].calls[j])]]
    IN  FlattenSeq([i \in DOMAIN steps |-> rowsOf(i)])

\* The results that can be read are rows; one that cannot still counts among the results.
Results(archive, entry) == IF entry.label \in DOMAIN archive.jobs THEN archive.jobs[entry.label] ELSE <<>>
Readable(archive, entry) == SelectSeq(Results(archive, entry), LAMBDA r : r.readable)
Installed(archive, entry) ==
    IF entry.label \in DOMAIN archive.toolchains THEN archive.toolchains[entry.label] ELSE {}

TraceRows(archive, entry) ==
    [i \in DOMAIN Readable(archive, entry) |-> TraceRow(entry, Readable(archive, entry)[i])]

\* A run's audit passes if every one of its results, and there are some, has its trajectory
\* and the model that was asked for.
AuditRow(archive, entry) ==
    LET rows == TraceRows(archive, entry)
        total == Len(Results(archive, entry))
        count(status) == Len(SelectSeq(rows, LAMBDA r : r.identity = status))
        real == Len(SelectSeq(rows, LAMBDA r : r.real))
        exact == Len(SelectSeq(rows, LAMBDA r : r.cost # Unknown))
    IN  [label |-> entry.label, phase |-> entry.phase, eligible |-> entry.eligible, results |-> total, real |-> real,
         match |-> count("match"), mismatch |-> count("mismatch"), notObserved |-> count("not_observed"),
         missing |-> count("trace_missing"), exact |-> exact, unavailable |-> Len(rows) - exact,
         version |-> VersionStatus(entry.version, Installed(archive, entry)),
         passed |-> total > 0 /\ count("match") = total /\ real = total]

ExportTables(index, archive) ==
    LET each(RowsOf(_, _)) == FlattenSeq([i \in DOMAIN index |-> RowsOf(archive, index[i])])
        perResult(RowsOf(_, _)) == each(LAMBDA a, e : FlattenSeq([i \in DOMAIN Readable(a, e) |-> RowsOf(e, Readable(a, e)[i])]))
    IN  [traces |-> each(TraceRows), turns |-> perResult(TurnRows), tools |-> perResult(ToolRows),
         runs |-> [i \in DOMAIN index |-> AuditRow(archive, index[i])]]

Summary(tables) ==
    LET count(rows, Holds(_)) == Len(SelectSeq(rows, Holds)) IN
    [runs |-> Len(tables.runs), results |-> Len(tables.traces), turns |-> Len(tables.turns), tools |-> Len(tables.tools),
     passed |-> count(tables.runs, LAMBDA r : r.passed), failed |-> count(tables.runs, LAMBDA r : ~r.passed),
     r0 |-> count(tables.runs, LAMBDA r : r.phase = "r0"), scoring |-> count(tables.runs, LAMBDA r : r.eligible # "no"),
     exact |-> count(tables.traces, LAMBDA r : r.costFrom \in {"exact_harness", "exact_trace"}),
     unavailable |-> count(tables.traces, LAMBDA r : r.cost = Unknown)]
=============================================================================
