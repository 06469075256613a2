----------------------------- MODULE RunReport -----------------------------
(***************************************************************************)
(* The report over finished native runs (scripts/native_eval/aggregate.py): *)
(* one row per trial directory, the rows matched with the tasks the manifest*)
(* expects, the summary of a run and whether it may stand on the            *)
(* leaderboard, the summary of a pair of harness and model, and how a       *)
(* repaired run compares with its original.                                 *)
(*                                                                         *)
(* Rewards are whole numbers in units of 1/One, and Missing is no reward.   *)
(* A path is the sequence of its parts, a name a path of one part, and what *)
(* is not given the empty one; labels, times and texts are left out.  A    *)
(* failure's signature is its exception type and what the report itself    *)
(* writes of it.                                                           *)
(***************************************************************************)
EXTENDS Integers, Sequences, SequencesExt, FiniteSetsExt, Functions

One == 12
Missing == -1

MissingRewardTypes == {"RewardFileEmptyError", "RewardFileNotFoundError"}
InfraTypes == {"AgentSetupError", "DockerStartupError", "GatewayTimeoutError", "InvalidResultError",
               "MissingResultError", "VerifierJudgeInfraError", "VerifierTimeoutError"}
InvalidKinds == {"harness_error", "infra_error", "verifier_error"}

\* A message that speaks of a proxy, a gateway or a connection counts as the infrastructure's.
IsInfra(exception) == exception \in InfraTypes \cup {"infra message"}

\* What result.json says of the outcome, or what an older one's exception comes to; two codes are
\* how OpenClaw's own runner says that the gateway failed, and not the agent.
ExecutionKind(r, harness) ==
    LET gatewayExit == harness = "openclaw" /\ r.exception = "NonZeroAgentExitCodeError" /\ r.exit \in {70, 71} IN
    IF r.outcome \notin {"", "pending"} THEN r.outcome
    ELSE CASE r.exception = "none" -> "clean"
           [] gatewayExit -> "harness_error"
           [] r.exception \in MissingRewardTypes -> "verifier_error"
           [] IsInfra(r.exception) -> "infra_error"
           [] OTHER -> "agent_error"

\* An exception outdoes a clean outcome, and only a run with neither is told by its reward.
Classify(r, kind) ==
    CASE kind \in {"harness_error", "infra_error"} -> "infra"
      [] kind = "verifier_error" -> "verifier_missing_reward"
      [] kind = "agent_error" -> "agent_exit"
      [] kind = "clean" /\ r.exception \in MissingRewardTypes -> "verifier_missing_reward"
      [] kind = "clean" /\ IsInfra(r.exception) -> "infra"
      [] kind = "clean" /\ r.exception \notin MissingRewardTypes \cup {"none"} /\ ~IsInfra(r.exception) -> "agent_exit"
      [] OTHER -> IF r.reward = Missing THEN "verifier_missing_reward"
                  ELSE IF r.reward <= 0 THEN "clean_fail"
                  ELSE IF r.reward < One THEN "partial" ELSE "pass"

BaseName(path) == IF path = <<>> THEN <<>> ELSE <<Last(path)>>

\* _normalize_result: a scorecard that says the judge failed outdoes everything else.
ResultRow(r, harness) ==
    LET kind == IF r.judgeFailed THEN "infra_error" ELSE ExecutionKind(r, harness) IN
    [name |-> IF r.path = <<>> THEN r.name ELSE BaseName(r.path), path |-> r.path,
     class |-> Classify(r, kind), kind |-> kind, reward |-> r.reward,
     signature |-> <<IF r.judgeFailed THEN "VerifierJudgeInfraError" ELSE r.exception, <<>>>>,
     file |-> TRUE, valid |-> TRUE, completed |-> r.finished, scorable |-> TRUE,
     real |-> r.real, identity |-> r.identity]

InfraRow(name, path, signature, file) ==
    [name |-> name, path |-> path, class |-> "infra", kind |-> "", reward |-> Missing,
     signature |-> signature, file |-> file, valid |-> FALSE, completed |-> FALSE, scorable |-> TRUE,
     real |-> FALSE, identity |-> FALSE]

\* A trial directory, with no result.json, one that cannot be read, or one that can; without a
\* result the directory's name is all there is of the task.
TrialRow(trial, harness) ==
    CASE trial.has = "none" -> InfraRow(trial.name, <<>>, <<"MissingResultError", <<"trial">>>>, FALSE)
      [] trial.has = "unreadable" -> InfraRow(trial.name, <<>>, <<"InvalidResultError", <<>>>>, TRUE)
      [] OTHER -> ResultRow(trial.result, harness)

ExcludeRow(row, signature) ==
    [row EXCEPT !.class = "infra", !.reward = Missing, !.signature = signature, !.scorable = FALSE]

\* By name, by path or by the path's last part; where neither has a path, both have the empty one.
MatchesExpected(row, task) ==
    {row.name, row.path, BaseName(row.path)} \cap {task.name, task.path, BaseName(task.path)} # {}

\* One expected task takes the first row that matches; more rows that do are duplicates.
MatchTask(state, task) ==
    LET matches == {i \in state.available : MatchesExpected(state.rows[i], task)}
        first == Min(matches)
        duplicates == matches \ {first}
        missing == InfraRow(task.name, task.path, <<"MissingResultError", <<"task">>>>, FALSE)
    IN  IF matches = {}
        THEN [state EXCEPT !.rows = Append(@, missing)]
        ELSE [rows |-> [i \in DOMAIN state.rows |->
                          IF i \in duplicates
                          THEN ExcludeRow(state.rows[i], <<"DuplicateTaskResultError", task.name>>)
                          ELSE state.rows[i]],
              available |-> state.available \ matches]

\* Rows that no expected task takes do not count.
MatchRows(rows, tasks) ==
    LET matched == FoldLeft(MatchTask, [rows |-> rows, available |-> DOMAIN rows], tasks)
    IN  [i \in DOMAIN matched.rows |->
           IF i \in matched.available THEN ExcludeRow(matched.rows[i], <<"UnexpectedTaskResultError", <<>>>>)
           ELSE matched.rows[i]]

ScoredRows(rows) == SelectSeq(rows, LAMBDA row : row.scorable)

\* The rows of a run: as many scored ones as the manifest expects, at the least.
LoadRows(trials, manifest) ==
    LET read == [i \in DOMAIN trials |-> TrialRow(trials[i], manifest.harness)]
        matched == IF manifest.tasks = <<>> THEN read ELSE MatchRows(read, manifest.tasks)
        lacking == manifest.expected - Len(ScoredRows(matched))
    IN  matched \o [i \in 1..(IF lacking > 0 THEN lacking ELSE 0) |->
                       InfraRow(<<"<missing>">>, <<>>, <<"MissingResultError", <<>>>>, FALSE)]

Count(rows, Test(_)) == Len(SelectSeq(rows, Test))

\* The same infrastructure failure in a quarter of the tasks, and at least three.
HarnessWideFailure(rows, expected) ==
    \E s \in {rows[i].signature : i \in DOMAIN rows} :
        LET count == Count(rows, LAMBDA row : row.class = "infra" /\ row.signature = s)
        IN  count >= 3 /\ 4 * count >= expected

\* A native run's validation against the reference harness; reported, no gate.
ParityValidated(manifest) ==
    \/ ~manifest.native
    \/ manifest.parity.claimed /\ manifest.parity.scope \subseteq manifest.identity
       /\ {"harness", "model"} \subseteq {pair[1] : pair \in manifest.parity.scope}

\* As many scored rows as tasks are expected, and as many files, results and ends: what is excluded
\* keeps its file, and what is missing keeps its row, so one may make up for the other.
IncompleteByScores(rows, expected) == expected <= 0 \/ Len(ScoredRows(rows)) # expected
Incomplete(rows, expected) ==
    \/ expected <= 0
    \/ Len(ScoredRows(rows)) # expected
    \/ Count(rows, LAMBDA row : row.file) # expected
    \/ Count(rows, LAMBDA row : row.valid) # expected
    \/ Count(rows, LAMBDA row : row.completed) # expected

RunAccepted(rows, manifest) ==
    IF manifest.accepted # "unknown" THEN manifest.accepted = "yes"
    ELSE LET scored == ScoredRows(rows)
         IN  ~(manifest.expected > 0 /\ Len(scored) = manifest.expected
               /\ \A i \in DOMAIN scored : scored[i].kind \in InvalidKinds)

\* A native run's model is the intended one, in every attempt that has a trajectory to tell.
IdentityKept(rows, manifest) ==
    LET attempts == SelectSeq(ScoredRows(rows), LAMBDA row :
                        row.valid /\ row.class # "infra" /\ (row.class # "agent_exit" \/ row.real))
    IN  ~manifest.native \/ (attempts # <<>> /\ \A i \in DOMAIN attempts : attempts[i].identity)

\* An agent that left by force keeps its score without a trajectory.
TrajectoryComplete(rows, manifest) ==
    ~manifest.native \/
        (manifest.realEvents /\ \A i \in DOMAIN rows :
            rows[i].scorable /\ rows[i].valid /\ rows[i].class \notin {"infra", "agent_exit"} => rows[i].real)

Summary(trials, manifest) ==
    LET rows == LoadRows(trials, manifest)
        scored == ScoredRows(rows)
        expected == manifest.expected
        infra == Count(rows, LAMBDA row : row.class = "infra")
        reason == CASE Incomplete(rows, expected) -> "incomplete"
                    [] ~Incomplete(rows, expected) /\ 2 * infra > expected -> "infra_dominated"
                    [] ~Incomplete(rows, expected) /\ 2 * infra <= expected
                       /\ ~RunAccepted(rows, manifest) -> "run_rejected"
                    [] OTHER -> IF HarnessWideFailure(rows, expected) THEN "harness_wide_failure"
                                ELSE IF ~IdentityKept(rows, manifest) THEN "identity"
                                ELSE IF ~TrajectoryComplete(rows, manifest) THEN "trajectory" ELSE ""
        excluded == manifest.excluded
    IN  [expected |-> expected,
         score |-> IF expected > 0
                   THEN SumFunction([i \in DOMAIN scored |-> IF scored[i].reward = Missing THEN 0 ELSE scored[i].reward])
                        \div expected
                   ELSE 0,
         passes |-> Count(scored, LAMBDA row : row.class = "pass" /\ row.reward >= One),
         results |-> Count(rows, LAMBDA row : row.file),
         parity |-> ParityValidated(manifest),
         eligible |-> reason = "" /\ ~excluded,
         reason |-> IF excluded THEN "explicitly_excluded" ELSE reason]

-----------------------------------------------------------------------------
\* Pairs, and the leaderboard: the mean over a pair's eligible runs, best first.
EligibleRuns(runs) == SelectSeq(runs, LAMBDA run : run.eligible)
MeanScore(runs) ==
    LET eligible == EligibleRuns(runs)
    IN  IF eligible = <<>> THEN Missing
        ELSE SumFunction([i \in DOMAIN eligible |-> eligible[i].score]) \div Len(eligible)

Leaderboard(pairs) ==
    SortSeq(SelectSeq(pairs, LAMBDA runs : EligibleRuns(runs) # <<>>),
            LAMBDA one, other : MeanScore(one) > MeanScore(other))

\* How many tasks of a repaired run are its own, and whether its score may be compared.
RepairSources(overlay, expected) ==
    CASE overlay.kind = "none" /\ overlay.names = {} -> <<>>
      [] overlay.kind = "lineage" -> <<overlay.canonical, overlay.repaired, overlay.unknown>>
      [] overlay.kind = "unnamed" -> <<0, 0, expected>>
      [] OTHER -> <<Max({expected - Cardinality(overlay.names), 0}), Cardinality(overlay.names), 0>>

DeltaStatus(original, expected) ==
    CASE original = <<>> -> "original_unavailable"
      [] original # <<>> /\ original[1].expected # expected -> "task_count_mismatch"
      [] OTHER -> "available"
=============================================================================
