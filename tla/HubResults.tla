----------------------------- MODULE HubResults -----------------------------
(***************************************************************************)
(* Submissions and results around the queue: how a form or a list of presets*)
(* becomes requests (app.py, clawbench/submission_models.py), how a result  *)
(* is uploaded (clawbench/upload.py, hub.py), and the leaderboard that is   *)
(* read from the hub and from local files (app.py).                        *)
(*                                                                         *)
(* A result is [id, model, judge, prompt, scenario, score, time]; time      *)
(* counts minutes, which is all the leaderboard keeps of it.               *)
(***************************************************************************)
EXTENDS Integers, Sequences, SequencesExt, FiniteSetsExt, Functions

None == "none"

\* A number in the environment: the default if there is none or it is no number, else
\* clamped. raw is <<>>, or <<n>>.
EnvInt(raw, default, minimum, maximum) ==
    IF raw = <<>> THEN default ELSE Max({minimum, Min({maximum, raw[1]})})

-----------------------------------------------------------------------------
\* A model is [id, prefix], a preset [label, model, provider, audiences].
PresetsFor(presets, audience) ==
    SelectSeq(presets, LAMBDA preset : audience \in {None, "All Presets"} \cup preset.audiences)

\* resolve_model_selection: a preset outdoes what was typed, a prefix stands for a provider.
ResolveModel(form, presets) ==
    LET chosen == {i \in DOMAIN presets : presets[i].label = form.preset}
        preset == presets[Max(chosen)]
        model == IF chosen = {} THEN form.model ELSE preset.model
        provider == IF chosen = {} THEN form.provider ELSE preset.provider
    IN  [model |-> model.id, provider |-> IF provider = None THEN model.prefix ELSE provider]

Chosen(value) == IF value = "all" THEN None ELSE value

Request(selection, form) ==
    [model |-> selection.model, provider |-> selection.provider, judge |-> form.judge, runs |-> form.runs,
     lanes |-> form.lanes, tier |-> Chosen(form.tier), scenario |-> Chosen(form.scenario),
     prompt |-> form.prompt]

\* submit_model: the queue takes the request, or refuses it as JobQueue does.
SubmitModel(form, presets, blocked) ==
    LET selection == ResolveModel(form, presets) IN
    IF selection.model = None \/ Request(selection, form) \in blocked THEN <<>>
    ELSE <<Request(selection, form)>>

\* submit_all_presets: one that is blocked does not keep the others back.
SubmitAll(enabled, form, presets, blocked) ==
    LET specs == [i \in DOMAIN PresetsFor(presets, form.audience) |->
                    LET preset == PresetsFor(presets, form.audience)[i]
                    IN  Request([model |-> preset.model.id, provider |-> preset.provider], form)]
    IN  IF enabled THEN SelectSeq(specs, LAMBDA request : request \notin blocked) ELSE <<>>

-----------------------------------------------------------------------------
\* The owner of the data set: the space's, a configured one, or the token's, asked for once.
ResolveOwner(env, cache, whoami) ==
    CASE env.space # None -> [owner |-> env.space, cache |-> cache]
      [] env.space = None /\ env.owner # None -> [owner |-> env.owner, cache |-> cache]
      [] env.space = None /\ env.owner = None /\ env.token = None -> [owner |-> None, cache |-> cache]
      [] OTHER -> IF env.token \in DOMAIN cache THEN [owner |-> cache[env.token], cache |-> cache]
                  ELSE [owner |-> whoami[env.token], cache |-> (env.token :> whoami[env.token]) @@ cache]

ResolveRepo(env, cache, whoami) ==
    IF env.dataset # None THEN [name |-> <<env.dataset>>, cache |-> cache]
    ELSE LET found == ResolveOwner(env, cache, whoami)
         IN  [name |-> IF found.owner = None THEN <<"legacy">> ELSE <<found.owner, "clawbench-results">>,
              cache |-> found.cache]

Readme == <<"README.md", 0>>

\* A repository's files by path; a missing one is made, and gets its README once.
EnsureRepo(repo) ==
    [exists |-> TRUE,
     files |-> IF repo.exists /\ Readme \in DOMAIN repo.files THEN repo.files
               ELSE (Readme :> None) @@ repo.files]

\* One shard per submission: a second upload of the same one takes its place.
Upload(repo, result) ==
    LET ready == EnsureRepo(repo) IN [ready EXCEPT !.files = (<<"submissions", result.id>> :> result) @@ @]

IsShard(path) == path[1] = "submissions"

\* load_submission_rows_from_parquet, in the order of the shards' names.
LoadRows(repo) ==
    LET shards == SetToSortSeq({path \in DOMAIN repo.files : IsShard(path)}, LAMBDA p, q : p[2] < q[2])
    IN  [i \in DOMAIN shards |-> repo.files[shards[i]]]

-----------------------------------------------------------------------------
\* The leaderboard: the latest of the results that have the same model, prompt, scenario and
\* judge (the first of those with the same minute), the best score first; equal scores come
\* in no particular order.
Key(row) == <<row.model, row.prompt, row.scenario, row.judge>>

Latest(rows) ==
    {i \in DOMAIN rows : \A j \in DOMAIN rows : Key(rows[j]) = Key(rows[i]) =>
        rows[j].time < rows[i].time \/ (rows[j].time = rows[i].time /\ i <= j)}

Leaderboard(remote, local) ==
    LET rows == remote \o local
        order == SetToSortSeq(Latest(rows), LAMBDA i, j :
                     rows[i].score > rows[j].score \/ (rows[i].score = rows[j].score /\ i < j))
    IN  [n \in DOMAIN order |-> rows[order[n]]]

\* load_leaderboard: a frame that is young enough is shown again.
CachedLeaderboard(cache, now, seconds, fresh) ==
    LET young == cache.frame # <<>> /\ seconds > 0 /\ now - cache.at < seconds
    IN  [shown |-> IF young THEN cache.frame[1] ELSE fresh,
         cache |-> IF young \/ seconds = 0 THEN cache ELSE [frame |-> <<fresh>>, at |-> now]]
=============================================================================
