---------------------------- MODULE SessionTree ----------------------------
(***************************************************************************)
(* The transcript of an OpenClaw run, put together from session files       *)
(* (scripts/native_eval/harness_trajectories.py): the active branch of one  *)
(* file, its steps, the sub-agents it spawned, the tree of their sessions,  *)
(* what makes the tree whole, and the steps of all sessions merged by time. *)
(*                                                                         *)
(* A record is [kind, ok, id, linked, parent, side, target, append, time,   *)
(* message]; ok says that its ids are well formed, linked that it names a   *)
(* parent. A message is [role, text, error, calls, call, announces, child,  *)
(* accepted, stop, model, usage]. Ids, texts, times and models are members  *)
(* of small sets; a time is a number, and None is no value.                 *)
(***************************************************************************)
EXTENDS Integers, Sequences, SequencesExt, FiniteSetsExt, Functions

None == 0
Keep == -1

Canonical(record) == record.kind \in {"message", "model_change", "custom"}
FailureStatuses == {"cancelled", "deleted", "error", "failed", "killed", "reset", "timeout"}

-----------------------------------------------------------------------------
\* The active branch. A leaf record moves the leaf without a message of its own.
IsEntry(record) == record.ok /\ record.kind # "session" /\ (record.linked \/ Canonical(record))

Entry(record, leaf) ==
    IF record.kind = "leaf"
    THEN [id |-> record.id, isLeaf |-> TRUE, explicit |-> TRUE, parent |-> record.target,
          leaf |-> record.target, append |-> record.append, record |-> record]
    ELSE [id |-> record.id, isLeaf |-> FALSE, explicit |-> record.linked,
          parent |-> IF record.linked THEN record.parent ELSE leaf,
          leaf |-> IF Canonical(record) /\ ~record.side THEN record.id ELSE Keep,
          append |-> record.id, record |-> record]

\* The first node up from a parent that is no leaf record (or is seen a second time).
RECURSIVE ResolveParent(_, _, _)
ResolveParent(id, nodes, seen) ==
    IF id = None \/ id \in seen \/ id \notin DOMAIN nodes THEN id
    ELSE IF nodes[id].isLeaf THEN ResolveParent(nodes[id].parent, nodes, seen \cup {id}) ELSE id

\* A parent that is unknown, or a side record that the next one was appended to, gives way
\* to the leaf.
ParentOf(entry, branch) ==
    LET unknown == entry.explicit /\ entry.parent # None
                   /\ entry.parent \notin DOMAIN branch.nodes /\ branch.leaf # None
        aside == entry.explicit /\ ~entry.record.side
                 /\ entry.parent = branch.append /\ branch.leaf # branch.append
    IN  ResolveParent(IF unknown \/ aside THEN branch.leaf ELSE entry.parent, branch.nodes, {})

PlaceEntry(entry, branch) ==
    IF entry.isLeaf
    THEN IF \E ref \in {entry.leaf, entry.append} \ {None} :
                ref \notin DOMAIN branch.nodes \/ ref \in branch.invalid
         THEN [entry EXCEPT !.leaf = Keep, !.append = branch.append, !.parent = entry.record.parent]
         ELSE entry
    ELSE IF Canonical(entry.record) THEN [entry EXCEPT !.parent = ParentOf(entry, branch)] ELSE entry

AddEntry(branch, record) ==
    LET entry == PlaceEntry(Entry(record, branch.leaf), branch) IN
    [nodes |-> (entry.id :> entry) @@ branch.nodes,
     leaf |-> IF entry.leaf = Keep THEN branch.leaf ELSE entry.leaf,
     append |-> entry.append,
     linked |-> branch.linked \/ (entry.leaf # Keep /\ entry.explicit),
     invalid |-> branch.invalid \cup (IF entry.isLeaf /\ entry.leaf = Keep THEN {entry.id} ELSE {})]

RECURSIVE Walk(_, _, _)
Walk(nodes, id, seen) ==
    IF id \in seen THEN [loop |-> TRUE, records |-> <<>>]
    ELSE IF id = None \/ id \notin DOMAIN nodes THEN [loop |-> FALSE, records |-> <<>>]
    ELSE LET rest == Walk(nodes, nodes[id].parent, seen \cup {id})
         IN  IF nodes[id].isLeaf THEN rest
             ELSE [rest EXCEPT !.records = Append(@, nodes[id].record)]

\* _openclaw_active_session_records: a file without links is one line of records.
ActiveRecords(records) ==
    LET branch == FoldLeft(AddEntry,
                           [nodes |-> <<>>, leaf |-> None, append |-> None, linked |-> FALSE, invalid |-> {}],
                           SelectSeq(records, IsEntry))
        walk == Walk(branch.nodes, branch.leaf, {})
    IN  IF ~branch.linked THEN records ELSE IF walk.loop THEN <<>> ELSE walk.records

\* A forked child's file begins with its parent's records.
ChildRecords(parentFile, childFile, forked) ==
    LET own == SelectInSubSeq(childFile, 2, Len(childFile), LAMBDA record :
                   record.id \notin {parentFile[i].id : i \in DOMAIN parentFile})
    IN  IF ~forked \/ Len(childFile) < 2 THEN childFile
        ELSE <<childFile[1]>> \o (IF own = 0 THEN <<>> ELSE SubSeq(childFile, own, Len(childFile)))

-----------------------------------------------------------------------------
\* One session: messages, the sub-agents it spawned, and whether it came to its end.
Messages(records) == SelectSeq(records, LAMBDA record : record.kind = "message")

Spawn(state, record) ==
    LET message == record.message IN
    CASE message.role = "assistant" ->
           [state EXCEPT !.pending = @ \cup {call.id : call \in {c \in Range(message.calls) : c.spawn}}]
      [] message.role = "toolResult" /\ message.call \in state.pending ->
           [pending |-> state.pending \ {message.call},
            results |-> IF message.accepted /\ message.child # None
                        THEN Append(state.results, [child |-> message.child, model |-> message.model])
                        ELSE state.results]
      [] OTHER -> state

SpawnResults(records) ==
    FoldLeft(Spawn, [pending |-> {}, results |-> <<>>], Messages(records)).results

\* The last message is the assistant's, with a text, no call, and a stop of its own accord.
Terminal(records) ==
    LET messages == Messages(ActiveRecords(records)) IN
    messages # <<>> /\ LET last == Last(messages).message IN
        last.role = "assistant" /\ last.text # None /\ last.calls = <<>> /\ last.stop \in {"end_turn", "stop"}

IndexedTerminal(entry, records) == entry.status \in FailureStatuses \/ Terminal(records)

SessionModels(records) ==
    {records[i].message.model : i \in {n \in DOMAIN records :
        records[n].kind = "model_change" \/ (records[n].kind = "message" /\ records[n].message.role = "assistant")}}
    \ {None}

SessionUsage(records) ==
    SumFunction([i \in DOMAIN records |->
        IF records[i].kind = "message" /\ records[i].message.role = "assistant" THEN records[i].message.usage ELSE 0])

-----------------------------------------------------------------------------
\* The tree: breadth first from the root, over the children its transcripts say were accepted.
\* index: key -> [file, spawnedBy, status, forked]; deleted: the audit log of deleted sessions.
RECURSIVE Ancestors(_, _)
Ancestors(parents, key) == IF key = None THEN {} ELSE {key} \cup Ancestors(parents, parents[key])

Mismatch(entry, parent) == entry.spawnedBy # None /\ entry.spawnedBy # parent

NoEntry == [file |-> None, spawnedBy |-> None, status |-> "", forked |-> FALSE]

\* What stands for a child's index entry: its own, or, without a transcript, the audit log's.
Deleted(archive, tree, parent, child) ==
    IF child \notin DOMAIN archive.deleted THEN [error |-> "", entry |-> NoEntry]
    ELSE LET entry == archive.deleted[child] IN
         CASE Mismatch(entry, parent) -> [error |-> "spawn-lineage-mismatch", entry |-> NoEntry]
           [] ~Mismatch(entry, parent) /\ entry.file = None -> [error |-> "", entry |-> NoEntry]
           [] ~Mismatch(entry, parent) /\ entry.file # None /\ entry.file \notin DOMAIN archive.files ->
                [error |-> "missing-session-transcript", entry |-> NoEntry]
           [] OTHER -> IF entry.file \in tree.seen THEN [error |-> "duplicate-session-transcript", entry |-> NoEntry]
                       ELSE [error |-> "", entry |-> entry]

\* The child's entry, with a file if there is one, or the error that leaves it out of the tree.
Lookup(archive, tree, parent, child) ==
    LET indexed == child \in DOMAIN archive.index
        whole == indexed /\ archive.index[child].file \in DOMAIN archive.files
        audited == Deleted(archive, tree, parent, child)
        entry == IF whole \/ (indexed /\ audited.entry.file = None) THEN archive.index[child] ELSE audited.entry
        error == CASE ~whole /\ audited.error # "" -> audited.error
                   [] ~indexed /\ audited = [error |-> "", entry |-> NoEntry] -> "missing-session-entry"
                   [] OTHER -> IF child \in archive.ambiguous THEN "ambiguous-session-entry"
                               ELSE IF Mismatch(entry, parent) THEN "spawn-lineage-mismatch"
                               ELSE IF entry.file \notin DOMAIN archive.files THEN "missing-session-transcript"
                               ELSE IF entry.file \in tree.seen THEN "duplicate-session-transcript" ELSE ""
    IN  [error |-> error, entry |-> entry]

Error(tree, kind, key) == [tree EXCEPT !.errors = @ \cup {<<kind, key>>}]

AddChild(archive, tree, parent, child) ==
    LET found == Lookup(archive, tree, parent.key, child)
        records == ActiveRecords(ChildRecords(archive.files[parent.file], archive.files[found.entry.file],
                                              found.entry.forked))
        trace == [key |-> child, file |-> found.entry.file, depth |-> parent.depth + 1, records |-> records]
    IN  CASE child \in Ancestors(tree.parents, parent.key) -> Error(tree, "cycle", child)
          [] child \in DOMAIN tree.parents \ Ancestors(tree.parents, parent.key) ->
               IF tree.parents[child] # parent.key THEN Error(tree, "duplicate-session-reference", child) ELSE tree
          [] OTHER ->
               IF found.error # "" THEN Error(tree, found.error, child)
               ELSE [tree EXCEPT !.seen = @ \cup {trace.file}, !.parents = (child :> parent.key) @@ @,
                                 !.entries = (child :> found.entry) @@ @,
                                 !.traces = Append(@, trace)]

RECURSIVE Grow(_, _, _)
Grow(archive, tree, next) ==
    IF next > Len(tree.traces) THEN tree
    ELSE LET parent == tree.traces[next]
             grown == FoldLeft(LAMBDA sofar, spawn : AddChild(archive, sofar, parent, spawn.child),
                               tree, SpawnResults(parent.records))
         IN  Grow(archive, grown, next + 1)

\* Only the answer of a child that ended well stands for its announcement in the parent.
SupersededBy(traces, failed) ==
    {traces[i].key : i \in {n \in DOMAIN traces : n > 1 /\ traces[n].key \notin failed /\ Terminal(traces[n].records)}}

\* The messages that make steps: each needs a time, and no two sessions share one.
Timed(traces, failed) ==
    {<<i, n>> \in {<<i, n>> : i \in DOMAIN traces, n \in 1..Max({0} \cup {Len(traces[k].records) : k \in DOMAIN traces})} :
        n \in DOMAIN traces[i].records /\ LET record == traces[i].records[n] IN
            record.kind = "message" /\ record.message.role \in {"user", "assistant"}
            /\ record.message.announces \notin SupersededBy(traces, failed)}

OrderErrors(traces, failed) ==
    LET timed == Timed(traces, failed)
        time(at) == traces[at[1]].records[at[2]].time
    IN  {<<"missing-step-timestamp", traces[at[1]].key>> : at \in {a \in timed : time(a) = None}}
        \cup {<<"ambiguous-step-timestamp", traces[at[1]].key>> :
                at \in {a \in timed : \E b \in timed : b[1] < a[1] /\ time(b) = time(a) /\ time(a) # None}}

TreeOfRoots(archive, root) ==
    Grow(archive, [traces |-> <<[key |-> root, file |-> root, depth |-> 0,
                                 records |-> ActiveRecords(archive.files[root])]>>,
                   parents |-> root :> None, entries |-> <<>>, seen |-> {root}, errors |-> {}], 1)

Failed(tree) == {key \in DOMAIN tree.entries : tree.entries[key].status \in FailureStatuses}

\* _openclaw_session_tree
UncheckedTree(archive, root) == TreeOfRoots(archive, root)
Tree(archive, root) ==
    LET tree == TreeOfRoots(archive, root)
        unfinished == {tree.traces[i].key : i \in {n \in 2..Len(tree.traces) :
                          ~IndexedTerminal(tree.entries[tree.traces[n].key], tree.traces[n].records)}}
        errors == tree.errors \cup {<<"nonterminal-session", key>> : key \in unfinished}
    IN  [tree EXCEPT !.errors = errors \cup
            (IF errors = {} /\ Len(tree.traces) > 1 THEN OrderErrors(tree.traces, Failed(tree)) ELSE {})]

-----------------------------------------------------------------------------
\* Steps. An assistant's message takes the results of its calls that follow it at once.
Step(source, text, record, trace) ==
    [source |-> source, text |-> text, time |-> record.time, key |-> trace.key,
     calls |-> record.message.calls, results |-> {}]

AddStep(state, record, trace, superseded, instruction) ==
    LET message == record.message
        first == state.first /\ instruction # None
        add(step, open) == [state EXCEPT !.steps = Append(@, step), !.open = open]
    IN  CASE message.role = "user" /\ message.announces # None ->
               IF message.announces \in superseded THEN [state EXCEPT !.open = {}]
               ELSE add(Step("agent", message.text, record, trace), {})
          [] message.role = "user" /\ message.announces = None ->
               [add(Step("user", IF first THEN instruction ELSE message.text, record, trace), {})
                   EXCEPT !.first = FALSE]
          [] message.role = "assistant" ->
               add(Step("agent", IF message.text # None THEN message.text ELSE message.error, record, trace),
                   {message.calls[i].id : i \in DOMAIN message.calls})
          [] message.role = "toolResult" /\ message.call \in state.open ->
               [state EXCEPT !.open = @ \ {message.call},
                             !.steps[Len(state.steps)].results = @ \cup {message.call}]
          [] OTHER -> [state EXCEPT !.open = {}]

SessionSteps(trace, superseded, instruction) ==
    LET walk == FoldLeft(LAMBDA state, record : AddStep(state, record, trace, superseded, instruction),
                         [steps |-> <<>>, open |-> {}, first |-> TRUE], Messages(trace.records))
    IN  IF Len(walk.steps) < 2 THEN <<>> ELSE walk.steps

\* _openclaw_session_tree_steps: the root's first message, then everything by time and depth.
TreeSteps(traces, failed, instruction) ==
    LET superseded == SupersededBy(traces, failed)
        steps == [i \in DOMAIN traces |->
                    SessionSteps(traces[i], superseded, IF i = 1 THEN instruction ELSE None)]
        initial == steps[1] # <<>> /\ steps[1][1].source = "user"
        places == FlattenSeq([i \in DOMAIN traces |-> [n \in DOMAIN steps[i] |-> <<i, n>>]])
        rest == IF initial THEN Tail(places) ELSE places
        rank(at) == <<IF steps[at[1]][at[2]].time = None THEN 1 ELSE 0, steps[at[1]][at[2]].time,
                      traces[at[1]].depth, at[1], at[2]>>
        before(a, b) == \E k \in 1..5 : rank(a)[k] < rank(b)[k] /\ \A j \in 1..k - 1 : rank(a)[j] = rank(b)[j]
        order == SortSeq(rest, before)
    IN  (IF initial THEN <<steps[1][1]>> ELSE <<>>) \o [n \in DOMAIN order |-> steps[order[n][1]][order[n][2]]]

TreeUsage(traces) == SumFunction([i \in DOMAIN traces |-> SessionUsage(traces[i].records)])

-----------------------------------------------------------------------------
\* write_openclaw_trajectory. log: what openclaw printed at the end, [seen, visible, running,
\* aborted, models]; models: what the log says it fetched from.
EnvelopeTerminal(log) == ~log.running /\ (log.visible \/ log.aborted)

SessionsModels(tree) ==
    (UNION {SessionModels(trace.records) \cup {spawn.model : spawn \in Range(SpawnResults(trace.records))} :
             trace \in Range(tree.traces)}) \ {None}

ParentModels(tree, log) == SessionModels(tree.traces[1].records) \cup log.models

RuntimeModel(models, intended) ==
    IF Cardinality(models) = 1 THEN CHOOSE model \in models : TRUE
    ELSE IF intended \in models THEN intended ELSE None

OpenClawEvidence(archive, root, log, run) ==
    LET tree == Tree(archive, root)
        terminal == Terminal(tree.traces[1].records) \/ (log.seen /\ EnvelopeTerminal(log))
        session == IF Len(tree.traces) > 1 THEN TreeSteps(tree.traces, Failed(tree), run.instruction)
                   ELSE SessionSteps(tree.traces[1], {}, run.instruction)
        steps == IF session # <<>> THEN session
                 ELSE IF log.seen THEN <<[source |-> "user"], [source |-> "agent"]>> ELSE <<>>
        observed == SessionsModels(tree) \cup log.models \cup log.fetched
    IN  [real |-> tree.errors = {} /\ Len(steps) >= 2 /\ terminal,
         identity |-> observed = {run.model},
         model |-> RuntimeModel(ParentModels(tree, log), run.model),
         fidelity |-> IF session = <<>> THEN "envelope" ELSE IF Len(tree.traces) > 1 THEN "session_tree" ELSE "session",
         steps |-> steps, usage |-> TreeUsage(tree.traces)]
=============================================================================
