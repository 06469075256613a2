------------------------- MODULE HarnessTranscripts -------------------------
(***************************************************************************)
(* The transcripts of native runs under Hermes, Claude Code and Codex       *)
(* (scripts/native_eval/harness_trajectories.py, runtime.py): the steps read*)
(* from what the harness wrote, and when they count as a real trajectory.   *)
(*                                                                         *)
(* Texts, ids and models are members of small sets and None is none. A step *)
(* is [source, text, calls, results]: calls a sequence of ids, results the  *)
(* ids that were answered.                                                 *)
(***************************************************************************)
EXTENDS Integers, Sequences, SequencesExt, FiniteSetsExt, Functions

None == 0
CODEX_STREAM_READ_ATTEMPTS == 20

Step(source, text, calls) == [source |-> source, text |-> text, calls |-> calls, results |-> {}]
AnswerLast(steps, id) == [steps EXCEPT ![Len(steps)].results = @ \cup {id}]
Calls(steps) == UNION {Range(step.calls) : step \in Range(steps)}

OnlyModel(models) == IF Cardinality(models) = 1 THEN CHOOSE model \in models : TRUE ELSE None
RuntimeModel(models, intended) == IF intended \in models THEN intended ELSE OnlyModel(models)

-----------------------------------------------------------------------------
\* Hermes: a session is [model, messages], a message [role, text, calls, call, finish, model].
\* Tool messages answer the assistant's message they follow at once.
HermesStep(state, message, instruction) ==
    LET text == IF state.first /\ instruction # None THEN instruction ELSE message.text
        add(step) == [state EXCEPT !.steps = Append(@, step)]
    IN  CASE message.role = "user" ->
               [IF text = None THEN state ELSE add(Step("user", text, <<>>)) EXCEPT !.first = FALSE, !.open = FALSE]
          [] message.role = "assistant" /\ (message.text # None \/ message.calls # <<>>) ->
               [add(Step("agent", message.text, message.calls)) EXCEPT !.open = TRUE]
          [] message.role = "tool" /\ state.open ->
               [state EXCEPT !.steps = AnswerLast(@, message.call)]
          [] OTHER -> [state EXCEPT !.open = FALSE]

HermesSteps(messages, instruction) ==
    FoldLeft(LAMBDA state, message : HermesStep(state, message, instruction),
             [steps |-> <<>>, first |-> TRUE, open |-> FALSE], messages).steps

HermesModels(session) == ({session.model} \cup {m.model : m \in Range(session.messages)}) \ {None}

\* _validate_hermes_session: its end, and no call without an answer.
HermesTerminal(messages) ==
    /\ messages # <<>>
    /\ LET last == Last(messages) IN last.role = "assistant" /\ last.text # None /\ last.finish = "stop"
    /\ Calls(messages) \subseteq {m.call : m \in {n \in Range(messages) : n.role = "tool"}}

\* The last session of the intended model that has messages, or the last one.
HermesSession(sessions, run) ==
    LET own == {i \in DOMAIN sessions : sessions[i].model = run.model /\ sessions[i].messages # <<>>}
    IN  sessions[IF own = {} THEN Len(sessions) ELSE Max(own)]

Unavailable == [real |-> FALSE, identity |-> FALSE, model |-> None, steps |-> <<>>]

HermesEvidence(sessions, run) ==
    IF sessions = <<>> THEN Unavailable
    ELSE LET session == HermesSession(sessions, run)
             steps == HermesSteps(session.messages, run.instruction)
         IN  [real |-> Len(steps) >= 2 /\ HermesTerminal(session.messages),
              identity |-> UNION {HermesModels(sessions[i]) : i \in DOMAIN sessions} = {run.model},
              model |-> OnlyModel(HermesModels(session)),
              steps |-> steps]

-----------------------------------------------------------------------------
\* Claude Code: events [type, text, reasoning, calls, results, model, models, success].
\* A result goes to the step of its call, however late; the last result event decides.
ClaudeEvent(state, event) ==
    CASE event.type = "system" -> [state EXCEPT !.observed = @ \cup {event.model}]
      [] event.type = "assistant" ->
           LET seen == [state EXCEPT !.observed = @ \cup {event.model}, !.assistants = @ \cup {event.model}]
           IN  IF event.text = None /\ ~event.reasoning /\ event.calls = <<>> THEN seen
               ELSE [seen EXCEPT !.steps = Append(@, Step("agent", event.text, event.calls)),
                                 !.owner = [id \in Range(event.calls) |-> Len(state.steps) + 1] @@ @]
      [] event.type = "user" ->
           [state EXCEPT !.steps = [i \in DOMAIN @ |->
               [@[i] EXCEPT !.results = @ \cup {id \in Range(event.results) \cap DOMAIN state.owner :
                                                  state.owner[id] = i}]]]
      [] event.type = "result" ->
           LET said == \E i \in DOMAIN state.steps :
                           state.steps[i].source = "agent" /\ state.steps[i].text = event.text
           IN  [state EXCEPT !.observed = @ \cup event.models, !.terminal = event.success,
                             !.steps = IF event.text = None \/ said THEN @
                                       ELSE Append(@, Step("agent", event.text, <<>>))]
      [] OTHER -> state

ClaudeEvidence(events, run) ==
    LET read == FoldLeft(ClaudeEvent,
                         [steps |-> <<Step("user", run.instruction, <<>>)>>, owner |-> <<>>, terminal |-> FALSE,
                          observed |-> {}, assistants |-> {}], events)
        model == RuntimeModel(read.assistants \ {None}, run.model)
    IN  [real |-> Len(read.steps) >= 2 /\ read.terminal /\ model # None,
         identity |-> read.observed \ {None} = {run.model},
         model |-> model, steps |-> read.steps]

-----------------------------------------------------------------------------
\* Codex: the lines of its output, [line, type, id, item, text]. Before the first JSON line
\* there may be a preamble; after it a line that is no event was cut or mixed.
CodexStream(lines) ==
    LET json == {i \in DOMAIN lines : lines[i].line \in {"event", "value"}}
    IN  [events |-> SelectSeq(lines, LAMBDA line : line.line = "event"),
         malformed |-> Cardinality({i \in DOMAIN lines :
             \/ lines[i].line = "value"
             \/ lines[i].line = "garbage" /\ \E j \in json : j < i})]

\* The file is read again while it looks cut, and the reading with the least damage counts.
Better(one, other) ==
    \/ one.malformed < other.malformed
    \/ one.malformed = other.malformed /\ Len(one.events) > Len(other.events)

StableStream(reads) ==
    LET streams == [i \in 1..Min({Len(reads), CODEX_STREAM_READ_ATTEMPTS}) |-> CodexStream(reads[i])]
    IN  FoldLeft(LAMBDA best, stream : IF best.malformed > 0 /\ Better(stream, best) THEN stream ELSE best,
                 streams[1], Tail(streams))

\* The last state of each item, in the order they first came.
CompletedItems(events) ==
    LET items == SelectSeq(events, LAMBDA e : e.type \in {"item.started", "item.updated", "item.completed"})
        same(i, j) == items[i].id # None /\ items[i].id = items[j].id
        firsts == {i \in DOMAIN items : ~\E j \in 1..i - 1 : same(i, j)}
        order == SetToSortSeq(firsts, <)
    IN  [n \in DOMAIN order |-> items[Max({order[n]} \cup {j \in DOMAIN items : same(order[n], j)})]]

ToolItems == {"command_execution", "file_change", "mcp_tool_call", "todo_list", "web_search"}

\* A tool's item is a call and its answer; items of other types make no step.
ItemStep(item) ==
    IF item.item \in ToolItems THEN [Step("agent", None, <<item.id>>) EXCEPT !.results = {item.id}]
    ELSE Step("agent", item.text, <<>>)

ItemSteps(events) ==
    LET items == SelectSeq(CompletedItems(events),
                           LAMBDA e : e.item \in ToolItems \cup {"agent_message", "reasoning", "error"})
    IN  [n \in DOMAIN items |-> ItemStep(items[n])]

\* The session file instead: a call makes a step when its output comes.
CodexRecord(state, record) ==
    CASE record.type = "task_complete" -> [state EXCEPT !.terminal = TRUE]
      [] record.type \in {"message", "reasoning"} /\ record.text # None ->
           [state EXCEPT !.steps = Append(@, Step("agent", record.text, <<>>))]
      [] record.type = "call" -> [state EXCEPT !.pending = @ \cup {record.id}]
      [] record.type = "output" /\ record.id \in state.pending ->
           [state EXCEPT !.pending = @ \ {record.id},
                         !.steps = Append(@, [Step("agent", None, <<record.id>>) EXCEPT !.results = {record.id}])]
      [] OTHER -> state

SessionSteps(records) ==
    FoldLeft(CodexRecord, [steps |-> <<>>, pending |-> {}, terminal |-> FALSE], records)

\* The longest of the session files, the first of equals.
LongestSession(sessions) ==
    LET best == {i \in DOMAIN sessions : \A j \in DOMAIN sessions : Len(sessions[j].records) <= Len(sessions[i].records)}
    IN  IF sessions = <<>> THEN <<>> ELSE sessions[Min(best)].records

\* write_agent_trajectory: without a whole stream the session file may stand in for it.
CodexEvidence(reads, sessions, run) ==
    LET stream == IF reads = <<>> THEN CodexStream(<<>>) ELSE StableStream(reads)
        models == UNION {sessions[i].models : i \in DOMAIN sessions}
        model == OnlyModel(models)
        streamed == ItemSteps(stream.events)
        whole == streamed # <<>> /\ stream.malformed = 0
                 /\ \E e \in Range(stream.events) : e.type = "turn.completed"
        session == SessionSteps(LongestSession(sessions))
        steps == IF whole THEN streamed ELSE session.steps
    IN  [real |-> model # None /\ (whole \/ (session.steps # <<>> /\ session.terminal)),
         identity |-> models = {run.model}, model |-> model,
         steps |-> <<Step("user", run.instruction, <<>>)>> \o steps]

-----------------------------------------------------------------------------
\* What a trial used: each event may overwrite the amounts it names. An amount is <<>> or <<n>>.
MergeUsage(metrics, event) ==
    [field \in DOMAIN metrics |-> IF event[field] = <<>> THEN metrics[field] ELSE event[field]]

AgentMetrics(events) ==
    FoldLeft(MergeUsage, [input |-> <<>>, cache |-> <<>>, output |-> <<>>, cost |-> <<>>], events)

\* A reward file: an object's numbers, or one number, or none at all.
ReadReward(files) ==
    CASE files.json = "object" -> [found |-> TRUE, rewards |-> files.numbers]
      [] files.json # "object" /\ files.text # <<>> -> [found |-> TRUE, rewards |-> ("reward" :> files.text[1])]
      [] OTHER -> [found |-> FALSE, rewards |-> <<>>]
=============================================================================
