--------------------------- MODULE MCTranscripts ---------------------------
(***************************************************************************)
(* Questions about transcripts: the tree of an OpenClaw run's sessions and  *)
(* the active branch of one of them, the streams of the other harnesses,    *)
(* and the messages of the gateway and of Hermes.                          *)
(***************************************************************************)
EXTENDS Questions, Integers, Sequences, SequencesExt, FiniteSets, FiniteSetsExt, Functions

Tree == INSTANCE SessionTree
Harness == INSTANCE HarnessTranscripts
Chat == INSTANCE ChatTranscripts

-----------------------------------------------------------------------------
\* The tree. The root, session 1, spawns session 2 and perhaps another; ids of records are made
\* of their session and place.
Said == [role |-> "user", text |-> 1, error |-> 0, calls |-> <<>>, call |-> 0, announces |-> 0, child |-> 0,
         accepted |-> FALSE, stop |-> "", model |-> 0, usage |-> 0]
Answer(text) == [Said EXCEPT !.role = "assistant", !.text = text, !.stop = "stop", !.model = 1, !.usage = 1]
Spawns(ids) == [Answer(0) EXCEPT !.stop = "", !.calls = [i \in DOMAIN ids |-> [id |-> ids[i], spawn |-> TRUE]]]
Spawned(id, child, accepted) ==
    [Said EXCEPT !.role = "toolResult", !.text = 0, !.call = id, !.child = child, !.accepted = accepted]
Announces(child) == [Said EXCEPT !.announces = child]

\* A session file: its messages in a line, at times first, first + step, ...
SessionFile(key, messages, first, step) ==
    [n \in DOMAIN messages |->
        [kind |-> "message", ok |-> TRUE, id |-> 10 * key + n, linked |-> TRUE,
         parent |-> IF n = 1 THEN 0 ELSE 10 * key + n - 1, side |-> FALSE, target |-> 0, append |-> 0,
         time |-> first + step * (n - 1), message |-> messages[n]]]

RootFile(second) ==
    SessionFile(1, <<Said, Spawns(<<1, 2>>), Spawned(1, 2, TRUE)>> \o second \o <<Announces(2), Answer(5)>>, 1, 10)
SecondSpawns == {<<>>} \cup {<<Spawned(2, child, accepted)>> : child \in 1..3, accepted \in BOOLEAN}
Ends == {<<Answer(6)>>, <<>>, <<Spawns(<<3>>), Spawned(3, 3, TRUE)>>,
         <<Spawns(<<3>>), Spawned(3, 3, TRUE), Answer(6)>>, <<Spawns(<<3>>), Spawned(3, 1, TRUE), Answer(6)>>}

IndexEntry == [file |-> 2, spawnedBy |-> 1, status |-> "", forked |-> FALSE]
Archives ==
    {[files |-> [f \in {1} \cup own \cup {3} |->
                    CASE f = 1 -> RootFile(second) [] f = 2 -> SessionFile(2, <<Said>> \o end, first, 3)
                      [] f = 3 -> SessionFile(3, <<Said, Answer(7)>>, 30, 5)],
      index |-> [k \in 2..3 |-> IF k = 2 THEN two ELSE three],
      deleted |-> [k \in gone |-> [IndexEntry EXCEPT !.file = 3]], ambiguous |-> {}] :
        second \in SecondSpawns, end \in Ends, own \in {{}, {2}}, first \in {2, 14}, gone \in {{}, {2}},
        two \in {IndexEntry, [IndexEntry EXCEPT !.status = "failed"], [IndexEntry EXCEPT !.spawnedBy = 3]},
        three \in {[IndexEntry EXCEPT !.file = 3, !.spawnedBy = p] : p \in {0, 2}} \cup {IndexEntry}}

Log == [seen |-> FALSE, visible |-> FALSE, running |-> FALSE, aborted |-> FALSE, models |-> {}, fetched |-> {}]

AskTree == \E archive \in Archives, log \in {Log, [Log EXCEPT !.fetched = {2}]} :
              Ask([topic |-> "tree", archive |-> archive, log |-> log])

\* An OpenClaw trajectory that counts as real has every sub-agent that was accepted, at any depth,
\* with a file of its own, come to its end or known to have failed; and every message of a user
\* or an agent in it is one step, but for announcements that the child's own answer replaces, in
\* the order of their times (write_openclaw_trajectory).
TreeIsWhole(q) ==
    LET tree == Tree!Tree(q.archive, 1)
        evidence == Tree!OpenClawEvidence(q.archive, 1, q.log, [model |-> 1, instruction |-> 9])
        traces == ToSet(tree.traces)
        failed == {t.key : t \in {x \in traces \ {tree.traces[1]} : tree.entries[x.key].status = "failed"}}
        ended(t) == t.key \in failed \/ (Last(t.records).message.role = "assistant"
                                         /\ Last(t.records).message.calls = <<>>)
        replaced(m) == m.announces # 0 /\ m.announces \notin failed
        spoken(t) == SelectSeq(t.records, LAMBDA r : r.message.role \in {"user", "assistant"} /\ ~replaced(r.message))
    IN  evidence.real =>
          /\ \A t \in traces : \A m \in {r.message : r \in ToSet(t.records)} :
                m.role = "toolResult" /\ m.accepted =>
                    \E c \in traces : c.key = m.child /\ tree.parents[c.key] = t.key /\ c.depth = t.depth + 1
          /\ \A t, u \in traces : t.file = u.file => t = u
          /\ \A t \in traces : ended(t)
          /\ (\A t \in traces : Len(spoken(t)) > 1) =>
                Len(evidence.steps) = FoldSet(LAMBDA t, n : n + Len(spoken(t)), 0, traces)
          /\ \A i \in 1..Len(evidence.steps) - 1 : evidence.steps[i].time <= evidence.steps[i + 1].time
          /\ q.log.fetched # {} => ~evidence.identity

-----------------------------------------------------------------------------
\* The active branch of a file written in a line: what is said continues from the leaf, what is
\* said aside does not move it, and a leaf record moves it back to what was said before.
Writes(n) == {<<"say", 0>>, <<"aside", 0>>} \cup {<<"leaf", k>> : k \in 0..n - 1}
FilesOf(n) ==
    {f \in [1..n -> Writes(n)] : f[1] = <<"say", 0>> /\ \A i \in 1..n :
        f[i][1] = "leaf" => f[i][2] < i /\ (f[i][2] > 0 => f[f[i][2]][1] = "say")}
Written(f) ==
    [n \in DOMAIN f |-> [kind |-> IF f[n][1] = "leaf" THEN "leaf" ELSE "message", ok |-> TRUE, id |-> n,
                         linked |-> TRUE, parent |-> n - 1, side |-> f[n][1] = "aside", target |-> f[n][2],
                         append |-> f[n][2], time |-> n, message |-> Said]]

AskBranch == \E n \in 1..5 : \E f \in FilesOf(n) : Ask([topic |-> "branch", writes |-> f])

\* The records of the active branch are what was said on the way to the leaf, in order
\* (_openclaw_active_session_records).
BranchIsTheLeafs(q) ==
    LET active[n \in 0..Len(q.writes)] ==
            IF n = 0 THEN <<>>
            ELSE CASE q.writes[n][1] = "say" -> Append(active[n - 1], n)
                   [] q.writes[n][1] = "aside" -> active[n - 1]
                   [] q.writes[n][1] = "leaf" -> active[q.writes[n][2]]
        records == Tree!ActiveRecords(Written(q.writes))
    IN  [n \in DOMAIN records |-> records[n].id] = active[Len(q.writes)]

-----------------------------------------------------------------------------
\* Claude Code: its events, with calls and results of two ids.
Event == [type |-> "assistant", text |-> 0, reasoning |-> FALSE, calls |-> <<>>, results |-> <<>>, model |-> 1,
          models |-> {}, success |-> FALSE]
ClaudeEvents == {[Event EXCEPT !.text = 2], [Event EXCEPT !.calls = <<1>>], [Event EXCEPT !.calls = <<1, 2>>],
                 [Event EXCEPT !.model = 2, !.reasoning = TRUE], Event,
                 [Event EXCEPT !.type = "user", !.results = <<1>>], [Event EXCEPT !.type = "user", !.results = <<2, 1>>],
                 [Event EXCEPT !.type = "result", !.text = 2, !.models = {1}, !.success = TRUE],
                 [Event EXCEPT !.type = "result"]}
Run == [model |-> 1, instruction |-> 9]

AskClaude == \E n \in 0..4 : \E events \in [1..n -> ClaudeEvents] : Ask([topic |-> "claude", events |-> events])

\* A result goes to the step that made the call, however late it comes: to the last one, if the id
\* was used again before. A trajectory that is real ended well and has an agent's step, and its
\* model is the intended one only if no other answered (_claude_evidence).
ResultsReachTheirCalls(q) ==
    LET evidence == Harness!ClaudeEvidence(q.events, Run)
        agent(i) == q.events[i].type = "assistant"
        answered(id) == {i \in DOMAIN q.events : q.events[i].type = "user" /\ id \in ToSet(q.events[i].results)}
        calling(id) == {i \in DOMAIN q.events : agent(i) /\ id \in ToSet(q.events[i].calls)}
        owners(id) == {c \in calling(id) : \E r \in answered(id) : c = Max({x \in calling(id) : x < r} \cup {0})}
        holders(id) == {n \in DOMAIN evidence.steps : id \in evidence.steps[n].results}
    IN  /\ \A id \in 1..2 : Cardinality(holders(id)) = Cardinality(owners(id))
        /\ \A n \in DOMAIN evidence.steps : evidence.steps[n].results \subseteq ToSet(evidence.steps[n].calls)
        /\ evidence.real => \E i \in DOMAIN q.events : q.events[i].type = "result" /\ q.events[i].success
                                /\ \A j \in i + 1..Len(q.events) : q.events[j].type = "result" => q.events[j].success
        /\ evidence.identity => \A i \in DOMAIN q.events : agent(i) => q.events[i].model \in {0, 1}

-----------------------------------------------------------------------------
\* Hermes: one session or two, of messages with a call or its answer.
Spoken == [role |-> "assistant", text |-> 2, calls |-> <<>>, call |-> 0, finish |-> "stop", model |-> 1]
HermesMessages == {Spoken, [Spoken EXCEPT !.text = 0, !.calls = <<1>>, !.finish = "tool_calls"],
                   [Spoken EXCEPT !.model = 2, !.calls = <<2>>], [Spoken EXCEPT !.role = "user", !.model = 0],
                   [Spoken EXCEPT !.role = "tool", !.call = 1, !.model = 0]}
Earlier == {<<>>} \cup {<<[model |-> m, messages |-> <<Spoken>>]>> : m \in 1..2}

AskHermes == \E n \in 0..4 : \E messages \in [1..n -> HermesMessages], earlier \in Earlier :
                Ask([topic |-> "hermes", sessions |-> Append(earlier, [model |-> 1, messages |-> messages])])

\* A Hermes trajectory counts as real if the session it is of answered every call and then ended of
\* its own accord, and is of the intended model if every session and message was
\* (_validate_hermes_session, write_hermes_trajectory).
NothingIsLeftUnanswered(q) ==
    LET evidence == Harness!HermesEvidence(q.sessions, Run)
        whole(messages) ==
            /\ Last(messages).role = "assistant" /\ Last(messages).finish = "stop"
            /\ \A i \in DOMAIN messages : \A id \in ToSet(messages[i].calls) :
                    \E j \in DOMAIN messages : messages[j].role = "tool" /\ messages[j].call = id
        steps(messages) == Cardinality({i \in DOMAIN messages : messages[i].role # "tool"})
    IN  /\ evidence.real => \E i \in DOMAIN q.sessions : LET m == q.sessions[i].messages IN
             m # <<>> /\ whole(m) /\ Len(evidence.steps) = steps(m)
        /\ evidence.identity => \A s \in ToSet(q.sessions) :
                s.model = 1 /\ \A m \in ToSet(s.messages) : m.model \in {0, 1}

-----------------------------------------------------------------------------
\* Codex: a stream that is read twice, and a session file.
Line == [line |-> "event", type |-> "item.completed", id |-> 1, item |-> "agent_message", text |-> 2]
Lines == {Line, [Line EXCEPT !.type = "item.started", !.item = "command_execution"],
          [Line EXCEPT !.id = 2, !.item = "web_search"], [Line EXCEPT !.type = "turn.completed"],
          [Line EXCEPT !.line = "garbage"], [Line EXCEPT !.line = "value"]}
Streams(n) == UNION {[1..k -> Lines] : k \in 0..n}
Record == [type |-> "message", id |-> 1, text |-> 2]
Sessions == {<<>>, <<[models |-> {1}, records |-> <<Record, [Record EXCEPT !.type = "call"],
                                                    [Record EXCEPT !.type = "output"]>>]>>,
             <<[models |-> {1}, records |-> <<>>], [models |-> {2}, records |-> <<Record, [Record EXCEPT !.type = "task_complete"]>>]>>,
             <<[models |-> {1}, records |-> <<Record, [Record EXCEPT !.type = "task_complete"]>>]>>}

AskCodex == \E first \in Streams(3), second \in Streams(1), sessions \in Sessions :
                Ask([topic |-> "codex", reads |-> <<first, first \o second>>, sessions |-> sessions])

\* The reading with the least damage stands for the stream; each item is one step, of its last
\* state; and what is real was ended by Codex itself, in a whole stream or in the session file,
\* by one model (codex_stream, write_agent_trajectory).
TheWholeStreamStands(q) ==
    LET evidence == Harness!CodexEvidence(q.reads, q.sessions, Run)
        chosen == Harness!StableStream(q.reads)
        ended(events) == \E e \in ToSet(events) : e.type = "turn.completed"
        models == UNION {s.models : s \in ToSet(q.sessions)}
        items == Harness!CompletedItems(chosen.events)
    IN  /\ \A read \in ToSet(q.reads) : chosen.malformed <= Harness!CodexStream(read).malformed
        /\ IsInjective([i \in DOMAIN items |-> items[i].id])
        /\ \A item \in ToSet(items) : \E i \in DOMAIN chosen.events :
              chosen.events[i] = item /\ \A j \in i + 1..Len(chosen.events) :
                  chosen.events[j].type = "turn.completed" \/ chosen.events[j].id # item.id
        /\ evidence.real =>
              /\ Cardinality(models) = 1
              /\ \/ chosen.malformed = 0 /\ ended(chosen.events)
                 \/ \E s \in ToSet(q.sessions) : \E r \in ToSet(s.records) : r.type = "task_complete"
        /\ evidence.identity => models = {1}
-----------------------------------------------------------------------------
\* The gateway's messages: an assistant's with calls, and results in messages of the tool or not.
Raw == [role |-> "assistant", blocks |-> <<>>, id |-> "none", error |-> <<>>, text |-> <<>>]
Block(kind, id, text) == [kind |-> kind, id |-> id, text |-> text]
RawMessages == {Raw, [Raw EXCEPT !.text = <<"hi">>],
                [Raw EXCEPT !.blocks = <<Block("call", "1", <<>>)>>],
                [Raw EXCEPT !.blocks = <<Block("call", "1", <<>>), Block("text", "none", <<"hi">>), Block("call", "2", <<>>)>>],
                [Raw EXCEPT !.role = "tool", !.id = "1", !.blocks = <<Block("text", "none", <<"own">>)>>],
                [Raw EXCEPT !.role = "tool", !.id = "2", !.error = <<"error">>],
                [Raw EXCEPT !.role = "user", !.blocks = <<Block("result", "1", <<"error">>), Block("result", "2", <<"fine">>)>>],
                [Raw EXCEPT !.role = "none"]}
Payload == [input |-> 1, output |-> 2, reasoning |-> 3, total |-> 0]

AskChat == \E n \in 0..4 : \E raw \in [1..n -> RawMessages] : Ask([topic |-> "chat", raw |-> raw])

\* Every result is in the output of the last call before it with its id, with those that came
\* before; no other call has an output, and a call is a success or a failure exactly if it has a
\* result, by the first of them (client.py, _correlate_transcript).
ResultsAreNotLost(q) ==
    LET parsed == Chat!ParseMessages(q.raw)
        messages == Chat!Correlate(parsed)
        ids == {"1", "2"}
        calls(n, id) == {c \in DOMAIN messages[n].calls : messages[n].calls[c].id = id}
        last(n, id) == Max({m \in 1..n : calls(m, id) # {}} \cup {0})
        own(n, id) == SelectSeq(Chat!ResultPairs(parsed[n]), LAMBDA r : r.id = id)
        results(m, id) == FlattenSeq([n \in DOMAIN parsed |-> IF last(n, id) = m THEN own(n, id) ELSE <<>>])
        texts(rs) == FlattenSeq([i \in DOMAIN rs |-> rs[i].text])
    IN  /\ \A m \in DOMAIN messages, id \in ids : \A c \in calls(m, id) :
             LET call == messages[m].calls[c]
                 rs == results(m, id)
             IN  /\ call.output = texts(rs)
                 /\ call.success = "unset" <=> rs = <<>>
                 /\ rs # <<>> => (call.success = "failed" <=> Contains(rs[1].text, "error"))
        /\ Chat!TokenUsage(Payload).total = 6

-----------------------------------------------------------------------------
\* Hermes' messages, in its own form and in that of chat: calls with an id or without.
Response(output, status) == [output |-> output, error |-> <<>>, stderr |-> <<>>, status |-> status]
Utterances == {[role |-> "gpt", text |-> <<"hi">>, calls |-> calls, responses |-> <<>>] : calls \in {<<>>, <<"1">>, <<"1", "none">>}}
              \cup {[role |-> "human", text |-> <<>>, calls |-> <<>>, responses |-> <<>>]}
              \cup {[role |-> "tool", text |-> <<>>, calls |-> <<>>, responses |-> rs] :
                    rs \in {<<Response(<<"x">>, "ok")>>, <<Response(<<"y">>, "error"), Response(<<"z">>, "none")>>}}
ChatEntries == {[role |-> "assistant", text |-> <<>>, calls |-> <<"1">>, id |-> "none"],
                [role |-> "model", text |-> <<"hi">>, calls |-> <<"2", "none">>, id |-> "none"],
                [role |-> "user", text |-> <<>>, calls |-> <<>>, id |-> "none"],
                [role |-> "function", text |-> <<"x">>, calls |-> <<>>, id |-> "1"],
                [role |-> "tool", text |-> <<"error">>, calls |-> <<>>, id |-> "none"]}

AskHermesChat ==
    \/ \E n \in 0..4 : \E entries \in [1..n -> Utterances] : Ask([topic |-> "conversation", entries |-> entries])
    \/ \E n \in 0..4 : \E entries \in [1..n -> ChatEntries] : Ask([topic |-> "entries", entries |-> entries])

\* Responses answer the calls in the order both were written, each once, and the ones that are left
\* over are messages of the tool: nothing an agent's tools said is lost, and nothing is doubled
\* (hermes_xml.py, parse_conversation).
ResponsesInOrder(q) ==
    LET state == Chat!ParseConversation(q.entries)
        responses == FlattenSeq([i \in DOMAIN q.entries |-> q.entries[i].responses])
        answers == SelectSeq(state.calls, LAMBDA c : c.output # <<>>)
        orphans == SelectSeq(state.messages, LAMBDA m : m.role = "tool")
    IN  /\ Len(answers) + Len(orphans) = Len(responses)
        /\ \A r \in ToSet(responses) :
              Len(SelectSeq(responses, LAMBDA x : x.output = r.output)) =
                 Len(SelectSeq(answers, LAMBDA c : c.output = r.output)) + Len(SelectSeq(orphans, LAMBDA m : m.text = r.output))
        /\ orphans = <<>> => \A i \in DOMAIN responses : state.calls[i].output = responses[i].output
        /\ Len(state.calls) = Len(answers) + Len(state.waiting)

\* In the form of chat, where every result names a call, exactly the calls so named have an output,
\* whatever stands in line; and a call's success is known as soon as it has one (parse_chat_messages).
NamedResultsStay(q) ==
    LET state == Chat!ParseChat(q.entries)
        before(i, id) == \E j \in 1..i - 1 : id \in ToSet(q.entries[j].calls)
        unnamed == \E i \in DOMAIN q.entries : q.entries[i].role \in {"tool", "function"}
                       /\ (q.entries[i].id = "none" \/ ~before(i, q.entries[i].id))
        named == {<<q.entries[i].id, 0>> : i \in {n \in DOMAIN q.entries : q.entries[n].role \in {"tool", "function"}}}
    IN  /\ ~unnamed => {c.id : c \in {x \in ToSet(state.calls) : x.output # <<>>}} = named
        /\ \A c \in ToSet(state.calls) : c.success = "unset" <=> c.output = <<>>

-----------------------------------------------------------------------------
AskTranscripts ==
    AskTree \/ AskBranch \/ AskClaude \/ AskHermes \/ AskCodex \/ AskChat \/ AskHermesChat

\* A transcript that counts is whole, in order, and by the model it names, and each result in it is
\* at its call: see the promises of the topics.
TranscriptsAreWhole ==
    [][/\ About("tree", TreeIsWhole)
       /\ About("branch", BranchIsTheLeafs)
       /\ About("claude", ResultsReachTheirCalls)
       /\ About("hermes", NothingIsLeftUnanswered)
       /\ About("codex", TheWholeStreamStands)
       /\ About("chat", ResultsAreNotLost)
       /\ About("conversation", ResponsesInOrder)
       /\ About("entries", NamedResultsStay)]_asked
=============================================================================
