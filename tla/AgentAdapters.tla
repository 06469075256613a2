--------------------------- MODULE AgentAdapters ---------------------------
(***************************************************************************)
(* Tasks for any agent: the canonical form of a task (canonical/convert.py), *)
(* the adapters that run it (adapters/base.py, __init__.py), the one for the *)
(* OpenClaw gateway (openclaw.py) and the two ways of the one for Hermes      *)
(* (hermes.py), and the user that a script plays (simulated_user.py).        *)
(*                                                                         *)
(* A task is what convert.py reads of it, with the specifications of         *)
(* CompletionChecks.  An adapter is "openclaw", or Hermes as "mini_swe" or    *)
(* as "ai_agent".  A text is a set of tokens.  A query's selector and what   *)
(* it expects are left as they were in the specification it is made of.      *)
(***************************************************************************)
EXTENDS CompletionChecks

-----------------------------------------------------------------------------
\* Seeds, and queries with the capability that each needs.
Seeds(task) ==
    [i \in DOMAIN task.packs |-> [kind |-> "file", key |-> None, content |-> task.packs[i]]]
    \o [i \in DOMAIN task.seeds |-> [kind |-> "memory", key |-> task.seeds[i].key, content |-> task.seeds[i].content]]

Query(kind, predicate, capability, spec) ==
    [kind |-> kind, predicate |-> predicate, capability |-> capability, spec |-> spec]
Presence(spec) == IF spec.exists THEN "exists" ELSE "absent"
MemoryQuery(spec) == Query("memory", Presence(spec), "memory", spec)
SessionQuery(spec) == Query("session", Presence(spec), "session", spec)
CronQuery(spec) == Query("cron", Presence(spec), "cron", spec)
GatewayQuery(spec) ==
    Query("custom", IF spec.equals # <<>> THEN "equals" ELSE IF spec.contains # None THEN "contains" ELSE Presence(spec),
          "gateway_rpc", spec)

Each(specs, QueryOf(_)) == [i \in DOMAIN specs |-> QueryOf(specs[i])]
StateQueries(task) ==
    Each(task.memory, MemoryQuery) \o Each(task.session, SessionQuery)
    \o Each(task.cron, CronQuery) \o Each(task.gateway, GatewayQuery)
PreRunQueries(task) == Each(task.preChecks, GatewayQuery)

\* A user that says more than one thing, or waits for something, has to be played turn by turn.
DynamicTurn(turn) == turn.toolFamily # None \/ turn.toolName # None \/ turn.assistantSays # None \/ turn.afterFailure
UsesDynamicTurns(task) ==
    \E i \in DOMAIN task.phases : LET turns == task.phases[i].turns IN
        Len(turns) > 1 \/ \E j \in DOMAIN turns : DynamicTurn(turns[j])

CapabilitiesSansChecks(task) ==
    {"files", "execution"}
    \cup (IF task.memory # <<>> \/ \E i \in DOMAIN task.seeds : task.seeds[i].key # None THEN {"memory"} ELSE {})
    \cup (IF task.session # <<>> THEN {"session"} ELSE {})
    \cup (IF task.cron # <<>> THEN {"cron"} ELSE {})
    \cup (IF task.gateway # <<>> THEN {"gateway_rpc"} ELSE {})
CapabilitiesFor(task) ==
    {"files", "execution"}
    \cup (IF task.memory # <<>> \/ \E i \in DOMAIN task.seeds : task.seeds[i].key # None THEN {"memory"} ELSE {})
    \cup (IF task.session # <<>> THEN {"session"} ELSE {})
    \cup (IF task.cron # <<>> THEN {"cron"} ELSE {})
    \cup (IF task.gateway # <<>> \/ task.preChecks # <<>> THEN {"gateway_rpc"} ELSE {})
    \cup (IF task.browser THEN {"browser"} ELSE {})
    \cup (IF UsesDynamicTurns(task) THEN {"multi_turn_injection"} ELSE {})

FromTaskDefinition(task) ==
    [seeds |-> Seeds(task), queries |-> StateQueries(task), preRun |-> PreRunQueries(task), phases |-> task.phases,
     dynamic |-> UsesDynamicTurns(task), multiPhase |-> Len(task.phases) > 1,
     maxTurns |-> IF task.phases = <<>> THEN 20 ELSE Max({task.phases[i].maxTurns : i \in DOMAIN task.phases}),
     timeout |-> task.timeout, browser |-> task.browser, required |-> CapabilitiesFor(task)]

-----------------------------------------------------------------------------
SupportedCapabilities(adapter) ==
    CASE adapter = "openclaw" -> {"files", "execution", "memory", "session", "cron", "browser", "gateway_rpc",
                                  "multi_turn_injection"}
      [] adapter = "mini_swe" -> {"files", "execution"}
      [] adapter = "ai_agent" -> {"files", "execution", "memory", "cron", "browser", "multi_turn_injection"}
Missing(adapter, canonical) == canonical.required \ SupportedCapabilities(adapter)
Supports(adapter, canonical) == Missing(adapter, canonical) = {}

\* register_adapter: a name is taken once, and must not be empty.
Register(registry, adapter) ==
    IF adapter.name = None \/ (adapter.name \in DOMAIN registry /\ registry[adapter.name] # adapter.class) THEN <<>>
    ELSE <<(adapter.name :> adapter.class) @@ registry>>

-----------------------------------------------------------------------------
\* What of the world answers a query. An adapter that cannot ask answers "missing".
Verdict(ok) == IF ok THEN "ok" ELSE "failed"

\* verify_memory_fallback: the memory files of the workspace with what else is known, and then
\* the transcript.
MemoryFallback(spec, memory, calls) ==
    IF ~spec.exists THEN spec.key \notin memory
    ELSE IF spec.key \in memory THEN spec.values \subseteq memory ELSE MemoryInTranscript(spec, calls)

OpenClawMemory(spec, world) ==
    IF world.search # Refusal THEN VerifyMemory(spec, world.search, None, {}, world.calls)
    ELSE MemoryFallback(spec, AgentMemory(world.workspace) \cup AgentMemory(world.memory), world.calls)
OpenClawSession(query, answer) ==
    IF answer = Raises THEN query.predicate = "absent"
    ELSE query.predicate # "absent" /\ query.spec.model \in {None, answer}

OpenClawVerify(query, world) ==
    CASE query.kind = "memory" -> Verdict(OpenClawMemory(query.spec, world))
      [] query.kind = "session" -> Verdict(OpenClawSession(query, world.session))
      [] query.kind = "cron" -> Verdict(VerifyCron(query.spec, world.cron))
      [] query.kind = "custom" -> Verdict(VerifyGateway(query.spec, world.gateway))
      [] OTHER -> "missing"

\* Hermes: its jobs are a file, which may not be there or not be read, and its session is the one it runs in.
HermesCron(spec, file) == IF file = <<>> THEN ~spec.exists ELSE VerifyCron(spec, file[1])
HermesSession(query, model) == query.predicate # "absent" /\ query.spec.model \in {None, model}

HermesVerify(adapter, query, world) ==
    CASE query.kind = "memory" -> Verdict(MemoryFallback(query.spec,
                                    AgentMemory(world.workspace) \cup AgentMemory(world.home), world.calls))
      [] adapter = "ai_agent" /\ query.kind = "session" -> Verdict(HermesSession(query, world.model))
      [] adapter = "ai_agent" /\ query.kind = "cron" -> Verdict(HermesCron(query.spec, world.jobsFile))
      [] OTHER -> "missing"

VerifyStateQuery(adapter, query, world) ==
    IF adapter = "openclaw" THEN OpenClawVerify(query, world) ELSE HermesVerify(adapter, query, world)

\* Memory seeds become files of the workspace: of OpenClaw under names made safe and all
\* together in MEMORY.md, of Hermes under their keys. Of two with one name the last stays.
RealizeSeeds(adapter, seeds, safe) ==
    LET kept == SelectSeq(seeds, LAMBDA s : s.kind = "memory" /\ s.key # None)
        name(s) == IF adapter = "openclaw" THEN safe[s.key] ELSE s.key
        body(s) == IF adapter = "openclaw" THEN s.content \cup {s.key} ELSE s.content
        files == FoldLeft(LAMBDA acc, s : (<<"memory", name(s)>> :> body(s)) @@ acc, <<>>, kept)
    IN  IF adapter = "openclaw" /\ kept # <<>>
        THEN (<<"MEMORY.md">> :> UNION {body(kept[i]) : i \in DOMAIN kept}) @@ files ELSE files

-----------------------------------------------------------------------------
\* UserSimulator. The transcript is a sequence of messages with a role, a text and calls; a user
\* whose turn is not ready is done for good.
AssistantMessages(transcript) == SelectSeq(transcript, LAMBDA m : m.role = "assistant")
CallsOf(transcript) == FlattenSeq([i \in DOMAIN transcript |-> transcript[i].calls])

TurnIsReady(turn, transcript) ==
    LET said == AssistantMessages(transcript)
        calls == CallsOf(transcript)
    IN  /\ Len(said) >= turn.afterTurns
        /\ turn.toolFamily # None => calls # <<>> /\ Last(calls).family = turn.toolFamily
        /\ turn.toolName # None => calls # <<>> /\ Last(calls).name = turn.toolName
        /\ turn.assistantSays # None => said # <<>> /\ turn.assistantSays \in Last(said).text
        /\ turn.afterFailure => calls # <<>> /\ Last(calls).success = "failed"

NextTurn(phase, sent, transcript) ==
    sent < Len(phase.turns) /\ sent < phase.maxTurns /\ TurnIsReady(phase.turns[sent + 1], transcript)

\* How long a turn of the phase may take.
PhaseTimeout(phase, task, cap) ==
    LET asked == IF phase.timeout # 0 THEN phase.timeout ELSE task.timeout IN IF asked < cap THEN asked ELSE cap

\* run_phase of an agent that answers each message with those of Answers, in a session of its
\* own. What it answered in earlier phases stays in the transcript, and for a Hermes agent it is
\* the history that its answers begin with. A turn that expires ends the phase of Hermes.
Delta(messages, history) ==
    IF Len(messages) >= Len(history) THEN SubSeq(messages, Len(history) + 1, Len(messages)) ELSE messages

Turn(adapter, state, answer) ==
    IF adapter = "openclaw"
    THEN [state EXCEPT !.transcript = @ \o answer.messages, !.appended = @ \o answer.messages, !.sent = @ + 1]
    ELSE IF answer.late THEN [state EXCEPT !.completed = FALSE, !.over = TRUE]
    ELSE LET new == IF adapter = "mini_swe" THEN answer.messages ELSE Delta(answer.messages, state.history) IN
         [state EXCEPT !.transcript = @ \o new, !.appended = @ \o new, !.sent = @ + 1,
                       !.history = IF adapter = "mini_swe" THEN @ ELSE answer.messages,
                       !.completed = @ /\ answer.completed]

\* As many turns as the user takes: of MiniSWE only the first, ready or not.
RunPhase(adapter, phase, transcript, history, Answers) ==
    LET start == [transcript |-> transcript, history |-> history, appended |-> <<>>, sent |-> 0,
                  completed |-> TRUE, over |-> FALSE]
        take(state, n) ==
            IF state.over \/ ~NextTurn(phase, state.sent, state.transcript) THEN [state EXCEPT !.over = TRUE]
            ELSE Turn(adapter, state, Answers[n])
    IN  IF adapter = "mini_swe"
        THEN IF phase.turns = <<>> THEN start ELSE Turn(adapter, start, Answers[1])
        ELSE FoldLeft(take, start, [n \in 1..Len(Answers) |-> n])

\* setup: what of the checks before the run fails is noted, and the run goes on.
SetUpFailures(adapter, canonical, world) ==
    SelectSeq(canonical.preRun, LAMBDA q : VerifyStateQuery(adapter, q, world) # "ok")
\* teardown: every session and the agent, whatever fails on the way.
TearDown(sessions, agent) == ToSet(sessions) \cup ({agent} \ {None})
=============================================================================
