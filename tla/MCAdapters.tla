----------------------------- MODULE MCAdapters -----------------------------
(***************************************************************************)
(* Questions about adapters: whether a task means the same in its canonical *)
(* form, what becomes of its seeds, and what a phase leaves in the          *)
(* transcript.                                                             *)
(***************************************************************************)
EXTENDS Questions, Integers, Sequences, SequencesExt, FiniteSets, FiniteSetsExt, Functions, TLC

Agents == INSTANCE AgentAdapters

Adapters == {"openclaw", "mini_swe", "ai_agent"}

-----------------------------------------------------------------------------
Plain == [toolFamily |-> "none", toolName |-> "none", assistantSays |-> "none", afterFailure |-> FALSE, afterTurns |-> 0]
Phase(turns) == [turns |-> turns, timeout |-> 0, maxTurns |-> 2]
Memory == [key |-> "k", values |-> {"v"}, exists |-> TRUE]
Gateway == [exists |-> TRUE, path |-> <<<<"a", 0>>>>, equals |-> <<>>, contains |-> "none"]
One(specs) == {<<>>} \cup {<<spec>> : spec \in specs}

CanonicalTasks == [packs : {<<{"x"}>>}, seeds : {<<>>, <<[key |-> "k", content |-> {"v"}]>>},
               memory : One({Memory, [Memory EXCEPT !.exists = FALSE]}),
               session : One({[exists |-> TRUE, model |-> "m"], [exists |-> FALSE, model |-> "none"]}),
               cron : One({[exists |-> TRUE, describes |-> "daily"]}),
               gateway : One({Gateway}), preChecks : One({[Gateway EXCEPT !.contains = "x"]}),
               phases : {<<>>, <<Phase(<<Plain>>)>>, <<Phase(<<[Plain EXCEPT !.toolFamily = "read"]>>)>>},
               browser : BOOLEAN, timeout : {60}]
WroteLate == [family |-> "memory", memoryPath |-> FALSE, searches |-> FALSE, writes |-> TRUE, tokens |-> {"k", "v"}]
Known == [search |-> {{"k", "v"}}, session |-> "m", cron |-> {{"daily"}}, model |-> "m", jobsFile |-> <<>>,
          gateway |-> [is |-> "record", of |-> [k \in {"a"} |-> [is |-> "text", of |-> {"x"}]]],
          memory |-> [n \in {"MEMORY.md"} |-> {"k"}], workspace |-> <<>>, home |-> <<>>, calls |-> <<WroteLate>>, agent |-> "agent"]
Worlds == {Known, [Known EXCEPT !.search = {{"raises"}}, !.session = "raises", !.jobsFile = <<{{"weekly"}}>>],
           [Known EXCEPT !.search = {{"raises"}}, !.memory = <<>>, !.cron = {{"raises"}}, !.gateway = [is |-> "raises"]],
           [Known EXCEPT !.search = {}, !.calls = <<>>, !.session = "n", !.jobsFile = <<{{"raises"}}>>]}

AskCanonical == \E task \in CanonicalTasks, world \in Worlds, adapter \in Adapters :
                   Ask([topic |-> "canonical", task |-> task, world |-> world, adapter |-> adapter])

\* An adapter that takes a task can answer every question the task asks of the world, before the
\* run and after it; and where the adapter is OpenClaw's its answers are those that the harness
\* itself would come to (convert.py, base.py, environment.py).
TaskMeansTheSame(q) ==
    LET canonical == Agents!FromTaskDefinition(q.task)
        answer(query) == Agents!VerifyStateQuery(q.adapter, query, q.world)
        same(ok, query) == answer(query) = Agents!Verdict(ok)
        first(kind) == SelectSeq(canonical.queries, LAMBDA query : query.kind = kind)
        held == Agents!AgentMemory(q.world.memory)
    IN  /\ Agents!Supports(q.adapter, canonical) =>
              \A query \in ToSet(canonical.queries \o canonical.preRun) : answer(query) # "missing"
        /\ q.adapter = "openclaw" =>
              /\ Agents!Supports(q.adapter, canonical)
              /\ \A i \in DOMAIN q.task.memory :
                    same(Agents!VerifyMemory(q.task.memory[i], q.world.search, q.world.agent, held, q.world.calls), first("memory")[i])
              /\ \A i \in DOMAIN q.task.session : same(Agents!VerifySession(q.task.session[i], q.world.session), first("session")[i])
              /\ \A i \in DOMAIN q.task.cron : same(Agents!VerifyCron(q.task.cron[i], q.world.cron), first("cron")[i])
              /\ \A i \in DOMAIN q.task.gateway : same(Agents!VerifyGateway(q.task.gateway[i], q.world.gateway), first("custom")[i])
              /\ Len(Agents!SetUpFailures("openclaw", canonical, q.world)) =
                    Len(SelectSeq(q.task.preChecks, LAMBDA s : ~Agents!VerifyGateway(s, q.world.gateway)))

-----------------------------------------------------------------------------
SeedLists == UNION {[1..n -> [kind : {"memory"}, key : {"a", "b", "none"}, content : {{"v"}, {"w"}}]] : n \in 0..3}
AskSeeds == \E seeds \in SeedLists : Ask([topic |-> "seeds", seeds |-> seeds])

\* What a task put into OpenClaw's memory is found there when the memory cannot be searched, and
\* nothing that it did not put there is (openclaw.py, _realize_memory_seeds, verify_state_query).
SeedsAreFound(q) ==
    LET safe == [key \in {"a", "b", "none"} |-> IF key = "a" THEN "safe" ELSE key]
        files == Agents!RealizeSeeds("openclaw", q.seeds, safe)
        seeded == [n \in {"MEMORY.md"} \cap {p[1] : p \in DOMAIN files} |-> files[<<n>>]]
        world == [Known EXCEPT !.search = Agents!Refusal, !.memory = <<>>, !.workspace = seeded, !.calls = <<>>]
        found(key, values) == Agents!VerifyStateQuery("openclaw",
                                  Agents!MemoryQuery([key |-> key, values |-> values, exists |-> TRUE]), world) = "ok"
        put(key) == UNION {s.content : s \in {x \in ToSet(q.seeds) : x.key = key}}
    IN  /\ \A key \in {"a", "b"} : put(key) # {} => found(key, put(key))
        /\ \A key \in {"a", "b"} : put(key) = {} => ~found(key, {})

-----------------------------------------------------------------------------
\* Two phases of two turns each; an agent's n-th answer is what it said so far, and may be late.
Says(n) == [role |-> "assistant", text |-> {"done"}, calls |-> <<[name |-> "t", family |-> "read", success |-> IF n = 1 THEN "ok" ELSE "failed", at |-> n]>>]
Turns == {Plain, [Plain EXCEPT !.afterTurns = 1], [Plain EXCEPT !.toolFamily = "read"], [Plain EXCEPT !.afterFailure = TRUE],
          [Plain EXCEPT !.assistantSays = "done"]}
TurnLists == UNION {[1..n -> Turns] : n \in 0..2}

AskPhases == \E adapter \in Adapters, one \in TurnLists, two \in TurnLists, late \in 0..3, whole \in BOOLEAN :
                Ask([topic |-> "phases", adapter |-> adapter, phases |-> <<Phase(one), Phase(two)>>, late |-> late, whole |-> whole])

\* Over the phases of a task everything the agent said is in the transcript once and in order,
\* whether it answers with what is new or with all that was said; a phase takes no more turns than
\* it has; and after a late answer no turn of the phase is taken (hermes.py, _run_ai_agent_phase,
\* openclaw.py, run_phase, simulated_user.py).
EachIsHeardOnce(q) ==
    LET cumulative == q.adapter = "ai_agent"
        answers(from) == [n \in 1..2 |-> [messages |-> [i \in 1..(IF cumulative THEN from + n ELSE 1) |->
                                                            Says(IF cumulative THEN i ELSE from + n)],
                                          late |-> from + n = q.late, completed |-> q.whole]]
        one == Agents!RunPhase(q.adapter, q.phases[1], <<>>, <<>>, answers(0))
        two == Agents!RunPhase(q.adapter, q.phases[2], one.transcript, one.history, answers(one.sent))
        heard == one.sent + two.sent
        late == q.adapter # "openclaw" /\ q.late > 0
    IN  /\ two.transcript = [i \in 1..heard |-> Says(i)]
        /\ two.transcript = one.appended \o two.appended
        /\ one.sent <= Len(q.phases[1].turns) /\ two.sent <= Len(q.phases[2].turns)
        /\ late => heard < q.late

-----------------------------------------------------------------------------
AskAdapters == AskCanonical \/ AskSeeds \/ AskPhases

\* A task means the same to every adapter that takes it: see the promises of the topics.
CanonicalTasksMeanTheSame ==
    [][/\ About("canonical", TaskMeansTheSame)
       /\ About("seeds", SeedsAreFound)
       /\ About("phases", EachIsHeardOnce)]_asked
=============================================================================
