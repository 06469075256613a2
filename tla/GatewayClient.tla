--------------------------- MODULE GatewayClient ---------------------------
(***************************************************************************)
(* The WebSocket client a benchmark run talks to the gateway with           *)
(* (clawbench/client.py): connecting, calls and their answers, the listener,*)
(* and the turns of one conversation.                                       *)
(*                                                                         *)
(* Two coroutines call: the run itself ("main") and, during a turn, the     *)
(* task that waits for the agent ("waiter"). The listener takes frames off  *)
(* the socket in their order. The gateway is external: it answers requests  *)
(* in any order, late or never, and a run on it puts its messages in the    *)
(* session's history and emits them as events, some of them late. It acts   *)
(* at the moment its frame is read, so a frame that is on its way is one    *)
(* not yet sent. A clock is left out: a time-out may expire whenever it is  *)
(* running.                                                                 *)
(***************************************************************************)
EXTENDS Integers, Sequences, FiniteSets

CONSTANTS
    Turns,          \* turns of the conversation (1..Turns)
    MaxMessages,    \* bound: messages one run of the agent produces
    MaxAttempts,    \* bound: connection attempts before the deadline
    MaxFaults       \* bound: refusals, late events and lost sockets, all in all

ASSUME TurnsAssumption == Turns \in Nat \ {0}
ASSUME MaxMessagesAssumption == MaxMessages \in Nat
ASSUME MaxAttemptsAssumption == MaxAttempts \in Nat \ {0}
ASSUME MaxFaultsAssumption == MaxFaults \in Nat

VARIABLES
    main,        \* where connect(), send_and_wait() and their caller are
    attempt,     \* connection attempts so far; the last one's number names its socket
    setup,       \* calls made to set the session up
    turn,        \* the turn in progress
    socket,      \* "none", "open", or "lost": closed by the gateway, still in _ws
    listener,    \* the task that runs _listener
    inHand,      \* requests the gateway holds
    call,        \* the call each coroutine makes
    pending,     \* _pending: the calls an answer is taken for
    queue,       \* _event_queues
    run,         \* the agent's run of each turn, on the gateway
    made,        \* messages of each run in the session's history
    unsent,      \* messages in the history whose event is still to be emitted
    faults,      \* how often the gateway did less than it should
    log          \* of each turn: what ended it and what came of it

clientVars == <<main, attempt, setup, turn, call, pending, queue, log>>
vars == <<clientVars, socket, listener, inHand, run, made, unsent, faults>>

Callers == {"main", "waiter"}
SetupCalls == <<"agents.create", "sessions.create", "sessions.messages.subscribe">>
Message == (1..Turns) \X (1..MaxMessages)
MessagesOf(t) == {t} \X (1..made[t])
History == UNION {MessagesOf(t) : t \in 1..Turns}

Ids == Callers \X Nat

\* An answer. `good` is whether its payload is what the call hopes for: hello-ok, or a terminal status.
Response(id, ok, good, messages) ==
    [id |-> id, ok |-> ok, good |-> good, messages |-> messages]
NoAnswer == Response(<<"main", 0>>, FALSE, FALSE, {})

\* What a coroutine's n-th call is at: made and unanswered, answered, or over.
Call(n, state, frame) == [n |-> n, state |-> state, frame |-> frame]
Calls ==
    [n : Nat, state : {"idle", "waiting", "answered"},
     frame : [id : Ids, ok : BOOLEAN, good : BOOLEAN, messages : SUBSET Message]]
Requests ==
    [id : Ids, of : Nat,
     method : {SetupCalls[i] : i \in 1..Len(SetupCalls)}
                \cup {"challenge", "connect", "sessions.send", "agent.wait", "sessions.abort", "sessions.get"}]
Notes ==
    [state : {"ahead", "sent", "raised", "returned"}, endedBy : 0..Turns,
     abortSent : BOOLEAN, abortFailed : BOOLEAN, heard : BOOLEAN, late : BOOLEAN,
     collected : SUBSET Message, transcript : SUBSET Message]
MainStates ==
    {"connecting", "challenge", "hello", "retry", "setup", "turn", "sending", "waiting",
     "abort", "aborting", "drain", "reading", "closing", "closed"}

TypeOK ==
    /\ main \in MainStates
    /\ attempt \in 0..MaxAttempts /\ setup \in 0..Len(SetupCalls) /\ turn \in 1..Turns
    /\ socket \in {"none", "open", "lost"} /\ listener \in {"none", "running", "done"}
    /\ inHand \subseteq Requests
    /\ call \in [Callers -> Calls]
    /\ pending \subseteq Ids
    /\ queue \in [challenge : Seq(Nat), open : BOOLEAN, chat : Seq(1..Turns), messages : SUBSET Message]
    /\ run \in [1..Turns -> {"none", "running", "over"}]
    /\ made \in [1..Turns -> 0..MaxMessages]
    /\ unsent \subseteq Message
    /\ faults \in 0..MaxFaults
    /\ log \in [1..Turns -> Notes]

Init ==
    /\ main = "connecting" /\ attempt = 0 /\ setup = 0 /\ turn = 1
    /\ socket = "none" /\ listener = "none" /\ inHand = {}
    /\ call = [c \in Callers |-> Call(0, "idle", NoAnswer)]
    /\ pending = {}
    /\ queue = [challenge |-> <<>>, open |-> FALSE, chat |-> <<>>, messages |-> {}]
    /\ run = [t \in 1..Turns |-> "none"]
    /\ made = [t \in 1..Turns |-> 0]
    /\ unsent = {} /\ faults = 0
    /\ log = [t \in 1..Turns |->
                [state |-> "ahead", endedBy |-> 0, abortSent |-> FALSE, collected |-> {},
                 heard |-> FALSE, abortFailed |-> FALSE, late |-> FALSE, transcript |-> {}]]

-----------------------------------------------------------------------------
(***************************************************************************)
(* Calls. A call is registered before it is sent, so a send on a lost       *)
(* socket raises and leaves its registration behind. So does a call that is *)
(* cancelled; one that times out takes it away.                             *)
(***************************************************************************)
Id(c) == <<c, call[c].n>>
NextId(c) == <<c, call[c].n + 1>>
Request(id, method, of) == [id |-> id, method |-> method, of |-> of]

Begin(c, method, of) ==
    /\ socket = "open"
    /\ call' = [call EXCEPT ![c] = Call(@.n + 1, "waiting", NoAnswer)]
    /\ pending' = pending \cup {NextId(c)}
    /\ inHand' = inHand \cup {Request(NextId(c), method, of)}

SendRaises(c) ==
    /\ socket # "open"
    /\ call' = [call EXCEPT ![c] = Call(@.n + 1, "idle", NoAnswer)]
    /\ pending' = pending \cup {NextId(c)}
    /\ UNCHANGED inHand

Answered(c) == call[c].state = "answered"
Succeeds(c) == Answered(c) /\ call[c].frame.ok
Refused(c) == Answered(c) /\ ~call[c].frame.ok
Over(c) == call' = [call EXCEPT ![c] = Call(@.n, "idle", NoAnswer)]

TimesOut(c) ==
    /\ call[c].state = "waiting"
    /\ Over(c)
    /\ pending' = pending \ {Id(c)}

\* The listener passes an answer to the call it belongs to and drops one nobody waits for.
Deliver(frame) ==
    LET c == frame.id[1] IN
    /\ pending' = pending \ {frame.id}
    /\ call' = IF frame.id \in pending /\ frame.id = Id(c) /\ call[c].state = "waiting"
               THEN [call EXCEPT ![c] = Call(@.n, "answered", frame)]
               ELSE call

\* An event goes to the queue of its session, if there is one at that moment.
EnqueueChat(t) == queue' = IF queue.open THEN [queue EXCEPT !.chat = Append(@, t)] ELSE queue
EnqueueMessage(m) == queue' = IF queue.open THEN [queue EXCEPT !.messages = @ \cup {m}] ELSE queue
EnqueueChallenge(n) == queue' = [queue EXCEPT !.challenge = Append(@, n)]

-----------------------------------------------------------------------------
(***************************************************************************)
(* connect(): every attempt has a socket and a listener of its own, while   *)
(* the queue of challenges is the client's. An attempt that fails for a     *)
(* passing reason is repeated until the deadline.                           *)
(***************************************************************************)
gatewayKept == <<run, made, unsent, faults>>

OpenSocket ==
    /\ main = "connecting"
    /\ attempt' = attempt + 1
    /\ socket' = "open" /\ listener' = "running"
    /\ inHand' = {Request(<<"main", 0>>, "challenge", attempt')}
    /\ main' = "challenge"
    /\ UNCHANGED <<setup, turn, call, pending, queue, log, gatewayKept>>

OpenFails ==
    /\ main = "connecting"
    /\ attempt' = attempt + 1
    /\ main' = "retry"
    /\ UNCHANGED <<setup, turn, call, pending, queue, log, socket, listener, inHand, gatewayKept>>

TakeChallenge ==
    /\ main = "challenge" /\ queue.challenge # <<>>
    /\ queue' = [queue EXCEPT !.challenge = Tail(@)]
    /\ \/ Begin("main", "connect", Head(queue.challenge)) /\ main' = "hello"
       \/ SendRaises("main") /\ main' = "retry"
    /\ UNCHANGED <<attempt, setup, turn, log, socket, listener, gatewayKept>>

ChallengeTimesOut ==
    /\ main = "challenge"
    /\ main' = "retry"
    /\ UNCHANGED <<attempt, setup, turn, call, pending, queue, log, socket, listener, inHand, gatewayKept>>


GreetedAtLast ==
    /\ main = "hello"
    /\ Answered("main") /\ Over("main")
    /\ main' = IF Refused("main") THEN "closing"
               ELSE IF call["main"].frame.good THEN "setup" ELSE "retry"
    /\ UNCHANGED <<attempt, setup, turn, pending, queue, log, socket, listener, inHand, gatewayKept>>

\* A refusal is no passing error: connect() raises. A reply that is no hello-ok is one.
Greeted ==
    /\ main = "hello"
    /\ \/ /\ Answered("main") /\ Over("main") /\ UNCHANGED pending
          /\ main' = IF Refused("main") THEN "closing"
                     ELSE IF call["main"].frame.good THEN "setup" ELSE "retry"
       \/ TimesOut("main") /\ main' = "retry"
    /\ UNCHANGED <<attempt, setup, turn, queue, log, socket, listener, inHand, gatewayKept>>

\* close() ends the listener and the socket. It keeps the event queues and the pending calls.
Disconnect ==
    /\ socket' = "none" /\ inHand' = {}
    /\ listener' = IF listener = "running" THEN "none" ELSE listener

Retry ==
    /\ main = "retry"
    /\ Disconnect
    /\ \/ attempt < MaxAttempts /\ main' = "connecting"
       \/ main' = "closed"
    /\ UNCHANGED <<attempt, setup, turn, call, pending, queue, log, gatewayKept>>

Close ==
    /\ main = "closing"
    /\ Disconnect
    /\ main' = "closed"
    /\ UNCHANGED <<attempt, setup, turn, call, pending, queue, log, gatewayKept>>

\* The calls that set a session up: any that fails ends the run, and the client is closed.
SetUp ==
    /\ main = "setup"
    /\ \/ /\ setup < Len(SetupCalls) /\ call["main"].state = "idle"
          /\ \/ Begin("main", SetupCalls[setup + 1], 0) /\ UNCHANGED main
             \/ SendRaises("main") /\ main' = "closing"
          /\ UNCHANGED setup
       \/ /\ Succeeds("main") /\ Over("main")
          /\ setup' = setup + 1
          /\ main' = IF setup' = Len(SetupCalls) THEN "turn" ELSE main
          /\ UNCHANGED <<pending, inHand>>
       \/ /\ \/ Refused("main") /\ Over("main") /\ UNCHANGED pending
             \/ TimesOut("main")
          /\ main' = "closing" /\ UNCHANGED <<setup, inHand>>
    /\ UNCHANGED <<attempt, turn, queue, log, socket, listener, gatewayKept>>

-----------------------------------------------------------------------------
(***************************************************************************)
(* send_and_wait(): one turn. The turn's queues are registered before the   *)
(* message is sent. What ends it is the first of an event that says so, the *)
(* answer to agent.wait and the deadline.                                   *)
(***************************************************************************)
turnKept == <<attempt, setup, socket, listener, gatewayKept>>
Note(changes) == log' = [log EXCEPT ![turn] = changes]

SendMessage ==
    /\ main = "turn"
    /\ queue' = [queue EXCEPT !.open = TRUE, !.chat = <<>>, !.messages = {}]
    /\ \/ Begin("main", "sessions.send", turn) /\ main' = "sending" /\ Note([log[turn] EXCEPT !.state = "sent"])
       \/ SendRaises("main") /\ main' = "closing" /\ Note([log[turn] EXCEPT !.state = "raised"])
    /\ UNCHANGED <<turn, turnKept>>


MessageSentThenQueues ==
    /\ main = "sending" /\ Succeeds("main")
    /\ main' = "waiting"
    /\ queue' = [queue EXCEPT !.open = TRUE, !.chat = <<>>, !.messages = {}]
    /\ LET id == NextId("waiter") IN
       /\ pending' = pending \cup {id}
       /\ call' = [call EXCEPT !["main"] = Call(@.n, "idle", NoAnswer),
                               !["waiter"] = Call(@.n + 1, IF socket = "open" THEN "waiting" ELSE "idle", NoAnswer)]
       /\ inHand' = IF socket = "open" THEN inHand \cup {Request(id, "agent.wait", turn)} ELSE inHand
    /\ UNCHANGED <<turn, log, turnKept>>

\* The message is taken: the task that waits for the agent starts.
MessageSent ==
    /\ main = "sending" /\ Succeeds("main")
    /\ main' = "waiting"
    /\ LET id == NextId("waiter") IN
       /\ pending' = pending \cup {id}
       /\ call' = [call EXCEPT !["main"] = Call(@.n, "idle", NoAnswer),
                               !["waiter"] = Call(@.n + 1, IF socket = "open" THEN "waiting" ELSE "idle", NoAnswer)]
       /\ inHand' = IF socket = "open" THEN inHand \cup {Request(id, "agent.wait", turn)} ELSE inHand
    /\ UNCHANGED <<turn, queue, log, turnKept>>

\* It is not, or no answer comes: the error leaves send_and_wait before its try block.
SendFails ==
    /\ main = "sending"
    /\ \/ Refused("main") /\ Over("main") /\ UNCHANGED pending
       \/ TimesOut("main")
    /\ main' = "closing"
    /\ Note([log[turn] EXCEPT !.state = "raised"])
    /\ UNCHANGED <<turn, queue, inHand, turnKept>>

TakeChatEvent ==
    /\ main = "waiting" /\ queue.chat # <<>>
    /\ queue' = [queue EXCEPT !.chat = Tail(@)]
    /\ main' = "drain"
    /\ Note([log[turn] EXCEPT !.endedBy = Head(queue.chat)])
    /\ UNCHANGED <<turn, call, pending, inHand, turnKept>>

\* agent.wait says that the run is over or that it timed out; if it failed, it says nothing.
TakeWaitAnswer ==
    /\ main = "waiting" /\ Answered("waiter")
    /\ Over("waiter")
    /\ main' = IF Refused("waiter") THEN "waiting"
               ELSE IF call["waiter"].frame.good THEN "drain" ELSE "abort"
    /\ Note([log[turn] EXCEPT !.endedBy = IF main' = "drain" THEN turn ELSE @])
    /\ UNCHANGED <<turn, queue, pending, inHand, turnKept>>


DeadlineDrains ==
    /\ main = "waiting"
    /\ main' = "drain"
    /\ UNCHANGED <<turn, call, pending, queue, inHand, log, turnKept>>

Deadline ==
    /\ main = "waiting"
    /\ main' = "abort"
    /\ UNCHANGED <<turn, call, pending, queue, inHand, log, turnKept>>


AbortUnawaited ==
    /\ main = "abort"
    /\ main' = "drain"
    /\ \/ Begin("main", "sessions.abort", turn) /\ Note([log[turn] EXCEPT !.abortSent = TRUE])
       \/ SendRaises("main") /\ UNCHANGED log
    /\ UNCHANGED <<turn, queue, turnKept>>

\* abort_session() swallows every error.
Abort ==
    /\ main = "abort"
    /\ \/ Begin("main", "sessions.abort", turn) /\ main' = "aborting" /\ Note([log[turn] EXCEPT !.abortSent = TRUE])
       \/ SendRaises("main") /\ main' = "drain" /\ UNCHANGED log
    /\ UNCHANGED <<turn, queue, turnKept>>

Aborted ==
    /\ main = "aborting"
    /\ \/ Answered("main") /\ Over("main") /\ UNCHANGED pending
       \/ TimesOut("main")
    /\ Note([log[turn] EXCEPT !.abortFailed = ~Succeeds("main")])
    /\ main' = "drain"
    /\ UNCHANGED <<turn, queue, inHand, turnKept>>

\* The drain ends in a moment in which the queue is empty; then the history is asked for.
Drain ==
    /\ main = "drain"
    /\ queue' = [queue EXCEPT !.messages = {}]
    /\ Note([log[turn] EXCEPT !.collected = @ \cup queue.messages])
    /\ \/ queue.messages # {} /\ UNCHANGED <<main, call, pending, inHand>>
       \/ /\ queue.messages = {} /\ main' = "reading"
          /\ \/ Begin("main", "sessions.get", turn)
             \/ SendRaises("main")
    /\ UNCHANGED <<turn, turnKept>>

\* The history replaces what was collected if it has more, all in all or of the assistant's messages.
\* A run's messages here are the assistant's, and each is put in the queue once at the most, so that
\* the size of a set is the length of the list in the code and both counts say the same.
Better(history, collected) ==
    history # {} /\ Cardinality(history) > Cardinality(collected)

\* The history's answer, its error, its time-out, or the send that raised: the turn returns.
\* The waiting task is cancelled and the turn's queues go.
Return ==
    /\ main = "reading"
    /\ LET history == IF Succeeds("main") THEN call["main"].frame.messages ELSE {}
           timedOut == call["main"].state = "waiting" IN
       /\ Note([log[turn] EXCEPT !.state = "returned", !.heard = Succeeds("main"),
                    !.transcript = IF Better(history, log[turn].collected) THEN history
                                   ELSE log[turn].collected])
       /\ pending' = IF timedOut THEN pending \ {Id("main")} ELSE pending
    /\ call' = [c \in Callers |-> Call(call[c].n, "idle", NoAnswer)]
    /\ queue' = [queue EXCEPT !.open = FALSE, !.chat = <<>>, !.messages = {}]
    /\ \/ turn < Turns /\ turn' = turn + 1 /\ main' = "turn"
       \/ turn = Turns /\ UNCHANGED turn /\ main' = "closing"
    /\ UNCHANGED <<inHand, turnKept>>

-----------------------------------------------------------------------------
(***************************************************************************)
(* The gateway, as far as the client can tell.                              *)
(***************************************************************************)
Fault == faults < MaxFaults /\ faults' = faults + 1
Fine == UNCHANGED faults
Reply(request, ok, good) == Deliver(Response(request.id, ok, good, {}))
Ends(t) == run' = [run EXCEPT ![t] = "over"]
NoteEnd(t) == log' = [log EXCEPT ![t].late = \E k \in 1..MaxMessages : <<t, k>> \in unsent]
Refusable(method) == method \notin {"challenge", "connect"}

Refuse(request) ==
    /\ Refusable(request.method) /\ Fault
    /\ Reply(request, FALSE, FALSE)
    /\ UNCHANGED <<queue, run, log>>

\* A signature over another socket's nonce is refused; a reply need not be hello-ok.
Greet(request) ==
    \/ /\ request.method = "challenge" /\ Fine
       /\ EnqueueChallenge(request.of)
       /\ UNCHANGED <<call, pending, run, log>>
    \/ /\ request.method = "connect"
       /\ \/ Fine /\ Reply(request, request.of = attempt, TRUE)
          \/ Fault /\ Reply(request, TRUE, FALSE)
       /\ UNCHANGED <<queue, run, log>>

Serve(request) ==
    LET t == request.of IN
    \/ /\ request.method \in {SetupCalls[i] : i \in 1..Len(SetupCalls)} /\ Fine
       /\ Reply(request, TRUE, TRUE)
       /\ UNCHANGED <<queue, run, log>>
    \/ /\ request.method = "sessions.send" /\ Fine
       /\ run' = [run EXCEPT ![t] = "running"]
       /\ Reply(request, TRUE, TRUE)
       /\ UNCHANGED <<queue, log>>
    \/ /\ request.method = "agent.wait"
       /\ \/ run[t] = "over" /\ Fine /\ Reply(request, TRUE, TRUE)
          \/ run[t] # "over" /\ Fault /\ Reply(request, TRUE, FALSE)
       /\ UNCHANGED <<queue, run, log>>
    \/ /\ request.method = "sessions.abort" /\ Fine
       /\ Reply(request, TRUE, TRUE)
       /\ IF run[t] = "running" THEN Ends(t) /\ NoteEnd(t) /\ EnqueueChat(t) ELSE UNCHANGED <<queue, run, log>>
    \/ /\ request.method = "sessions.get" /\ Fine
       /\ Deliver(Response(request.id, TRUE, TRUE, History))
       /\ UNCHANGED <<queue, run, log>>

Answer(request) ==
    /\ socket = "open"
    /\ inHand' = inHand \ {request}
    /\ Refuse(request) \/ Greet(request) \/ Serve(request)
    /\ UNCHANGED <<main, attempt, setup, turn, socket, listener, made, unsent>>

runKept == <<main, attempt, setup, turn, call, pending, socket, listener, inHand>>
Emit(m) == IF socket = "open" THEN EnqueueMessage(m) ELSE UNCHANGED queue

\* A run has a message: it is in the history at once, and emitted now, later or never.
Produce(t) ==
    /\ run[t] = "running" /\ made[t] < MaxMessages
    /\ made' = [made EXCEPT ![t] = @ + 1]
    /\ \/ Fine /\ Emit(<<t, made'[t]>>) /\ UNCHANGED unsent
       \/ Fault /\ unsent' = unsent \cup {<<t, made'[t]>>} /\ UNCHANGED queue
    /\ UNCHANGED <<runKept, run, log>>

EmitLate(m) ==
    /\ unsent' = unsent \ {m}
    /\ Emit(m)
    /\ UNCHANGED <<runKept, run, made, log, faults>>

EndRun(t) ==
    /\ run[t] = "running"
    /\ Ends(t) /\ NoteEnd(t)
    /\ IF socket = "open" THEN EnqueueChat(t) ELSE UNCHANGED queue
    /\ UNCHANGED <<runKept, made, unsent, faults>>

\* The socket closes. The listener ends and tells no call that waits.
LoseSocket ==
    /\ Fault /\ socket = "open"
    /\ socket' = "lost" /\ listener' = "done" /\ inHand' = {}
    /\ UNCHANGED <<clientVars, run, made, unsent>>

-----------------------------------------------------------------------------
Connecting == OpenSocket \/ OpenFails \/ TakeChallenge \/ ChallengeTimesOut \/ Greeted \/ Retry
Turn ==
    \/ SendMessage \/ MessageSent \/ SendFails \/ TakeChatEvent \/ TakeWaitAnswer \/ Deadline
    \/ Abort \/ Aborted \/ Drain \/ Return
Client == Connecting \/ SetUp \/ Turn \/ Close
Gateway ==
    \/ \E request \in inHand : Answer(request)
    \/ \E t \in 1..Turns : Produce(t) \/ EndRun(t)
    \/ \E m \in unsent : EmitLate(m)
    \/ LoseSocket

Next == Client \/ Gateway

\* The event loop runs both coroutines, and every wait of theirs has a time-out. Nothing is
\* asked of the gateway.
Spec == Init /\ [][Next]_vars /\ WF_vars(Client)

-----------------------------------------------------------------------------
\* A turn that its own run's end ended has all of that run's messages, if the history was heard,
\* and, without it, if none of them was emitted after the end: the queues are there before the
\* message is sent, frames keep their order, and the longer record wins (send_and_wait).
TurnIsComplete ==
    \A t \in 1..Turns :
        /\ log[t].state = "returned" /\ log[t].endedBy = t
        /\ log[t].heard \/ (~log[t].late /\ socket = "open")
        => MessagesOf(t) \subseteq log[t].transcript

\* No turn returns with its run still going on the gateway, unless it asked for an abort, lost
\* its socket, or took an earlier turn's end for its own.
RunIsNotLeftBehind ==
    \A t \in 1..Turns :
        log[t].state = "returned" /\ run[t] = "running" =>
            log[t].abortSent \/ socket # "open" \/ log[t].endedBy \in 1..(t - 1)

\* Events name a session, not a run, so the end of an earlier turn's run could end this turn. It
\* does so only after the abort of that run, or of one before it whose end was taken for that
\* run's, was refused or went unanswered: an answer follows the event on the same socket, and
\* the turn waits for it before its queues go.
TurnEndsByItsOwnRun ==
    \A t \in 1..Turns :
        log[t].endedBy \in 1..(t - 1) => \E e \in 1..log[t].endedBy : log[e].abortFailed

\* What a turn returns was said in that turn (it is appended to the transcript of the run).
TurnReturnsItsOwnMessages ==
    \A t \in 1..Turns : log[t].transcript \subseteq MessagesOf(t)

\* Whatever the gateway does, the client's coroutine comes to its end: no call waits for ever for
\* an answer that a closed socket can no longer bring.
ClientFinishes == <>(main = "closed")
=============================================================================
