------------------------ MODULE GatewayClientProofs ------------------------
(***************************************************************************)
(* What a conversation with the gateway keeps, for every number of turns,   *)
(* messages, connection attempts and faults.                                *)
(*                                                                         *)
(* None of the three properties is inductive. That a turn has all of its    *)
(* run's messages rests on where each of them is (MessageInv), on what an   *)
(* answer says when it is given (AnswerInv), and so on what the gateway may *)
(* still be asked (RequestInv). That a turn ends by its own run rests on    *)
(* what the queue of events may hold: the end of an earlier run only if the *)
(* abort of it, or of one before it whose end was taken for its own, failed *)
(* (EndInv). The longer record is the fuller one because the history held   *)
(* all that had been collected when it was asked for (LongerHoldsMore).     *)
(***************************************************************************)
EXTENDS GatewayClient, FiniteSetTheorems, TLAPS

\* Where the conversation has not begun, where a turn is under way, and where its message was taken.
Early == {"connecting", "challenge", "hello", "retry", "setup"}
InTurn == {"sending", "waiting", "abort", "aborting", "drain", "reading"}
Taken == InTurn \ {"sending"}

\* The turns come one after the other, and a run starts with its turn.
PhaseInv ==
    /\ main \in Early => turn = 1 /\ setup < Len(SetupCalls)
    /\ main = "connecting" => attempt < MaxAttempts
    /\ \A t \in 1..Turns :
          /\ t > turn \/ (t = turn /\ main \in Early \cup {"turn"}) =>
                run[t] = "none" /\ log[t].state = "ahead" /\ log[t].endedBy = 0
          /\ t < turn => log[t].state = "returned"
          /\ log[t].state = "returned" => run[t] # "none"
          /\ run[t] = "none" => made[t] = 0
    /\ main \in InTurn => queue.open /\ log[turn].state = "sent"
    /\ main \in Taken => run[turn] # "none"

\* What the gateway holds: a coroutine's last request is the one its place says, and a turn's message
\* starts a run at most once.
RequestInv ==
    \A r \in inHand :
        /\ r.id[2] <= call[r.id[1]].n
        /\ r.method = "sessions.send" =>
              r.of = turn /\ r.id = Id("main") /\ run[turn] = "none" /\ main \in {"sending", "closing"}
        /\ r.method \in {"agent.wait", "sessions.abort", "sessions.get"} => r.of \in 1..turn
        /\ r.id = Id("main") /\ call["main"].state = "waiting" =>
              /\ main = "sending" => r.method = "sessions.send"
              /\ main = "aborting" => r.method = "sessions.abort" /\ r.of = turn
              /\ main = "reading" => r.method = "sessions.get"
        /\ r.id = Id("waiter") /\ call["waiter"].state = "waiting" => r.method = "agent.wait" /\ r.of = turn

\* What an answer says of the run of the turn.
AnswerInv ==
    /\ main = "sending" /\ Succeeds("main") => run[turn] # "none"
    /\ main = "aborting" /\ Succeeds("main") => run[turn] = "over"
    /\ main = "waiting" /\ Succeeds("waiter") /\ call["waiter"].frame.good => run[turn] = "over"
    /\ main = "reading" /\ Succeeds("main") =>
          /\ log[turn].collected \subseteq call["main"].frame.messages
          /\ log[turn].endedBy = turn => MessagesOf(turn) \subseteq call["main"].frame.messages

\* Where the messages of a run are.
MessageInv ==
    /\ queue.messages \subseteq History /\ unsent \subseteq History
    /\ \A t \in 1..Turns : log[t].collected \subseteq History
    /\ main \in InTurn /\ socket = "open" =>
          MessagesOf(turn) \subseteq log[turn].collected \cup queue.messages \cup unsent
    /\ \A t \in 1..Turns : run[t] = "over" /\ ~log[t].late => \A k \in 1..MaxMessages : <<t, k>> \notin unsent
    /\ main = "reading" /\ log[turn].endedBy = turn /\ socket = "open" /\ ~log[turn].late =>
          MessagesOf(turn) \subseteq log[turn].collected

\* The abort of turn e, or of one before it, failed.
FailedBy(notes, e) == \E k \in 1..e : notes[k].abortFailed

\* What ended the turns, and why a run may go on after its turn.
EndInv ==
    /\ \A i \in 1..Len(queue.chat) :
          /\ queue.chat[i] <= turn /\ run[queue.chat[i]] = "over"
          /\ queue.chat[i] < turn => FailedBy(log, queue.chat[i])
    /\ \A t \in 1..Turns :
          /\ log[t].endedBy <= t
          /\ log[t].endedBy = t => run[t] = "over"
          /\ log[t].endedBy \in 1..(t - 1) => FailedBy(log, log[t].endedBy)
          /\ t < turn /\ run[t] = "running" /\ socket = "open" => FailedBy(log, t)
    /\ main \in {"aborting", "drain", "reading"} =>
          log[turn].abortSent \/ socket # "open" \/ run[turn] = "over" \/ log[turn].endedBy \in 1..(turn - 1)
    /\ main \in {"drain", "reading"} =>
          log[turn].abortFailed \/ socket # "open" \/ run[turn] = "over" \/ log[turn].endedBy \in 1..(turn - 1)

\* All of it, with the properties it implies.
Inv == /\ TypeOK /\ PhaseInv /\ RequestInv /\ AnswerInv /\ MessageInv /\ EndInv
       /\ TurnIsComplete /\ RunIsNotLeftBehind

-----------------------------------------------------------------------------
\* What the types say, in the form the steps need.
LEMMA Basics ==
  ASSUME Inv
  PROVE  /\ turn \in 1..Turns /\ turn \in Nat /\ Turns \in Nat /\ MaxMessages \in Nat /\ MaxFaults \in Nat
         /\ call \in [Callers -> Calls] /\ "main" \in Callers /\ "waiter" \in Callers
         /\ call["main"] \in Calls /\ call["waiter"] \in Calls
         /\ \A c \in Callers : call[c].n \in Nat /\ call[c].frame.messages \subseteq Message
         /\ log \in [1..Turns -> Notes] /\ log[turn] \in Notes
         /\ log[turn].collected \subseteq Message /\ log[turn].endedBy \in 0..Turns
         /\ queue.messages \subseteq Message /\ queue.chat \in Seq(1..Turns) /\ queue.open \in BOOLEAN
         /\ inHand \subseteq Requests /\ pending \subseteq Ids
  <1>1. TypeOK
    BY DEF Inv
  <1>2. /\ turn \in 1..Turns /\ turn \in Nat /\ Turns \in Nat /\ MaxMessages \in Nat /\ MaxFaults \in Nat
    BY <1>1, TurnsAssumption, MaxMessagesAssumption, MaxFaultsAssumption DEF TypeOK
  <1>3. call \in [Callers -> Calls] /\ "main" \in Callers /\ "waiter" \in Callers
    BY <1>1 DEF TypeOK, Callers
  <1>4. \A c \in Callers : call[c].n \in Nat /\ call[c].frame.messages \subseteq Message
    BY <1>3 DEF Calls
  <1>5. log \in [1..Turns -> Notes] /\ log[turn] \in Notes
    BY <1>1, <1>2 DEF TypeOK
  <1>6. log[turn].collected \subseteq Message /\ log[turn].endedBy \in 0..Turns
    BY <1>5 DEF Notes
  <1>7. queue.messages \subseteq Message /\ queue.chat \in Seq(1..Turns) /\ queue.open \in BOOLEAN
        /\ inHand \subseteq Requests /\ pending \subseteq Ids
    BY <1>1 DEF TypeOK
  <1> QED BY <1>2, <1>3, <1>4, <1>5, <1>6, <1>7

\* The names of calls, and the states of a call that was just made or ended.
LEMMA IdFacts ==
  ASSUME Inv, NEW c \in Callers
  PROVE  Id(c) \in Ids /\ NextId(c) \in Ids /\ NoAnswer.id \in Ids /\ Id(c)[1] = c /\ Id(c)[2] = call[c].n
         /\ NextId(c)[1] = c /\ NextId(c)[2] = call[c].n + 1
         /\ \A s \in {"idle", "waiting"} : Call(call[c].n, s, NoAnswer) \in Calls /\ Call(call[c].n + 1, s, NoAnswer) \in Calls
  <1>1. call[c].n \in Nat
    BY Basics
  <1>2. Id(c) \in Ids /\ NextId(c) \in Ids /\ <<"main", 0>> \in Ids
    BY <1>1 DEF Id, NextId, Ids, Callers
  <1> QED BY <1>1, <1>2 DEF Calls, Call, NoAnswer, Response, Id, NextId

\* A call is over, or begins, and the other coroutine's stays what it is.
LEMMA OverFacts ==
  ASSUME Inv, NEW c \in Callers, Over(c)
  PROVE  /\ call' \in [Callers -> Calls] /\ call'[c].n = call[c].n /\ call'[c].state = "idle"
         /\ \A d \in Callers \ {c} : call'[d] = call[d]
  <1>1. call' = [call EXCEPT ![c] = Call(call[c].n, "idle", NoAnswer)] /\ call \in [Callers -> Calls]
    BY Basics DEF Over
  <1>2. Call(call[c].n, "idle", NoAnswer) \in Calls
    BY IdFacts
  <1> QED BY <1>1, <1>2 DEF Call

\* A call that begins has its request with the gateway.
LEMMA BeginFacts ==
  ASSUME Inv, NEW c \in Callers, NEW method, NEW of \in Nat, Begin(c, method, of),
         Request(NextId(c), method, of) \in Requests
  PROVE  /\ socket = "open" /\ call' \in [Callers -> Calls] /\ call'[c].n = call[c].n + 1 /\ call'[c].state = "waiting"
         /\ \A d \in Callers \ {c} : call'[d] = call[d]
         /\ pending' \subseteq Ids /\ inHand' \subseteq Requests
         /\ \E r \in Requests : r.id = NextId(c) /\ r.method = method /\ r.of = of /\ inHand' = inHand \cup {r}
  <1>1. /\ call' = [call EXCEPT ![c] = Call(call[c].n + 1, "waiting", NoAnswer)] /\ call \in [Callers -> Calls]
        /\ socket = "open" /\ pending' = pending \cup {NextId(c)}
        /\ inHand' = inHand \cup {Request(NextId(c), method, of)}
        /\ pending \subseteq Ids /\ inHand \subseteq Requests
    BY Basics DEF Begin
  <1>2. Call(call[c].n + 1, "waiting", NoAnswer) \in Calls /\ NextId(c) \in Ids
    BY IdFacts
  <1>3. /\ call' \in [Callers -> Calls] /\ call'[c] = Call(call[c].n + 1, "waiting", NoAnswer)
        /\ \A d \in Callers \ {c} : call'[d] = call[d]
    BY <1>1, <1>2
  <1>4. call'[c].n = call[c].n + 1 /\ call'[c].state = "waiting"
    BY <1>3 DEF Call
  <1>5. \E r \in Requests : r.id = NextId(c) /\ r.method = method /\ r.of = of /\ inHand' = inHand \cup {r}
    BY <1>1 DEF Request
  <1> QED BY <1>1, <1>2, <1>3, <1>4, <1>5

\* A send on a lost socket raises: no request leaves.
LEMMA RaisesFacts ==
  ASSUME Inv, NEW c \in Callers, SendRaises(c)
  PROVE  /\ socket # "open" /\ call' \in [Callers -> Calls] /\ call'[c].n = call[c].n + 1 /\ call'[c].state = "idle"
         /\ \A d \in Callers \ {c} : call'[d] = call[d]
         /\ pending' \subseteq Ids /\ inHand' = inHand
  <1>1. /\ call' = [call EXCEPT ![c] = Call(call[c].n + 1, "idle", NoAnswer)] /\ call \in [Callers -> Calls]
        /\ socket # "open" /\ pending' = pending \cup {NextId(c)} /\ pending \subseteq Ids /\ inHand' = inHand
    BY Basics DEF SendRaises
  <1>2. Call(call[c].n + 1, "idle", NoAnswer) \in Calls /\ NextId(c) \in Ids
    BY IdFacts
  <1>3. /\ call' \in [Callers -> Calls] /\ call'[c] = Call(call[c].n + 1, "idle", NoAnswer)
        /\ \A d \in Callers \ {c} : call'[d] = call[d]
    BY <1>1, <1>2
  <1>4. call'[c].n = call[c].n + 1 /\ call'[c].state = "idle"
    BY <1>3 DEF Call
  <1> QED BY <1>1, <1>2, <1>3, <1>4

\* A call that times out is over.
LEMMA TimesOutFacts ==
  ASSUME Inv, NEW c \in Callers, TimesOut(c)
  PROVE  Over(c) /\ pending' \subseteq Ids /\ call[c].state = "waiting"
  BY Basics DEF TimesOut

\* A request of any method, by any coroutine.
LEMMA RequestFacts ==
  ASSUME Inv, NEW c \in Callers, NEW of \in Nat,
         NEW method \in {"connect", "sessions.send", "agent.wait", "sessions.abort", "sessions.get"}
                          \cup {SetupCalls[i] : i \in 1..Len(SetupCalls)}
  PROVE  Request(NextId(c), method, of) \in Requests
  BY IdFacts DEF Request, Requests

\* The note of the turn is changed, and no other.
LEMMA NoteFacts ==
  ASSUME Inv, NEW n \in Notes, Note(n)
  PROVE  log' \in [1..Turns -> Notes] /\ log'[turn] = n /\ \A t \in 1..Turns \ {turn} : log'[t] = log[t]
  BY Basics DEF Note

-----------------------------------------------------------------------------
\* The parts of the invariant that are about calls and about what the gateway holds say nothing of the
\* rest, and the others nothing of them.
World == PhaseInv /\ MessageInv /\ EndInv /\ TurnIsComplete /\ RunIsNotLeftBehind

\* Nothing but the place changes before the conversation begins and after it was given up: no turn is
\* under way.
LEMMA QuietWorld ==
  ASSUME Inv, main \in Early \cup {"closing"}, main' \in Early \cup {"turn", "closing", "closed"},
         main = "closing" => main' = "closed", main' = "connecting" => attempt' < MaxAttempts,
         main' \in Early => setup' < Len(SetupCalls),
         UNCHANGED <<turn, run, made, unsent, log>>,
         queue'.open = queue.open, queue'.chat = queue.chat, queue'.messages = queue.messages,
         socket' = "open" => socket = "open" \/ main \in Early
  PROVE  World'
  <1>1. PhaseInv /\ MessageInv /\ EndInv /\ TurnIsComplete /\ RunIsNotLeftBehind
        /\ turn \in 1..Turns /\ turn \in Nat /\ Turns \in Nat
    BY Basics DEF Inv
  <1>2. main \in Early => turn = 1 /\ \A t \in 1..Turns : log[t].state = "ahead" /\ run[t] = "none"
    <2>1. SUFFICES ASSUME main \in Early PROVE turn = 1 /\ \A t \in 1..Turns : log[t].state = "ahead" /\ run[t] = "none"
      OBVIOUS
    <2>2. turn = 1
      BY <1>1, <2>1 DEF PhaseInv
    <2>3. \A t \in 1..Turns : t > turn \/ t = turn
      BY <2>2, <1>1
    <2> QED BY <1>1, <2>1, <2>2, <2>3 DEF PhaseInv
  <1>3. PhaseInv'
    BY <1>1 DEF PhaseInv, Early, InTurn, Taken
  <1>4. MessageInv'
    <2>1. History' = History
      BY DEF History, MessagesOf
    <2> QED BY <1>1, <2>1 DEF MessageInv, Early, InTurn
  <1>5. EndInv'
    <2>2. main' \notin {"aborting", "drain", "reading"}
      BY DEF Early
    <2>3. \A t \in 1..Turns : t < turn' /\ run'[t] = "running" /\ socket' = "open" => FailedBy(log, t)
      BY <1>1, <1>2 DEF EndInv
    <2>4. \A i \in 1..Len(queue'.chat) :
             /\ queue'.chat[i] <= turn' /\ run'[queue'.chat[i]] = "over"
             /\ queue'.chat[i] < turn' => FailedBy(log, queue'.chat[i])
      BY <1>1 DEF EndInv
    <2>5. \A t \in 1..Turns :
             /\ log'[t].endedBy <= t /\ (log'[t].endedBy = t => run'[t] = "over")
             /\ log'[t].endedBy \in 1..(t - 1) => FailedBy(log, log'[t].endedBy)
      BY <1>1 DEF EndInv
    <2> HIDE DEF FailedBy
    <2> QED BY <2>2, <2>3, <2>4, <2>5 DEF EndInv
  <1>6. TurnIsComplete'
    BY <1>1, <1>2 DEF TurnIsComplete, MessagesOf
  <1>7. RunIsNotLeftBehind'
    BY <1>1, <1>2 DEF RunIsNotLeftBehind
  <1> QED BY <1>3, <1>4, <1>5, <1>6, <1>7 DEF World

\* Nor does a call of that time ask for anything of a turn.
LEMMA QuietCalls ==
  ASSUME Inv, main \in Early \cup {"closing"}, main' \in Early \cup {"turn", "closing", "closed"},
         main = "closing" => inHand' = {}, UNCHANGED <<turn, run, log, made>>,
         call'["waiter"] = call["waiter"], call["main"].n <= call'["main"].n, call'["main"].n \in Nat,
         \A r \in inHand' :
            \/ r \in inHand
            \/ /\ r.id[1] = "main" /\ r.id[2] <= call'["main"].n
               /\ r.method \notin {"sessions.send", "agent.wait", "sessions.abort", "sessions.get"}
  PROVE  RequestInv' /\ AnswerInv'
  <1>1. AnswerInv'
    BY DEF AnswerInv, Early
  <1>2. ASSUME NEW r \in inHand', main \in Early
        PROVE  /\ r.id[2] <= call'[r.id[1]].n
               /\ r.method # "sessions.send"
               /\ r.method \in {"agent.wait", "sessions.abort", "sessions.get"} => r.of \in 1..turn
               /\ r.id = <<"waiter", call["waiter"].n>> /\ call["waiter"].state = "waiting" =>
                     r.method = "agent.wait" /\ r.of = turn
    <2>1. CASE r \in inHand
      <3>1. r.id \in Callers \X Nat /\ r.id[1] \in Callers /\ r.id[2] \in Nat
        BY <2>1, Basics DEF Requests, Ids
      <3>2. /\ r.id[2] <= call[r.id[1]].n
            /\ r.method # "sessions.send"
            /\ r.method \in {"agent.wait", "sessions.abort", "sessions.get"} => r.of \in 1..turn
            /\ r.id = Id("waiter") /\ call["waiter"].state = "waiting" =>
                     r.method = "agent.wait" /\ r.of = turn
        BY <2>1, <1>2 DEF Inv, RequestInv, Early
      <3>3. call[r.id[1]].n \in Nat /\ call["main"].n \in Nat
        BY <3>1, Basics
      <3>4. r.id[1] = "main" \/ r.id[1] = "waiter"
        BY <3>1 DEF Callers
      <3>5. r.id[2] <= call'[r.id[1]].n
        BY <3>1, <3>2, <3>3, <3>4
      <3> QED BY <3>2, <3>5 DEF Id
    <2>2. CASE r \notin inHand
      BY <2>2
    <2> QED BY <2>1, <2>2
  <1>3. CASE main \in Early
    <2>1. main' \notin {"sending", "aborting", "reading"}
      BY DEF Early
    <2> QED BY <1>1, <1>2, <1>3, <2>1 DEF RequestInv, Id
  <1>4. CASE main \notin Early
    BY <1>1, <1>4 DEF RequestInv
  <1> QED BY <1>3, <1>4

\* The invariant, put together.
LEMMA QuietStep ==
  ASSUME Inv, TypeOK', World', RequestInv', AnswerInv'
  PROVE  Inv'
  BY DEF Inv, World

\* What the types say of the other variables.
LEMMA TypeFacts ==
  ASSUME Inv
  PROVE  /\ main \in MainStates /\ attempt \in 0..MaxAttempts /\ attempt \in Nat /\ MaxAttempts \in Nat
         /\ setup \in 0..Len(SetupCalls) /\ setup \in Nat
         /\ socket \in {"none", "open", "lost"} /\ listener \in {"none", "running", "done"}
         /\ queue \in [challenge : Seq(Nat), open : BOOLEAN, chat : Seq(1..Turns), messages : SUBSET Message]
         /\ run \in [1..Turns -> {"none", "running", "over"}] /\ made \in [1..Turns -> 0..MaxMessages]
         /\ unsent \subseteq Message /\ faults \in 0..MaxFaults
  BY MaxAttemptsAssumption DEF Inv, TypeOK, SetupCalls

\* Until the conversation begins, a call that sets the session up is still to be made.
LEMMA StillSetUp ==
  ASSUME Inv, main \in Early PROVE setup < Len(SetupCalls)
  BY DEF Inv, PhaseInv

\* A socket is opened, for an attempt that was still allowed.
LEMMA OpenSocketStep ==
  ASSUME Inv, OpenSocket PROVE Inv'
  <1>1. attempt < MaxAttempts /\ main = "connecting"
    BY DEF Inv, PhaseInv, OpenSocket
  <1> DEFINE r0 == Request(<<"main", 0>>, "challenge", attempt')
  <1>2. r0 \in Requests /\ r0.id = <<"main", 0>> /\ r0.method = "challenge"
    BY TypeFacts DEF OpenSocket, Request, Requests, Ids, Callers
  <1>3. inHand' = {r0}
    BY DEF OpenSocket
  <1> HIDE DEF r0
  <1>4. TypeOK'
    <2>1. TypeOK /\ attempt + 1 \in 0..MaxAttempts
      BY <1>1, TypeFacts DEF Inv
    <2>2. UNCHANGED <<setup, turn, call, pending, queue, log, run, made, unsent, faults>>
          /\ attempt' = attempt + 1 /\ socket' = "open" /\ listener' = "running" /\ main' = "challenge"
      BY DEF OpenSocket, gatewayKept
    <2> QED BY <1>2, <1>3, <2>1, <2>2 DEF TypeOK, MainStates
  <1>5. World'
    BY <1>1, StillSetUp, QuietWorld DEF OpenSocket, gatewayKept, Early
  <1>6. call["main"].n \in Nat /\ call' = call
    BY Basics DEF OpenSocket
  <1>7. RequestInv' /\ AnswerInv'
    BY <1>1, <1>2, <1>3, <1>6, QuietCalls DEF OpenSocket, gatewayKept, Early
  <1> QED BY <1>4, <1>5, <1>7, QuietStep

\* None is.
LEMMA OpenFailsStep ==
  ASSUME Inv, OpenFails PROVE Inv'
  <1>1. attempt < MaxAttempts /\ main = "connecting"
    BY DEF Inv, PhaseInv, OpenFails
  <1>4. TypeOK'
    BY <1>1, TypeFacts DEF OpenFails, gatewayKept, Inv, TypeOK, MainStates
  <1>5. World'
    BY <1>1, StillSetUp, QuietWorld DEF OpenFails, gatewayKept, Early
  <1>6. call["main"].n \in Nat /\ call' = call
    BY Basics DEF OpenFails
  <1>7. RequestInv' /\ AnswerInv'
    BY <1>1, <1>6, QuietCalls DEF OpenFails, gatewayKept, Early
  <1> QED BY <1>4, <1>5, <1>7, QuietStep

\* One of main's calls begins or raises while no turn is under way.
LEMMA QuietCallBegins ==
  ASSUME Inv, NEW of \in Nat,
         NEW method \in {"connect"} \cup {SetupCalls[i] : i \in 1..Len(SetupCalls)},
         Begin("main", method, of) \/ SendRaises("main")
  PROVE  /\ call' \in [Callers -> Calls] /\ pending' \subseteq Ids /\ inHand' \subseteq Requests
         /\ call'["waiter"] = call["waiter"] /\ call'["main"].n \in Nat /\ call["main"].n <= call'["main"].n
         /\ \A r \in inHand' :
               \/ r \in inHand
               \/ /\ r.id[1] = "main" /\ r.id[2] <= call'["main"].n
                  /\ r.method \notin {"sessions.send", "agent.wait", "sessions.abort", "sessions.get"}
  <1>0. "main" \in Callers /\ "waiter" \in Callers \ {"main"} /\ call["main"].n \in Nat
    BY Basics DEF Callers
  <1>1. CASE Begin("main", method, of)
    <2>1. Request(NextId("main"), method, of) \in Requests
      BY <1>0, RequestFacts
    <2>2. /\ call' \in [Callers -> Calls] /\ call'["main"].n = call["main"].n + 1
          /\ \A d \in Callers \ {"main"} : call'[d] = call[d]
          /\ pending' \subseteq Ids /\ inHand' \subseteq Requests
          /\ \E r \in Requests : r.id = NextId("main") /\ r.method = method /\ r.of = of /\ inHand' = inHand \cup {r}
      BY <1>0, <1>1, <2>1, BeginFacts
    <2>3. method \notin {"sessions.send", "agent.wait", "sessions.abort", "sessions.get"}
      BY DEF SetupCalls
    <2>4. NextId("main")[1] = "main" /\ NextId("main")[2] = call["main"].n + 1
      BY <1>0, IdFacts
    <2> QED BY <1>0, <2>2, <2>3, <2>4
  <1>2. CASE SendRaises("main")
    <2>1. /\ call' \in [Callers -> Calls] /\ call'["main"].n = call["main"].n + 1
          /\ \A d \in Callers \ {"main"} : call'[d] = call[d]
          /\ pending' \subseteq Ids /\ inHand' = inHand
      BY <1>0, <1>2, RaisesFacts
    <2> QED BY <1>0, <2>1, Basics
  <1> QED BY <1>1, <1>2

\* The challenge is answered, or the send raises.
LEMMA TakeChallengeStep ==
  ASSUME Inv, TakeChallenge PROVE Inv'
  <1>1. main = "challenge" /\ main' \in {"hello", "retry"}
    BY DEF TakeChallenge
  <1>2. /\ queue.challenge # <<>> /\ queue.challenge \in Seq(Nat)
        /\ queue' = [queue EXCEPT !.challenge = Tail(queue.challenge)]
    BY TypeFacts DEF TakeChallenge
  <1>3. Head(queue.challenge) \in Nat /\ Tail(queue.challenge) \in Seq(Nat)
    BY <1>2
  <1>4. /\ queue' \in [challenge : Seq(Nat), open : BOOLEAN, chat : Seq(1..Turns), messages : SUBSET Message]
        /\ queue'.open = queue.open /\ queue'.chat = queue.chat /\ queue'.messages = queue.messages
    BY <1>2, <1>3, TypeFacts
  <1>5. Begin("main", "connect", Head(queue.challenge)) \/ SendRaises("main")
    BY DEF TakeChallenge
  <1>6. /\ call' \in [Callers -> Calls] /\ pending' \subseteq Ids /\ inHand' \subseteq Requests
        /\ call'["waiter"] = call["waiter"] /\ call'["main"].n \in Nat /\ call["main"].n <= call'["main"].n
        /\ \A r \in inHand' :
               \/ r \in inHand
               \/ /\ r.id[1] = "main" /\ r.id[2] <= call'["main"].n
                  /\ r.method \notin {"sessions.send", "agent.wait", "sessions.abort", "sessions.get"}
    BY <1>3, <1>5, QuietCallBegins
  <1>7. UNCHANGED <<attempt, setup, turn, log, socket, listener, run, made, unsent, faults>>
    BY DEF TakeChallenge, gatewayKept
  <1>8. TypeOK'
    BY <1>1, <1>4, <1>6, <1>7 DEF Inv, TypeOK, MainStates
  <1>9. World'
    BY <1>1, <1>4, <1>7, StillSetUp, QuietWorld DEF Early
  <1>10. RequestInv' /\ AnswerInv'
    BY <1>1, <1>6, <1>7, QuietCalls DEF Early
  <1> QED BY <1>8, <1>9, <1>10, QuietStep

\* No challenge comes.
LEMMA ChallengeTimesOutStep ==
  ASSUME Inv, ChallengeTimesOut PROVE Inv'
  <1>1. main = "challenge" /\ main' = "retry"
    BY DEF ChallengeTimesOut
  <1>4. TypeOK'
    BY <1>1 DEF ChallengeTimesOut, gatewayKept, Inv, TypeOK, MainStates
  <1>5. World'
    BY <1>1, StillSetUp, QuietWorld DEF ChallengeTimesOut, gatewayKept, Early
  <1>6. call["main"].n \in Nat /\ call' = call
    BY Basics DEF ChallengeTimesOut
  <1>7. RequestInv' /\ AnswerInv'
    BY <1>1, <1>6, QuietCalls DEF ChallengeTimesOut, gatewayKept, Early
  <1> QED BY <1>4, <1>5, <1>7, QuietStep

\* Main's call is over, or times out.
LEMMA MainOver ==
  ASSUME Inv, (Over("main") /\ UNCHANGED pending) \/ TimesOut("main")
  PROVE  /\ call' \in [Callers -> Calls] /\ pending' \subseteq Ids
         /\ call'["waiter"] = call["waiter"] /\ call'["main"].n \in Nat /\ call["main"].n = call'["main"].n
         /\ call'["main"].state = "idle"
  <1>1. Over("main") /\ pending' \subseteq Ids
    BY Basics, TimesOutFacts
  <1>2. "main" \in Callers /\ "waiter" \in Callers \ {"main"} /\ call["main"].n \in Nat
    BY Basics DEF Callers
  <1> QED BY <1>1, <1>2, OverFacts

\* The answer to connect, or its time-out.
LEMMA GreetedStep ==
  ASSUME Inv, Greeted PROVE Inv'
  <1>1. /\ main = "hello" /\ main' \in {"closing", "setup", "retry"}
        /\ (Over("main") /\ UNCHANGED pending) \/ TimesOut("main")
    BY DEF Greeted
  <1>2. UNCHANGED <<attempt, setup, turn, queue, log, socket, listener, inHand, run, made, unsent, faults>>
    BY DEF Greeted, gatewayKept
  <1>3. /\ call' \in [Callers -> Calls] /\ pending' \subseteq Ids
        /\ call'["waiter"] = call["waiter"] /\ call'["main"].n \in Nat /\ call["main"].n = call'["main"].n
    BY <1>1, MainOver
  <1>4. TypeOK'
    BY <1>1, <1>2, <1>3 DEF Inv, TypeOK, MainStates
  <1>5. World'
    BY <1>1, <1>2, StillSetUp, QuietWorld DEF Early
  <1>6. RequestInv' /\ AnswerInv'
    BY <1>1, <1>2, <1>3, QuietCalls DEF Early
  <1> QED BY <1>4, <1>5, <1>6, QuietStep

\* The socket is closed, to connect again or for good.
LEMMA DisconnectStep ==
  ASSUME Inv, Retry \/ Close PROVE Inv'
  <1>1. /\ main \in {"retry", "closing"} /\ main' \in {"connecting", "closed"}
        /\ main = "closing" => main' = "closed"
        /\ main' = "connecting" => attempt < MaxAttempts
        /\ socket' = "none" /\ inHand' = {} /\ listener' \in {"none", listener}
    BY DEF Retry, Close, Disconnect
  <1>2. UNCHANGED <<attempt, setup, turn, call, pending, queue, log, run, made, unsent, faults>>
    BY DEF Retry, Close, gatewayKept
  <1>4. TypeOK'
    BY <1>1, <1>2 DEF Inv, TypeOK, MainStates
  <1>5. World'
    BY <1>1, <1>2, StillSetUp, QuietWorld DEF Early
  <1>6. call["main"].n \in Nat /\ call' = call
    BY <1>2, Basics
  <1>7. RequestInv' /\ AnswerInv'
    BY <1>1, <1>2, <1>6, QuietCalls DEF Early
  <1> QED BY <1>4, <1>5, <1>7, QuietStep

\* A call that sets the session up: a turn begins after the last of them.
LEMMA SetUpStep ==
  ASSUME Inv, SetUp PROVE Inv'
  <1>1. main = "setup" /\ main' \in {"setup", "turn", "closing"} /\ setup' \in 0..Len(SetupCalls)
        /\ (main' = "setup" => setup' < Len(SetupCalls))
    <2>1. setup \in 0..Len(SetupCalls) /\ Len(SetupCalls) = 3 /\ setup < 3
      BY TypeFacts DEF SetupCalls, SetUp, Inv, PhaseInv, Early
    <2> HIDE DEF SetupCalls
    <2> QED BY <2>1 DEF SetUp
  <1>2. UNCHANGED <<attempt, turn, queue, log, socket, listener, run, made, unsent, faults>>
    BY DEF SetUp, gatewayKept
  <1>3. \/ setup < Len(SetupCalls) /\ (Begin("main", SetupCalls[setup + 1], 0) \/ SendRaises("main"))
        \/ inHand' = inHand /\ ((Over("main") /\ UNCHANGED pending) \/ TimesOut("main"))
    BY DEF SetUp
  <1>4. /\ call' \in [Callers -> Calls] /\ pending' \subseteq Ids /\ inHand' \subseteq Requests
        /\ call'["waiter"] = call["waiter"] /\ call'["main"].n \in Nat /\ call["main"].n <= call'["main"].n
        /\ \A r \in inHand' :
               \/ r \in inHand
               \/ /\ r.id[1] = "main" /\ r.id[2] <= call'["main"].n
                  /\ r.method \notin {"sessions.send", "agent.wait", "sessions.abort", "sessions.get"}
    <2>1. CASE setup < Len(SetupCalls) /\ (Begin("main", SetupCalls[setup + 1], 0) \/ SendRaises("main"))
      <3>1. setup + 1 \in 1..Len(SetupCalls)
        BY <2>1, TypeFacts DEF SetupCalls
      <3>2. SetupCalls[setup + 1] \in {"connect"} \cup {SetupCalls[i] : i \in 1..Len(SetupCalls)}
        BY <3>1
      <3>3. 0 \in Nat /\ (Begin("main", SetupCalls[setup + 1], 0) \/ SendRaises("main"))
        BY <2>1
      <3> QED BY <3>2, <3>3, QuietCallBegins
    <2>2. CASE inHand' = inHand /\ ((Over("main") /\ UNCHANGED pending) \/ TimesOut("main"))
      BY <2>2, MainOver, Basics
    <2> QED BY <1>3, <2>1, <2>2
  <1>5. TypeOK'
    BY <1>1, <1>2, <1>4 DEF Inv, TypeOK, MainStates
  <1>6. World'
    BY <1>1, <1>2, QuietWorld DEF Early
  <1>7. RequestInv' /\ AnswerInv'
    BY <1>1, <1>2, <1>4, QuietCalls DEF Early
  <1> QED BY <1>5, <1>6, <1>7, QuietStep

-----------------------------------------------------------------------------
\* What a turn came to does not change while a later one is under way.
LEMMA OutcomeKept ==
  ASSUME Inv, UNCHANGED <<run, made, socket>>,
         \A t \in 1..Turns \ {turn} : log'[t] = log[t], log'[turn].state # "returned"
  PROVE  TurnIsComplete' /\ RunIsNotLeftBehind'
  <1>1. TurnIsComplete /\ RunIsNotLeftBehind
    BY DEF Inv
  <1>2. \A t \in 1..Turns : MessagesOf(t)' = MessagesOf(t)
    BY DEF MessagesOf
  <1>3. TurnIsComplete'
    BY <1>1, <1>2 DEF TurnIsComplete
  <1>4. RunIsNotLeftBehind'
    BY <1>1 DEF RunIsNotLeftBehind
  <1> QED BY <1>3, <1>4

\* The phases of a turn that goes on, or was given up.
LEMMA PhaseKept ==
  ASSUME Inv, UNCHANGED <<turn, run, made>>, main' \in InTurn \cup {"closing"},
         main \in InTurn \/ (main = "turn" /\ main' \in {"sending", "closing"}),
         \A t \in 1..Turns \ {turn} : log'[t] = log[t], log'[turn].state \in {"sent", "raised"},
         main' \in InTurn => queue'.open /\ log'[turn].state = "sent",
         main' \in Taken => run[turn] # "none"
  PROVE  PhaseInv'
  <1>1. PhaseInv /\ turn \in 1..Turns /\ turn \in Nat
    BY Basics DEF Inv
  <1>2. main' \notin Early \cup {"turn", "connecting"}
    BY DEF InTurn, Early
  <1>3. ASSUME NEW t \in 1..Turns
        PROVE  /\ t > turn' \/ (t = turn' /\ main' \in Early \cup {"turn"}) =>
                     run'[t] = "none" /\ log'[t].state = "ahead" /\ log'[t].endedBy = 0
               /\ t < turn' => log'[t].state = "returned"
               /\ log'[t].state = "returned" => run'[t] # "none"
               /\ run'[t] = "none" => made'[t] = 0
    <2>1. CASE t = turn
      BY <1>1, <1>2, <2>1 DEF PhaseInv
    <2>2. CASE t # turn
      BY <1>1, <1>2, <2>2 DEF PhaseInv
    <2> QED BY <2>1, <2>2
  <1>4. main' \in Taken => run'[turn'] # "none"
    OBVIOUS
  <1> QED BY <1>2, <1>3, <1>4 DEF PhaseInv

\* A request of this step, by the coroutine that makes such requests where the turn is now.
Asked(r) ==
    \E c \in Callers :
        /\ r.id = <<c, call'[c].n>> /\ r.method # "sessions.send" /\ r.of = turn
        /\ c = "main" => /\ main' # "sending" /\ call'[c].n # call[c].n
                         /\ main' = "aborting" => r.method = "sessions.abort"
                         /\ main' = "reading" => r.method = "sessions.get"
        /\ c = "waiter" => r.method = "agent.wait" /\ call'[c].n # call[c].n

\* Requests stay what they are to a call that goes on, and to one that ended.
LEMMA RequestsKept ==
  ASSUME Inv, UNCHANGED <<turn, run>>, main \in InTurn, main' \in InTurn \cup {"closing"},
         call' \in [Callers -> Calls],
         \A c \in Callers : call[c].n <= call'[c].n /\ (call'[c] = call[c] \/ call'[c].state # "waiting" \/ call'[c].n # call[c].n),
         call'["main"] # call["main"] \/ main' \notin {"sending", "aborting", "reading"} \/ main' = main,
         main # "sending" \/ run[turn] # "none" \/ (main' \in {"sending", "closing"} /\ call'["main"].n = call["main"].n),
         \A r \in inHand' : r \in inHand \/ Asked(r)
  PROVE  RequestInv'
  <1>1. RequestInv /\ turn \in 1..Turns /\ turn \in Nat
    BY Basics DEF Inv
  <1>2. \A c \in Callers : call[c].n \in Nat /\ call'[c].n \in Nat
    BY Basics DEF Calls
  <1> DEFINE P(r) ==
        /\ r.id[2] <= call'[r.id[1]].n
        /\ r.method = "sessions.send" =>
              r.of = turn /\ r.id = <<"main", call'["main"].n>> /\ run[turn] = "none" /\ main' \in {"sending", "closing"}
        /\ r.method \in {"agent.wait", "sessions.abort", "sessions.get"} => r.of \in 1..turn
        /\ r.id = <<"main", call'["main"].n>> /\ call'["main"].state = "waiting" =>
              /\ main' = "sending" => r.method = "sessions.send"
              /\ main' = "aborting" => r.method = "sessions.abort" /\ r.of = turn
              /\ main' = "reading" => r.method = "sessions.get"
        /\ r.id = <<"waiter", call'["waiter"].n>> /\ call'["waiter"].state = "waiting" =>
              r.method = "agent.wait" /\ r.of = turn
  <1>3. ASSUME NEW r \in inHand PROVE P(r)
    <2>1. r \in Requests /\ r.id \in Callers \X Nat /\ r.id[1] \in Callers /\ r.id[2] \in Nat
      BY Basics DEF Requests, Ids
    <2>2. "main" \in Callers /\ "waiter" \in Callers
      BY DEF Callers
    <2>3. /\ r.id[2] <= call[r.id[1]].n
          /\ r.method = "sessions.send" =>
              r.of = turn /\ r.id = <<"main", call["main"].n>> /\ run[turn] = "none" /\ main \in {"sending", "closing"}
          /\ r.method \in {"agent.wait", "sessions.abort", "sessions.get"} => r.of \in 1..turn
          /\ r.id = <<"main", call["main"].n>> /\ call["main"].state = "waiting" =>
              /\ main = "sending" => r.method = "sessions.send"
              /\ main = "aborting" => r.method = "sessions.abort" /\ r.of = turn
              /\ main = "reading" => r.method = "sessions.get"
          /\ r.id = <<"waiter", call["waiter"].n>> /\ call["waiter"].state = "waiting" =>
              r.method = "agent.wait" /\ r.of = turn
      BY <1>1 DEF RequestInv, Id
    <2>4. r.id[2] <= call'[r.id[1]].n
      BY <1>2, <2>1, <2>3
    <2>5. r.method = "sessions.send" =>
              r.of = turn /\ r.id = <<"main", call'["main"].n>> /\ run[turn] = "none" /\ main' \in {"sending", "closing"}
      BY <2>3 DEF InTurn
    <2>6. ASSUME r.id = <<"main", call'["main"].n>>, call'["main"].state = "waiting"
          PROVE  call'["main"] = call["main"]
      <3>1. call'["main"].n <= call["main"].n
        BY <2>3, <2>6
      <3>2. call'["main"].n = call["main"].n
        BY <3>1, <2>2, <1>2
      <3> QED BY <3>2, <2>6, <2>2
    <2>7. ASSUME r.id = <<"waiter", call'["waiter"].n>>, call'["waiter"].state = "waiting"
          PROVE  call'["waiter"] = call["waiter"]
      <3>1. call'["waiter"].n <= call["waiter"].n
        BY <2>3, <2>7
      <3>2. call'["waiter"].n = call["waiter"].n
        BY <3>1, <2>2, <1>2
      <3> QED BY <3>2, <2>7, <2>2
    <2>8. r.id = <<"main", call'["main"].n>> /\ call'["main"].state = "waiting" =>
              /\ main' = "sending" => r.method = "sessions.send"
              /\ main' = "aborting" => r.method = "sessions.abort" /\ r.of = turn
              /\ main' = "reading" => r.method = "sessions.get"
      BY <2>3, <2>6
    <2>9. r.id = <<"waiter", call'["waiter"].n>> /\ call'["waiter"].state = "waiting" =>
              r.method = "agent.wait" /\ r.of = turn
      BY <2>3, <2>7
    <2> QED BY <2>3, <2>4, <2>5, <2>8, <2>9
  <1>4. ASSUME NEW r \in inHand', r \notin inHand PROVE P(r)
    <2>1. PICK c \in Callers :
            /\ r.id = <<c, call'[c].n>> /\ r.method # "sessions.send" /\ r.of = turn
            /\ c = "main" => /\ main' # "sending" /\ call'[c].n # call[c].n
                             /\ main' = "aborting" => r.method = "sessions.abort"
                             /\ main' = "reading" => r.method = "sessions.get"
            /\ c = "waiter" => r.method = "agent.wait" /\ call'[c].n # call[c].n
      BY <1>4 DEF Asked
    <2>2. r.id[1] = c /\ r.id[2] = call'[c].n
      BY <2>1
    <2>3. r.id[2] <= call'[r.id[1]].n /\ r.of \in 1..turn
      BY <1>1, <1>2, <2>1, <2>2
    <2>4. r.id[1] = "main" => c = "main"
      BY <2>2
    <2>5. r.id[1] = "waiter" => c = "waiter"
      BY <2>2
    <2> QED BY <2>1, <2>3, <2>4, <2>5
  <1>5. \A r \in inHand' : P(r)
    BY <1>3, <1>4
  <1>6. RequestInv' = \A r \in inHand' : P(r)
    BY DEF RequestInv, Id
  <1> QED BY <1>5, <1>6

\* Messages stay where they are when none is taken.
LEMMA MessageKept ==
  ASSUME Inv, UNCHANGED <<turn, run, made, unsent, socket>>, queue'.messages = queue.messages,
         main \in InTurn, main' \in (InTurn \cup {"closing"}) \ {"reading"},
         \A t \in 1..Turns : log'[t].collected = log[t].collected /\ log'[t].late = log[t].late
  PROVE  MessageInv'
  <1>1. MessageInv /\ turn \in 1..Turns
    BY Basics DEF Inv
  <1>2. History' = History /\ MessagesOf(turn)' = MessagesOf(turn)
    BY DEF History, MessagesOf
  <1> QED BY <1>1, <1>2 DEF MessageInv

\* Whether the abort of an earlier turn failed is settled.
LEMMA FailedKept ==
  ASSUME Inv, NEW e \in 1..(turn - 1), \A t \in 1..Turns \ {turn} : log'[t] = log[t], FailedBy(log, e)
  PROVE  FailedBy(log', e)
  <1>1. turn \in 1..Turns /\ Turns \in Nat
    BY Basics
  <1>2. PICK k \in 1..e : log[k].abortFailed
    BY DEF FailedBy
  <1>3. k \in 1..Turns \ {turn}
    BY <1>1, <1>2
  <1> QED BY <1>2, <1>3 DEF FailedBy

\* What an element of a sequence is.
LEMMA ElementIn ==
  ASSUME NEW S, NEW s \in Seq(S), NEW i \in 1..Len(s) PROVE s[i] \in S
  OBVIOUS

\* A sequence that is not empty, and its rest.
LEMMA HeadAndTail ==
  ASSUME NEW S, NEW s \in Seq(S), s # <<>>
  PROVE  /\ Head(s) \in S /\ Head(s) = s[1] /\ 1 \in 1..Len(s) /\ Tail(s) \in Seq(S)
         /\ \A i \in 1..Len(Tail(s)) : i + 1 \in 1..Len(s) /\ Tail(s)[i] = s[i + 1]
  OBVIOUS

\* A turn that goes on was not ended yet, or by an end the queue held or an answer told.
LEMMA EndKept ==
  ASSUME Inv, UNCHANGED <<turn, run, socket>>, \A t \in 1..Turns \ {turn} : log'[t] = log[t],
         log'[turn].endedBy = log[turn].endedBy
            \/ (log'[turn].endedBy = turn /\ run[turn] = "over")
            \/ (log'[turn].endedBy \in 1..(turn - 1) /\ FailedBy(log, log'[turn].endedBy)),
         queue'.chat \in Seq(1..Turns),
         \A i \in 1..Len(queue'.chat) : \E j \in 1..Len(queue.chat) : queue'.chat[i] = queue.chat[j],
         main' \in {"aborting", "drain", "reading"} =>
            log'[turn].abortSent \/ socket # "open" \/ run[turn] = "over" \/ log'[turn].endedBy \in 1..(turn - 1),
         main' \in {"drain", "reading"} =>
            log'[turn].abortFailed \/ socket # "open" \/ run[turn] = "over" \/ log'[turn].endedBy \in 1..(turn - 1)
  PROVE  EndInv'
  <1>1. EndInv /\ turn \in 1..Turns /\ turn \in Nat /\ Turns \in Nat /\ PhaseInv /\ queue.chat \in Seq(1..Turns)
        /\ log[turn].endedBy \in 0..Turns
    BY Basics DEF Inv
  <1>2. \A e \in 1..(turn - 1) : FailedBy(log, e) => FailedBy(log', e)
    BY FailedKept
  <1>3. \A i \in 1..Len(queue'.chat) :
          /\ queue'.chat[i] <= turn /\ run[queue'.chat[i]] = "over"
          /\ queue'.chat[i] < turn => FailedBy(log', queue'.chat[i])
    <2>1. TAKE i \in 1..Len(queue'.chat)
    <2>2. PICK j \in 1..Len(queue.chat) : queue'.chat[i] = queue.chat[j]
      OBVIOUS
    <2>3. queue.chat[j] \in 1..Turns
      <3>1. queue.chat \in Seq(1..Turns)
        BY Basics
      <3>2. j \in 1..Len(queue.chat)
        OBVIOUS
      <3> QED BY <3>1, <3>2, ElementIn
    <2>4. /\ queue.chat[j] <= turn /\ run[queue.chat[j]] = "over"
          /\ queue.chat[j] < turn => FailedBy(log, queue.chat[j])
      BY <1>1 DEF EndInv
    <2>5. ASSUME queue.chat[j] < turn PROVE FailedBy(log', queue'.chat[i])
      <3>1. PICK e \in 1..(turn - 1) : e = queue.chat[j]
        BY <2>3, <2>5, <1>1
      <3>2. FailedBy(log, e)
        BY <3>1, <2>4, <2>5
      <3>3. FailedBy(log', e)
        BY <3>2, <1>2
      <3>4. e = queue'.chat[i]
        BY <3>1, <2>2
      <3> QED BY <3>3, <3>4
    <2> QED BY <2>2, <2>4, <2>5
  <1>4. ASSUME NEW t \in 1..Turns
        PROVE  /\ log'[t].endedBy <= t /\ (log'[t].endedBy = t => run[t] = "over")
               /\ log'[t].endedBy \in 1..(t - 1) => FailedBy(log', log'[t].endedBy)
    <2>1. CASE t > turn
      <3>1. log'[t] = log[t] /\ log[t].endedBy = 0
        BY <1>1, <2>1 DEF PhaseInv
      <3>2. log'[t].endedBy = 0
        BY <3>1
      <3> QED BY <3>2
    <2>2. CASE t < turn
      <3>1. log'[t] = log[t]
        BY <2>2, <1>1
      <3>2. /\ log[t].endedBy <= t /\ (log[t].endedBy = t => run[t] = "over")
            /\ log[t].endedBy \in 1..(t - 1) => FailedBy(log, log[t].endedBy)
        BY <1>1 DEF EndInv
      <3>3. ASSUME log[t].endedBy \in 1..(t - 1) PROVE FailedBy(log', log'[t].endedBy)
        <4>1. PICK e \in 1..(turn - 1) : e = log[t].endedBy
          BY <2>2, <3>3, <1>1
        <4>2. FailedBy(log, e)
          BY <4>1, <3>2, <3>3
        <4>3. FailedBy(log', e)
          BY <4>2, <1>2
        <4>4. e = log'[t].endedBy
          BY <4>1, <3>1
        <4> QED BY <4>3, <4>4
      <3> QED BY <3>1, <3>2, <3>3
    <2>3. CASE t = turn
      <3>1. /\ log[turn].endedBy <= turn /\ (log[turn].endedBy = turn => run[turn] = "over")
            /\ log[turn].endedBy \in 1..(turn - 1) => FailedBy(log, log[turn].endedBy)
        BY <1>1 DEF EndInv
      <3>2. log'[turn].endedBy <= turn /\ (log'[turn].endedBy = turn => run[turn] = "over")
        BY <3>1, <1>1
      <3>3. ASSUME log'[turn].endedBy \in 1..(turn - 1) PROVE FailedBy(log', log'[turn].endedBy)
        <4>1. PICK e \in 1..(turn - 1) : e = log'[turn].endedBy
          BY <3>3
        <4>2. FailedBy(log, log'[turn].endedBy)
          <5>1. log'[turn].endedBy # turn
            BY <3>3, <1>1
          <5>2. CASE log'[turn].endedBy = log[turn].endedBy
            BY <5>2, <3>1, <3>3
          <5> QED BY <5>1, <5>2
        <4>3. FailedBy(log, e)
          BY <4>1, <4>2
        <4>4. FailedBy(log', e)
          BY <4>3, <1>2
        <4> QED BY <4>1, <4>4
      <3> QED BY <2>3, <3>2, <3>3
    <2> QED BY <2>1, <2>2, <2>3, <1>1
  <1>5. ASSUME NEW t \in 1..Turns, t < turn, run[t] = "running", socket = "open"
        PROVE  FailedBy(log', t)
    <2>1. t \in 1..(turn - 1) /\ FailedBy(log, t)
      BY <1>1, <1>5 DEF EndInv
    <2> QED BY <2>1, <1>2
  <1>6. \A t \in 1..Turns : t < turn' /\ run'[t] = "running" /\ socket' = "open" => FailedBy(log', t)
    BY <1>5
  <1>7. EndInv' <=>
          /\ \A i \in 1..Len(queue'.chat) :
                /\ queue'.chat[i] <= turn' /\ run'[queue'.chat[i]] = "over"
                /\ queue'.chat[i] < turn' => FailedBy(log', queue'.chat[i])
          /\ \A t \in 1..Turns :
                /\ log'[t].endedBy <= t
                /\ log'[t].endedBy = t => run'[t] = "over"
                /\ log'[t].endedBy \in 1..(t - 1) => FailedBy(log', log'[t].endedBy)
                /\ t < turn' /\ run'[t] = "running" /\ socket' = "open" => FailedBy(log', t)
          /\ main' \in {"aborting", "drain", "reading"} =>
                log'[turn'].abortSent \/ socket' # "open" \/ run'[turn'] = "over" \/ log'[turn'].endedBy \in 1..(turn' - 1)
          /\ main' \in {"drain", "reading"} =>
                log'[turn'].abortFailed \/ socket' # "open" \/ run'[turn'] = "over" \/ log'[turn'].endedBy \in 1..(turn' - 1)
    BY DEF EndInv
  <1> QED BY <1>3, <1>4, <1>6, <1>7

-----------------------------------------------------------------------------
\* The turn's step leaves the gateway, the socket and the turn alone.
TurnFrame == UNCHANGED <<turn, attempt, setup, socket, listener, run, made, unsent, faults>>

\* The types after such a step.
LEMMA TurnTypes ==
  ASSUME Inv, TurnFrame, main' \in MainStates, call' \in [Callers -> Calls], pending' \subseteq Ids,
         inHand' \subseteq Requests, log' \in [1..Turns -> Notes],
         queue' \in [challenge : Seq(Nat), open : BOOLEAN, chat : Seq(1..Turns), messages : SUBSET Message]
  PROVE  TypeOK'
  BY DEF Inv, TypeOK, TurnFrame

\* A note with another state is one.
LEMMA StateNote ==
  ASSUME NEW x \in Notes, NEW s \in {"ahead", "sent", "raised", "returned"}
  PROVE  \E n \in Notes : /\ n = [x EXCEPT !.state = s] /\ n.state = s /\ n.endedBy = x.endedBy
                          /\ n.collected = x.collected /\ n.late = x.late
  <1>1. [x EXCEPT !.state = s] \in Notes
    BY DEF Notes
  <1> QED BY <1>1 DEF Notes

\* The message was taken: its run was started.
LEMMA MessageSentStep ==
  ASSUME Inv, MessageSent PROVE Inv'
  <1>1. /\ main = "sending" /\ main' = "waiting" /\ Succeeds("main")
        /\ TurnFrame /\ UNCHANGED <<queue, log>>
        /\ pending' = pending \cup {NextId("waiter")}
        /\ call' = [call EXCEPT !["main"] = Call(call["main"].n, "idle", NoAnswer),
                               !["waiter"] = Call(call["waiter"].n + 1, IF socket = "open" THEN "waiting" ELSE "idle", NoAnswer)]
        /\ inHand' = IF socket = "open" THEN inHand \cup {Request(NextId("waiter"), "agent.wait", turn)} ELSE inHand
    BY DEF MessageSent, turnKept, gatewayKept, TurnFrame
  <1>2. run[turn] # "none"
    BY <1>1 DEF Inv, AnswerInv
  <1>3. /\ call \in [Callers -> Calls] /\ "main" \in Callers /\ "waiter" \in Callers /\ "main" # "waiter"
        /\ call["main"].n \in Nat /\ call["waiter"].n \in Nat /\ turn \in Nat /\ turn \in 1..Turns
        /\ pending \subseteq Ids /\ inHand \subseteq Requests /\ log \in [1..Turns -> Notes]
    BY Basics
  <1>4. \A c \in Callers : NextId(c) \in Ids /\ NextId(c) = <<c, call[c].n + 1>>
        /\ \A s \in {"idle", "waiting"} : Call(call[c].n, s, NoAnswer) \in Calls /\ Call(call[c].n + 1, s, NoAnswer) \in Calls
    BY IdFacts DEF NextId
  <1>5. PICK s \in {"idle", "waiting"} : s = IF socket = "open" THEN "waiting" ELSE "idle"
    OBVIOUS
  <1>6. /\ call' \in [Callers -> Calls]
        /\ call'["main"] = Call(call["main"].n, "idle", NoAnswer)
        /\ call'["waiter"] = Call(call["waiter"].n + 1, s, NoAnswer)
    BY <1>1, <1>3, <1>4, <1>5
  <1>7. /\ call'["main"].n = call["main"].n /\ call'["main"].state = "idle"
        /\ call'["waiter"].n = call["waiter"].n + 1 /\ call'["waiter"].state # "answered"
    BY <1>5, <1>6 DEF Call
  <1> DEFINE new == IF socket = "open" THEN {Request(NextId("waiter"), "agent.wait", turn)} ELSE {}
  <1>8. PICK fresh \in SUBSET Requests : fresh = new
    BY <1>3, RequestFacts
  <1>9. inHand' = inHand \cup fresh
    BY <1>1, <1>8
  <1>10. \A r \in fresh : r.id = <<"waiter", call'["waiter"].n>> /\ r.method = "agent.wait" /\ r.of = turn
    BY <1>3, <1>4, <1>7, <1>8 DEF Request
  <1>11. TypeOK'
    <2>1. inHand' \subseteq Requests /\ pending' \subseteq Ids
      BY <1>1, <1>3, <1>4, <1>9
    <2>2. queue' \in [challenge : Seq(Nat), open : BOOLEAN, chat : Seq(1..Turns), messages : SUBSET Message]
          /\ log' \in [1..Turns -> Notes] /\ main' \in MainStates
      BY <1>1, <1>3, TypeFacts DEF MainStates
    <2> QED BY <1>1, <1>6, <2>1, <2>2, TurnTypes
  <1>12. main \in InTurn /\ main' \in InTurn /\ log[turn].state = "sent" /\ queue.open
    BY <1>1 DEF Inv, PhaseInv, InTurn
  <1>13. PhaseInv'
    BY <1>1, <1>2, <1>12, PhaseKept DEF TurnFrame
  <1>14. RequestInv'
    <2>1. \A c \in Callers : call[c].n <= call'[c].n /\ (call'[c] = call[c] \/ call'[c].state # "waiting" \/ call'[c].n # call[c].n)
      BY <1>3, <1>7 DEF Callers
    <2>2. \A r \in inHand' : r \in inHand \/ Asked(r)
      BY <1>1, <1>3, <1>7, <1>9, <1>10 DEF Asked
    <2> QED BY <1>1, <1>2, <1>6, <1>12, <2>1, <2>2, RequestsKept DEF TurnFrame
  <1>15. AnswerInv'
    BY <1>1, <1>7 DEF AnswerInv, Succeeds, Answered
  <1>16. MessageInv'
    BY <1>1, <1>12, MessageKept DEF TurnFrame
  <1>17. EndInv'
    <2>1. queue'.chat \in Seq(1..Turns) /\ queue'.chat = queue.chat
      BY <1>1, Basics
    <2> QED BY <1>1, <2>1, EndKept DEF TurnFrame
  <1>18. TurnIsComplete' /\ RunIsNotLeftBehind'
    BY <1>1, <1>12, OutcomeKept DEF TurnFrame
  <1> QED BY <1>11, <1>13, <1>14, <1>15, <1>16, <1>17, <1>18 DEF Inv

\* Steps of a turn at which main's call ends, or none does, and nothing is asked for.
LEMMA PlainRequests ==
  ASSUME Inv, UNCHANGED <<turn, run, inHand>>, main \in InTurn, main' \in InTurn \cup {"closing"},
         call' \in [Callers -> Calls],
         \A c \in Callers : call'[c] = call[c] \/ (call'[c].n = call[c].n /\ call'[c].state = "idle"),
         main' \notin {"sending", "aborting", "reading"} \/ main' = main,
         main # "sending" \/ main' \in {"sending", "closing"}
  PROVE  RequestInv'
  <1>1. \A c \in Callers : call[c].n \in Nat /\ call'[c].n \in Nat
    BY Basics DEF Calls
  <1>2. \A c \in Callers : call'[c].n = call[c].n
    OBVIOUS
  <1>3. \A c \in Callers : call[c].n <= call'[c].n /\ (call'[c] = call[c] \/ call'[c].state # "waiting" \/ call'[c].n # call[c].n)
    BY <1>1
  <1>4. main # "sending" \/ (main' \in {"sending", "closing"} /\ call'["main"].n = call["main"].n)
    BY <1>2 DEF Callers
  <1>5. \A r \in inHand' : r \in inHand \/ Asked(r)
    OBVIOUS
  <1>6. call'["main"] # call["main"] \/ main' \notin {"sending", "aborting", "reading"} \/ main' = main
    OBVIOUS
  <1> QED BY <1>3, <1>4, <1>5, <1>6, RequestsKept

\* It was not, or nobody said so.
LEMMA SendFailsStep ==
  ASSUME Inv, SendFails PROVE Inv'
  <1>1. /\ main = "sending" /\ main' = "closing"
        /\ TurnFrame /\ UNCHANGED <<queue, inHand>>
        /\ Note([log[turn] EXCEPT !.state = "raised"])
        /\ (Over("main") /\ UNCHANGED pending) \/ TimesOut("main")
    BY DEF SendFails, turnKept, gatewayKept, TurnFrame
  <1>2. /\ call' \in [Callers -> Calls] /\ pending' \subseteq Ids
        /\ call'["waiter"] = call["waiter"] /\ call["main"].n = call'["main"].n /\ call'["main"].state = "idle"
    BY <1>1, MainOver
  <1>3. log[turn] \in Notes /\ queue.chat \in Seq(1..Turns)
    BY Basics
  <1>4. PICK n \in Notes : /\ n = [log[turn] EXCEPT !.state = "raised"] /\ n.state = "raised"
                           /\ n.endedBy = log[turn].endedBy /\ n.collected = log[turn].collected
                           /\ n.late = log[turn].late
    BY <1>3, StateNote
  <1>5. log' \in [1..Turns -> Notes] /\ log'[turn] = n /\ \A t \in 1..Turns \ {turn} : log'[t] = log[t]
    BY <1>1, <1>4, NoteFacts
  <1>6. TypeOK'
    <2>1. queue' \in [challenge : Seq(Nat), open : BOOLEAN, chat : Seq(1..Turns), messages : SUBSET Message]
          /\ main' \in MainStates /\ inHand' \subseteq Requests
      BY <1>1, TypeFacts, Basics DEF MainStates
    <2> QED BY <1>1, <1>2, <1>5, <2>1, TurnTypes
  <1>7. main \in InTurn /\ main' \notin InTurn
    BY <1>1 DEF InTurn
  <1>8. PhaseInv'
    BY <1>1, <1>4, <1>5, <1>7, PhaseKept DEF TurnFrame, Taken
  <1>9. RequestInv'
    BY <1>1, <1>2, <1>7, PlainRequests DEF TurnFrame, Callers
  <1>10. AnswerInv'
    BY <1>1 DEF AnswerInv
  <1>11. MessageInv'
    BY <1>1, <1>4, <1>5, <1>7, MessageKept DEF TurnFrame
  <1>12. EndInv'
    BY <1>1, <1>3, <1>4, <1>5, EndKept DEF TurnFrame
  <1>13. TurnIsComplete' /\ RunIsNotLeftBehind'
    BY <1>1, <1>4, <1>5, OutcomeKept DEF TurnFrame
  <1> QED BY <1>6, <1>8, <1>9, <1>10, <1>11, <1>12, <1>13 DEF Inv

\* A note with another end is one.
LEMMA EndNote ==
  ASSUME NEW x \in Notes, NEW e \in 0..Turns
  PROVE  \E n \in Notes : /\ n = [x EXCEPT !.endedBy = e] /\ n.state = x.state /\ n.endedBy = e
                          /\ n.collected = x.collected /\ n.late = x.late /\ n.abortSent = x.abortSent
                          /\ n.abortFailed = x.abortFailed
  <1>1. [x EXCEPT !.endedBy = e] \in Notes
    BY DEF Notes
  <1> QED BY <1>1 DEF Notes

\* The event that ends the turn: an end of its own run, or of one whose abort failed.
LEMMA TakeChatEventStep ==
  ASSUME Inv, TakeChatEvent PROVE Inv'
  <1>1. /\ main = "waiting" /\ main' = "drain" /\ queue.chat # <<>>
        /\ queue' = [queue EXCEPT !.chat = Tail(queue.chat)]
        /\ TurnFrame /\ UNCHANGED <<call, pending, inHand>>
        /\ Note([log[turn] EXCEPT !.endedBy = Head(queue.chat)])
    BY DEF TakeChatEvent, turnKept, gatewayKept, TurnFrame
  <1>2. /\ log[turn] \in Notes /\ queue.chat \in Seq(1..Turns) /\ turn \in 1..Turns /\ turn \in Nat
        /\ call \in [Callers -> Calls] /\ pending \subseteq Ids /\ inHand \subseteq Requests
    BY Basics
  <1>3. PICK e \in 1..Turns : e = Head(queue.chat) /\ e = queue.chat[1]
    BY <1>1, <1>2, HeadAndTail
  <1>4. 1 \in 1..Len(queue.chat)
    BY <1>1, <1>2, HeadAndTail
  <1>5. e <= turn /\ run[e] = "over" /\ (e < turn => FailedBy(log, e))
    BY <1>3, <1>4 DEF Inv, EndInv
  <1>6. e \in 0..Turns
    OBVIOUS
  <1>7. PICK n \in Notes : /\ n = [log[turn] EXCEPT !.endedBy = e] /\ n.state = log[turn].state /\ n.endedBy = e
                           /\ n.collected = log[turn].collected /\ n.late = log[turn].late
    BY <1>2, <1>6, EndNote
  <1>8. log' \in [1..Turns -> Notes] /\ log'[turn] = n /\ \A t \in 1..Turns \ {turn} : log'[t] = log[t]
    BY <1>1, <1>3, <1>7, NoteFacts
  <1>9. /\ queue' \in [challenge : Seq(Nat), open : BOOLEAN, chat : Seq(1..Turns), messages : SUBSET Message]
        /\ queue'.chat = Tail(queue.chat) /\ queue'.messages = queue.messages /\ queue'.open = queue.open
    <2>1. Tail(queue.chat) \in Seq(1..Turns)
      BY <1>1, <1>2, HeadAndTail
    <2> QED BY <1>1, <2>1, TypeFacts
  <1>10. TypeOK'
    <2>1. main' \in MainStates /\ call' \in [Callers -> Calls] /\ pending' \subseteq Ids /\ inHand' \subseteq Requests
      BY <1>1, <1>2 DEF MainStates
    <2> QED BY <1>1, <1>8, <1>9, <2>1, TurnTypes
  <1>11. main \in InTurn /\ main' \in InTurn /\ log[turn].state = "sent" /\ queue.open /\ run[turn] # "none"
    BY <1>1 DEF Inv, PhaseInv, InTurn, Taken
  <1>12. PhaseInv'
    BY <1>1, <1>7, <1>8, <1>9, <1>11, PhaseKept DEF TurnFrame
  <1>13. RequestInv'
    BY <1>1, <1>2, <1>11, PlainRequests DEF TurnFrame
  <1>14. AnswerInv'
    BY <1>1 DEF AnswerInv
  <1>15. MessageInv'
    <2>1. \A t \in 1..Turns : log'[t].collected = log[t].collected /\ log'[t].late = log[t].late
      BY <1>7, <1>8
    <2> QED BY <1>1, <1>9, <1>11, <2>1, MessageKept DEF TurnFrame
  <1>16. EndInv'
    <2>1. \A i \in 1..Len(queue'.chat) : \E j \in 1..Len(queue.chat) : queue'.chat[i] = queue.chat[j]
      <3>1. TAKE i \in 1..Len(queue'.chat)
      <3>2. i + 1 \in 1..Len(queue.chat) /\ queue'.chat[i] = queue.chat[i + 1]
        BY <1>1, <1>2, <1>9, HeadAndTail
      <3> QED BY <3>2
    <2>2. \/ log'[turn].endedBy = turn /\ run[turn] = "over"
          \/ log'[turn].endedBy \in 1..(turn - 1) /\ FailedBy(log, log'[turn].endedBy)
      <3>1. log'[turn].endedBy = e
        BY <1>7, <1>8
      <3>2. e = turn \/ e \in 1..(turn - 1)
        BY <1>2, <1>5
      <3> QED BY <1>2, <1>5, <3>1, <3>2
    <2>3. run[turn] = "over" \/ log'[turn].endedBy \in 1..(turn - 1)
      BY <2>2
    <2> QED BY <1>1, <1>8, <1>9, <2>1, <2>2, <2>3, EndKept DEF TurnFrame
  <1>17. TurnIsComplete' /\ RunIsNotLeftBehind'
    BY <1>1, <1>7, <1>8, <1>11, OutcomeKept DEF TurnFrame
  <1> QED BY <1>10, <1>12, <1>13, <1>14, <1>15, <1>16, <1>17 DEF Inv

\* The answer to agent.wait is of this turn, and true.
LEMMA TakeWaitAnswerStep ==
  ASSUME Inv, TakeWaitAnswer PROVE Inv'
  <1>1. /\ main = "waiting" /\ main' \in {"waiting", "drain", "abort"} /\ Over("waiter") /\ Answered("waiter")
        /\ main' = "drain" => Succeeds("waiter") /\ call["waiter"].frame.good
        /\ TurnFrame /\ UNCHANGED <<queue, pending, inHand>>
        /\ Note([log[turn] EXCEPT !.endedBy = IF main' = "drain" THEN turn ELSE log[turn].endedBy])
    BY DEF TakeWaitAnswer, turnKept, gatewayKept, TurnFrame, Refused, Succeeds
  <1>2. /\ log[turn] \in Notes /\ queue.chat \in Seq(1..Turns) /\ turn \in 1..Turns /\ turn \in Nat /\ Turns \in Nat
        /\ call \in [Callers -> Calls] /\ pending \subseteq Ids /\ inHand \subseteq Requests
        /\ "waiter" \in Callers /\ log[turn].endedBy \in 0..Turns
    BY Basics
  <1>3. main' = "drain" => run[turn] = "over"
    BY <1>1 DEF Inv, AnswerInv
  <1>4. PICK e \in 0..Turns : e = IF main' = "drain" THEN turn ELSE log[turn].endedBy
    BY <1>2
  <1>5. PICK n \in Notes : /\ n = [log[turn] EXCEPT !.endedBy = e] /\ n.state = log[turn].state /\ n.endedBy = e
                           /\ n.collected = log[turn].collected /\ n.late = log[turn].late
    BY <1>2, EndNote
  <1>6. log' \in [1..Turns -> Notes] /\ log'[turn] = n /\ \A t \in 1..Turns \ {turn} : log'[t] = log[t]
    BY <1>1, <1>4, <1>5, NoteFacts
  <1>7. /\ call' \in [Callers -> Calls] /\ call'["waiter"].n = call["waiter"].n /\ call'["waiter"].state = "idle"
        /\ \A d \in Callers \ {"waiter"} : call'[d] = call[d]
    BY <1>1, <1>2, OverFacts
  <1>8. TypeOK'
    <2>1. main' \in MainStates /\ pending' \subseteq Ids /\ inHand' \subseteq Requests
          /\ queue' \in [challenge : Seq(Nat), open : BOOLEAN, chat : Seq(1..Turns), messages : SUBSET Message]
      BY <1>1, <1>2, TypeFacts DEF MainStates
    <2> QED BY <1>1, <1>6, <1>7, <2>1, TurnTypes
  <1>9. main \in InTurn /\ main' \in InTurn /\ log[turn].state = "sent" /\ queue.open /\ run[turn] # "none"
    BY <1>1 DEF Inv, PhaseInv, InTurn, Taken
  <1>10. PhaseInv'
    BY <1>1, <1>5, <1>6, <1>9, PhaseKept DEF TurnFrame
  <1>11. RequestInv'
    <2>1. \A c \in Callers : call'[c] = call[c] \/ (call'[c].n = call[c].n /\ call'[c].state = "idle")
      BY <1>7
    <2> QED BY <1>1, <1>7, <1>9, <2>1, PlainRequests DEF TurnFrame
  <1>12. AnswerInv'
    BY <1>1, <1>7 DEF AnswerInv, Succeeds, Answered
  <1>13. MessageInv'
    <2>1. \A t \in 1..Turns : log'[t].collected = log[t].collected /\ log'[t].late = log[t].late
      BY <1>5, <1>6
    <2> QED BY <1>1, <1>9, <2>1, MessageKept DEF TurnFrame
  <1>14. EndInv'
    <2>1. log'[turn].endedBy = log[turn].endedBy \/ (log'[turn].endedBy = turn /\ run[turn] = "over")
      BY <1>3, <1>4, <1>5, <1>6
    <2>2. main' \in {"aborting", "drain", "reading"} => run[turn] = "over"
      BY <1>1, <1>3
    <2> QED BY <1>1, <1>2, <1>6, <2>1, <2>2, EndKept DEF TurnFrame
  <1>15. TurnIsComplete' /\ RunIsNotLeftBehind'
    BY <1>1, <1>5, <1>6, <1>9, OutcomeKept DEF TurnFrame
  <1> QED BY <1>8, <1>10, <1>11, <1>12, <1>13, <1>14, <1>15 DEF Inv

\* The deadline ends the turn.
LEMMA DeadlineStep ==
  ASSUME Inv, Deadline PROVE Inv'
  <1>1. /\ main = "waiting" /\ main' = "abort" /\ TurnFrame /\ UNCHANGED <<call, pending, queue, inHand, log>>
    BY DEF Deadline, turnKept, gatewayKept, TurnFrame
  <1>2. main \in InTurn /\ main' \in InTurn /\ log[turn].state = "sent" /\ queue.open /\ run[turn] # "none"
    BY <1>1 DEF Inv, PhaseInv, InTurn, Taken
  <1>3. TypeOK'
    BY <1>1 DEF Inv, TypeOK, MainStates, TurnFrame
  <1>4. PhaseInv'
    BY <1>1, <1>2, PhaseKept DEF TurnFrame
  <1>5. RequestInv'
    BY <1>1, <1>2, Basics, PlainRequests DEF TurnFrame
  <1>6. AnswerInv'
    BY <1>1 DEF AnswerInv
  <1>7. MessageInv'
    BY <1>1, <1>2, MessageKept DEF TurnFrame
  <1>8. EndInv'
    <2>1. queue'.chat \in Seq(1..Turns) /\ queue'.chat = queue.chat
      BY <1>1, Basics
    <2> QED BY <1>1, <2>1, EndKept DEF TurnFrame
  <1>9. TurnIsComplete' /\ RunIsNotLeftBehind'
    BY <1>1, <1>2, OutcomeKept DEF TurnFrame
  <1> QED BY <1>3, <1>4, <1>5, <1>6, <1>7, <1>8, <1>9 DEF Inv

\* A note that an abort was sent, and one of how it went, are notes.
LEMMA AbortNotes ==
  ASSUME NEW x \in Notes, NEW b \in BOOLEAN
  PROVE  /\ \E n \in Notes : /\ n = [x EXCEPT !.abortSent = b] /\ n.state = x.state /\ n.endedBy = x.endedBy
                             /\ n.collected = x.collected /\ n.late = x.late /\ n.abortSent = b
         /\ \E n \in Notes : /\ n = [x EXCEPT !.abortFailed = b] /\ n.state = x.state /\ n.endedBy = x.endedBy
                             /\ n.collected = x.collected /\ n.late = x.late /\ n.abortFailed = b
                             /\ n.abortSent = x.abortSent
  <1>1. [x EXCEPT !.abortSent = b] \in Notes
    BY DEF Notes
  <1>2. [x EXCEPT !.abortFailed = b] \in Notes
    BY DEF Notes
  <1>3. \E n \in Notes : /\ n = [x EXCEPT !.abortSent = b] /\ n.state = x.state /\ n.endedBy = x.endedBy
                             /\ n.collected = x.collected /\ n.late = x.late /\ n.abortSent = b
    BY <1>1 DEF Notes
  <1>4. \E n \in Notes : /\ n = [x EXCEPT !.abortFailed = b] /\ n.state = x.state /\ n.endedBy = x.endedBy
                             /\ n.collected = x.collected /\ n.late = x.late /\ n.abortFailed = b
                             /\ n.abortSent = x.abortSent
    BY <1>2 DEF Notes
  <1> QED BY <1>3, <1>4

\* A call of main within a turn: what it asks for is asked for once.
LEMMA TurnCall ==
  ASSUME Inv, TurnFrame, NEW method \in {"sessions.abort", "sessions.get"},
         Begin("main", method, turn) \/ SendRaises("main"),
         main \in InTurn \ {"sending"},
         main' \in InTurn \ {"sending"},
         main' = "aborting" => method = "sessions.abort", main' = "reading" => method = "sessions.get"
  PROVE  /\ call' \in [Callers -> Calls] /\ pending' \subseteq Ids /\ inHand' \subseteq Requests
         /\ call'["waiter"] = call["waiter"] /\ call'["main"].state # "answered"
         /\ socket # "open" \/ Begin("main", method, turn)
         /\ RequestInv'
  <1>1. "main" \in Callers /\ "waiter" \in Callers \ {"main"} /\ call["main"].n \in Nat /\ turn \in Nat
    BY Basics DEF Callers
  <1>2. /\ call' \in [Callers -> Calls] /\ pending' \subseteq Ids /\ inHand' \subseteq Requests
        /\ call'["main"].n = call["main"].n + 1 /\ call'["main"].state # "answered"
        /\ \A d \in Callers \ {"main"} : call'[d] = call[d]
        /\ \A r \in inHand' : r \in inHand \/ (r.id = NextId("main") /\ r.method = method /\ r.of = turn)
    <2>1. CASE Begin("main", method, turn)
      <3>1. Request(NextId("main"), method, turn) \in Requests
        BY <1>1, RequestFacts
      <3> QED BY <1>1, <2>1, <3>1, BeginFacts
    <2>2. CASE SendRaises("main")
      BY <1>1, <2>2, RaisesFacts, Basics
    <2> QED BY <2>1, <2>2
  <1>3. RequestInv'
    <2>1. \A c \in Callers : call[c].n <= call'[c].n /\ (call'[c] = call[c] \/ call'[c].state # "waiting" \/ call'[c].n # call[c].n)
      <3>1. \A c \in Callers : call[c].n \in Nat
        BY Basics
      <3> QED BY <1>1, <1>2, <3>1
    <2>2. \A r \in inHand' : r \in inHand \/ Asked(r)
      <3>1. NextId("main") = <<"main", call'["main"].n>> /\ call'["main"].n # call["main"].n
        BY <1>1, <1>2 DEF NextId
      <3>2. method # "sessions.send"
        OBVIOUS
      <3> QED BY <1>1, <1>2, <3>1, <3>2 DEF Asked
    <2>3. call'["main"] # call["main"]
      BY <1>1, <1>2
    <2>4. main # "sending" /\ main \in InTurn /\ main' \in InTurn
      OBVIOUS
    <2> QED BY <1>2, <2>1, <2>2, <2>3, <2>4, RequestsKept DEF TurnFrame
  <1>4. socket # "open" \/ Begin("main", method, turn)
    BY RaisesFacts, <1>1
  <1> QED BY <1>1, <1>2, <1>3, <1>4

\* The abort is sent, or the socket is gone.
LEMMA AbortStep ==
  ASSUME Inv, Abort PROVE Inv'
  <1>1. /\ main = "abort" /\ main' \in {"aborting", "drain"} /\ TurnFrame /\ UNCHANGED queue
        /\ Begin("main", "sessions.abort", turn) \/ SendRaises("main")
        /\ main' = "drain" => socket # "open"
        /\ \/ main' = "aborting" /\ Note([log[turn] EXCEPT !.abortSent = TRUE])
           \/ main' = "drain" /\ UNCHANGED log
    BY DEF Abort, turnKept, gatewayKept, TurnFrame, SendRaises
  <1>2. main \in InTurn \ {"sending"} /\ main' \in InTurn \ {"sending"}
    BY <1>1 DEF InTurn
  <1>3. /\ call' \in [Callers -> Calls] /\ pending' \subseteq Ids /\ inHand' \subseteq Requests
        /\ call'["main"].state # "answered"
        /\ RequestInv'
    BY <1>1, <1>2, TurnCall
  <1>4. /\ log[turn] \in Notes /\ log \in [1..Turns -> Notes] /\ queue.chat \in Seq(1..Turns) /\ turn \in 1..Turns
    BY Basics
  <1>5. PICK n \in Notes : /\ n = [log[turn] EXCEPT !.abortSent = TRUE] /\ n.state = log[turn].state
                           /\ n.endedBy = log[turn].endedBy /\ n.collected = log[turn].collected
                           /\ n.late = log[turn].late /\ n.abortSent = TRUE
    BY <1>4, AbortNotes
  <1>6. /\ log' \in [1..Turns -> Notes] /\ \A t \in 1..Turns \ {turn} : log'[t] = log[t]
        /\ log'[turn].state = log[turn].state /\ log'[turn].endedBy = log[turn].endedBy
        /\ log'[turn].collected = log[turn].collected /\ log'[turn].late = log[turn].late
        /\ main' = "aborting" => log'[turn].abortSent
    <2>1. CASE main' = "aborting" /\ Note([log[turn] EXCEPT !.abortSent = TRUE])
      <3>1. log' \in [1..Turns -> Notes] /\ log'[turn] = n /\ \A t \in 1..Turns \ {turn} : log'[t] = log[t]
        BY <2>1, <1>5, NoteFacts
      <3> QED BY <3>1, <1>5
    <2>2. CASE main' = "drain" /\ UNCHANGED log
      BY <2>2, <1>4
    <2> QED BY <1>1, <2>1, <2>2
  <1>7. TypeOK'
    <2>1. main' \in MainStates
          /\ queue' \in [challenge : Seq(Nat), open : BOOLEAN, chat : Seq(1..Turns), messages : SUBSET Message]
      BY <1>1, TypeFacts DEF MainStates
    <2> QED BY <1>1, <1>3, <1>6, <2>1, TurnTypes
  <1>8. log[turn].state = "sent" /\ queue.open /\ run[turn] # "none"
    BY <1>1 DEF Inv, PhaseInv, InTurn, Taken
  <1>9. PhaseInv'
    BY <1>1, <1>2, <1>6, <1>8, PhaseKept DEF TurnFrame
  <1>10. AnswerInv'
    BY <1>1, <1>3 DEF AnswerInv, Succeeds, Answered
  <1>11. MessageInv'
    <2>1. \A t \in 1..Turns : log'[t].collected = log[t].collected /\ log'[t].late = log[t].late
      BY <1>6
    <2> QED BY <1>1, <1>2, <2>1, MessageKept DEF TurnFrame
  <1>12. EndInv'
    <2>1. main' \in {"aborting", "drain", "reading"} => log'[turn].abortSent \/ socket # "open"
      BY <1>1, <1>6
    <2>2. main' \in {"drain", "reading"} => socket # "open"
      BY <1>1
    <2> QED BY <1>1, <1>4, <1>6, <2>1, <2>2, EndKept DEF TurnFrame
  <1>13. TurnIsComplete' /\ RunIsNotLeftBehind'
    BY <1>1, <1>6, <1>8, OutcomeKept DEF TurnFrame
  <1> QED BY <1>3, <1>7, <1>9, <1>10, <1>11, <1>12, <1>13 DEF Inv

\* An abort that succeeded ended the run.
LEMMA AbortedStep ==
  ASSUME Inv, Aborted PROVE Inv'
  <1>1. /\ main = "aborting" /\ main' = "drain" /\ TurnFrame /\ UNCHANGED <<queue, inHand>>
        /\ (Over("main") /\ UNCHANGED pending) \/ TimesOut("main")
        /\ Note([log[turn] EXCEPT !.abortFailed = ~Succeeds("main")])
    BY DEF Aborted, turnKept, gatewayKept, TurnFrame
  <1>2. /\ call' \in [Callers -> Calls] /\ pending' \subseteq Ids
        /\ call'["waiter"] = call["waiter"] /\ call["main"].n = call'["main"].n /\ call'["main"].state = "idle"
    BY <1>1, MainOver
  <1>3. /\ log[turn] \in Notes /\ queue.chat \in Seq(1..Turns) /\ turn \in 1..Turns /\ inHand \subseteq Requests
    BY Basics
  <1>4. PICK b \in BOOLEAN : b = ~Succeeds("main")
    BY <1>3
  <1>5. PICK n \in Notes : /\ n = [log[turn] EXCEPT !.abortFailed = b] /\ n.state = log[turn].state
                           /\ n.endedBy = log[turn].endedBy /\ n.collected = log[turn].collected
                           /\ n.late = log[turn].late /\ n.abortFailed = b /\ n.abortSent = log[turn].abortSent
    BY <1>3, AbortNotes
  <1>6. log' \in [1..Turns -> Notes] /\ log'[turn] = n /\ \A t \in 1..Turns \ {turn} : log'[t] = log[t]
    BY <1>1, <1>4, <1>5, NoteFacts
  <1>7. TypeOK'
    <2>1. main' \in MainStates /\ inHand' \subseteq Requests
          /\ queue' \in [challenge : Seq(Nat), open : BOOLEAN, chat : Seq(1..Turns), messages : SUBSET Message]
      BY <1>1, <1>3, TypeFacts DEF MainStates
    <2> QED BY <1>1, <1>2, <1>6, <2>1, TurnTypes
  <1>8. main \in InTurn /\ main' \in InTurn /\ log[turn].state = "sent" /\ queue.open /\ run[turn] # "none"
    BY <1>1 DEF Inv, PhaseInv, InTurn, Taken
  <1>9. PhaseInv'
    BY <1>1, <1>5, <1>6, <1>8, PhaseKept DEF TurnFrame
  <1>10. RequestInv'
    BY <1>1, <1>2, <1>8, PlainRequests DEF TurnFrame, Callers
  <1>11. AnswerInv'
    BY <1>1 DEF AnswerInv
  <1>12. MessageInv'
    <2>1. \A t \in 1..Turns : log'[t].collected = log[t].collected /\ log'[t].late = log[t].late
      BY <1>5, <1>6
    <2> QED BY <1>1, <1>8, <2>1, MessageKept DEF TurnFrame
  <1>13. EndInv'
    <2>1. log[turn].abortSent \/ socket # "open" \/ run[turn] = "over" \/ log[turn].endedBy \in 1..(turn - 1)
      BY <1>1 DEF Inv, EndInv
    <2>2. log'[turn].abortFailed \/ run[turn] = "over"
      BY <1>1, <1>4, <1>5, <1>6 DEF Inv, AnswerInv
    <2> QED BY <1>1, <1>3, <1>5, <1>6, <2>1, <2>2, EndKept DEF TurnFrame
  <1>14. TurnIsComplete' /\ RunIsNotLeftBehind'
    BY <1>1, <1>5, <1>6, <1>8, OutcomeKept DEF TurnFrame
  <1> QED BY <1>7, <1>9, <1>10, <1>11, <1>12, <1>13, <1>14 DEF Inv

\* A note with more collected is one.
LEMMA CollectedNote ==
  ASSUME NEW x \in Notes, NEW M \in SUBSET Message
  PROVE  \E n \in Notes : /\ n = [x EXCEPT !.collected = x.collected \cup M] /\ n.state = x.state
                          /\ n.endedBy = x.endedBy /\ n.collected = x.collected \cup M /\ n.late = x.late
                          /\ n.abortSent = x.abortSent /\ n.abortFailed = x.abortFailed
  <1>1. x.collected \cup M \in SUBSET Message
    BY DEF Notes
  <1>2. [x EXCEPT !.collected = x.collected \cup M] \in Notes
    BY <1>1 DEF Notes
  <1> QED BY <1>2 DEF Notes

\* What the queue holds is collected; what is missing then is unsent.
LEMMA DrainStep ==
  ASSUME Inv, Drain PROVE Inv'
  <1>1. /\ main = "drain" /\ main' \in {"drain", "reading"} /\ TurnFrame
        /\ queue' = [queue EXCEPT !.messages = {}]
        /\ Note([log[turn] EXCEPT !.collected = log[turn].collected \cup queue.messages])
        /\ \/ main' = "drain" /\ UNCHANGED <<call, pending, inHand>>
           \/ /\ main' = "reading" /\ queue.messages = {}
              /\ Begin("main", "sessions.get", turn) \/ SendRaises("main")
    BY DEF Drain, turnKept, gatewayKept, TurnFrame
  <1>2. main \in InTurn \ {"sending"} /\ main' \in InTurn \ {"sending"}
    BY <1>1 DEF InTurn
  <1>3. /\ call' \in [Callers -> Calls] /\ pending' \subseteq Ids /\ inHand' \subseteq Requests
        /\ main' = "reading" => call'["main"].state # "answered"
        /\ RequestInv'
    <2>1. CASE main' = "drain" /\ UNCHANGED <<call, pending, inHand>>
      BY <2>1, <1>1, <1>2, PlainRequests, Basics DEF TurnFrame
    <2>2. CASE main' = "reading" /\ (Begin("main", "sessions.get", turn) \/ SendRaises("main"))
      BY <2>2, <1>1, <1>2, TurnCall
    <2> QED BY <1>1, <2>1, <2>2
  <1>4. /\ log[turn] \in Notes /\ log \in [1..Turns -> Notes] /\ queue.chat \in Seq(1..Turns) /\ turn \in 1..Turns
        /\ queue.messages \in SUBSET Message
    BY Basics
  <1>5. PICK n \in Notes : /\ n = [log[turn] EXCEPT !.collected = log[turn].collected \cup queue.messages]
                           /\ n.state = log[turn].state
                           /\ n.endedBy = log[turn].endedBy /\ n.collected = log[turn].collected \cup queue.messages
                           /\ n.late = log[turn].late /\ n.abortSent = log[turn].abortSent
                           /\ n.abortFailed = log[turn].abortFailed
    <2>1. PICK x \in Notes : x = log[turn]
      BY <1>4
    <2>2. PICK M \in SUBSET Message : M = queue.messages
      BY <1>4
    <2>3. \E n \in Notes : /\ n = [x EXCEPT !.collected = x.collected \cup M] /\ n.state = x.state
                          /\ n.endedBy = x.endedBy /\ n.collected = x.collected \cup M /\ n.late = x.late
                          /\ n.abortSent = x.abortSent /\ n.abortFailed = x.abortFailed
      BY CollectedNote
    <2> QED BY <2>1, <2>2, <2>3
  <1>6. log' \in [1..Turns -> Notes] /\ log'[turn] = n /\ \A t \in 1..Turns \ {turn} : log'[t] = log[t]
    BY <1>1, <1>5, NoteFacts
  <1>7. /\ queue' \in [challenge : Seq(Nat), open : BOOLEAN, chat : Seq(1..Turns), messages : SUBSET Message]
        /\ queue'.chat = queue.chat /\ queue'.messages = {} /\ queue'.open = queue.open
    BY <1>1, TypeFacts
  <1>8. TypeOK'
    <2>1. main' \in MainStates
      BY <1>1 DEF MainStates
    <2> QED BY <1>1, <1>3, <1>6, <1>7, <2>1, TurnTypes
  <1>9. log[turn].state = "sent" /\ queue.open /\ run[turn] # "none"
    BY <1>1 DEF Inv, PhaseInv, InTurn, Taken
  <1>10. PhaseInv'
    BY <1>1, <1>2, <1>5, <1>6, <1>7, <1>9, PhaseKept DEF TurnFrame
  <1>11. AnswerInv'
    BY <1>1, <1>3 DEF AnswerInv, Succeeds, Answered
  <1>12. EndInv'
    <2>1. /\ log[turn].abortSent \/ socket # "open" \/ run[turn] = "over" \/ log[turn].endedBy \in 1..(turn - 1)
          /\ log[turn].abortFailed \/ socket # "open" \/ run[turn] = "over" \/ log[turn].endedBy \in 1..(turn - 1)
      BY <1>1 DEF Inv, EndInv
    <2>2. /\ log'[turn].abortSent = log[turn].abortSent /\ log'[turn].abortFailed = log[turn].abortFailed
          /\ log'[turn].endedBy = log[turn].endedBy
      BY <1>5, <1>6
    <2> QED BY <1>1, <1>4, <1>6, <1>7, <2>1, <2>2, EndKept DEF TurnFrame
  <1>13. TurnIsComplete' /\ RunIsNotLeftBehind'
    BY <1>1, <1>5, <1>6, <1>9, OutcomeKept DEF TurnFrame
  <1>14. MessageInv'
    <2>1. MessageInv /\ EndInv /\ main \in InTurn
      BY <1>2 DEF Inv
    <2>2. History' = History /\ MessagesOf(turn)' = MessagesOf(turn)
      BY <1>1 DEF History, MessagesOf, TurnFrame
    <2>3. \A t \in 1..Turns : log'[t].collected \subseteq History /\ log'[t].late = log[t].late
      <3>1. log[turn].collected \cup queue.messages \subseteq History
        BY <1>4, <2>1 DEF MessageInv
      <3> QED BY <1>5, <1>6, <2>1, <3>1 DEF MessageInv
    <2>4. socket = "open" => MessagesOf(turn) \subseteq log'[turn].collected \cup unsent
      BY <1>5, <1>6, <2>1 DEF MessageInv
    <2>5. \A t \in 1..Turns : run[t] = "over" /\ ~log'[t].late => \A k \in 1..MaxMessages : <<t, k>> \notin unsent
      BY <2>1, <2>3 DEF MessageInv
    <2>6. ASSUME log'[turn].endedBy = turn, socket = "open", ~log'[turn].late
          PROVE  MessagesOf(turn) \subseteq log'[turn].collected
      <3>1. run[turn] = "over"
        BY <1>4, <1>5, <1>6, <2>1, <2>6 DEF EndInv
      <3>2. \A k \in 1..MaxMessages : <<turn, k>> \notin unsent
        BY <1>4, <2>5, <2>6, <3>1
      <3>3. made[turn] \in 0..MaxMessages /\ MaxMessages \in Nat
        BY <1>4, TypeFacts, Basics
      <3>4. \A m \in MessagesOf(turn) : m \notin unsent
        <4>1. TAKE m \in MessagesOf(turn)
        <4>2. PICK k \in 1..made[turn] : m = <<turn, k>>
          BY DEF MessagesOf
        <4>3. k \in 1..MaxMessages
          BY <3>3
        <4> QED BY <4>2, <4>3, <3>2
      <3> QED BY <2>4, <2>6, <3>4
    <2>7. UNCHANGED <<turn, run, made, unsent, socket>>
      BY <1>1 DEF TurnFrame
    <2>8. queue'.messages = {} /\ unsent \subseteq History
      BY <1>7, <2>1 DEF MessageInv
    <2> QED BY <2>2, <2>3, <2>4, <2>5, <2>6, <2>7, <2>8 DEF MessageInv
  <1> QED BY <1>3, <1>8, <1>10, <1>11, <1>12, <1>13, <1>14 DEF Inv

\* A turn begins with empty queues and no run.
LEMMA SendMessageStep ==
  ASSUME Inv, SendMessage PROVE Inv'
  <1>1. /\ main = "turn" /\ main' \in {"sending", "closing"} /\ TurnFrame
        /\ queue' = [queue EXCEPT !.open = TRUE, !.chat = <<>>, !.messages = {}]
        /\ Begin("main", "sessions.send", turn) \/ SendRaises("main")
        /\ \/ main' = "sending" /\ Note([log[turn] EXCEPT !.state = "sent"])
           \/ main' = "closing" /\ Note([log[turn] EXCEPT !.state = "raised"])
    BY DEF SendMessage, turnKept, gatewayKept, TurnFrame
  <1>2. /\ log[turn] \in Notes /\ log \in [1..Turns -> Notes] /\ turn \in 1..Turns /\ turn \in Nat
        /\ "main" \in Callers /\ "waiter" \in Callers \ {"main"} /\ call["main"].n \in Nat
        /\ PhaseInv /\ RequestInv /\ MessageInv
    BY Basics DEF Inv, Callers
  <1>3. run[turn] = "none" /\ log[turn].state = "ahead" /\ log[turn].endedBy = 0 /\ made[turn] = 0
    BY <1>1, <1>2 DEF PhaseInv
  <1>4. PICK s \in {"sent", "raised"} : /\ Note([log[turn] EXCEPT !.state = s])
                                        /\ main' = "sending" => s = "sent"
    BY <1>1
  <1>5. PICK n \in Notes : /\ n = [log[turn] EXCEPT !.state = s] /\ n.state = s /\ n.endedBy = log[turn].endedBy
                           /\ n.collected = log[turn].collected /\ n.late = log[turn].late
    <2>1. s \in {"ahead", "sent", "raised", "returned"}
      OBVIOUS
    <2> QED BY <1>2, <2>1, StateNote
  <1>6. log' \in [1..Turns -> Notes] /\ log'[turn] = n /\ \A t \in 1..Turns \ {turn} : log'[t] = log[t]
    BY <1>4, <1>5, NoteFacts
  <1>7. /\ queue' \in [challenge : Seq(Nat), open : BOOLEAN, chat : Seq(1..Turns), messages : SUBSET Message]
        /\ queue'.chat = <<>> /\ queue'.messages = {} /\ queue'.open = TRUE
    <2>1. <<>> \in Seq(1..Turns)
      OBVIOUS
    <2>2. queue \in [challenge : Seq(Nat), open : BOOLEAN, chat : Seq(1..Turns), messages : SUBSET Message]
      BY TypeFacts
    <2> QED BY <1>1, <2>1, <2>2
  <1>8. /\ call' \in [Callers -> Calls] /\ pending' \subseteq Ids /\ inHand' \subseteq Requests
        /\ call'["main"].n = call["main"].n + 1 /\ call'["main"].state # "answered"
        /\ \A d \in Callers \ {"main"} : call'[d] = call[d]
        /\ \A r \in inHand' : r \in inHand \/ (r.id = NextId("main") /\ r.method = "sessions.send" /\ r.of = turn)
    <2>1. CASE Begin("main", "sessions.send", turn)
      <3>1. Request(NextId("main"), "sessions.send", turn) \in Requests
        BY <1>2, RequestFacts
      <3> QED BY <1>2, <2>1, <3>1, BeginFacts
    <2>2. CASE SendRaises("main")
      BY <1>2, <2>2, RaisesFacts, Basics
    <2> QED BY <1>1, <2>1, <2>2
  <1>9. TypeOK'
    <2>1. main' \in MainStates
      BY <1>1 DEF MainStates
    <2> QED BY <1>1, <1>6, <1>7, <1>8, <2>1, TurnTypes
  <1>10. PhaseInv'
    <2>1. main' \in InTurn \cup {"closing"} /\ main' \notin Taken /\ (main' \in InTurn => main' = "sending")
      BY <1>1 DEF InTurn, Taken
    <2> QED BY <1>1, <1>4, <1>5, <1>6, <1>7, <2>1, PhaseKept DEF TurnFrame
  <1>11. RequestInv'
    <2>1. UNCHANGED <<turn, run>>
      BY <1>1 DEF TurnFrame
    <2>2. NextId("main") = <<"main", call'["main"].n>> /\ Id("main")' = <<"main", call'["main"].n>>
          /\ Id("waiter")' = Id("waiter") /\ Id("waiter") = <<"waiter", call["waiter"].n>>
      BY <1>2, <1>8 DEF NextId, Id
    <2>3. ASSUME NEW r \in inHand
          PROVE  /\ r.id[2] <= call'[r.id[1]].n
                 /\ r.method # "sessions.send"
                 /\ r.method \in {"agent.wait", "sessions.abort", "sessions.get"} => r.of \in 1..turn
                 /\ r.id # <<"main", call'["main"].n>>
                 /\ r.id = Id("waiter") /\ call["waiter"].state = "waiting" => r.method = "agent.wait" /\ r.of = turn
      <3>1. r \in Requests /\ r.id \in Callers \X Nat /\ r.id[1] \in Callers /\ r.id[2] \in Nat
        BY Basics DEF Requests, Ids
      <3>2. /\ r.id[2] <= call[r.id[1]].n
            /\ r.method # "sessions.send"
            /\ r.method \in {"agent.wait", "sessions.abort", "sessions.get"} => r.of \in 1..turn
            /\ r.id = Id("waiter") /\ call["waiter"].state = "waiting" => r.method = "agent.wait" /\ r.of = turn
        BY <1>1, <1>2 DEF RequestInv
      <3>3. call[r.id[1]].n \in Nat
        BY <3>1, Basics
      <3>4. r.id[1] = "main" \/ call'[r.id[1]] = call[r.id[1]]
        BY <3>1, <1>8
      <3>5. r.id[2] <= call'[r.id[1]].n
        BY <1>2, <1>8, <3>1, <3>2, <3>3, <3>4
      <3>6. r.id # <<"main", call'["main"].n>>
        BY <1>2, <1>8, <3>1, <3>2
      <3> QED BY <3>2, <3>5, <3>6
    <2>4. ASSUME NEW r \in inHand', r \notin inHand
          PROVE  /\ r.id = <<"main", call'["main"].n>> /\ r.method = "sessions.send" /\ r.of = turn
                 /\ r.id[1] = "main" /\ r.id[2] = call'["main"].n /\ r.id # Id("waiter")
      BY <1>8, <2>2, <2>4
    <2>5. call'["main"].n \in Nat /\ call'["waiter"] = call["waiter"]
      BY <1>2, <1>8
    <2> QED BY <1>1, <1>3, <2>1, <2>2, <2>3, <2>4, <2>5 DEF RequestInv
  <1>12. AnswerInv'
    BY <1>1, <1>8 DEF AnswerInv, Succeeds, Answered
  <1>13. MessageInv'
    <2>1. History' = History /\ MessagesOf(turn)' = MessagesOf(turn) /\ MessagesOf(turn) = {}
      BY <1>1, <1>3 DEF History, MessagesOf, TurnFrame
    <2>2. \A t \in 1..Turns : log'[t].collected = log[t].collected /\ log'[t].late = log[t].late
      BY <1>5, <1>6
    <2> QED BY <1>1, <1>2, <1>7, <2>1, <2>2 DEF MessageInv, TurnFrame
  <1>14. EndInv'
    BY <1>1, <1>5, <1>6, <1>7, EndKept DEF TurnFrame
  <1>15. TurnIsComplete' /\ RunIsNotLeftBehind'
    BY <1>1, <1>5, <1>6, OutcomeKept DEF TurnFrame
  <1> QED BY <1>9, <1>10, <1>11, <1>12, <1>13, <1>14, <1>15 DEF Inv

\* There are finitely many messages.
LEMMA MessageFinite ==
  ASSUME Inv PROVE IsFiniteSet(Message)
  <1>1. IsFiniteSet(1..Turns) /\ IsFiniteSet(1..MaxMessages)
    BY Basics, FS_Interval
  <1> QED BY <1>1, FS_Product DEF Message

\* Of two records of which one holds the other, the longer one is that.
LEMMA LongerHoldsMore ==
  ASSUME Inv, NEW C \in SUBSET Message, NEW H \in SUBSET Message, C \subseteq H
  PROVE  H \subseteq (IF Better(H, C) THEN H ELSE C)
  <1>1. IsFiniteSet(H) /\ IsFiniteSet(C)
    BY MessageFinite, FS_Subset
  <1>2. Cardinality(C) \in Nat /\ Cardinality(H) \in Nat
    BY <1>1, FS_CardinalityType
  <1>3. CASE H = {}
    BY <1>3
  <1>4. CASE H # {} /\ ~Better(H, C)
    <2>1. Cardinality(H) <= Cardinality(C)
      BY <1>2, <1>4 DEF Better
    <2>2. C = H
      BY <1>1, <1>2, <2>1, FS_Subset
    <2> QED BY <2>2
  <1>5. CASE Better(H, C)
    BY <1>5
  <1> QED BY <1>3, <1>4, <1>5

\* A turn returns with the fuller record.
LEMMA ReturnStep ==
  ASSUME Inv, Return PROVE Inv'
  <1> DEFINE history == IF Succeeds("main") THEN call["main"].frame.messages ELSE {}
             transcript == IF Better(history, log[turn].collected) THEN history ELSE log[turn].collected
  <1>1. /\ main = "reading" /\ main' \in {"turn", "closing"}
        /\ Note([log[turn] EXCEPT !.state = "returned", !.heard = Succeeds("main"), !.transcript = transcript])
        /\ pending' \in {pending, pending \ {Id("main")}}
        /\ call' = [c \in Callers |-> Call(call[c].n, "idle", NoAnswer)]
        /\ queue' = [queue EXCEPT !.open = FALSE, !.chat = <<>>, !.messages = {}]
        /\ (turn < Turns /\ turn' = turn + 1 /\ main' = "turn") \/ (turn = Turns /\ turn' = turn /\ main' = "closing")
        /\ UNCHANGED <<inHand, attempt, setup, socket, listener, run, made, unsent, faults>>
    BY DEF Return, turnKept, gatewayKept
  <1>2. /\ log[turn] \in Notes /\ log \in [1..Turns -> Notes] /\ turn \in 1..Turns /\ turn \in Nat /\ Turns \in Nat
        /\ call \in [Callers -> Calls] /\ log[turn].collected \in SUBSET Message
        /\ call["main"].frame.messages \in SUBSET Message /\ inHand \subseteq Requests /\ pending \subseteq Ids
        /\ \A c \in Callers : call[c].n \in Nat
        /\ TypeOK /\ PhaseInv /\ RequestInv /\ AnswerInv /\ MessageInv /\ EndInv /\ TurnIsComplete /\ RunIsNotLeftBehind
    BY Basics DEF Inv
  <1>3. PICK H \in SUBSET Message : H = history
    BY <1>2
  <1>4. PICK T \in SUBSET Message : T = transcript /\ T = IF Better(H, log[turn].collected) THEN H ELSE log[turn].collected
    BY <1>2, <1>3
  <1>5. PICK h \in BOOLEAN : h = Succeeds("main")
    BY <1>2 DEF Succeeds, Answered
  <1>6. PICK n \in Notes :
           /\ n = [log[turn] EXCEPT !.state = "returned", !.heard = Succeeds("main"), !.transcript = transcript]
           /\ n.state = "returned" /\ n.heard = h /\ n.transcript = T
           /\ n.endedBy = log[turn].endedBy /\ n.collected = log[turn].collected /\ n.late = log[turn].late
           /\ n.abortSent = log[turn].abortSent /\ n.abortFailed = log[turn].abortFailed
    <2>1. PICK x \in Notes : x = log[turn]
      BY <1>2
    <2>2. \E n \in Notes : /\ n = [x EXCEPT !.state = "returned", !.heard = h, !.transcript = T]
                          /\ n.state = "returned" /\ n.heard = h /\ n.transcript = T
                          /\ n.endedBy = x.endedBy /\ n.collected = x.collected /\ n.late = x.late
                          /\ n.abortSent = x.abortSent /\ n.abortFailed = x.abortFailed
      <3> HIDE DEF history, transcript
      <3>1. [x EXCEPT !.state = "returned", !.heard = h, !.transcript = T] \in Notes
        BY DEF Notes
      <3> QED BY <3>1 DEF Notes
    <2> QED BY <1>4, <1>5, <2>1, <2>2
  <1>7. log' \in [1..Turns -> Notes] /\ log'[turn] = n /\ \A t \in 1..Turns \ {turn} : log'[t] = log[t]
    BY <1>1, <1>6, NoteFacts
  <1>8. Succeeds("main") => H = call["main"].frame.messages
    BY <1>3
  <1> HIDE DEF history, transcript
  <1>9. /\ \A t \in 1..Turns : /\ log'[t].endedBy = log[t].endedBy /\ log'[t].collected = log[t].collected
                               /\ log'[t].late = log[t].late /\ log'[t].abortSent = log[t].abortSent
                               /\ log'[t].abortFailed = log[t].abortFailed
    BY <1>6, <1>7
  <1>10. /\ queue' \in [challenge : Seq(Nat), open : BOOLEAN, chat : Seq(1..Turns), messages : SUBSET Message]
         /\ queue'.chat = <<>> /\ queue'.messages = {}
    <2>1. <<>> \in Seq(1..Turns)
      OBVIOUS
    <2>2. queue \in [challenge : Seq(Nat), open : BOOLEAN, chat : Seq(1..Turns), messages : SUBSET Message]
      BY TypeFacts
    <2> QED BY <1>1, <2>1, <2>2
  <1>11. /\ call' \in [Callers -> Calls] /\ \A c \in Callers : call'[c].n = call[c].n /\ call'[c].state = "idle"
    <2>1. \A c \in Callers : Call(call[c].n, "idle", NoAnswer) \in Calls
      BY IdFacts
    <2> QED BY <1>1, <2>1 DEF Call
  <1>12. turn' \in 1..Turns /\ turn' \in Nat /\ turn <= turn' /\ (turn' = turn \/ turn' = turn + 1)
         /\ (turn' = turn => main' = "closing")
    BY <1>1, <1>2
  <1>13. TypeOK'
    <2>1. main' \in MainStates /\ pending' \subseteq Ids
      BY <1>1, <1>2 DEF MainStates
    <2>2. UNCHANGED <<inHand, attempt, setup, socket, listener, run, made, unsent, faults>>
      BY <1>1
    <2> QED BY <1>2, <1>7, <1>10, <1>11, <1>12, <2>1, <2>2 DEF TypeOK
  <1>14. /\ log[turn].state = "sent" /\ run[turn] # "none" /\ main \in InTurn
         /\ log[turn].abortSent \/ socket # "open" \/ run[turn] = "over" \/ log[turn].endedBy \in 1..(turn - 1)
         /\ log[turn].abortFailed \/ socket # "open" \/ run[turn] = "over" \/ log[turn].endedBy \in 1..(turn - 1)
    BY <1>1, <1>2 DEF PhaseInv, InTurn, Taken, EndInv
  <1>15. PhaseInv'
    <2>1. ASSUME NEW t \in 1..Turns
          PROVE  /\ t > turn' \/ (t = turn' /\ main' \in Early \cup {"turn"}) =>
                       run'[t] = "none" /\ log'[t].state = "ahead" /\ log'[t].endedBy = 0
                 /\ t < turn' => log'[t].state = "returned"
                 /\ log'[t].state = "returned" => run'[t] # "none"
                 /\ run'[t] = "none" => made'[t] = 0
      <3>1. main' \notin Early
        BY <1>1 DEF Early
      <3>2. CASE t = turn
        <4>1. ~(t > turn') /\ ~(t = turn' /\ main' = "turn")
          BY <1>1, <1>2, <3>2
        <4> QED BY <1>1, <1>2, <1>6, <1>7, <1>14, <3>1, <3>2, <4>1 DEF PhaseInv
      <3>3. CASE t > turn
        <4>1. run[t] = "none" /\ log[t].state = "ahead" /\ log[t].endedBy = 0 /\ made[t] = 0
          BY <1>2, <3>3 DEF PhaseInv
        <4>2. ~(t < turn') /\ log'[t] = log[t]
          BY <1>2, <1>7, <1>12, <3>3
        <4> QED BY <1>1, <4>1, <4>2
      <3>4. CASE t < turn
        <4>1. log[t].state = "returned" /\ (log[t].state = "returned" => run[t] # "none")
              /\ (run[t] = "none" => made[t] = 0)
          BY <1>2, <3>4 DEF PhaseInv
        <4>2. ~(t > turn') /\ t # turn' /\ log'[t] = log[t]
          BY <1>2, <1>7, <1>12, <3>4
        <4> QED BY <1>1, <4>1, <4>2
      <3> QED BY <1>2, <3>2, <3>3, <3>4
    <2>2. main' \notin Early /\ main' \notin InTurn /\ main' \notin Taken /\ main' # "connecting"
      BY <1>1 DEF Early, InTurn, Taken
    <2> QED BY <2>1, <2>2 DEF PhaseInv
  <1>16. RequestInv'
    <2>1. ASSUME NEW r \in inHand
          PROVE  /\ r.id[2] <= call'[r.id[1]].n
                 /\ r.method # "sessions.send"
                 /\ r.method \in {"agent.wait", "sessions.abort", "sessions.get"} => r.of \in 1..turn'
      <3>1. r \in Requests /\ r.id \in Callers \X Nat /\ r.id[1] \in Callers
        BY <1>2 DEF Requests, Ids
      <3>2. r.id[2] <= call'[r.id[1]].n
        BY <1>2, <1>11, <3>1 DEF RequestInv
      <3>3. r.method # "sessions.send"
        BY <1>2, <1>14 DEF RequestInv
      <3>4. r.method \in {"agent.wait", "sessions.abort", "sessions.get"} => r.of \in 1..turn'
        BY <1>2, <1>12 DEF RequestInv
      <3> QED BY <3>2, <3>3, <3>4
    <2>2. call'["main"].state # "waiting" /\ call'["waiter"].state # "waiting"
      BY <1>11 DEF Callers
    <2>3. inHand' = inHand
      BY <1>1
    <2> QED BY <2>1, <2>2, <2>3 DEF RequestInv
  <1>17. AnswerInv'
    BY <1>1 DEF AnswerInv
  <1>18. MessageInv'
    <2>1. History' = History /\ main' \notin InTurn /\ main' # "reading"
      BY <1>1 DEF History, MessagesOf, InTurn
    <2> QED BY <1>1, <1>2, <1>9, <1>10, <2>1 DEF MessageInv
  <1>19. EndInv'
    <2>1. \A e \in 1..Turns : FailedBy(log, e) => FailedBy(log', e)
      <3>1. TAKE e \in 1..Turns
      <3>2. \A k \in 1..e : k \in 1..Turns
        BY <1>2
      <3> QED BY <1>9, <3>2 DEF FailedBy
    <2>2. ASSUME NEW t \in 1..Turns
          PROVE  /\ log'[t].endedBy <= t
                 /\ log'[t].endedBy = t => run'[t] = "over"
                 /\ log'[t].endedBy \in 1..(t - 1) => FailedBy(log', log'[t].endedBy)
      <3>1. /\ log[t].endedBy <= t /\ (log[t].endedBy = t => run[t] = "over")
            /\ log[t].endedBy \in 1..(t - 1) => FailedBy(log, log[t].endedBy)
        BY <1>2 DEF EndInv
      <3>2. log'[t].endedBy = log[t].endedBy /\ run' = run
        BY <1>1, <1>9
      <3>3. log[t].endedBy \in 1..(t - 1) => log[t].endedBy \in 1..Turns
        BY <1>2
      <3> QED BY <2>1, <3>1, <3>2, <3>3
    <2>3. ASSUME NEW t \in 1..Turns, t < turn', run[t] = "running", socket = "open"
          PROVE  FailedBy(log', t)
      <3>1. CASE t < turn
        BY <1>2, <2>1, <2>3, <3>1 DEF EndInv
      <3>2. CASE t = turn
        <4>1. CASE log[turn].abortFailed
          BY <1>2, <1>9, <3>2, <4>1 DEF FailedBy
        <4>2. CASE log[turn].endedBy \in 1..(turn - 1)
          <5>1. PICK e \in 1..(turn - 1) : e = log[turn].endedBy
            BY <4>2
          <5>2. FailedBy(log, e)
            BY <1>2, <5>1 DEF EndInv
          <5>3. \A k \in 1..e : k \in 1..t /\ k \in 1..Turns
            BY <1>2, <3>2
          <5> QED BY <1>9, <5>2, <5>3 DEF FailedBy
        <4> QED BY <1>14, <2>3, <3>2, <4>1, <4>2
      <3> QED BY <1>2, <1>12, <2>3, <3>1, <3>2
    <2>4. Len(queue'.chat) = 0
      BY <1>10
    <2>5. main' \notin {"aborting", "drain", "reading"} /\ run' = run /\ socket' = socket
      BY <1>1
    <2> QED BY <2>2, <2>3, <2>4, <2>5 DEF EndInv
  <1>20. TurnIsComplete'
    <2>1. ASSUME NEW t \in 1..Turns, log'[t].state = "returned", log'[t].endedBy = t,
                 log'[t].heard \/ (~log'[t].late /\ socket = "open")
          PROVE  MessagesOf(t) \subseteq log'[t].transcript
      <3>1. CASE t # turn
        BY <1>2, <1>7, <2>1, <3>1 DEF TurnIsComplete
      <3>2. CASE t = turn /\ h
        <4>1. /\ log[turn].collected \subseteq H /\ MessagesOf(turn) \subseteq H
          BY <1>1, <1>2, <1>5, <1>8, <1>9, <2>1, <3>2 DEF AnswerInv
        <4>2. H \subseteq T
          BY <1>2, <1>4, <4>1, LongerHoldsMore
        <4> QED BY <1>6, <1>7, <3>2, <4>1, <4>2
      <3>3. CASE t = turn /\ ~h
        <4>1. MessagesOf(turn) \subseteq log[turn].collected
          BY <1>1, <1>2, <1>6, <1>7, <2>1, <3>3 DEF MessageInv
        <4>2. H = {}
          BY <1>3, <1>5, <3>3 DEF history
        <4>3. T = log[turn].collected
          BY <1>4, <4>2 DEF Better
        <4> QED BY <1>6, <1>7, <3>3, <4>1, <4>3
      <3> QED BY <3>1, <3>2, <3>3
    <2>2. \A t \in 1..Turns : MessagesOf(t)' = MessagesOf(t)
      BY <1>1 DEF MessagesOf
    <2>3. socket' = socket
      BY <1>1
    <2> QED BY <2>1, <2>2, <2>3 DEF TurnIsComplete
  <1>21. RunIsNotLeftBehind'
    <2>1. ASSUME NEW t \in 1..Turns, log'[t].state = "returned", run[t] = "running"
          PROVE  log'[t].abortSent \/ socket # "open" \/ log'[t].endedBy \in 1..(t - 1)
      <3>1. CASE t # turn
        BY <1>2, <1>7, <2>1, <3>1 DEF RunIsNotLeftBehind
      <3>2. CASE t = turn
        BY <1>9, <1>14, <2>1, <3>2
      <3> QED BY <3>1, <3>2
    <2>2. run' = run /\ socket' = socket
      BY <1>1
    <2> QED BY <2>1, <2>2 DEF RunIsNotLeftBehind
  <1> QED BY <1>13, <1>15, <1>16, <1>17, <1>18, <1>19, <1>20, <1>21 DEF Inv

-----------------------------------------------------------------------------
\* An answer reaches the call it belongs to, if that call still waits, and no other.
Frames == [id : Ids, ok : BOOLEAN, good : BOOLEAN, messages : SUBSET Message]

\* The call the answer is for has it, or no call has.
Reaches(r, f) ==
    \A c \in Callers :
        /\ call'[c].n = call[c].n
        /\ \/ call'[c] = call[c]
           \/ call[c].state = "waiting" /\ r.id = Id(c) /\ call'[c].state = "answered" /\ call'[c].frame = f

\* So the listener does.
LEMMA DeliverFacts ==
  ASSUME Inv, NEW r \in inHand, NEW f \in Frames, f.id = r.id, Deliver(f)
  PROVE  call' \in [Callers -> Calls] /\ pending' \subseteq Ids /\ Reaches(r, f)
  <1>1. r.id \in Callers \X Nat /\ r.id[1] \in Callers /\ call \in [Callers -> Calls] /\ pending \subseteq Ids
    BY Basics DEF Requests, Ids
  <1>2. PICK d \in Callers : d = r.id[1]
    BY <1>1
  <1>3. pending' = pending \ {f.id}
        /\ call' = IF f.id \in pending /\ f.id = Id(d) /\ call[d].state = "waiting"
                   THEN [call EXCEPT ![d] = Call(call[d].n, "answered", f)]
                   ELSE call
    BY <1>2 DEF Deliver
  <1>4. Call(call[d].n, "answered", f) \in Calls
    BY <1>1, Basics DEF Call, Calls, Frames
  <1>5. call' \in [Callers -> Calls]
    BY <1>1, <1>3, <1>4
  <1>6. CASE f.id = Id(d) /\ call[d].state = "waiting" /\ call' = [call EXCEPT ![d] = Call(call[d].n, "answered", f)]
    <2>1. /\ call'[d] = Call(call[d].n, "answered", f) /\ \A c \in Callers \ {d} : call'[c] = call[c]
      BY <1>1, <1>6
    <2>2. call'[d].n = call[d].n /\ call'[d].state = "answered" /\ call'[d].frame = f
      BY <2>1 DEF Call
    <2> QED BY <1>1, <1>3, <1>5, <1>6, <2>1, <2>2 DEF Reaches
  <1>7. CASE call' = call
    BY <1>1, <1>3, <1>5, <1>7 DEF Reaches
  <1> QED BY <1>3, <1>6, <1>7

\* A run changes in one way at a time: it ends, or the message of the turn starts it.
RunMoves(r) ==
    \A t \in 1..Turns :
        \/ run'[t] = run[t]
        \/ run[t] = "running" /\ run'[t] = "over"
        \/ r.method = "sessions.send" /\ t = turn /\ run[t] = "none" /\ run'[t] = "running"

\* What an answer says is true when it is given.
Truthful(r, f) ==
    f.ok => /\ r.method = "sessions.send" => run'[turn] # "none"
            /\ r.method = "sessions.abort" /\ r.of = turn /\ run[turn] # "none" => run'[turn] = "over"
            /\ r.method = "agent.wait" /\ r.of = turn /\ f.good => run'[turn] = "over"
            /\ r.method = "sessions.get" => f.messages = History

\* A request that is answered is in no hand any more; the others stay what they are.
LEMMA AnsweredRequests ==
  ASSUME Inv, NEW r \in inHand, NEW f, inHand' = inHand \ {r}, UNCHANGED <<main, turn>>, Reaches(r, f), RunMoves(r)
  PROVE  RequestInv'
  <1>1. RequestInv /\ turn \in 1..Turns /\ "main" \in Callers /\ "waiter" \in Callers /\ inHand \subseteq Requests
    BY Basics DEF Inv
  <1>2. \A c \in Callers : call'[c].n = call[c].n /\ Id(c)' = Id(c)
                           /\ (call'[c].state = "waiting" => call'[c] = call[c])
    BY DEF Reaches, Id
  <1>3. ASSUME NEW q \in inHand, q # r
        PROVE  /\ q.id[2] <= call'[q.id[1]].n
               /\ q.method = "sessions.send" => run'[turn] = "none"
    <2>1. q \in Requests /\ r \in Requests
      BY <1>1
    <2>2. q.id[1] \in Callers
      BY <2>1 DEF Requests, Ids
    <2>3. q.id[2] <= call'[q.id[1]].n
      BY <1>1, <1>2, <2>2 DEF RequestInv
    <2>4. ASSUME q.method = "sessions.send" PROVE run'[turn] = "none"
      <3>1. q.of = turn /\ q.id = Id("main") /\ run[turn] = "none"
        BY <1>1, <2>4 DEF RequestInv
      <3>2. CASE r.method = "sessions.send"
        <4>1. r.of = turn /\ r.id = Id("main")
          BY <1>1, <3>2 DEF RequestInv
        <4>2. q = r
          BY <2>1, <2>4, <3>1, <3>2, <4>1 DEF Requests
        <4> QED BY <4>2, <1>3
      <3>3. CASE r.method # "sessions.send"
        BY <1>1, <3>1, <3>3 DEF RunMoves
      <3> QED BY <3>2, <3>3
    <2> QED BY <2>3, <2>4
  <1>4. \A q \in inHand' : q \in inHand /\ q # r
    OBVIOUS
  <1>5. /\ Id("main")' = Id("main") /\ Id("waiter")' = Id("waiter")
        /\ call'["main"].state = "waiting" => call["main"].state = "waiting"
        /\ call'["waiter"].state = "waiting" => call["waiter"].state = "waiting"
    BY <1>1, <1>2
  <1> QED BY <1>1, <1>3, <1>4, <1>5 DEF RequestInv

\* True answers are what AnswerInv says of the calls they reach.
LEMMA AnsweredAnswers ==
  ASSUME Inv, NEW r \in inHand, NEW f, UNCHANGED <<main, turn, made>>, Reaches(r, f), RunMoves(r), Truthful(r, f),
         \A t \in 1..Turns : log'[t].collected = log[t].collected /\ log'[t].endedBy = log[t].endedBy
  PROVE  AnswerInv'
  <1>1. /\ RequestInv /\ AnswerInv /\ PhaseInv /\ MessageInv /\ turn \in 1..Turns
        /\ "main" \in Callers /\ "waiter" \in Callers
    BY Basics DEF Inv
  <1>2. \A c \in {"main", "waiter"} :
           \/ call'[c] = call[c]
           \/ call[c].state = "waiting" /\ r.id = Id(c) /\ call'[c].state = "answered" /\ call'[c].frame = f
    BY <1>1 DEF Reaches
  <1>3. /\ run[turn] # "none" => run'[turn] # "none"
        /\ run[turn] = "over" => run'[turn] = "over"
    BY <1>1 DEF RunMoves
  <1>4. main = "sending" /\ Succeeds("main")' => run'[turn] # "none"
    BY <1>1, <1>2, <1>3 DEF AnswerInv, RequestInv, Succeeds, Answered, Truthful
  <1>5. main = "aborting" /\ Succeeds("main")' => run'[turn] = "over"
    <2>1. main = "aborting" => run[turn] # "none"
      BY <1>1 DEF PhaseInv, Taken, InTurn
    <2> QED BY <1>1, <1>2, <1>3, <2>1 DEF AnswerInv, RequestInv, Succeeds, Answered, Truthful
  <1>6. main = "waiting" /\ Succeeds("waiter")' /\ call'["waiter"].frame.good => run'[turn] = "over"
    BY <1>1, <1>2, <1>3 DEF AnswerInv, RequestInv, Succeeds, Answered, Truthful
  <1>7. ASSUME main = "reading", Succeeds("main")'
        PROVE  /\ log[turn].collected \subseteq call'["main"].frame.messages
               /\ log[turn].endedBy = turn => MessagesOf(turn) \subseteq call'["main"].frame.messages
    <2>1. CASE call'["main"] = call["main"]
      BY <1>1, <1>7, <2>1 DEF AnswerInv, Succeeds, Answered
    <2>2. CASE call["main"].state = "waiting" /\ r.id = Id("main") /\ call'["main"].frame = f
      <3>1. r.method = "sessions.get"
        BY <1>1, <1>7, <2>2 DEF RequestInv
      <3>2. f.ok
        BY <1>7, <2>2 DEF Succeeds
      <3>3. f.messages = History
        BY <3>1, <3>2 DEF Truthful
      <3>4. MessagesOf(turn) \subseteq History
        BY <1>1 DEF History
      <3> QED BY <1>1, <2>2, <3>3, <3>4 DEF MessageInv
    <2> QED BY <1>2, <2>1, <2>2
  <1>8. MessagesOf(turn)' = MessagesOf(turn)
    BY DEF MessagesOf
  <1> QED BY <1>1, <1>4, <1>5, <1>6, <1>7, <1>8 DEF AnswerInv

\* An answer that changes nothing but the call it belongs to.
LEMMA SameWorld ==
  ASSUME Inv, UNCHANGED <<main, attempt, setup, turn, socket, run, made, unsent, log>>,
         queue'.open = queue.open, queue'.chat = queue.chat, queue'.messages = queue.messages
  PROVE  World'
  <1>1. PhaseInv /\ MessageInv /\ EndInv /\ TurnIsComplete /\ RunIsNotLeftBehind
    BY DEF Inv
  <1>2. PhaseInv'
    BY <1>1 DEF PhaseInv
  <1>3. History' = History /\ \A t \in 1..Turns : MessagesOf(t)' = MessagesOf(t)
    BY DEF History, MessagesOf
  <1>4. MessageInv'
    <2>1. MessagesOf(turn)' = MessagesOf(turn)
      BY DEF MessagesOf
    <2> QED BY <1>1, <1>3, <2>1 DEF MessageInv
  <1>5. EndInv'
    BY <1>1 DEF EndInv
  <1>6. TurnIsComplete'
    BY <1>1, <1>3 DEF TurnIsComplete
  <1>7. RunIsNotLeftBehind'
    BY <1>1 DEF RunIsNotLeftBehind
  <1> QED BY <1>2, <1>4, <1>5, <1>6, <1>7 DEF World

\* The message of the turn starts a run.
LEMMA RunStarts ==
  ASSUME Inv, main \in {"sending", "closing"}, run[turn] = "none", run' = [run EXCEPT ![turn] = "running"],
         UNCHANGED <<main, attempt, setup, turn, socket, made, unsent, log, queue>>
  PROVE  World'
  <1>1. /\ PhaseInv /\ MessageInv /\ EndInv /\ TurnIsComplete /\ RunIsNotLeftBehind /\ turn \in 1..Turns
        /\ turn \in Nat
    BY Basics DEF Inv
  <1>2. run'[turn] = "running" /\ \A t \in 1..Turns \ {turn} : run'[t] = run[t]
    BY <1>1, TypeFacts
  <1>3. log[turn].state # "returned"
    BY <1>1 DEF PhaseInv
  <1>4. \A t \in 1..Turns : run'[t] = run[t] \/ t = turn
    BY <1>2
  <1>5. PhaseInv'
    <2>1. main \notin Early \cup {"turn", "connecting"} \cup Taken
      BY DEF Early, Taken, InTurn
    <2>2. ASSUME NEW t \in 1..Turns
          PROVE  /\ t > turn => run'[t] = "none" /\ log[t].state = "ahead" /\ log[t].endedBy = 0
                 /\ t < turn => log[t].state = "returned"
                 /\ log[t].state = "returned" => run'[t] # "none"
                 /\ run'[t] = "none" => made[t] = 0
      <3>1. CASE t = turn
        BY <1>1, <1>2, <1>3, <3>1
      <3>2. CASE t # turn
        BY <1>1, <1>2, <3>2 DEF PhaseInv
      <3> QED BY <3>1, <3>2
    <2>3. main \in InTurn => queue.open /\ log[turn].state = "sent"
      BY <1>1 DEF PhaseInv
    <2> QED BY <2>1, <2>2, <2>3 DEF PhaseInv
  <1>6. History' = History /\ \A t \in 1..Turns : MessagesOf(t)' = MessagesOf(t)
    BY DEF History, MessagesOf
  <1>7. MessageInv'
    <2>1. MessagesOf(turn)' = MessagesOf(turn) /\ main # "reading"
      BY DEF MessagesOf
    <2>2. \A t \in 1..Turns : run'[t] = "over" => run[t] = "over"
      BY <1>2
    <2> QED BY <1>1, <1>6, <2>1, <2>2 DEF MessageInv
  <1>8. EndInv'
    <2>1. \A t \in 1..Turns : run[t] = "over" => run'[t] = "over"
      BY <1>2, <1>4
    <2>2. ASSUME NEW i \in 1..Len(queue.chat)
          PROVE  run'[queue.chat[i]] = "over"
      <3>1. queue.chat \in Seq(1..Turns)
        BY Basics
      <3>2. queue.chat[i] \in 1..Turns
        BY <3>1, ElementIn
      <3>3. run[queue.chat[i]] = "over"
        BY <1>1 DEF EndInv
      <3> QED BY <2>1, <3>2, <3>3
    <2>3. \A t \in 1..Turns : t < turn => run'[t] = run[t]
      BY <1>1, <1>2
    <2>4. main \notin {"aborting", "drain", "reading"}
      OBVIOUS
    <2> QED BY <1>1, <2>1, <2>2, <2>3, <2>4 DEF EndInv
  <1>9. TurnIsComplete'
    BY <1>1, <1>6 DEF TurnIsComplete
  <1>10. RunIsNotLeftBehind'
    BY <1>1, <1>3, <1>4 DEF RunIsNotLeftBehind
  <1> QED BY <1>5, <1>7, <1>8, <1>9, <1>10 DEF World

\* A run ends, and an event says so, while the socket is open.
LEMMA RunEnds ==
  ASSUME Inv, NEW t \in 1..Turns, run[t] = "running", Ends(t), NoteEnd(t),
         UNCHANGED <<main, attempt, setup, turn, socket, made, unsent>>,
         IF socket = "open" THEN EnqueueChat(t) ELSE UNCHANGED queue
  PROVE  /\ World'
         /\ run' \in [1..Turns -> {"none", "running", "over"}] /\ log' \in [1..Turns -> Notes]
         /\ queue' \in [challenge : Seq(Nat), open : BOOLEAN, chat : Seq(1..Turns), messages : SUBSET Message]
         /\ run'[t] = "over" /\ \A s \in 1..Turns \ {t} : run'[s] = run[s]
         /\ \A s \in 1..Turns : log'[s].collected = log[s].collected /\ log'[s].endedBy = log[s].endedBy
  <1>1. /\ PhaseInv /\ MessageInv /\ EndInv /\ TurnIsComplete /\ RunIsNotLeftBehind /\ turn \in 1..Turns
        /\ turn \in Nat /\ log \in [1..Turns -> Notes] /\ queue.chat \in Seq(1..Turns) /\ MaxMessages \in Nat
    BY Basics DEF Inv
  <1>2. /\ run' \in [1..Turns -> {"none", "running", "over"}]
        /\ run'[t] = "over" /\ \A s \in 1..Turns \ {t} : run'[s] = run[s]
    BY TypeFacts DEF Ends
  <1>3. PICK b \in BOOLEAN : b = \E k \in 1..MaxMessages : <<t, k>> \in unsent
    OBVIOUS
  <1>4. PICK n \in Notes : /\ n = [log[t] EXCEPT !.late = b] /\ n.state = log[t].state /\ n.heard = log[t].heard
                           /\ n.transcript = log[t].transcript /\ n.endedBy = log[t].endedBy
                           /\ n.collected = log[t].collected /\ n.late = b
                           /\ n.abortSent = log[t].abortSent /\ n.abortFailed = log[t].abortFailed
    <2>1. PICK x \in Notes : x = log[t]
      BY <1>1
    <2>2. [x EXCEPT !.late = b] \in Notes
      BY DEF Notes
    <2>3. \E n \in Notes : /\ n = [x EXCEPT !.late = b] /\ n.state = x.state /\ n.heard = x.heard
                           /\ n.transcript = x.transcript /\ n.endedBy = x.endedBy
                           /\ n.collected = x.collected /\ n.late = b
                           /\ n.abortSent = x.abortSent /\ n.abortFailed = x.abortFailed
      BY <2>2 DEF Notes
    <2> QED BY <2>1, <2>3
  <1>5. log' = [log EXCEPT ![t] = n]
    BY <1>3, <1>4 DEF NoteEnd
  <1>6. log' \in [1..Turns -> Notes] /\ log'[t] = n /\ \A s \in 1..Turns \ {t} : log'[s] = log[s]
    BY <1>1, <1>5
  <1>7. \A s \in 1..Turns : /\ log'[s].state = log[s].state /\ log'[s].heard = log[s].heard
                            /\ log'[s].transcript = log[s].transcript /\ log'[s].endedBy = log[s].endedBy
                            /\ log'[s].collected = log[s].collected
                            /\ log'[s].abortSent = log[s].abortSent /\ log'[s].abortFailed = log[s].abortFailed
    BY <1>4, <1>6
  <1>8. /\ queue' \in [challenge : Seq(Nat), open : BOOLEAN, chat : Seq(1..Turns), messages : SUBSET Message]
        /\ queue'.messages = queue.messages /\ queue'.open = queue.open
        /\ queue'.chat = queue.chat \/ (socket = "open" /\ queue'.chat = Append(queue.chat, t))
    <2>1. queue \in [challenge : Seq(Nat), open : BOOLEAN, chat : Seq(1..Turns), messages : SUBSET Message]
      BY TypeFacts
    <2>2. Append(queue.chat, t) \in Seq(1..Turns)
      BY <1>1
    <2>3. CASE queue' = queue
      BY <2>1, <2>3
    <2>4. CASE socket = "open" /\ queue' = [queue EXCEPT !.chat = Append(queue.chat, t)]
      BY <2>1, <2>2, <2>4
    <2> QED BY <2>3, <2>4 DEF EnqueueChat
  <1>9. t <= turn /\ log[t].endedBy # t /\ (t < turn /\ socket = "open" => FailedBy(log, t))
    BY <1>1 DEF PhaseInv, EndInv
  <1>10. PhaseInv'
    <2>1. \A s \in 1..Turns : (run'[s] = "none" <=> run[s] = "none")
      BY <1>2
    <2>2. ASSUME NEW s \in 1..Turns
          PROVE  /\ s > turn \/ (s = turn /\ main \in Early \cup {"turn"}) =>
                       run'[s] = "none" /\ log'[s].state = "ahead" /\ log'[s].endedBy = 0
                 /\ s < turn => log'[s].state = "returned"
                 /\ log'[s].state = "returned" => run'[s] # "none"
                 /\ run'[s] = "none" => made[s] = 0
      BY <1>1, <1>7, <2>1 DEF PhaseInv
    <2>3. /\ main \in Early => turn = 1 /\ setup < Len(SetupCalls)
          /\ main = "connecting" => attempt < MaxAttempts
      BY <1>1 DEF PhaseInv
    <2>4. main \in InTurn => queue'.open /\ log'[turn].state = "sent"
      BY <1>1, <1>7, <1>8 DEF PhaseInv
    <2>5. main \in Taken => run'[turn] # "none"
      BY <1>1, <2>1 DEF PhaseInv
    <2> QED BY <2>2, <2>3, <2>4, <2>5 DEF PhaseInv
  <1>11. History' = History /\ MessagesOf(turn)' = MessagesOf(turn) /\ \A s \in 1..Turns : MessagesOf(s)' = MessagesOf(s)
    BY DEF History, MessagesOf
  <1>12. MessageInv'
    <2>1. \A s \in 1..Turns : run'[s] = "over" /\ ~log'[s].late => \A k \in 1..MaxMessages : <<s, k>> \notin unsent
      <3>1. TAKE s \in 1..Turns
      <3>2. CASE s = t
        BY <1>3, <1>4, <1>6, <3>2
      <3>3. CASE s # t
        BY <1>1, <1>2, <1>6, <3>3 DEF MessageInv
      <3> QED BY <3>2, <3>3
    <2>2. main = "reading" /\ log'[turn].endedBy = turn /\ socket = "open" /\ ~log'[turn].late =>
             MessagesOf(turn) \subseteq log'[turn].collected
      <3>1. CASE turn = t
        BY <1>7, <1>9, <3>1
      <3>2. CASE turn # t
        BY <1>1, <1>6, <3>2 DEF MessageInv
      <3> QED BY <3>1, <3>2
    <2> QED BY <1>1, <1>7, <1>8, <1>11, <2>1, <2>2 DEF MessageInv
  <1>13. EndInv'
    <2>1. \A s \in 1..Turns : run[s] = "over" => run'[s] = "over"
      BY <1>2
    <2>2. \A e \in 1..Turns : FailedBy(log, e) => FailedBy(log', e)
      <3>1. TAKE e \in 1..Turns
      <3>2. \A k \in 1..e : k \in 1..Turns
        BY Basics
      <3> QED BY <1>7, <3>2 DEF FailedBy
    <2>3. ASSUME NEW i \in 1..Len(queue'.chat)
          PROVE  /\ queue'.chat[i] <= turn /\ run'[queue'.chat[i]] = "over"
                 /\ queue'.chat[i] < turn => FailedBy(log', queue'.chat[i])
      <3>1. CASE i \in 1..Len(queue.chat) /\ queue'.chat[i] = queue.chat[i]
        <4>1. queue.chat[i] \in 1..Turns
          BY <1>1, <3>1, ElementIn
        <4> QED BY <1>1, <2>1, <2>2, <3>1, <4>1 DEF EndInv
      <3>2. CASE queue'.chat[i] = t /\ socket = "open"
        BY <1>2, <1>9, <2>2, <3>2
      <3>3. CASE queue'.chat = queue.chat
        BY <3>1, <3>3
      <3>4. CASE socket = "open" /\ queue'.chat = Append(queue.chat, t)
        <4>1. (i \in 1..Len(queue.chat) /\ queue'.chat[i] = queue.chat[i]) \/ queue'.chat[i] = t
          BY <1>1, <3>4
        <4> QED BY <3>1, <3>2, <3>4, <4>1
      <3> QED BY <1>8, <3>3, <3>4
    <2>4. ASSUME NEW s \in 1..Turns
          PROVE  /\ log'[s].endedBy <= s
                 /\ log'[s].endedBy = s => run'[s] = "over"
                 /\ log'[s].endedBy \in 1..(s - 1) => FailedBy(log', log'[s].endedBy)
                 /\ s < turn /\ run'[s] = "running" /\ socket = "open" => FailedBy(log', s)
      <3>1. log[s].endedBy \in 1..(s - 1) => log[s].endedBy \in 1..Turns
        BY Basics
      <3>2. run'[s] = "running" => run[s] = "running"
        BY <1>2
      <3> QED BY <1>1, <1>7, <2>1, <2>2, <3>1, <3>2 DEF EndInv
    <2>5. run[turn] = "over" => run'[turn] = "over"
      BY <1>1, <2>1
    <2>6. /\ main \in {"aborting", "drain", "reading"} =>
               log'[turn].abortSent \/ socket # "open" \/ run'[turn] = "over" \/ log'[turn].endedBy \in 1..(turn - 1)
          /\ main \in {"drain", "reading"} =>
               log'[turn].abortFailed \/ socket # "open" \/ run'[turn] = "over" \/ log'[turn].endedBy \in 1..(turn - 1)
      BY <1>1, <1>7, <2>5 DEF EndInv
    <2> QED BY <2>3, <2>4, <2>6 DEF EndInv
  <1>14. TurnIsComplete'
    <2>1. ASSUME NEW s \in 1..Turns, log'[s].state = "returned", log'[s].endedBy = s,
                 log'[s].heard \/ (~log'[s].late /\ socket = "open")
          PROVE  MessagesOf(s) \subseteq log'[s].transcript
      <3>1. s # t
        BY <1>7, <1>9, <2>1
      <3> QED BY <1>1, <1>6, <2>1, <3>1 DEF TurnIsComplete
    <2> QED BY <1>11, <2>1 DEF TurnIsComplete
  <1>15. RunIsNotLeftBehind'
    <2>1. \A s \in 1..Turns : run'[s] = "running" => run[s] = "running"
      BY <1>2
    <2> QED BY <1>1, <1>7, <2>1 DEF RunIsNotLeftBehind
  <1> QED BY <1>2, <1>6, <1>7, <1>8, <1>10, <1>12, <1>13, <1>14, <1>15 DEF World

\* An answer: the call it reaches, the run and the events.
AnswerFrame(r) ==
    /\ socket = "open" /\ inHand' = inHand \ {r}
    /\ UNCHANGED <<main, attempt, setup, turn, socket, listener, made, unsent>>

\* The answers the gateway gives.
LEMMA FrameFacts ==
  ASSUME Inv, NEW r \in inHand
  PROVE  /\ \E f \in Frames : f = Response(r.id, FALSE, FALSE, {}) /\ f.id = r.id /\ f.ok = FALSE
         /\ \E f \in Frames : f = Response(r.id, TRUE, TRUE, {}) /\ f.id = r.id
         /\ \E f \in Frames : f = Response(r.id, FALSE, TRUE, {}) /\ f.id = r.id
         /\ \E f \in Frames : f = Response(r.id, TRUE, FALSE, {}) /\ f.id = r.id /\ f.good = FALSE
         /\ \E f \in Frames : f = Response(r.id, TRUE, TRUE, History) /\ f.id = r.id /\ f.messages = History
  <1>1. r.id \in Ids /\ {} \in SUBSET Message
    BY Basics DEF Requests
  <1>2. History \in SUBSET Message
    BY TypeFacts, Basics DEF History, MessagesOf, Message
  <1>3. PICK i \in Ids : i = r.id
    BY <1>1
  <1>4. PICK H \in SUBSET Message : H = History
    BY <1>2
  <1>5. /\ Response(i, FALSE, FALSE, {}) \in Frames /\ Response(i, TRUE, TRUE, {}) \in Frames
        /\ Response(i, FALSE, TRUE, {}) \in Frames /\ Response(i, FALSE, TRUE, {}).id = i
        /\ Response(i, TRUE, FALSE, {}) \in Frames /\ Response(i, TRUE, TRUE, H) \in Frames
    BY <1>1 DEF Response, Frames
  <1>6. /\ Response(i, FALSE, FALSE, {}).id = i /\ Response(i, FALSE, FALSE, {}).ok = FALSE
        /\ Response(i, TRUE, TRUE, {}).id = i
        /\ Response(i, TRUE, FALSE, {}).id = i /\ Response(i, TRUE, FALSE, {}).good = FALSE
        /\ Response(i, TRUE, TRUE, H).id = i /\ Response(i, TRUE, TRUE, H).messages = H
    BY DEF Response
  <1> QED BY <1>3, <1>4, <1>5, <1>6

\* An answer, put together.
LEMMA AnsweredStep ==
  ASSUME Inv, NEW r \in inHand, AnswerFrame(r), NEW f \in Frames, f.id = r.id, Deliver(f),
         RunMoves(r), Truthful(r, f), World', faults' \in 0..MaxFaults,
         run' \in [1..Turns -> {"none", "running", "over"}], log' \in [1..Turns -> Notes],
         queue' \in [challenge : Seq(Nat), open : BOOLEAN, chat : Seq(1..Turns), messages : SUBSET Message],
         \A t \in 1..Turns : log'[t].collected = log[t].collected /\ log'[t].endedBy = log[t].endedBy
  PROVE  Inv'
  <1>1. call' \in [Callers -> Calls] /\ pending' \subseteq Ids /\ Reaches(r, f)
    BY DeliverFacts
  <1>2. TypeOK'
    <2>1. TypeOK
      BY DEF Inv
    <2>2. inHand' \subseteq Requests
      BY Basics DEF AnswerFrame
    <2> QED BY <1>1, <2>1, <2>2 DEF AnswerFrame, TypeOK
  <1>3. RequestInv'
    BY <1>1, AnsweredRequests DEF AnswerFrame
  <1>4. AnswerInv'
    BY <1>1, AnsweredAnswers DEF AnswerFrame
  <1> QED BY <1>2, <1>3, <1>4, QuietStep

\* An answer that leaves the runs and the events as they are.
LEMMA PlainAnswer ==
  ASSUME Inv, NEW r \in inHand, AnswerFrame(r), NEW f \in Frames, f.id = r.id, Deliver(f),
         UNCHANGED <<queue, run, log>>, Truthful(r, f), faults' \in 0..MaxFaults
  PROVE  Inv'
  <1>1. RunMoves(r)
    BY DEF RunMoves
  <1>2. World'
    BY SameWorld DEF AnswerFrame
  <1> QED BY <1>1, <1>2, AnsweredStep, TypeFacts, Basics

\* Faults are counted up to their bound.
LEMMA FaultFacts ==
  ASSUME Inv, Fine \/ Fault PROVE faults' \in 0..MaxFaults
  BY TypeFacts, Basics DEF Fine, Fault

\* A refusal.
LEMMA RefuseStep ==
  ASSUME Inv, NEW r \in inHand, AnswerFrame(r), Refuse(r) PROVE Inv'
  <1>1. PICK f \in Frames : f = Response(r.id, FALSE, FALSE, {}) /\ f.id = r.id /\ f.ok = FALSE
    BY FrameFacts
  <1>2. Deliver(f) /\ UNCHANGED <<queue, run, log>> /\ faults' \in 0..MaxFaults
    BY <1>1, FaultFacts DEF Refuse, Reply
  <1>3. Truthful(r, f)
    BY <1>1 DEF Truthful
  <1> QED BY <1>1, <1>2, <1>3, PlainAnswer

\* A challenge, and the answer to connect.
LEMMA GreetStep ==
  ASSUME Inv, NEW r \in inHand, AnswerFrame(r), Greet(r) PROVE Inv'
  <1>1. CASE r.method = "challenge" /\ Fine /\ EnqueueChallenge(r.of) /\ UNCHANGED <<call, pending, run, log>>
    <2>1. r.of \in Nat
      BY Basics DEF Requests
    <2>2. queue \in [challenge : Seq(Nat), open : BOOLEAN, chat : Seq(1..Turns), messages : SUBSET Message]
      BY TypeFacts
    <2>3. queue' = [queue EXCEPT !.challenge = Append(queue.challenge, r.of)]
      BY <1>1 DEF EnqueueChallenge
    <2>4. Append(queue.challenge, r.of) \in Seq(Nat)
      BY <2>1, <2>2
    <2>5. /\ queue' \in [challenge : Seq(Nat), open : BOOLEAN, chat : Seq(1..Turns), messages : SUBSET Message]
          /\ queue'.open = queue.open /\ queue'.chat = queue.chat /\ queue'.messages = queue.messages
      BY <2>2, <2>3, <2>4
    <2>6. World'
      BY <1>1, <2>5, SameWorld DEF AnswerFrame
    <2>7. PICK f \in Frames : f.ok = FALSE
      BY FrameFacts
    <2>8. Reaches(r, f) /\ RunMoves(r) /\ Truthful(r, f)
      BY <1>1, <2>7 DEF Reaches, RunMoves, Truthful
    <2>9. RequestInv' /\ AnswerInv'
      BY <1>1, <2>8, AnsweredRequests, AnsweredAnswers DEF AnswerFrame
    <2>10. TypeOK'
      <3>1. TypeOK
        BY DEF Inv
      <3>2. inHand' \subseteq Requests /\ faults' \in 0..MaxFaults
        BY <1>1, Basics, FaultFacts DEF AnswerFrame
      <3> QED BY <1>1, <2>5, <3>1, <3>2 DEF AnswerFrame, TypeOK
    <2> QED BY <2>6, <2>9, <2>10, QuietStep
  <1>2. CASE /\ r.method = "connect" /\ UNCHANGED <<queue, run, log>>
             /\ \/ Fine /\ Reply(r, r.of = attempt, TRUE)
                \/ Fault /\ Reply(r, TRUE, FALSE)
    <2>1. Deliver(Response(r.id, TRUE, TRUE, {})) \/ Deliver(Response(r.id, FALSE, TRUE, {})) \/ Deliver(Response(r.id, TRUE, FALSE, {}))
      BY <1>2 DEF Reply
    <2>2. PICK f \in Frames : Deliver(f) /\ f.id = r.id
      BY <2>1, FrameFacts
    <2>3. Truthful(r, f)
      BY <1>2 DEF Truthful
    <2>4. Deliver(f) /\ faults' \in 0..MaxFaults
      BY <1>2, <2>2, FaultFacts
    <2> QED BY <1>2, <2>2, <2>3, <2>4, PlainAnswer
  <1> QED BY <1>1, <1>2 DEF Greet

\* A request is served.
LEMMA ServeStep ==
  ASSUME Inv, NEW r \in inHand, AnswerFrame(r), Serve(r) PROVE Inv'
  <1>0. /\ r \in Requests /\ RequestInv /\ turn \in 1..Turns /\ log \in [1..Turns -> Notes]
        /\ run \in [1..Turns -> {"none", "running", "over"}]
    BY Basics, TypeFacts DEF Inv
  <1>1. CASE /\ r.method \in {SetupCalls[i] : i \in 1..Len(SetupCalls)} /\ Fine
             /\ Reply(r, TRUE, TRUE) /\ UNCHANGED <<queue, run, log>>
    <2>1. PICK f \in Frames : f = Response(r.id, TRUE, TRUE, {}) /\ f.id = r.id
      BY FrameFacts
    <2>2. Truthful(r, f)
      BY <1>1 DEF Truthful, SetupCalls
    <2>3. Deliver(f) /\ faults' \in 0..MaxFaults
      BY <1>1, <2>1, FaultFacts DEF Reply
    <2> QED BY <1>1, <2>1, <2>2, <2>3, PlainAnswer
  <1>2. CASE /\ r.method = "sessions.send" /\ Fine /\ run' = [run EXCEPT ![r.of] = "running"]
             /\ Reply(r, TRUE, TRUE) /\ UNCHANGED <<queue, log>>
    <2>1. r.of = turn /\ run[turn] = "none" /\ main \in {"sending", "closing"}
      BY <1>0, <1>2 DEF RequestInv
    <2>2. PICK f \in Frames : f = Response(r.id, TRUE, TRUE, {}) /\ f.id = r.id
      BY FrameFacts
    <2>3. /\ run' \in [1..Turns -> {"none", "running", "over"}] /\ run'[turn] = "running"
          /\ \A t \in 1..Turns \ {turn} : run'[t] = run[t]
      BY <1>0, <1>2, <2>1
    <2>4. Truthful(r, f) /\ RunMoves(r)
      BY <1>2, <2>1, <2>3 DEF Truthful, RunMoves
    <2>5. Deliver(f) /\ faults' \in 0..MaxFaults
      BY <1>2, <2>2, FaultFacts DEF Reply
    <2>6. World'
      BY <1>2, <2>1, RunStarts DEF AnswerFrame
    <2>7. queue' \in [challenge : Seq(Nat), open : BOOLEAN, chat : Seq(1..Turns), messages : SUBSET Message]
      BY <1>2, TypeFacts
    <2> QED BY <1>0, <1>2, <2>2, <2>3, <2>4, <2>5, <2>6, <2>7, AnsweredStep
  <1>3. CASE /\ r.method = "agent.wait" /\ UNCHANGED <<queue, run, log>>
             /\ \/ run[r.of] = "over" /\ Fine /\ Reply(r, TRUE, TRUE)
                \/ run[r.of] # "over" /\ Fault /\ Reply(r, TRUE, FALSE)
    <2>1. (Deliver(Response(r.id, TRUE, TRUE, {})) /\ run[r.of] = "over") \/ Deliver(Response(r.id, TRUE, FALSE, {}))
      BY <1>3 DEF Reply
    <2>2. PICK f \in Frames : Deliver(f) /\ f.id = r.id /\ (f.good => run[r.of] = "over")
      BY <2>1, FrameFacts
    <2>3. Truthful(r, f)
      BY <1>3, <2>1, <2>2 DEF Truthful
    <2>4. Deliver(f) /\ faults' \in 0..MaxFaults
      BY <1>3, <2>2, FaultFacts
    <2> QED BY <1>3, <2>2, <2>3, <2>4, PlainAnswer
  <1>4. CASE /\ r.method = "sessions.abort" /\ Fine /\ Reply(r, TRUE, TRUE)
             /\ IF run[r.of] = "running" THEN Ends(r.of) /\ NoteEnd(r.of) /\ EnqueueChat(r.of) ELSE UNCHANGED <<queue, run, log>>
    <2>1. r.of \in 1..turn /\ r.of \in 1..Turns
      BY <1>0, <1>4, Basics DEF RequestInv
    <2>2. PICK f \in Frames : f = Response(r.id, TRUE, TRUE, {}) /\ f.id = r.id
      BY FrameFacts
    <2>3. Deliver(f) /\ faults' \in 0..MaxFaults
      BY <1>4, <2>2, FaultFacts DEF Reply
    <2>4. CASE run[r.of] = "running" /\ Ends(r.of) /\ NoteEnd(r.of) /\ EnqueueChat(r.of)
      <3>1. /\ World'
            /\ run' \in [1..Turns -> {"none", "running", "over"}] /\ log' \in [1..Turns -> Notes]
            /\ queue' \in [challenge : Seq(Nat), open : BOOLEAN, chat : Seq(1..Turns), messages : SUBSET Message]
            /\ run'[r.of] = "over" /\ \A s \in 1..Turns \ {r.of} : run'[s] = run[s]
            /\ \A s \in 1..Turns : log'[s].collected = log[s].collected /\ log'[s].endedBy = log[s].endedBy
        BY <2>1, <2>4, RunEnds DEF AnswerFrame
      <3>2. RunMoves(r) /\ Truthful(r, f)
        BY <1>4, <2>4, <3>1 DEF RunMoves, Truthful
      <3> QED BY <2>2, <2>3, <3>1, <3>2, AnsweredStep
    <2>5. CASE run[r.of] # "running" /\ UNCHANGED <<queue, run, log>>
      <3>1. Truthful(r, f)
        BY <1>0, <1>4, <2>1, <2>5 DEF Truthful
      <3> QED BY <2>2, <2>3, <2>5, <3>1, PlainAnswer
    <2> QED BY <1>4, <2>4, <2>5
  <1>5. CASE /\ r.method = "sessions.get" /\ Fine /\ Deliver(Response(r.id, TRUE, TRUE, History))
             /\ UNCHANGED <<queue, run, log>>
    <2>2. PICK f \in Frames : f = Response(r.id, TRUE, TRUE, History) /\ f.id = r.id /\ f.messages = History
      BY FrameFacts
    <2>3. Truthful(r, f)
      BY <1>5, <2>2 DEF Truthful
    <2>4. Deliver(f) /\ faults' \in 0..MaxFaults
      BY <1>5, <2>2, FaultFacts
    <2> QED BY <1>5, <2>2, <2>3, <2>4, PlainAnswer
  <1> QED BY <1>1, <1>2, <1>3, <1>4, <1>5 DEF Serve

\* Whatever the gateway answers.
LEMMA AnswerStep ==
  ASSUME Inv, NEW r \in inHand, Answer(r) PROVE Inv'
  <1>1. AnswerFrame(r) /\ (Refuse(r) \/ Greet(r) \/ Serve(r))
    BY DEF Answer, AnswerFrame
  <1> QED BY <1>1, RefuseStep, GreetStep, ServeStep

-----------------------------------------------------------------------------
\* Steps of the gateway that reach no call.
LEMMA NoCall ==
  ASSUME Inv, UNCHANGED <<main, attempt, setup, turn, call, pending, socket, listener>>, inHand' \subseteq inHand,
         \A t \in 1..Turns : run'[t] = run[t] \/ (run[t] = "running" /\ run'[t] = "over"),
         main = "reading" /\ log'[turn].endedBy = turn => made'[turn] = made[turn],
         \A t \in 1..Turns : log'[t].collected = log[t].collected /\ log'[t].endedBy = log[t].endedBy
  PROVE  RequestInv' /\ AnswerInv'
  <1>1. RequestInv /\ AnswerInv /\ turn \in 1..Turns
    BY Basics DEF Inv
  <1>2. /\ run[turn] # "none" => run'[turn] # "none"
        /\ run[turn] = "over" => run'[turn] = "over"
        /\ run[turn] = "none" => run'[turn] = "none"
    BY <1>1
  <1>4. RequestInv'
    <2>1. Id("main")' = Id("main") /\ Id("waiter")' = Id("waiter")
      BY DEF Id
    <2> QED BY <1>1, <1>2, <2>1 DEF RequestInv
  <1>5. log'[turn].collected = log[turn].collected /\ log'[turn].endedBy = log[turn].endedBy
    BY <1>1
  <1>6. AnswerInv'
    <2>1. Succeeds("main")' = Succeeds("main") /\ Succeeds("waiter")' = Succeeds("waiter")
      BY DEF Succeeds, Answered
    <2>2. main = "reading" /\ log[turn].endedBy = turn => MessagesOf(turn)' = MessagesOf(turn)
      BY <1>5 DEF MessagesOf
    <2> QED BY <1>1, <1>2, <1>5, <2>1, <2>2 DEF AnswerInv
  <1> QED BY <1>4, <1>6

\* A run ends by itself.
LEMMA EndRunStep ==
  ASSUME Inv, NEW t \in 1..Turns, EndRun(t) PROVE Inv'
  <1>1. /\ run[t] = "running" /\ Ends(t) /\ NoteEnd(t)
        /\ IF socket = "open" THEN EnqueueChat(t) ELSE UNCHANGED queue
        /\ UNCHANGED <<main, attempt, setup, turn, call, pending, socket, listener, inHand, made, unsent, faults>>
    BY DEF EndRun, runKept
  <1>2. /\ World'
        /\ run' \in [1..Turns -> {"none", "running", "over"}] /\ log' \in [1..Turns -> Notes]
        /\ queue' \in [challenge : Seq(Nat), open : BOOLEAN, chat : Seq(1..Turns), messages : SUBSET Message]
        /\ run'[t] = "over" /\ \A s \in 1..Turns \ {t} : run'[s] = run[s]
        /\ \A s \in 1..Turns : log'[s].collected = log[s].collected /\ log'[s].endedBy = log[s].endedBy
    BY <1>1, RunEnds
  <1>3. TypeOK'
    <2>1. TypeOK
      BY DEF Inv
    <2> QED BY <1>1, <1>2, <2>1 DEF TypeOK
  <1>4. RequestInv' /\ AnswerInv'
    BY <1>1, <1>2, NoCall
  <1> QED BY <1>2, <1>3, <1>4, QuietStep

\* The messages of the queue, after one more of them came or none.
LEMMA EmitFacts ==
  ASSUME Inv, NEW m \in Message, Emit(m)
  PROVE  /\ queue' \in [challenge : Seq(Nat), open : BOOLEAN, chat : Seq(1..Turns), messages : SUBSET Message]
         /\ queue'.open = queue.open /\ queue'.chat = queue.chat
         /\ queue'.messages \subseteq queue.messages \cup {m} /\ queue.messages \subseteq queue'.messages
         /\ socket = "open" /\ queue.open => m \in queue'.messages
  <1>1. queue \in [challenge : Seq(Nat), open : BOOLEAN, chat : Seq(1..Turns), messages : SUBSET Message]
    BY TypeFacts
  <1>2. CASE socket = "open" /\ queue.open /\ queue' = [queue EXCEPT !.messages = queue.messages \cup {m}]
    BY <1>1, <1>2
  <1>3. CASE ~(socket = "open" /\ queue.open) /\ queue' = queue
    BY <1>1, <1>3
  <1> QED BY <1>2, <1>3 DEF Emit, EnqueueMessage

\* An event comes late, or finds no queue.
LEMMA EmitLateStep ==
  ASSUME Inv, NEW m \in unsent, EmitLate(m) PROVE Inv'
  <1>1. /\ unsent' = unsent \ {m} /\ Emit(m)
        /\ UNCHANGED <<main, attempt, setup, turn, call, pending, socket, listener, inHand, run, made, log, faults>>
    BY DEF EmitLate, runKept
  <1>2. m \in Message /\ m \in History
    BY TypeFacts DEF Inv, MessageInv
  <1>3. /\ queue' \in [challenge : Seq(Nat), open : BOOLEAN, chat : Seq(1..Turns), messages : SUBSET Message]
        /\ queue'.open = queue.open /\ queue'.chat = queue.chat
        /\ queue'.messages \subseteq queue.messages \cup {m} /\ queue.messages \subseteq queue'.messages
        /\ socket = "open" /\ queue.open => m \in queue'.messages
    BY <1>1, <1>2, EmitFacts
  <1>4. PhaseInv /\ MessageInv /\ EndInv /\ TurnIsComplete /\ RunIsNotLeftBehind /\ TypeOK
    BY DEF Inv
  <1>5. TypeOK'
    BY <1>1, <1>3, <1>4 DEF TypeOK
  <1>6. History' = History /\ MessagesOf(turn)' = MessagesOf(turn) /\ \A t \in 1..Turns : MessagesOf(t)' = MessagesOf(t)
    BY <1>1 DEF History, MessagesOf
  <1>7. MessageInv'
    <2>1. main \in InTurn => queue.open
      BY <1>4 DEF PhaseInv
    <2>2. main \in InTurn /\ socket = "open" => MessagesOf(turn) \subseteq log[turn].collected \cup queue'.messages \cup unsent'
      BY <1>1, <1>3, <1>4, <2>1 DEF MessageInv
    <2> QED BY <1>1, <1>2, <1>3, <1>4, <1>6, <2>2 DEF MessageInv
  <1>8. World'
    <2>1. PhaseInv'
      BY <1>1, <1>3, <1>4 DEF PhaseInv
    <2>2. EndInv'
      BY <1>1, <1>3, <1>4 DEF EndInv
    <2>3. TurnIsComplete'
      BY <1>1, <1>4, <1>6 DEF TurnIsComplete
    <2>4. RunIsNotLeftBehind'
      BY <1>1, <1>4 DEF RunIsNotLeftBehind
    <2> QED BY <1>7, <2>1, <2>2, <2>3, <2>4 DEF World
  <1>9. RequestInv' /\ AnswerInv'
    BY <1>1, NoCall
  <1> QED BY <1>5, <1>8, <1>9, QuietStep

\* A run has one more message.
LEMMA ProduceStep ==
  ASSUME Inv, NEW t \in 1..Turns, Produce(t) PROVE Inv'
  <1> DEFINE k0 == made[t] + 1
             m0 == <<t, k0>>
  <1>1. /\ run[t] = "running" /\ made[t] < MaxMessages /\ made' = [made EXCEPT ![t] = made[t] + 1]
        /\ UNCHANGED <<main, attempt, setup, turn, call, pending, socket, listener, inHand, run, log>>
    BY DEF Produce, runKept
  <1>2. /\ PhaseInv /\ MessageInv /\ EndInv /\ TurnIsComplete /\ RunIsNotLeftBehind /\ TypeOK
        /\ turn \in 1..Turns /\ turn \in Nat /\ MaxMessages \in Nat
        /\ made \in [1..Turns -> 0..MaxMessages] /\ made[t] \in 0..MaxMessages
    BY Basics, TypeFacts DEF Inv
  <1>3. /\ made' \in [1..Turns -> 0..MaxMessages] /\ made'[t] = k0 /\ \A s \in 1..Turns \ {t} : made'[s] = made[s]
        /\ k0 \in 1..MaxMessages
    BY <1>1, <1>2
  <1>4. PICK m \in Message : m = m0
    BY <1>3 DEF Message
  <1>5. \/ Emit(m) /\ unsent' = unsent /\ Fine
        \/ unsent' = unsent \cup {m} /\ queue' = queue /\ Fault
    BY <1>3, <1>4 DEF Produce
  <1>6. faults' \in 0..MaxFaults
    BY <1>5, FaultFacts
  <1>7. /\ queue' \in [challenge : Seq(Nat), open : BOOLEAN, chat : Seq(1..Turns), messages : SUBSET Message]
        /\ queue'.open = queue.open /\ queue'.chat = queue.chat
        /\ queue'.messages \subseteq queue.messages \cup {m} /\ queue.messages \subseteq queue'.messages
        /\ unsent \subseteq unsent' /\ unsent' \subseteq unsent \cup {m}
        /\ socket = "open" /\ queue.open => m \in queue'.messages \cup unsent'
    <2>1. CASE Emit(m) /\ unsent' = unsent
      BY <2>1, EmitFacts
    <2>2. CASE unsent' = unsent \cup {m} /\ queue' = queue
      BY <2>2, TypeFacts
    <2> QED BY <1>5, <2>1, <2>2
  <1>8. TypeOK'
    BY <1>1, <1>2, <1>3, <1>6, <1>7 DEF TypeOK
  <1>9. log[t].endedBy # t /\ t <= turn
    BY <1>1, <1>2 DEF PhaseInv, EndInv
  <1>10. /\ MessagesOf(t)' = MessagesOf(t) \cup {m}
         /\ \A s \in 1..Turns \ {t} : MessagesOf(s)' = MessagesOf(s)
    <2>1. MessagesOf(t)' = {t} \X (1..k0) /\ MessagesOf(t) = {t} \X (1..made[t])
      BY <1>3 DEF MessagesOf
    <2>2. 1..k0 = (1..made[t]) \cup {k0}
      BY <1>2
    <2> QED BY <1>3, <1>4, <2>1, <2>2 DEF MessagesOf
  <1> HIDE DEF k0, m0
  <1>11. History \subseteq History' /\ m \in History'
    <2>1. History' = UNION {MessagesOf(s)' : s \in 1..Turns}
      BY DEF History
    <2>2. \A s \in 1..Turns : MessagesOf(s) \subseteq MessagesOf(s)'
      BY <1>10
    <2> HIDE DEF MessagesOf
    <2> QED BY <1>10, <2>1, <2>2 DEF History
  <1>12. PhaseInv'
    <2>1. \A s \in 1..Turns : run[s] = "none" => made'[s] = 0
      BY <1>1, <1>2, <1>3 DEF PhaseInv
    <2> QED BY <1>1, <1>2, <1>7, <2>1 DEF PhaseInv
  <1>13. MessageInv'
    <2>1. queue'.messages \subseteq History' /\ unsent' \subseteq History'
      BY <1>2, <1>7, <1>11 DEF MessageInv
    <2>2. \A s \in 1..Turns : log[s].collected \subseteq History'
      BY <1>2, <1>11 DEF MessageInv
    <2>3. ASSUME main \in InTurn, socket = "open"
          PROVE  MessagesOf(turn)' \subseteq log[turn].collected \cup queue'.messages \cup unsent'
      <3>1. queue.open
        BY <1>2, <2>3 DEF PhaseInv
      <3>2. MessagesOf(turn) \subseteq log[turn].collected \cup queue'.messages \cup unsent'
        BY <1>2, <1>7, <2>3 DEF MessageInv
      <3>3. MessagesOf(turn)' \subseteq MessagesOf(turn) \cup {m}
        <4>1. turn' = turn
          BY <1>1
        <4>2. CASE turn = t
          BY <1>10, <4>1, <4>2 DEF MessagesOf
        <4>3. CASE turn # t
          BY <1>2, <1>3, <4>1, <4>3 DEF MessagesOf
        <4> QED BY <4>2, <4>3
      <3> QED BY <1>7, <2>3, <3>1, <3>2, <3>3
    <2>4. \A s \in 1..Turns : run[s] = "over" /\ ~log[s].late => \A k \in 1..MaxMessages : <<s, k>> \notin unsent'
      <3>1. \A s \in 1..Turns, k \in 1..MaxMessages : run[s] = "over" => <<s, k>> # m
        BY <1>1, <1>4 DEF m0
      <3> QED BY <1>2, <1>7, <3>1 DEF MessageInv
    <2>5. ASSUME main = "reading", log[turn].endedBy = turn, socket = "open", ~log[turn].late
          PROVE  MessagesOf(turn)' \subseteq log[turn].collected
      <3>1. turn # t /\ made'[turn] = made[turn] /\ turn' = turn
        BY <1>1, <1>2, <1>3, <1>9, <2>5
      <3>2. MessagesOf(turn)' = MessagesOf(turn)
        BY <3>1 DEF MessagesOf
      <3> QED BY <1>2, <2>5, <3>2 DEF MessageInv
    <2> QED BY <1>1, <2>1, <2>2, <2>3, <2>4, <2>5 DEF MessageInv
  <1>14. EndInv'
    BY <1>1, <1>2, <1>7 DEF EndInv
  <1>15. TurnIsComplete'
    BY <1>1, <1>2, <1>9, <1>10 DEF TurnIsComplete
  <1>16. RunIsNotLeftBehind'
    BY <1>1, <1>2 DEF RunIsNotLeftBehind
  <1>17. RequestInv' /\ AnswerInv'
    <2>1. log[turn].endedBy = turn => made'[turn] = made[turn]
      BY <1>2, <1>3, <1>9
    <2> QED BY <1>1, <2>1, NoCall
  <1> QED BY <1>8, <1>12, <1>13, <1>14, <1>15, <1>16, <1>17 DEF Inv

\* The socket closes.
LEMMA LoseSocketStep ==
  ASSUME Inv, LoseSocket PROVE Inv'
  <1>1. /\ socket' = "lost" /\ listener' = "done" /\ inHand' = {} /\ Fault
        /\ UNCHANGED <<main, attempt, setup, turn, call, pending, queue, log, run, made, unsent>>
    BY DEF LoseSocket, clientVars
  <1>2. /\ PhaseInv /\ MessageInv /\ EndInv /\ TurnIsComplete /\ RunIsNotLeftBehind /\ TypeOK /\ AnswerInv
    BY DEF Inv
  <1>3. faults' \in 0..MaxFaults
    BY <1>1, FaultFacts
  <1>4. TypeOK'
    BY <1>1, <1>2, <1>3 DEF TypeOK
  <1>5. History' = History /\ MessagesOf(turn)' = MessagesOf(turn) /\ \A t \in 1..Turns : MessagesOf(t)' = MessagesOf(t)
    BY <1>1 DEF History, MessagesOf
  <1>6. PhaseInv'
    BY <1>1, <1>2 DEF PhaseInv
  <1>7. MessageInv'
    BY <1>1, <1>2, <1>5 DEF MessageInv
  <1>8. EndInv'
    BY <1>1, <1>2 DEF EndInv
  <1>9. TurnIsComplete'
    BY <1>1, <1>2, <1>5 DEF TurnIsComplete
  <1>10. RunIsNotLeftBehind'
    BY <1>1, <1>2 DEF RunIsNotLeftBehind
  <1>11. RequestInv'
    BY <1>1 DEF RequestInv
  <1>12. AnswerInv'
    <2>1. Succeeds("main")' = Succeeds("main") /\ Succeeds("waiter")' = Succeeds("waiter")
      BY <1>1 DEF Succeeds, Answered
    <2> QED BY <1>1, <1>2, <1>5, <2>1 DEF AnswerInv
  <1> QED BY <1>4, <1>6, <1>7, <1>8, <1>9, <1>10, <1>11, <1>12 DEF Inv

-----------------------------------------------------------------------------
\* It holds at the start.
LEMMA InitInv ==
  ASSUME Init PROVE Inv
  <1>1. /\ 1 \in 1..Turns /\ Turns \in Nat /\ 0 \in 0..MaxAttempts /\ 0 < MaxAttempts /\ 0 \in 0..MaxFaults
        /\ 0 \in 0..MaxMessages /\ Len(SetupCalls) = 3 /\ 0 \in 0..3
    BY TurnsAssumption, MaxAttemptsAssumption, MaxFaultsAssumption, MaxMessagesAssumption DEF SetupCalls
  <1>2. Call(0, "idle", NoAnswer) \in Calls /\ Call(0, "idle", NoAnswer).state = "idle"
    BY DEF Call, Calls, NoAnswer, Response, Ids, Callers
  <1>3. PICK x \in Calls : x = Call(0, "idle", NoAnswer) /\ x.state = "idle"
    BY <1>2
  <1> DEFINE n0 == [state |-> "ahead", endedBy |-> 0, abortSent |-> FALSE, collected |-> {},
                    heard |-> FALSE, abortFailed |-> FALSE, late |-> FALSE, transcript |-> {}]
  <1>4. 0 \in 0..Turns /\ {} \in SUBSET Message
    BY <1>1
  <1>5. n0 \in Notes
    BY <1>4 DEF Notes
  <1>6. n0.state = "ahead" /\ n0.endedBy = 0 /\ n0.collected = {}
    OBVIOUS
  <1>7. log = [t \in 1..Turns |-> n0]
    BY DEF Init
  <1> HIDE DEF n0
  <1>8. log \in [1..Turns -> Notes] /\ \A t \in 1..Turns : log[t] = n0
    BY <1>5, <1>7
  <1>9. call \in [Callers -> Calls] /\ \A c \in Callers : call[c].state = "idle"
    BY <1>3 DEF Init
  <1>10. queue \in [challenge : Seq(Nat), open : BOOLEAN, chat : Seq(1..Turns), messages : SUBSET Message]
    <2>1. <<>> \in Seq(Nat) /\ <<>> \in Seq(1..Turns)
      OBVIOUS
    <2> QED BY <1>4, <2>1 DEF Init
  <1>11. /\ queue.chat = <<>> /\ queue.messages = {}
    BY DEF Init
  <1>12. TypeOK
    <2>1. made \in [1..Turns -> 0..MaxMessages] /\ run \in [1..Turns -> {"none", "running", "over"}]
      BY <1>1 DEF Init
    <2> QED BY <1>1, <1>8, <1>9, <1>10, <2>1 DEF Init, TypeOK, MainStates
  <1>13. \A t \in 1..Turns : run[t] = "none" /\ made[t] = 0 /\ log[t].state = "ahead" /\ log[t].endedBy = 0
                             /\ log[t].collected = {}
    BY <1>6, <1>8 DEF Init
  <1>14. main = "connecting" /\ turn = 1 /\ attempt = 0 /\ setup = 0 /\ inHand = {} /\ unsent = {}
    BY DEF Init
  <1>15. PhaseInv
    BY <1>1, <1>13, <1>14 DEF PhaseInv, InTurn, Taken, Early
  <1>16. RequestInv /\ AnswerInv
    BY <1>14 DEF RequestInv, AnswerInv
  <1>17. MessageInv
    BY <1>11, <1>13, <1>14 DEF MessageInv, InTurn
  <1>18. EndInv
    BY <1>1, <1>11, <1>13, <1>14 DEF EndInv
  <1>19. TurnIsComplete /\ RunIsNotLeftBehind
    BY <1>13 DEF TurnIsComplete, RunIsNotLeftBehind
  <1> QED BY <1>12, <1>15, <1>16, <1>17, <1>18, <1>19 DEF Inv

\* Nothing happens.
LEMMA StutterInv ==
  ASSUME Inv, UNCHANGED vars PROVE Inv'
  <1>1. UNCHANGED <<main, attempt, setup, turn, call, pending, queue, log, socket, listener, inHand, run, made, unsent, faults>>
    BY DEF vars, clientVars
  <1>2. TypeOK'
    BY <1>1 DEF Inv, TypeOK
  <1>3. World'
    BY <1>1, SameWorld
  <1>4. RequestInv' /\ AnswerInv'
    BY <1>1, NoCall
  <1> QED BY <1>2, <1>3, <1>4, QuietStep

\* The steps of the client.
LEMMA ClientStep ==
  ASSUME Inv, Client PROVE Inv'
  <1>1. CASE Connecting
    BY <1>1, OpenSocketStep, OpenFailsStep, TakeChallengeStep, ChallengeTimesOutStep, GreetedStep, DisconnectStep
       DEF Connecting
  <1>2. CASE Turn
    BY <1>2, SendMessageStep, MessageSentStep, SendFailsStep, TakeChatEventStep, TakeWaitAnswerStep, DeadlineStep,
       AbortStep, AbortedStep, DrainStep, ReturnStep DEF Turn
  <1> QED BY <1>1, <1>2, SetUpStep, DisconnectStep DEF Client

\* The steps of the gateway.
LEMMA GatewayStep ==
  ASSUME Inv, Gateway PROVE Inv'
  BY AnswerStep, ProduceStep, EndRunStep, EmitLateStep, LoseSocketStep DEF Gateway

\* The inductive invariant holds always.
THEOREM Invariance == Spec => []Inv
  <1>1. Init => Inv
    BY InitInv
  <1>2. Inv /\ [Next]_vars => Inv'
    BY ClientStep, GatewayStep, StutterInv DEF Next
  <1> QED BY <1>1, <1>2, PTL DEF Spec

\* Every variable keeps its type (the client, its session and the gateway behind it).
THEOREM TypeCorrect == Spec => []TypeOK
  <1>1. Inv => TypeOK
    BY DEF Inv
  <1> QED BY <1>1, Invariance, PTL

\* A turn that its own run ended has all of that run's messages, if its history was heard or none came
\* late (send_and_wait).
THEOREM Complete == Spec => []TurnIsComplete
  <1>1. Inv => TurnIsComplete
    BY DEF Inv
  <1> QED BY <1>1, Invariance, PTL

\* No turn returns with its run going on, unless it asked for an abort, lost its socket, or took an earlier
\* end for its own.
THEOREM NotLeftBehind == Spec => []RunIsNotLeftBehind
  <1>1. Inv => RunIsNotLeftBehind
    BY DEF Inv
  <1> QED BY <1>1, Invariance, PTL

\* An earlier turn's end ends a turn only after a failed abort of that turn, or of one before it.
THEOREM OwnRun == Spec => []TurnEndsByItsOwnRun
  <1>1. Inv => TurnEndsByItsOwnRun
    BY DEF Inv, EndInv, FailedBy, TurnEndsByItsOwnRun
  <1> QED BY <1>1, Invariance, PTL
=============================================================================
