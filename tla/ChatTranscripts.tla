-------------------------- MODULE ChatTranscripts --------------------------
(***************************************************************************)
(* How what an agent said becomes a transcript with each tool's result at   *)
(* its call: the messages of the gateway (clawbench/client.py) and those of  *)
(* Hermes, in its own form and in that of chat (adapters/hermes_xml.py).     *)
(*                                                                         *)
(* A text is a sequence of tokens, and None is an id or a role that is not   *)
(* there.  A call that was given no id has its number.  A place is the       *)
(* message and the position of a call in it.                                *)
(***************************************************************************)
EXTENDS Integers, Sequences, SequencesExt, FiniteSets, FiniteSetsExt, Functions

None == "none"
Unset == "unset"
Or(value, default) == IF value = None THEN default ELSE value
LooksLikeError(text) == Contains(text, "error")

\* A call as it is parsed, before any result: its name and its id.
Call(id) == [id |-> id, output |-> <<>>, error |-> <<>>, success |-> Unset]

-----------------------------------------------------------------------------
\* _parse_single_message. A block is a text, a call, a result or another; the last result of a
\* message, even one without an id, is what the message itself is a result of. A message of the
\* tool that has no result block is one, by its own id. What is empty is no message.
OfKind(data, kind) == SelectSeq(data.blocks, LAMBDA b : b.kind = kind)

ResultOf(data, texts) ==
    LET results == OfKind(data, "result")
        last == IF results = <<>> THEN [id |-> None, text |-> <<>>] ELSE Last(results)
        tool == data.role = "tool"
    IN  [for |-> IF tool THEN Or(last.id, data.id) ELSE last.id,
         content |-> IF tool /\ last.text = <<>> THEN FlattenSeq(texts) ELSE last.text]

ParseMessage(data) ==
    LET spoken(b) == b.kind = "text" \/ (b.kind = "result" /\ b.text # <<>>)
        texts == LET said == SelectSeq(data.blocks, spoken) IN [i \in DOMAIN said |-> said[i].text]
        own == ResultOf(data, texts)
        withId == SelectSeq(OfKind(data, "result"), LAMBDA b : b.id # None)
        results == [i \in DOMAIN withId |-> [id |-> withId[i].id, text |-> withId[i].text]]
        parts == texts \o SelectSeq(<<data.error, data.text>>, LAMBDA part : part # <<>>)
        calls == [i \in DOMAIN OfKind(data, "call") |-> Call(OfKind(data, "call")[i].id)]
    IN  IF data.role = None \/ (parts = <<>> /\ calls = <<>> /\ own.for = None) THEN <<>>
        ELSE <<[role |-> data.role, text |-> FlattenSeq(parts), calls |-> calls, for |-> own.for, content |-> own.content,
                results |-> IF data.role = "tool" /\ own.for # None /\ results = <<>>
                            THEN <<[id |-> own.for, text |-> own.content]>> ELSE results]>>

ParseMessages(raw) == FlattenSeq([i \in DOMAIN raw |-> ParseMessage(raw[i])])

\* _parse_usage_payload: a total that is left out, or is 0, is the sum of its parts.
TokenUsage(payload) ==
    [payload EXCEPT !.total = IF @ = 0 THEN payload.input + payload.output + payload.reasoning ELSE @]

\* The results of a message, and what it is itself a result of if that is not among them.
ResultPairs(message) ==
    LET own == [id |-> message.for, text |-> message.content]
    IN  IF own.id = None \/ Contains(message.results, own) THEN message.results ELSE Append(message.results, own)

\* The first result decides whether the call succeeded; a later one is only added to its output.
Settle(call) ==
    LET success == IF call.success = Unset THEN IF LooksLikeError(call.output) THEN "failed" ELSE "ok" ELSE call.success
    IN  [call EXCEPT !.success = success,
                     !.error = IF success = "failed" /\ @ = <<>> THEN call.output ELSE @]
AddResult(call, text) == Settle([call EXCEPT !.output = @ \o text])

\* The last call so far with the id.
CallPlaces(messages, n, id) ==
    UNION {{<<m, c>> : c \in {i \in DOMAIN messages[m].calls : messages[m].calls[i].id = id}} : m \in 1..n}
LastPlace(places) == CHOOSE p \in places : \A q \in places : q[1] < p[1] \/ (q[1] = p[1] /\ q[2] <= p[2])

ApplyResult(messages, n, result) ==
    LET places == IF result.id = None THEN {} ELSE CallPlaces(messages, n, result.id)
        at == LastPlace(places)
    IN  IF places = {} THEN messages
        ELSE [messages EXCEPT ![at[1]].calls[at[2]] = AddResult(@, result.text)]

Correlate(messages) ==
    LET ofMessage(ms, n) == FoldLeft(LAMBDA acc, r : ApplyResult(acc, n, r), ms, ResultPairs(messages[n]))
    IN  FoldLeft(ofMessage, messages, [i \in DOMAIN messages |-> i])

-----------------------------------------------------------------------------
\* _coerce_role.
CoerceRole(role) ==
    CASE role \in {"assistant", "gpt", "model", None} -> "assistant"
      [] role \in {"user", "human"} -> "user"
      [] role \in {"tool", "function", "tool_response"} -> "tool"
      [] OTHER -> role

\* _tool_response_summary, of what a response names.
ResponseSummary(response) ==
    LET error == IF response.stderr # <<>> THEN response.stderr ELSE response.error
        success == CASE response.status = "ok" -> "ok"
                     [] response.status = "error" \/ error # <<>> -> "failed"
                     [] response.output # <<>> -> "ok"
                     [] OTHER -> Unset
    IN  [output |-> response.output, error |-> error, success |-> success]

HermesCall(id, count) == Call(IF id = None THEN <<"hermes", count>> ELSE <<id, 0>>)
HermesMessage(role, text, calls) == [role |-> role, text |-> text, calls |-> calls]

\* parse_conversation: responses answer the calls in their order; one that is left over is a
\* message of the tool. Only an assistant's message keeps its calls, but all of them wait.
AnswerFirst(state, response) ==
    LET summary == ResponseSummary(response) IN
    IF state.waiting = <<>>
    THEN [state EXCEPT !.messages = Append(@, HermesMessage("tool", IF summary.output = <<>> THEN summary.error ELSE summary.output, <<>>))]
    ELSE [state EXCEPT !.waiting = Tail(@),
                       !.calls[Head(state.waiting)] = [@ EXCEPT !.output = summary.output, !.error = summary.error,
                            !.success = IF summary.success = Unset THEN @ ELSE summary.success]]

\* Calls of an entry, numbered from the last.
AddCalls(state, ids) ==
    LET first == Len(state.calls) IN
    [state EXCEPT !.calls = @ \o [i \in DOMAIN ids |-> HermesCall(ids[i], first + i)],
                  !.waiting = @ \o [i \in DOMAIN ids |-> first + i]]
NewCalls(state, ids) == [i \in DOMAIN ids |-> Len(state.calls) + i]

AddEntry(state, role, text, ids) ==
    LET grown == AddCalls(state, ids) IN
    IF role \in {"assistant", "user"} \/ text # <<>>
    THEN [grown EXCEPT !.messages = Append(@, HermesMessage(role, text, IF role = "assistant" THEN NewCalls(state, ids) ELSE <<>>))]
    ELSE grown

Nothing == [messages |-> <<>>, calls |-> <<>>, waiting |-> <<>>]

ParseConversation(entries) ==
    LET step(state, entry) ==
            IF CoerceRole(entry.role) = "tool" THEN FoldLeft(AnswerFirst, state, entry.responses)
            ELSE AddEntry(state, CoerceRole(entry.role), entry.text, entry.calls)
    IN  FoldLeft(step, Nothing, entries)

\* parse_chat_messages: a result goes to the call with its id, which stays in the line, or else
\* to the first of the line. Messages without a text are kept of the assistant alone.
AnswerById(state, entry) ==
    LET named == {i \in DOMAIN state.calls : entry.id # None /\ state.calls[i].id = <<entry.id, 0>>}
        at == IF named # {} THEN Max(named) ELSE IF state.waiting = <<>> THEN 0 ELSE Head(state.waiting)
        failed == LooksLikeError(entry.text)
    IN  IF at # 0
        THEN [state EXCEPT !.waiting = IF named # {} THEN @ ELSE Tail(@),
                           !.calls[at] = [@ EXCEPT !.output = entry.text, !.success = IF failed THEN "failed" ELSE "ok",
                                                   !.error = IF failed THEN entry.text ELSE @]]
        ELSE IF entry.text = <<>> THEN state
        ELSE [state EXCEPT !.messages = Append(@, HermesMessage("tool", entry.text, <<>>))]

ParseChat(entries) ==
    LET step(state, entry) ==
            LET role == CoerceRole(entry.role) IN
            IF role = "tool" THEN AnswerById(state, entry)
            ELSE IF role = "user" /\ entry.text = <<>> THEN AddCalls(state, entry.calls)
            ELSE AddEntry(state, role, entry.text, entry.calls)
    IN  FoldLeft(step, Nothing, entries)
=============================================================================
