-------------------------------- MODULE Agent --------------------------------
(***************************************************************************)
(* One turn of the chat agent: Loop.Run in internal/agent/loop.go with the *)
(* model client of llm.go.  The turn sends the conversation to the model,  *)
(* streams the answer to the reader, runs the tools the model asks for and *)
(* goes round again with their results.                                    *)
(*                                                                         *)
(* The model, the network and the reader are the surroundings: the model   *)
(* answers anything the protocol can carry, a request or a stream can      *)
(* break, and the reader can leave at any moment (the request's context is *)
(* cancelled).  The turn itself is sequential.                             *)
(***************************************************************************)
EXTENDS Integers, Sequences

CONSTANTS
  MaxIter,      \* rounds of a turn (config maxIterations)
  MaxAttempts,  \* requests for one answer (maxLLMAttempts)
  MaxEmpty,     \* answers asked for in one round as long as they are empty
  MaxCalls      \* bound: tool calls in one answer of the model

ASSUME AgentAssumption ==
  /\ MaxIter \in Nat \ {0} /\ MaxAttempts \in Nat \ {0} /\ MaxEmpty \in Nat \ {0}
  /\ MaxCalls \in Nat

VARIABLES
  pc,          \* where the turn is
  iter,        \* rounds completed
  tries,       \* empty answers in this round
  attempt,     \* failed requests for this answer
  messages,    \* the conversation as the model gets it
  todo,        \* the tool calls of this round not yet executed
  spoke,       \* does the answer being streamed have text so far?
  events,      \* what was pushed to the reader
  cancelled,   \* has the reader left?
  nextCall,    \* number of tool calls so far, plus one
  ran,         \* history: how often the handler of each call was run
  voices       \* history: answers of this round that had text

vars == <<pc, iter, tries, attempt, messages, todo, spoke, events, cancelled,
          nextCall, ran, voices>>

CallIds == 1..(MaxIter * MaxCalls)

\* What executeTool makes of a call: rejected (no such tool, arguments that are not
\* JSON or have a wrong type; a missing argument or a value outside an enum gets
\* through to the handler, because the tools declare these as []string and
\* validateArgs looks for []any); null (arguments that are JSON's null);
\* otherwise the handler's own outcome.
CallKinds == {"rejected", "null", "fails", "succeeds"}
Call == [id: CallIds, kind: CallKinds]

\* calls: the tool calls of an assistant message; call: the one a tool
\* message answers.
Message == [role: {"user", "assistant", "tool"}, calls: Seq(CallIds), call: CallIds \cup {0}]
Text(role) == [role |-> role, calls |-> <<>>, call |-> 0]

Event == [type: {"message", "tool_call", "tool_result", "error", "done"}, call: CallIds \cup {0}]
Emit(type) == Append(events, [type |-> type, call |-> 0])

PC == {"start", "send", "backoff", "stream", "tools", "ended", "panicked"}

TypeOK ==
  /\ pc \in PC
  /\ iter \in 0..MaxIter /\ tries \in 0..(MaxEmpty - 1) /\ attempt \in 0..(MaxAttempts - 1)
  /\ messages \in Seq(Message) /\ todo \in Seq(Call) /\ events \in Seq(Event)
  /\ spoke \in BOOLEAN /\ cancelled \in BOOLEAN
  /\ nextCall \in 1..(MaxIter * MaxCalls + 1)
  /\ ran \in [CallIds -> Nat] /\ voices \in Nat

----------------------------------------------------------------------------
(* Starting and ending. *)

\* PreFilter recognises small talk and answers it without the model.
PreFiltered ==
  /\ pc = "start"
  /\ events' = Emit("message") \o <<[type |-> "done", call |-> 0]>>
  /\ pc' = "ended"
  /\ UNCHANGED <<iter, tries, attempt, messages, todo, spoke, cancelled, nextCall, ran, voices>>

\* The system prompt and the earlier conversation go before the message; they
\* hold no tool calls.
Begin ==
  /\ pc = "start"
  /\ messages' = <<Text("user")>>
  /\ pc' = "send"
  /\ UNCHANGED <<iter, tries, attempt, todo, spoke, events, cancelled, nextCall, ran, voices>>

\* Leaving the loop instead of the function.
FailAndDone ==
  /\ events' = Emit("error") \o <<[type |-> "done", call |-> 0]>>
  /\ pc' = "ended"
  /\ UNCHANGED <<iter, tries, attempt, messages, todo, cancelled, nextCall, ran, voices>>

Fail ==
  /\ events' = Emit("error")
  /\ pc' = "ended"
  /\ UNCHANGED <<iter, tries, attempt, messages, todo, cancelled, nextCall, ran, voices>>

----------------------------------------------------------------------------
(* Asking the model: doChatRequest. *)

\* The request gets its answer.
Accepted ==
  /\ pc = "send" /\ ~ cancelled
  /\ pc' = "stream" /\ spoke' = FALSE
  /\ UNCHANGED <<iter, tries, attempt, messages, todo, events, cancelled, nextCall, ran, voices>>

\* One attempt more than allowed.
RetryOneMore ==
  IF attempt < MaxAttempts
  THEN /\ attempt' = attempt + 1 /\ pc' = "backoff"
       /\ UNCHANGED <<iter, tries, messages, todo, events, cancelled, nextCall, ran, voices>>
  ELSE Fail

Retry ==
  IF attempt + 1 < MaxAttempts
  THEN /\ attempt' = attempt + 1 /\ pc' = "backoff"
       /\ UNCHANGED <<iter, tries, messages, todo, events, cancelled, nextCall, ran, voices>>
  ELSE Fail

\* 429, 5xx or no connection.
Busy ==
  /\ pc = "send" /\ ~ cancelled
  /\ Retry
  /\ UNCHANGED spoke

\* Another 4xx, or the reader has left.
Refused ==
  /\ pc = "send"
  /\ Fail
  /\ UNCHANGED spoke

\* The pause before the next attempt, which the reader's leaving cuts short.
Backoff ==
  /\ pc = "backoff"
  /\ \/ /\ pc' = "send"
        /\ UNCHANGED <<iter, tries, attempt, messages, todo, events, cancelled, nextCall, ran, voices>>
     \/ cancelled /\ Fail
  /\ UNCHANGED spoke

----------------------------------------------------------------------------
(* Streaming the answer: ChatStream and the loop around it. *)

\* The text arrives; the pieces it arrives in are not told apart.
StreamText ==
  /\ pc = "stream" /\ ~ spoke
  /\ spoke' = TRUE /\ voices' = voices + 1
  /\ events' = Emit("message")
  /\ UNCHANGED <<pc, iter, tries, attempt, messages, todo, cancelled, nextCall, ran>>

\* Asking again after the stream broke, as after an empty answer.
StreamRetried ==
  /\ pc = "stream"
  /\ IF tries + 1 < MaxEmpty
     THEN /\ pc' = "send" /\ tries' = tries + 1 /\ attempt' = 0
          /\ UNCHANGED <<iter, messages, todo, events, cancelled, nextCall, ran, voices>>
     ELSE Fail
  /\ UNCHANGED spoke

\* The stream breaks off or times out.
StreamBroken ==
  /\ pc = "stream"
  /\ Fail
  /\ UNCHANGED spoke

\* Asking again without counting.
StreamEmptyForever ==
  /\ pc = "stream" /\ ~ spoke
  /\ pc' = "send" /\ attempt' = 0
  /\ UNCHANGED <<iter, tries, messages, todo, spoke, events, cancelled, nextCall, ran, voices>>

\* Neither text nor calls: asked again, then an apology.
StreamEmpty ==
  /\ pc = "stream" /\ ~ spoke
  /\ IF tries + 1 < MaxEmpty
     THEN /\ pc' = "send" /\ tries' = tries + 1 /\ attempt' = 0
          /\ UNCHANGED events
     ELSE /\ pc' = "ended"
          /\ events' = Emit("message") \o <<[type |-> "done", call |-> 0]>>
          /\ UNCHANGED <<tries, attempt>>
  /\ UNCHANGED <<iter, messages, todo, spoke, cancelled, nextCall, ran, voices>>

\* Text and no calls: the final answer.
StreamAnswer ==
  /\ pc = "stream" /\ spoke
  /\ events' = Emit("done")
  /\ pc' = "ended"
  /\ UNCHANGED <<iter, tries, attempt, messages, todo, spoke, cancelled, nextCall, ran, voices>>

\* n tool calls, with or without text.  The model gives each call an id of
\* its own.
StreamCalls(n, kinds) ==
  /\ pc = "stream"
  /\ LET calls == [i \in 1..n |-> [id |-> nextCall + i - 1, kind |-> kinds[i]]] IN
     /\ todo' = calls
     /\ messages' = Append(messages, [Text("assistant") EXCEPT !.calls = [i \in 1..n |-> calls[i].id]])
  /\ nextCall' = nextCall + n
  /\ pc' = "tools"
  /\ UNCHANGED <<iter, tries, attempt, spoke, events, cancelled, ran, voices>>

----------------------------------------------------------------------------
(* The tools: executeTool. *)

Answered(c) == Append(messages, [Text("tool") EXCEPT !.call = c.id])

ToolEvents(c) == events \o <<[type |-> "tool_call", call |-> c.id], [type |-> "tool_result", call |-> c.id]>>

HandlerRuns(c) ==
  ran' = IF c.kind = "rejected" THEN ran ELSE [ran EXCEPT ![c.id] = @ + 1]

\* Telling only the reader of a call that was rejected.
RunToolUnanswered ==
  LET c == Head(todo) IN
  /\ pc = "tools" /\ todo # <<>> /\ c.kind # "null"
  /\ HandlerRuns(c)
  /\ events' = ToolEvents(c)
  /\ messages' = IF c.kind = "rejected" THEN messages ELSE Answered(c)
  /\ todo' = Tail(todo)
  /\ UNCHANGED <<pc, iter, tries, attempt, spoke, cancelled, nextCall, voices>>

\* Trying a failing tool again.
RunToolAgain ==
  LET c == Head(todo) IN
  /\ pc = "tools" /\ todo # <<>> /\ c.kind # "null"
  /\ HandlerRuns(c)
  /\ \/ /\ events' = ToolEvents(c) /\ messages' = Answered(c)
        /\ todo' = Tail(todo)
     \/ c.kind = "fails" /\ UNCHANGED <<events, messages, todo>>
  /\ UNCHANGED <<pc, iter, tries, attempt, spoke, cancelled, nextCall, voices>>

\* Whatever becomes of the call, reader and model get one result.  The
\* handler does not look at the context: it runs also when the reader has left.
RunTool ==
  LET c == Head(todo) IN
  /\ pc = "tools" /\ todo # <<>> /\ c.kind # "null"
  /\ HandlerRuns(c)
  /\ events' = ToolEvents(c)
  /\ messages' = Answered(c)
  /\ todo' = Tail(todo)
  /\ UNCHANGED <<pc, iter, tries, attempt, spoke, cancelled, nextCall, voices>>

\* Arguments "null" leave the map of arguments nil, and storing patron_id in
\* it panics; the HTTP server drops the connection.  A tool without
\* patron_id goes on with no arguments, which is one of the other kinds.
Panic ==
  LET c == Head(todo) IN
  /\ pc = "tools" /\ todo # <<>> /\ c.kind = "null"
  /\ events' = Append(events, [type |-> "tool_call", call |-> c.id])
  /\ pc' = "panicked"
  /\ UNCHANGED <<iter, tries, attempt, messages, todo, spoke, cancelled, nextCall, ran, voices>>

\* All calls are answered: round again, or stop at the cap without an answer.
NextRound ==
  /\ pc = "tools" /\ todo = <<>>
  /\ iter' = iter + 1 /\ tries' = 0 /\ attempt' = 0 /\ voices' = 0
  /\ IF iter + 1 < MaxIter
     THEN pc' = "send" /\ events' = Emit("message")
     ELSE pc' = "ended" /\ events' = Emit("message") \o <<[type |-> "done", call |-> 0]>>
  /\ UNCHANGED <<messages, todo, spoke, cancelled, nextCall, ran>>

----------------------------------------------------------------------------

\* The reader leaves.
Cancel ==
  /\ pc \notin {"ended", "panicked"} /\ ~ cancelled
  /\ cancelled' = TRUE
  /\ UNCHANGED <<pc, iter, tries, attempt, messages, todo, spoke, events, nextCall, ran, voices>>

Init ==
  /\ pc = "start" /\ iter = 0 /\ tries = 0 /\ attempt = 0
  /\ messages = <<>> /\ todo = <<>> /\ spoke = FALSE /\ events = <<>>
  /\ cancelled = FALSE
  /\ nextCall = 1 /\ ran = [c \in CallIds |-> 0] /\ voices = 0

Step ==
  \/ PreFiltered \/ Begin
  \/ Accepted \/ Busy \/ Refused \/ Backoff
  \/ StreamText \/ StreamBroken \/ StreamEmpty \/ StreamAnswer
  \/ \E n \in 1..MaxCalls : \E kinds \in [1..n -> CallKinds] : StreamCalls(n, kinds)
  \/ RunTool \/ Panic \/ NextRound

Next == Step \/ Cancel

Spec == Init /\ [][Next]_vars

\* The goroutine runs, and the client's timeout of 180 s ends every request
\* and every stream.
FairSpec == Spec /\ WF_vars(Step)

----------------------------------------------------------------------------
(* Properties. *)

\* What is sent to the model obeys its protocol, which answers 400 to
\* anything else: behind an assistant message with tool calls come the tool
\* messages that answer them, each call once and in order, and no others.
CallsAnsweredInOrder ==
  pc \in {"send", "backoff", "stream"} =>
    \A i \in DOMAIN messages :
      /\ messages[i].role = "assistant" =>
           \A j \in DOMAIN messages[i].calls :
             /\ i + j \in DOMAIN messages
             /\ messages[i + j].role = "tool" /\ messages[i + j].call = messages[i].calls[j]
      /\ messages[i].role = "tool" =>
           \E j \in 1..(i - 1) :
             /\ messages[j].role = "assistant"
             /\ i - j \in DOMAIN messages[j].calls /\ messages[j].calls[i - j] = messages[i].call

\* The reader is told once that the turn is over, by "done" or by "error",
\* and nothing is pushed after that.
EndsOnce ==
  /\ \A i \in DOMAIN events : events[i].type \in {"done", "error"} => i = Len(events)
  /\ pc = "ended" <=> events # <<>> /\ events[Len(events)].type \in {"done", "error"}

\* Repeating a request never shows the reader two answers to one question: an
\* answer that was dropped and asked for again had shown nothing.
OneVoicePerRound == voices <= 1

\* No retry runs a tool twice, so no loan is renewed and no seat reserved
\* twice for one call; and each call the reader saw begin is reported once.
ToolsRunOnce ==
  \A c \in CallIds :
    LET Told(type) == {i \in DOMAIN events : events[i].type = type /\ events[i].call = c} IN
    /\ ran[c] <= 1
    /\ ran[c] = 1 => Told("tool_result") # {}
    /\ \A i, j \in Told("tool_result") : i = j
    /\ pc # "panicked" => \A i \in Told("tool_call") : i + 1 \in Told("tool_result")

\* A turn that is done has said something since the last tool, unless it ran
\* out of rounds.
DoneMeansAnswered ==
  pc = "ended" /\ events[Len(events)].type = "done" =>
    /\ Len(events) > 1
    /\ events[Len(events) - 1].type = "message"
    /\ iter < MaxIter => Len(events) = 2 \/ events[Len(events) - 2].type # "tool_result"

\* Whatever is repeated, one answer to a question: not two, and not none.
AnsweredOnce == OneVoicePerRound /\ DoneMeansAnswered

\* However the model and the network behave, the turn comes to an end.
TurnEnds == <>(pc \in {"ended", "panicked"})
=============================================================================
