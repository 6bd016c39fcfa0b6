----------------------------- MODULE AgentProofs -----------------------------
(***************************************************************************)
(* Theorems about Agent, for any number of rounds, attempts, empty answers *)
(* and tool calls.                                                         *)
(***************************************************************************)
EXTENDS Agent, SequenceTheorems, TLAPS

----------------------------------------------------------------------------
(* The inductive invariant. *)

\* A round uses up at most MaxCalls ids, so they last for MaxIter rounds.
Rounds ==
  /\ pc # "ended" => iter < MaxIter
  /\ pc \in {"start", "send", "backoff", "stream"} => nextCall <= iter * MaxCalls + 1
  /\ pc \in {"tools", "panicked"} => nextCall <= (iter + 1) * MaxCalls + 1

\* Between two answers the reader has been shown nothing.
Silence ==
  /\ voices <= 1
  /\ pc \in {"start", "send", "backoff"} => voices = 0
  /\ pc = "stream" => (spoke <=> voices = 1)

\* Before the end no event has told of it, at the end the last one has.
Ends == {"error", "done"}
Quiet(es) == \A i \in DOMAIN es : es[i].type \notin Ends
Over(es) == es # <<>> /\ \A i \in DOMAIN es : es[i].type \in Ends <=> i = Len(es)
Told == IF pc = "ended" THEN Over(events) ELSE Quiet(events)

TypeInv == TypeOK /\ Rounds /\ Silence /\ Told

\* One event more.
LEMMA OneMore ==
  ASSUME NEW es \in Seq(Event), Quiet(es), NEW e \in Event
  PROVE  /\ Append(es, e) \in Seq(Event) /\ es \o <<e>> = Append(es, e)
         /\ e.type \notin Ends => Quiet(Append(es, e))
         /\ e.type \in Ends => Over(Append(es, e))
<1>1. Append(es, e) \in Seq(Event) /\ Len(Append(es, e)) = Len(es) + 1
  OBVIOUS
<1>2. \A i \in 1..(Len(es) + 1) : Append(es, e)[i] = IF i = Len(es) + 1 THEN e ELSE es[i]
  OBVIOUS
<1>3. es \o <<e>> = Append(es, e)
  <2>1. <<e>> \in Seq(Event) /\ Len(<<e>>) = 1 /\ <<e>>[1] = e
    OBVIOUS
  <2>2. /\ es \o <<e>> \in Seq(Event) /\ Len(es \o <<e>>) = Len(es) + 1
        /\ \A i \in 1..(Len(es) + 1) : (es \o <<e>>)[i] = IF i <= Len(es) THEN es[i] ELSE <<e>>[i - Len(es)]
    BY <2>1, ConcatProperties
  <2>3. Len(es) \in Nat
    BY LenProperties
  <2>4. \A i \in 1..(Len(es) + 1) : (es \o <<e>>)[i] = Append(es, e)[i]
    BY <1>2, <2>1, <2>2, <2>3
  <2> QED  BY <1>1, <2>2, <2>4, SeqEqual
<1>4. Len(es) \in Nat /\ DOMAIN es = 1..Len(es) /\ DOMAIN Append(es, e) = 1..(Len(es) + 1)
  OBVIOUS
<1>5. ASSUME e.type \notin Ends PROVE Quiet(Append(es, e))
  BY <1>2, <1>4, <1>5 DEF Quiet
<1>6. ASSUME e.type \in Ends PROVE Over(Append(es, e))
  BY <1>1, <1>2, <1>4, <1>6 DEF Quiet, Over
<1> QED  BY <1>1, <1>3, <1>5, <1>6

\* The events that the steps push while the turn is under way.
LEMMA EventsPushed ==
  ASSUME events \in Seq(Event), Quiet(events)
  PROVE  /\ Emit("message") \in Seq(Event) /\ Quiet(Emit("message"))
         /\ \A type \in Ends : Emit(type) \in Seq(Event) /\ Over(Emit(type))
         /\ LET es == Emit("message") \o <<[type |-> "done", call |-> 0]>> IN
            es \in Seq(Event) /\ Over(es)
         /\ \A c \in Call : /\ ToolEvents(c) \in Seq(Event) /\ Quiet(ToolEvents(c))
                            /\ LET es == Append(events, [type |-> "tool_call", call |-> c.id]) IN
                               es \in Seq(Event) /\ Quiet(es)
<1>1. \A type \in Ends \cup {"message"} : [type |-> type, call |-> 0] \in Event
  BY DEF Event, Ends
<1>2. /\ Emit("message") \in Seq(Event) /\ Quiet(Emit("message"))
      /\ \A type \in Ends : Emit(type) \in Seq(Event) /\ Over(Emit(type))
  BY <1>1, OneMore DEF Emit, Ends
<1>3. LET es == Emit("message") \o <<[type |-> "done", call |-> 0]>> IN
      es \in Seq(Event) /\ Over(es)
  <2> DEFINE e == [type |-> "done", call |-> 0]
  <2>1. e \in Event /\ e.type \in Ends
    BY <1>1 DEF Ends
  <2> HIDE DEF e
  <2>2. Emit("message") \o <<e>> \in Seq(Event) /\ Over(Emit("message") \o <<e>>)
    BY <1>2, <2>1, OneMore
  <2> QED  BY <2>2 DEF e
<1>4. ASSUME NEW c \in Call
      PROVE  /\ ToolEvents(c) \in Seq(Event) /\ Quiet(ToolEvents(c))
             /\ LET es == Append(events, [type |-> "tool_call", call |-> c.id]) IN
                es \in Seq(Event) /\ Quiet(es)
  <2> DEFINE e == [type |-> "tool_call", call |-> c.id]
             f == [type |-> "tool_result", call |-> c.id]
  <2>1. e \in Event /\ f \in Event /\ e.type \notin Ends /\ f.type \notin Ends
    BY DEF Event, Call, Ends
  <2>2. ToolEvents(c) = events \o <<e, f>>
    BY DEF ToolEvents
  <2> HIDE DEF e, f
  <2>3. Append(events, e) \in Seq(Event) /\ Quiet(Append(events, e))
    BY <2>1, OneMore
  <2>4. events \o <<e, f>> = Append(Append(events, e), f)
    BY <2>1
  <2>5. ToolEvents(c) \in Seq(Event) /\ Quiet(ToolEvents(c))
    BY <2>1, <2>2, <2>3, <2>4, OneMore
  <2> QED  BY <2>3, <2>5 DEF e
<1> QED  BY <1>2, <1>3, <1>4

\* A round more has room for MaxCalls ids more.
LEMMA RoundsFit ==
  ASSUME NEW i \in Nat, NEW n \in Nat, NEW k \in Nat, i < n
  PROVE  i * k \in Nat /\ (i + 1) * k = i * k + k /\ (i + 1) * k <= n * k
<1>1. i * k \in Nat /\ (i + 1) * k = i * k + k
  OBVIOUS
<1>2. (n - (i + 1)) \in Nat /\ (n - (i + 1)) * k \in Nat
  OBVIOUS
<1>3. n * k = (i + 1) * k + (n - (i + 1)) * k
  OBVIOUS
<1> QED  BY <1>1, <1>2, <1>3

\* The steps that end a turn keep the invariant.
LEMMA TurnOver ==
  ASSUME TypeInv, pc # "ended", pc' = "ended", events' \in Seq(Event), Over(events'),
         iter' \in 0..MaxIter, tries' \in 0..(MaxEmpty - 1), attempt' \in 0..(MaxAttempts - 1),
         voices' \in {0, voices}, UNCHANGED <<messages, todo, cancelled, nextCall, ran>>,
         spoke' \in BOOLEAN
  PROVE  TypeInv'
<1>1. TypeOK'
  BY DEF TypeInv, TypeOK, PC
<1>2. Rounds' /\ Silence' /\ Told'
  BY DEF TypeInv, Rounds, Silence, Told, TypeOK
<1> QED  BY <1>1, <1>2 DEF TypeInv

\* While the turn is under way the reader has not been told of an end.
LEMMA NotTold ==
  ASSUME TypeInv, pc # "ended"
  PROVE  events \in Seq(Event) /\ Quiet(events)
BY DEF TypeInv, TypeOK, Told

LEMMA FailTyped ==
  ASSUME TypeInv, pc # "ended", Fail, spoke' \in BOOLEAN
  PROVE  TypeInv'
<1>1. Emit("error") \in Seq(Event) /\ Over(Emit("error"))
  BY NotTold, EventsPushed DEF Ends
<1> QED  BY <1>1, TurnOver DEF Fail, TypeInv, TypeOK

\* The steps up to the answer of the model.
LEMMA RequestTyped ==
  ASSUME TypeInv, PreFiltered \/ Begin \/ Accepted \/ Busy \/ Refused \/ Backoff
  PROVE  TypeInv'
<1>1. CASE PreFiltered
  <2>1. events' \in Seq(Event) /\ Over(events')
    BY <1>1, NotTold, EventsPushed DEF PreFiltered
  <2> QED  BY <1>1, <2>1, TurnOver DEF PreFiltered, TypeInv, TypeOK
<1>2. CASE Begin
  <2>1. Text("user") \in Message
    BY DEF Text, Message
  <2>2. TypeOK'
    BY <1>2, <2>1 DEF Begin, TypeInv, TypeOK, PC
  <2>3. Rounds' /\ Silence' /\ Told'
    BY <1>2 DEF Begin, TypeInv, Rounds, Silence, Told
  <2> QED  BY <2>2, <2>3 DEF TypeInv
<1>3. CASE Accepted
  <2>1. TypeOK'
    BY <1>3 DEF Accepted, TypeInv, TypeOK, PC
  <2>2. Rounds' /\ Silence' /\ Told'
    BY <1>3 DEF Accepted, TypeInv, Rounds, Silence, Told
  <2> QED  BY <2>1, <2>2 DEF TypeInv
<1>4. CASE Busy
  <2>1. CASE Fail
    BY <1>4, <2>1, FailTyped DEF Busy, TypeInv, TypeOK
  <2>2. CASE attempt + 1 < MaxAttempts /\ Retry
    <3>1. TypeOK'
      BY <1>4, <2>2, AgentAssumption DEF Busy, Retry, TypeInv, TypeOK, PC
    <3>2. Rounds' /\ Silence' /\ Told'
      BY <1>4, <2>2 DEF Busy, Retry, TypeInv, Rounds, Silence, Told
    <3> QED  BY <3>1, <3>2 DEF TypeInv
  <2> QED  BY <1>4, <2>1, <2>2 DEF Busy, Retry
<1>5. CASE Refused
  BY <1>5, FailTyped DEF Refused, TypeInv, TypeOK
<1>6. CASE Backoff
  <2>1. CASE Fail
    BY <1>6, <2>1, FailTyped DEF Backoff, TypeInv, TypeOK
  <2>2. CASE pc' = "send" /\ UNCHANGED <<iter, tries, attempt, messages, todo, events, cancelled,
                                         nextCall, ran, voices, spoke>>
    <3>1. TypeOK'
      BY <2>2 DEF TypeInv, TypeOK, PC
    <3>2. Rounds' /\ Silence' /\ Told'
      BY <1>6, <2>2 DEF Backoff, TypeInv, Rounds, Silence, Told
    <3> QED  BY <3>1, <3>2 DEF TypeInv
  <2> QED  BY <1>6, <2>1, <2>2 DEF Backoff
<1> QED  BY <1>1, <1>2, <1>3, <1>4, <1>5, <1>6

\* A function on 1..n is a sequence of length n.
LEMMA FunctionIsSeq ==
  ASSUME NEW S, NEW n \in Nat, NEW f \in [1..n -> S]
  PROVE  f \in Seq(S) /\ Len(f) = n
<1>1. f \in Seq(S)
  BY SeqDef
<1>2. DOMAIN f = 1..Len(f) /\ Len(f) \in Nat
  BY <1>1, LenProperties
<1>3. 1..n = 1..Len(f)
  BY <1>2
<1> QED  BY <1>1, <1>2, <1>3

\* The tool calls of an answer get ids of their own.
LEMMA CallsTyped ==
  ASSUME TypeInv, pc = "stream", NEW n \in 1..MaxCalls, NEW kinds \in [1..n -> CallKinds]
  PROVE  LET calls == [i \in 1..n |-> [id |-> nextCall + i - 1, kind |-> kinds[i]]]
             message == [Text("assistant") EXCEPT !.calls = [i \in 1..n |-> calls[i].id]] IN
         /\ calls \in Seq(Call) /\ Len(calls) = n
         /\ message \in Message /\ message.role = "assistant"
         /\ Len(message.calls) = n /\ \A i \in 1..n : message.calls[i] = calls[i].id
         /\ nextCall + n \in Nat
         /\ nextCall + n <= (iter + 1) * MaxCalls + 1 /\ (iter + 1) * MaxCalls <= MaxIter * MaxCalls
<1> DEFINE calls == [i \in 1..n |-> [id |-> nextCall + i - 1, kind |-> kinds[i]]]
           ids == [i \in 1..n |-> calls[i].id]
<1>1. /\ iter \in Nat /\ MaxIter \in Nat /\ MaxCalls \in Nat /\ iter < MaxIter
      /\ nextCall \in Nat \ {0} /\ nextCall <= iter * MaxCalls + 1 /\ n \in Nat /\ n <= MaxCalls
  BY AgentAssumption DEF TypeInv, TypeOK, Rounds
<1>2. /\ iter * MaxCalls \in Nat /\ (iter + 1) * MaxCalls = iter * MaxCalls + MaxCalls
      /\ (iter + 1) * MaxCalls <= MaxIter * MaxCalls /\ MaxIter * MaxCalls \in Nat
  BY <1>1, RoundsFit
<1>3. nextCall + n <= (iter + 1) * MaxCalls + 1
  BY <1>1, <1>2
<1>4. \A i \in 1..n : nextCall + i - 1 \in CallIds
  <2>1. \A i \in 1..n : nextCall + i - 1 \in Nat \ {0} /\ nextCall + i - 1 < nextCall + n
    BY <1>1
  <2> QED  BY <1>1, <1>2, <1>3, <2>1 DEF CallIds
<1>5. calls \in [1..n -> Call] /\ ids \in [1..n -> CallIds]
  BY <1>4 DEF Call
<1>6. calls \in Seq(Call) /\ ids \in Seq(CallIds) /\ Len(calls) = n /\ Len(ids) = n
  <2> HIDE DEF calls, ids
  <2> QED  BY <1>1, <1>5, FunctionIsSeq
<1>7. [Text("assistant") EXCEPT !.calls = ids] \in Message
  BY <1>6 DEF Text, Message
<1>8. /\ [Text("assistant") EXCEPT !.calls = ids].role = "assistant"
      /\ [Text("assistant") EXCEPT !.calls = ids].calls = ids
  BY DEF Text
<1>9. \A i \in 1..n : ids[i] = calls[i].id
  OBVIOUS
<1> HIDE DEF calls
<1>10. nextCall + n \in Nat
  BY <1>1
<1> HIDE DEF ids
<1> QED  BY <1>2, <1>3, <1>6, <1>7, <1>8, <1>9, <1>10 DEF ids, calls

\* The steps of an answer of the model.
LEMMA StreamTyped ==
  ASSUME TypeInv, 
         \/ StreamText \/ StreamBroken \/ StreamEmpty \/ StreamAnswer
         \/ \E n \in 1..MaxCalls : \E kinds \in [1..n -> CallKinds] : StreamCalls(n, kinds)
  PROVE  TypeInv'
<1>1. CASE StreamText
  <2>1. events' \in Seq(Event) /\ Quiet(events')
    BY <1>1, NotTold, EventsPushed DEF StreamText
  <2>2. TypeOK'
    BY <1>1, <2>1 DEF StreamText, TypeInv, TypeOK, Silence
  <2>3. Rounds' /\ Silence' /\ Told'
    BY <1>1, <2>1 DEF StreamText, TypeInv, TypeOK, Rounds, Silence, Told
  <2> QED  BY <2>2, <2>3 DEF TypeInv
<1>2. CASE StreamBroken
  BY <1>2, FailTyped DEF StreamBroken, TypeInv, TypeOK
<1>3. CASE StreamEmpty
  <2>1. CASE tries + 1 < MaxEmpty
    <3>1. TypeOK'
      BY <1>3, <2>1, AgentAssumption DEF StreamEmpty, TypeInv, TypeOK, PC
    <3>2. Rounds' /\ Silence' /\ Told'
      BY <1>3, <2>1 DEF StreamEmpty, TypeInv, TypeOK, Rounds, Silence, Told
    <3> QED  BY <3>1, <3>2 DEF TypeInv
  <2>2. CASE ~ (tries + 1 < MaxEmpty)
    <3>1. events' \in Seq(Event) /\ Over(events')
      BY <1>3, <2>2, NotTold, EventsPushed DEF StreamEmpty
    <3> QED  BY <1>3, <2>2, <3>1, TurnOver DEF StreamEmpty, TypeInv, TypeOK
  <2> QED  BY <2>1, <2>2
<1>4. CASE StreamAnswer
  <2>1. events' \in Seq(Event) /\ Over(events')
    BY <1>4, NotTold, EventsPushed DEF StreamAnswer, Ends
  <2> QED  BY <1>4, <2>1, TurnOver DEF StreamAnswer, TypeInv, TypeOK
<1>5. CASE \E n \in 1..MaxCalls : \E kinds \in [1..n -> CallKinds] : StreamCalls(n, kinds)
  <2>0. PICK n \in 1..MaxCalls : \E kinds \in [1..n -> CallKinds] : StreamCalls(n, kinds)
    BY <1>5
  <2>1. PICK kinds \in [1..n -> CallKinds] : StreamCalls(n, kinds)
    BY <2>0
  <2> DEFINE calls == [i \in 1..n |-> [id |-> nextCall + i - 1, kind |-> kinds[i]]]
             message == [Text("assistant") EXCEPT !.calls = [i \in 1..n |-> calls[i].id]]
  <2>2. /\ pc = "stream" /\ todo' = calls /\ messages' = Append(messages, message)
        /\ nextCall' = nextCall + n /\ pc' = "tools"
        /\ UNCHANGED <<iter, tries, attempt, spoke, events, cancelled, ran, voices>>
    BY <2>1 DEF StreamCalls
  <2>3. /\ calls \in Seq(Call) /\ message \in Message /\ nextCall + n \in Nat
        /\ nextCall + n <= (iter + 1) * MaxCalls + 1 /\ (iter + 1) * MaxCalls <= MaxIter * MaxCalls
    BY <2>2, CallsTyped
  <2> HIDE DEF calls, message
  <2>4. nextCall' \in 1..(MaxIter * MaxCalls + 1)
    <3>1. nextCall >= 1 /\ n >= 1 /\ nextCall \in Nat /\ n \in Nat
      BY DEF TypeInv, TypeOK
    <3>2. MaxIter * MaxCalls \in Int /\ (iter + 1) * MaxCalls \in Int
      BY AgentAssumption DEF TypeInv, TypeOK
    <3> QED  BY <2>2, <2>3, <3>1, <3>2
  <2>5. TypeOK'
    BY <2>2, <2>3, <2>4 DEF TypeInv, TypeOK, PC
  <2>6. Rounds' /\ Silence' /\ Told'
    BY <2>2, <2>3 DEF TypeInv, TypeOK, Rounds, Silence, Told
  <2> QED  BY <2>5, <2>6 DEF TypeInv
<1> QED  BY <1>1, <1>2, <1>3, <1>4, <1>5

\* The steps of the tools, and the reader's leaving.
LEMMA ToolsTyped ==
  ASSUME TypeInv, RunTool \/ Panic \/ NextRound \/ Cancel
  PROVE  TypeInv'
<1>0. ASSUME todo # <<>>
      PROVE  Head(todo) \in Call /\ Tail(todo) \in Seq(Call)
  BY <1>0, HeadTailProperties DEF TypeInv, TypeOK
<1>1. CASE RunTool
  <2> DEFINE c == Head(todo)
  <2>1. c \in Call /\ Tail(todo) \in Seq(Call) /\ c.id \in CallIds
    BY <1>0, <1>1 DEF RunTool, Call
  <2>2. /\ pc = "tools" /\ HandlerRuns(c) /\ events' = ToolEvents(c) /\ messages' = Answered(c)
        /\ todo' = Tail(todo)
        /\ UNCHANGED <<pc, iter, tries, attempt, spoke, cancelled, nextCall, voices>>
    BY <1>1 DEF RunTool
  <2> HIDE DEF c
  <2>3. events' \in Seq(Event) /\ Quiet(events')
    BY <2>1, <2>2, NotTold, EventsPushed
  <2>4. messages' \in Seq(Message)
    <3>1. [Text("tool") EXCEPT !.call = c.id] = [role |-> "tool", calls |-> <<>>, call |-> c.id]
      BY DEF Text
    <3>2. <<>> \in Seq(CallIds)
      OBVIOUS
    <3>3. [Text("tool") EXCEPT !.call = c.id] \in Message
      BY <2>1, <3>1, <3>2 DEF Message
    <3> QED  BY <2>2, <3>3 DEF Answered, TypeInv, TypeOK
  <2>5. ran' \in [CallIds -> Nat]
    BY <2>1, <2>2 DEF HandlerRuns, TypeInv, TypeOK
  <2>6. TypeOK'
    BY <2>1, <2>2, <2>3, <2>4, <2>5 DEF TypeInv, TypeOK
  <2>7. Rounds' /\ Silence' /\ Told'
    BY <2>2, <2>3 DEF TypeInv, Rounds, Silence, Told
  <2> QED  BY <2>6, <2>7 DEF TypeInv
<1>2. CASE Panic
  <2>1. events' \in Seq(Event) /\ Quiet(events')
    BY <1>0, <1>2, NotTold, EventsPushed DEF Panic
  <2>2. TypeOK'
    BY <1>2, <2>1 DEF Panic, TypeInv, TypeOK, PC
  <2>3. Rounds' /\ Silence' /\ Told'
    BY <1>2, <2>1 DEF Panic, TypeInv, Rounds, Silence, Told
  <2> QED  BY <2>2, <2>3 DEF TypeInv
<1>3. CASE NextRound
  <2>1. /\ iter \in Nat /\ iter < MaxIter /\ iter + 1 \in 0..MaxIter
        /\ MaxEmpty \in Nat \ {0} /\ MaxAttempts \in Nat \ {0}
    BY <1>3, AgentAssumption DEF NextRound, TypeInv, TypeOK, Rounds
  <2>2. CASE iter + 1 < MaxIter
    <3>1. events' \in Seq(Event) /\ Quiet(events')
      BY <1>3, <2>2, NotTold, EventsPushed DEF NextRound
    <3>2. TypeOK'
      BY <1>3, <2>1, <2>2, <3>1 DEF NextRound, TypeInv, TypeOK, PC
    <3>3. Rounds' /\ Silence' /\ Told'
      BY <1>3, <2>1, <2>2, <3>1 DEF NextRound, TypeInv, Rounds, Silence, Told
    <3> QED  BY <3>2, <3>3 DEF TypeInv
  <2>3. CASE ~ (iter + 1 < MaxIter)
    <3>1. events' \in Seq(Event) /\ Over(events')
      BY <1>3, <2>3, NotTold, EventsPushed DEF NextRound
    <3> QED  BY <1>3, <2>1, <2>3, <3>1, TurnOver DEF NextRound, TypeInv, TypeOK
  <2> QED  BY <2>2, <2>3
<1>4. CASE Cancel
  BY <1>4 DEF Cancel, TypeInv, TypeOK, Rounds, Silence, Told
<1> QED  BY <1>1, <1>2, <1>3, <1>4

LEMMA TypeInvNext == TypeInv /\ [Next]_vars => TypeInv'
<1> SUFFICES ASSUME TypeInv, [Next]_vars PROVE TypeInv'
  OBVIOUS
<1>1. CASE UNCHANGED vars
  BY <1>1 DEF vars, TypeInv, TypeOK, Rounds, Silence, Told
<1>2. CASE Next
  BY <1>2, RequestTyped, StreamTyped, ToolsTyped DEF Next, Step
<1> QED  BY <1>1, <1>2

LEMMA TypeInvInit == Init => TypeInv
<1> SUFFICES ASSUME Init PROVE TypeInv
  OBVIOUS
<1>1. 0 * MaxCalls = 0 /\ MaxIter * MaxCalls \in Nat
  BY AgentAssumption
<1>2. TypeOK
  <2>1. nextCall \in 1..(MaxIter * MaxCalls + 1)
    BY <1>1 DEF Init
  <2>2. messages \in Seq(Message) /\ todo \in Seq(Call) /\ events \in Seq(Event)
    BY EmptySeq DEF Init
  <2>3. iter \in 0..MaxIter /\ tries \in 0..(MaxEmpty - 1) /\ attempt \in 0..(MaxAttempts - 1)
    BY AgentAssumption DEF Init
  <2>4. ran \in [CallIds -> Nat] /\ voices \in Nat
    BY DEF Init
  <2> QED  BY <2>1, <2>2, <2>3, <2>4 DEF Init, TypeOK, PC
<1>3. Rounds /\ Silence /\ Told
  BY <1>1, AgentAssumption DEF Init, Rounds, Silence, Told, Quiet
<1> QED  BY <1>2, <1>3 DEF TypeInv

LEMMA TypeInvariance == Spec => []TypeInv
BY TypeInvInit, TypeInvNext, PTL DEF Spec

\* Every variable of a turn keeps its type; the ids of tool calls do not run
\* out.
THEOREM AgentTypeCorrect == Spec => []TypeOK
<1>1. TypeInv => TypeOK
  BY DEF TypeInv
<1> QED  BY <1>1, TypeInvariance, PTL

\* However requests fail and are repeated, the reader is told once that the
\* turn is over and sees at most one answer to a question.
THEOREM AgentEndsOnce == Spec => [](EndsOnce /\ OneVoicePerRound)
<1>1. TypeInv => EndsOnce /\ OneVoicePerRound
  <2> SUFFICES ASSUME TypeInv PROVE EndsOnce /\ OneVoicePerRound
    OBVIOUS
  <2>1. DOMAIN events = 1..Len(events) /\ Len(events) \in Nat /\ (events # <<>> => Len(events) # 0)
    BY LenProperties, EmptySeq DEF TypeInv, TypeOK
  <2> QED  BY <2>1 DEF TypeInv, EndsOnce, OneVoicePerRound, Silence, Told, Over, Quiet, Ends
<1> QED  BY <1>1, TypeInvariance, PTL

----------------------------------------------------------------------------
(* The protocol of the tool messages.                                      *)

\* Among the first n messages every tool call is answered, behind the message
\* that made it, and every answer belongs to a call.
AnsweredUpTo(ms, n) ==
  \A i \in 1..n :
    /\ ms[i].role = "assistant" =>
         \A j \in DOMAIN ms[i].calls :
           i + j <= n /\ ms[i + j].role = "tool" /\ ms[i + j].call = ms[i].calls[j]
    /\ ms[i].role = "tool" =>
         \E j \in 1..(i - 1) :
           ms[j].role = "assistant" /\ i - j \in DOMAIN ms[j].calls /\ ms[j].calls[i - j] = ms[i].call

\* Message k made the calls of this round: the messages behind it answer the
\* first of them, todo holds the others.
InProgress(k) ==
  /\ messages[k].role = "assistant"
  /\ Len(messages[k].calls) = Len(messages) - k + Len(todo)
  /\ \A j \in 1..(Len(messages) - k) :
       messages[k + j].role = "tool" /\ messages[k + j].call = messages[k].calls[j]
  /\ \A j \in 1..Len(todo) : todo[j].id = messages[k].calls[Len(messages) - k + j]
  /\ AnsweredUpTo(messages, k - 1)

OrderInv ==
  /\ pc \in {"start", "send", "backoff", "stream"} => AnsweredUpTo(messages, Len(messages))
  /\ pc = "tools" => \E k \in 1..Len(messages) : InProgress(k)

LEMMA CallsOfMessage ==
  ASSUME NEW ms \in Seq(Message), NEW i \in 1..Len(ms)
  PROVE  /\ ms[i].calls \in Seq(CallIds) /\ Len(ms[i].calls) \in Nat
         /\ DOMAIN ms[i].calls = 1..Len(ms[i].calls) /\ DOMAIN ms[i].calls \subseteq Nat \ {0}
<1>1. ms[i] \in Message
  BY ElementOfSeq
<1>2. ms[i].calls \in Seq(CallIds)
  BY <1>1 DEF Message
<1>3. Len(ms[i].calls) \in Nat /\ DOMAIN ms[i].calls = 1..Len(ms[i].calls)
  BY <1>2, LenProperties
<1> QED  BY <1>2, <1>3

\* Later messages do not matter.
LEMMA AnsweredStays ==
  ASSUME NEW ms \in Seq(Message), NEW ns, NEW n \in 0..Len(ms), AnsweredUpTo(ms, n),
         \A i \in 1..n : ns[i] = ms[i]
  PROVE  AnsweredUpTo(ns, n)
<1>0. n \in Nat /\ \A i \in 1..n : DOMAIN ms[i].calls \subseteq Nat \ {0}
  <2>1. n \in Nat /\ \A i \in 1..n : i \in 1..Len(ms)
    BY LenProperties
  <2> QED  BY <2>1, CallsOfMessage
<1>1. ASSUME NEW i \in 1..n, ns[i].role = "assistant", NEW j \in DOMAIN ns[i].calls
      PROVE  i + j <= n /\ ns[i + j].role = "tool" /\ ns[i + j].call = ns[i].calls[j]
  <2>1. i + j <= n /\ ms[i + j].role = "tool" /\ ms[i + j].call = ms[i].calls[j]
    BY <1>1 DEF AnsweredUpTo
  <2>2. i + j \in 1..n
    BY <1>0, <1>1, <2>1
  <2> QED  BY <1>1, <2>1, <2>2
<1>2. ASSUME NEW i \in 1..n, ns[i].role = "tool"
      PROVE  \E j \in 1..(i - 1) :
               ns[j].role = "assistant" /\ i - j \in DOMAIN ns[j].calls /\ ns[j].calls[i - j] = ns[i].call
  BY <1>2 DEF AnsweredUpTo
<1> QED  BY <1>1, <1>2 DEF AnsweredUpTo

\* An answer with tool calls begins a round of calls.
LEMMA OrderCalls ==
  ASSUME TypeInv, OrderInv, NEW n \in 1..MaxCalls, NEW kinds \in [1..n -> CallKinds],
         StreamCalls(n, kinds)
  PROVE  OrderInv'
<1> DEFINE calls == [i \in 1..n |-> [id |-> nextCall + i - 1, kind |-> kinds[i]]]
           message == [Text("assistant") EXCEPT !.calls = [i \in 1..n |-> calls[i].id]]
<1>1. pc = "stream" /\ todo' = calls /\ messages' = Append(messages, message) /\ pc' = "tools"
  BY DEF StreamCalls
<1>2. /\ Len(calls) = n /\ message \in Message /\ message.role = "assistant"
      /\ Len(message.calls) = n /\ \A i \in 1..n : message.calls[i] = calls[i].id
  BY <1>1, CallsTyped
<1> HIDE DEF calls, message
<1>3. messages \in Seq(Message) /\ AnsweredUpTo(messages, Len(messages)) /\ n \in Nat
  BY <1>1 DEF TypeInv, TypeOK, OrderInv
<1>k. PICK k \in Nat : k = Len(messages) + 1
  BY <1>3
<1>4. /\ k \in Nat \ {0} /\ k - 1 = Len(messages) /\ Len(messages) \in Nat
      /\ Len(messages') = k /\ messages'[k] = message
      /\ \A i \in 1..(k - 1) : messages'[i] = messages[i]
  BY <1>1, <1>3, <1>k
<1>5. AnsweredUpTo(messages', k - 1)
  BY <1>3, <1>4, AnsweredStays
<1>6. k \in 1..Len(messages')
  BY <1>4
<1>7. /\ Len(messages'[k].calls) = Len(messages') - k + Len(todo')
      /\ \A j \in 1..(Len(messages') - k) :
           messages'[k + j].role = "tool" /\ messages'[k + j].call = messages'[k].calls[j]
      /\ \A j \in 1..Len(todo') : todo'[j].id = messages'[k].calls[Len(messages') - k + j]
  BY <1>1, <1>2, <1>3, <1>4
<1>8. InProgress(k)'
  BY <1>2, <1>4, <1>5, <1>7 DEF InProgress
<1> QED  BY <1>1, <1>6, <1>8 DEF OrderInv

\* Executing a tool answers the next call.
LEMMA OrderTool ==
  ASSUME TypeInv, OrderInv, RunTool
  PROVE  OrderInv'
<1>1. /\ pc = "tools" /\ pc' = pc /\ todo # <<>> /\ todo' = Tail(todo)
      /\ messages' = Append(messages, [Text("tool") EXCEPT !.call = Head(todo).id])
  BY DEF RunTool, Answered
<1>2. messages \in Seq(Message) /\ todo \in Seq(Call)
  BY DEF TypeInv, TypeOK
<1> DEFINE n == Len(messages)
           answer == [Text("tool") EXCEPT !.call = Head(todo).id]
<1>3. answer.role = "tool" /\ answer.call = todo[1].id
  BY <1>1, <1>2 DEF Text
<1> HIDE DEF answer
<1>4. PICK k \in 1..n : InProgress(k)
  BY <1>1 DEF OrderInv
<1>5. /\ n \in Nat /\ Len(messages') = n + 1 /\ messages'[n + 1] = answer
      /\ \A i \in 1..n : messages'[i] = messages[i]
  BY <1>1, <1>2 DEF answer
<1>6. /\ Len(todo) \in Nat \ {0} /\ Len(todo') = Len(todo) - 1
      /\ \A j \in 1..(Len(todo) - 1) : todo'[j] = todo[j + 1]
  BY <1>1, <1>2, HeadTailProperties, EmptySeq
<1> HIDE DEF n
<1>7. AnsweredUpTo(messages', k - 1)
  <2>1. k - 1 \in 0..Len(messages) /\ \A i \in 1..(k - 1) : messages'[i] = messages[i]
    BY <1>5 DEF n
  <2> QED  BY <1>2, <1>4, <2>1, AnsweredStays DEF InProgress
<1>8. messages'[k] = messages[k] /\ messages[k].role = "assistant"
  BY <1>4, <1>5 DEF InProgress
<1>9. Len(messages[k].calls) = n - k + Len(todo)
  BY <1>4 DEF InProgress, n
<1>10. ASSUME NEW j \in 1..(n + 1 - k)
       PROVE  messages'[k + j].role = "tool" /\ messages'[k + j].call = messages[k].calls[j]
  <2>1. CASE j = n + 1 - k
    <3>1. k + j = n + 1 /\ 1 \in 1..Len(todo) /\ n - k + 1 = j
      BY <1>5, <1>6, <2>1
    <3>2. todo[1].id = messages[k].calls[n - k + 1]
      BY <1>4, <3>1 DEF InProgress, n
    <3> QED  BY <1>3, <1>5, <3>1, <3>2
  <2>2. CASE j # n + 1 - k
    <3>1. j \in 1..(n - k) /\ k + j \in 1..n
      BY <1>5, <2>2
    <3>2. messages[k + j].role = "tool" /\ messages[k + j].call = messages[k].calls[j]
      BY <1>4, <3>1 DEF InProgress, n
    <3> QED  BY <1>5, <3>1, <3>2
  <2> QED  BY <2>1, <2>2
<1>11. ASSUME NEW j \in 1..(Len(todo) - 1)
       PROVE  todo'[j].id = messages[k].calls[n + 1 - k + j]
  <2>1. j + 1 \in 1..Len(todo) /\ n - k + (j + 1) = n + 1 - k + j
    BY <1>5, <1>6
  <2>2. todo[j + 1].id = messages[k].calls[n - k + (j + 1)]
    BY <1>4, <2>1 DEF InProgress, n
  <2> QED  BY <1>6, <2>1, <2>2
<1>12. InProgress(k)'
  <2>1. Len(messages'[k].calls) = Len(messages') - k + Len(todo')
    BY <1>5, <1>6, <1>8, <1>9
  <2>2. \A j \in 1..(Len(messages') - k) :
          messages'[k + j].role = "tool" /\ messages'[k + j].call = messages'[k].calls[j]
    BY <1>5, <1>8, <1>10
  <2>3. \A j \in 1..Len(todo') : todo'[j].id = messages'[k].calls[Len(messages') - k + j]
    BY <1>5, <1>6, <1>8, <1>11
  <2> QED  BY <1>7, <1>8, <2>1, <2>2, <2>3 DEF InProgress
<1>13. k \in 1..Len(messages')
  BY <1>5
<1> QED  BY <1>1, <1>12, <1>13 DEF OrderInv

\* With nothing left to do, every call of the round is answered.
LEMMA OrderRound ==
  ASSUME TypeInv, OrderInv, NextRound
  PROVE  OrderInv'
<1>1. pc = "tools" /\ todo = <<>> /\ messages' = messages /\ pc' \in {"send", "ended"}
  BY DEF NextRound
<1>2. messages \in Seq(Message) /\ Len(messages) \in Nat
  BY DEF TypeInv, TypeOK
<1>3. PICK k \in 1..Len(messages) : InProgress(k)
  BY <1>1 DEF OrderInv
<1> DEFINE n == Len(messages)
<1>4. Len(messages[k].calls) = n - k /\ DOMAIN messages[k].calls = 1..(n - k)
  <2>1. Len(messages[k].calls) = n - k
    BY <1>1, <1>2, <1>3 DEF InProgress
  <2> QED  BY <1>2, <2>1, CallsOfMessage
<1>5. ASSUME NEW i \in 1..n
      PROVE  /\ messages[i].role = "assistant" =>
                  \A j \in DOMAIN messages[i].calls :
                    i + j <= n /\ messages[i + j].role = "tool" /\ messages[i + j].call = messages[i].calls[j]
             /\ messages[i].role = "tool" =>
                  \E j \in 1..(i - 1) :
                    /\ messages[j].role = "assistant"
                    /\ i - j \in DOMAIN messages[j].calls /\ messages[j].calls[i - j] = messages[i].call
  <2>1. CASE i < k
    <3>1. i \in 1..(k - 1) /\ DOMAIN messages[i].calls \subseteq Nat
      <4>1. DOMAIN messages[i].calls \subseteq Nat \ {0}
        BY <1>2, CallsOfMessage
      <4> QED  BY <1>2, <2>1, <4>1
    <3>2. AnsweredUpTo(messages, k - 1)
      BY <1>3 DEF InProgress
    <3>3. \A j \in Nat : i + j <= k - 1 => i + j <= n
      BY <1>2
    <3> QED  BY <3>1, <3>2, <3>3 DEF AnsweredUpTo
  <2>2. CASE i = k
    <3>1. messages[k].role = "assistant"
      BY <1>3 DEF InProgress
    <3>2. \A j \in 1..(n - k) :
            messages[k + j].role = "tool" /\ messages[k + j].call = messages[k].calls[j] /\ k + j <= n
      BY <1>2, <1>3 DEF InProgress
    <3> QED  BY <1>4, <2>2, <3>1, <3>2
  <2>3. CASE i > k
    <3>1. i - k \in 1..(n - k) /\ k + (i - k) = i /\ k \in 1..(i - 1)
      BY <1>2, <2>3
    <3>2. messages[k + (i - k)].role = "tool" /\ messages[k + (i - k)].call = messages[k].calls[i - k]
      BY <1>3, <3>1 DEF InProgress
    <3>3. messages[k].role = "assistant"
      BY <1>3 DEF InProgress
    <3> QED  BY <1>4, <3>1, <3>2, <3>3
  <2> QED  BY <1>2, <2>1, <2>2, <2>3
<1>6. AnsweredUpTo(messages, n)
  BY <1>5 DEF AnsweredUpTo
<1> QED  BY <1>1, <1>6 DEF OrderInv

LEMMA OrderInvNext == TypeInv /\ OrderInv /\ [Next]_vars => OrderInv'
<1> SUFFICES ASSUME TypeInv, OrderInv, [Next]_vars PROVE OrderInv'
  OBVIOUS
<1>1. CASE Begin
  <2>1. messages' = <<Text("user")>> /\ pc' = "send" /\ Text("user").role = "user"
    BY <1>1 DEF Begin, Text
  <2>2. Len(messages') = 1 /\ messages'[1].role = "user"
    BY <2>1
  <2> QED  BY <2>1, <2>2 DEF OrderInv, AnsweredUpTo
<1>2. ASSUME NEW n \in 1..MaxCalls, NEW kinds \in [1..n -> CallKinds], StreamCalls(n, kinds)
      PROVE  OrderInv'
  BY <1>2, OrderCalls
<1>3. CASE RunTool
  BY <1>3, OrderTool
<1>4. CASE NextRound
  BY <1>4, OrderRound
<1>5. CASE \/ PreFiltered \/ Accepted \/ Busy \/ Refused \/ Backoff
           \/ StreamText \/ StreamBroken \/ StreamEmpty \/ StreamAnswer \/ Panic
  <2>1. /\ \/ UNCHANGED <<messages, todo>> /\ pc \in {"start", "send", "backoff", "stream"}
           \/ pc' = "panicked"
        /\ pc' # "tools"
    BY <1>5 DEF PreFiltered, Accepted, Busy, Refused, Backoff, Retry, Fail, StreamText,
                StreamBroken, StreamEmpty, StreamAnswer, Panic
  <2> QED  BY <2>1 DEF OrderInv
<1>6. CASE Cancel \/ UNCHANGED vars
  <2>1. UNCHANGED <<pc, messages, todo>>
    BY <1>6 DEF Cancel, vars
  <2> QED  BY <2>1 DEF OrderInv, InProgress
<1> QED  BY <1>1, <1>2, <1>3, <1>4, <1>5, <1>6 DEF Next, Step

\* Each message list that is sent to the model has every tool call answered,
\* once, in order and right behind the message that made it, however many
\* calls and rounds there were.
THEOREM AgentAnswersCalls == Spec => []CallsAnsweredInOrder
<1>1. Init => OrderInv
  BY DEF Init, OrderInv, AnsweredUpTo
<1>2. TypeInv /\ OrderInv => CallsAnsweredInOrder
  <2> SUFFICES ASSUME TypeInv, OrderInv, pc \in {"send", "backoff", "stream"}
               PROVE  CallsAnsweredInOrder
    BY DEF CallsAnsweredInOrder
  <2>1. /\ AnsweredUpTo(messages, Len(messages)) /\ messages \in Seq(Message)
        /\ Len(messages) \in Nat /\ DOMAIN messages = 1..Len(messages)
    BY DEF OrderInv, TypeInv, TypeOK
  <2>2. ASSUME NEW i \in DOMAIN messages
        PROVE  DOMAIN messages[i].calls \subseteq Nat \ {0}
    BY <2>1, <2>2, CallsOfMessage
  <2>3. \A i \in DOMAIN messages : \A j \in DOMAIN messages[i].calls :
          i + j <= Len(messages) => i + j \in DOMAIN messages
    BY <2>1, <2>2
  <2> QED  BY <2>1, <2>3 DEF AnsweredUpTo, CallsAnsweredInOrder
<1> QED  BY <1>1, <1>2, OrderInvNext, TypeInvariance, PTL DEF Spec

----------------------------------------------------------------------------
(* A turn that is done has answered. *)

Said(i) == events[i].type = "message"

\* Before the answer of a round the last event is at most the notice that
\* opened the round, and behind its text comes nothing.
SaidInv ==
  /\ pc = "start" => events = <<>>
  /\ pc \in {"send", "backoff"} \/ (pc = "stream" /\ ~ spoke) =>
       events = <<>> \/ Said(Len(events))
  /\ pc = "stream" /\ spoke =>
       /\ events # <<>> /\ Said(Len(events))
       /\ Len(events) > 1 => Said(Len(events) - 1)
  /\ DoneMeansAnswered

\* The last two events after one or two more.
LEMMA LastEvents ==
  ASSUME events \in Seq(Event), NEW type \in {"message", "error", "done"}
  PROVE  /\ LET es == Emit(type) IN
            /\ es # <<>> /\ Len(es) = Len(events) + 1 /\ es[Len(es)].type = type
            /\ events # <<>> => Len(es) > 1 /\ es[Len(es) - 1] = events[Len(events)]
            /\ Len(events) > 1 => es[Len(es) - 2] = events[Len(events) - 1]
         /\ LET es == Emit("message") \o <<[type |-> "done", call |-> 0]>> IN
            /\ es # <<>> /\ Len(es) = Len(events) + 2
            /\ es[Len(es)].type = "done" /\ es[Len(es) - 1].type = "message"
            /\ events # <<>> => es[Len(es) - 2] = events[Len(events)]
<1> DEFINE e == [type |-> type, call |-> 0]
           m == [type |-> "message", call |-> 0]
           d == [type |-> "done", call |-> 0]
<1>1. e \in Event /\ m \in Event /\ d \in Event
  BY DEF Event
<1>2. e.type = type /\ m.type = "message" /\ d.type = "done"
  OBVIOUS
<1>3. /\ Len(events) \in Nat
      /\ \A x \in Event : /\ Append(events, x) \in Seq(Event) /\ Len(Append(events, x)) = Len(events) + 1
                          /\ Append(events, x)[Len(events) + 1] = x
                          /\ \A i \in 1..Len(events) : Append(events, x)[i] = events[i]
      /\ events # <<>> => Len(events) >= 1
  OBVIOUS
<1>4. /\ Append(events, e) # <<>> /\ Append(events, e)[Len(events) + 1] = e
      /\ events # <<>> => Append(events, e)[Len(events)] = events[Len(events)]
      /\ Len(events) > 1 => Append(events, e)[Len(events) - 1] = events[Len(events) - 1]
  <2>1. Len(Append(events, e)) # 0
    BY <1>1, <1>3
  <2>2. events # <<>> => Len(events) \in 1..Len(events)
    BY <1>3
  <2>3. Len(events) > 1 => Len(events) - 1 \in 1..Len(events)
    BY <1>3
  <2> HIDE DEF e, m, d
  <2> QED  BY <1>1, <1>3, <2>1, <2>2, <2>3
<1>5. /\ Append(events, m) \o <<d>> \in Seq(Event) /\ Len(Append(events, m) \o <<d>>) = Len(events) + 2
      /\ (Append(events, m) \o <<d>>)[Len(events) + 2] = d
      /\ \A i \in 1..(Len(events) + 1) : (Append(events, m) \o <<d>>)[i] = Append(events, m)[i]
  <2>1. <<d>> \in Seq(Event) /\ Len(<<d>>) = 1 /\ <<d>>[1] = d
    BY <1>1
  <2> HIDE DEF e, m, d
  <2>2. Append(events, m) \in Seq(Event) /\ Len(Append(events, m)) = Len(events) + 1
    BY <1>1, <1>3
  <2>3. /\ Append(events, m) \o <<d>> \in Seq(Event)
        /\ Len(Append(events, m) \o <<d>>) = Len(Append(events, m)) + Len(<<d>>)
        /\ \A i \in 1..(Len(Append(events, m)) + Len(<<d>>)) :
             (Append(events, m) \o <<d>>)[i] =
               IF i <= Len(Append(events, m)) THEN Append(events, m)[i]
                                              ELSE <<d>>[i - Len(Append(events, m))]
    BY <2>1, <2>2, ConcatProperties
  <2> QED  BY <1>3, <2>1, <2>2, <2>3
<1>6. /\ (Append(events, m) \o <<d>>)[Len(events) + 1] = m
      /\ events # <<>> => (Append(events, m) \o <<d>>)[Len(events)] = events[Len(events)]
      /\ Append(events, m) \o <<d>> # <<>>
  <2>1. Len(Append(events, m) \o <<d>>) # 0
    BY <1>3, <1>5
  <2> HIDE DEF e, m, d
  <2> QED  BY <1>1, <1>3, <1>5, <2>1
<1>7. /\ Emit(type) = Append(events, e)
      /\ Emit("message") \o <<[type |-> "done", call |-> 0]>> = Append(events, m) \o <<d>>
  BY DEF Emit
<1> HIDE DEF e, m, d
<1>8. /\ Len(events) + 1 - 1 = Len(events) /\ Len(events) + 1 - 2 = Len(events) - 1
      /\ Len(events) + 2 - 1 = Len(events) + 1 /\ Len(events) + 2 - 2 = Len(events)
      /\ events # <<>> => Len(events) + 1 > 1
  BY <1>3
<1>9. LET es == Append(events, e) IN
      /\ es # <<>> /\ Len(es) = Len(events) + 1 /\ es[Len(es)].type = type
      /\ events # <<>> => Len(es) > 1 /\ es[Len(es) - 1] = events[Len(events)]
      /\ Len(events) > 1 => es[Len(es) - 2] = events[Len(events) - 1]
  <2>1. Len(Append(events, e)) = Len(events) + 1
    BY <1>1, <1>3
  <2>2. Append(events, e)[Len(events) + 1].type = type
    BY <1>2, <1>4
  <2> DEFINE es == Append(events, e)
  <2>3. es # <<>> /\ Len(es) = Len(events) + 1 /\ es[Len(events) + 1].type = type
    BY <1>4, <2>1, <2>2
  <2>4. /\ events # <<>> => es[Len(events)] = events[Len(events)]
        /\ Len(events) > 1 => es[Len(events) - 1] = events[Len(events) - 1]
    BY <1>4
  <2> HIDE DEF es
  <2>5. Len(es) - 1 = Len(events) /\ Len(es) - 2 = Len(events) - 1 /\ (events # <<>> => Len(es) > 1)
    BY <1>3, <2>3
  <2>6. /\ es # <<>> /\ Len(es) = Len(events) + 1 /\ es[Len(es)].type = type
        /\ events # <<>> => Len(es) > 1 /\ es[Len(es) - 1] = events[Len(events)]
        /\ Len(events) > 1 => es[Len(es) - 2] = events[Len(events) - 1]
    BY <2>3, <2>4, <2>5
  <2> QED  BY <2>6 DEF es
<1>10. LET es == Append(events, m) \o <<d>> IN
       /\ es # <<>> /\ Len(es) = Len(events) + 2
       /\ es[Len(es)].type = "done" /\ es[Len(es) - 1].type = "message"
       /\ events # <<>> => es[Len(es) - 2] = events[Len(events)]
  BY <1>2, <1>5, <1>6, <1>8
<1> QED  BY <1>7, <1>9, <1>10

LEMMA SaidInvNext == TypeInv /\ SaidInv /\ [Next]_vars => SaidInv'
<1> SUFFICES ASSUME TypeInv, SaidInv, [Next]_vars PROVE SaidInv'
  OBVIOUS
<1>1. events \in Seq(Event) /\ Len(events) \in Nat /\ (events = <<>> => Len(events) = 0)
      /\ (events # <<>> => Len(events) > 0)
  BY DEF TypeInv, TypeOK
<1>2. ASSUME pc' = "ended", events' = Emit("error")
      PROVE  SaidInv'
  BY <1>1, <1>2, LastEvents DEF SaidInv, DoneMeansAnswered
<1>3. CASE PreFiltered
  <2>1. pc' = "ended" /\ events = <<>> /\ events' = Emit("message") \o <<[type |-> "done", call |-> 0]>>
    BY <1>3 DEF PreFiltered, SaidInv
  <2> QED  BY <1>1, <2>1, LastEvents DEF SaidInv, DoneMeansAnswered
<1>4. CASE Begin
  BY <1>4 DEF Begin, SaidInv, DoneMeansAnswered
<1>5. CASE Accepted
  BY <1>5 DEF Accepted, SaidInv, Said, DoneMeansAnswered
<1>6. CASE Busy \/ Refused \/ Backoff \/ StreamBroken
  <2>1. \/ pc' = "ended" /\ events' = Emit("error")
        \/ pc \in {"send", "backoff"} /\ pc' \in {"send", "backoff"} /\ UNCHANGED events
    BY <1>6 DEF Busy, Refused, Backoff, StreamBroken, Retry, Fail
  <2> QED  BY <1>2, <2>1 DEF SaidInv, Said, DoneMeansAnswered
<1>7. CASE StreamText
  <2>1. /\ pc = "stream" /\ ~ spoke /\ pc' = "stream" /\ spoke' = TRUE
        /\ events' = Emit("message")
    BY <1>7 DEF StreamText
  <2>2. /\ events' # <<>> /\ Len(events') = Len(events) + 1 /\ events'[Len(events')].type = "message"
        /\ events # <<>> => events'[Len(events') - 1] = events[Len(events)]
    BY <1>1, <2>1, LastEvents
  <2>3. events = <<>> \/ events[Len(events)].type = "message"
    BY <2>1 DEF SaidInv, Said
  <2>4. Len(events') > 1 => events # <<>>
    BY <1>1, <2>2
  <2> QED  BY <2>1, <2>2, <2>3, <2>4 DEF SaidInv, Said, DoneMeansAnswered
<1>8. CASE StreamEmpty
  <2>1. /\ pc = "stream" /\ ~ spoke /\ iter' = iter
        /\ \/ pc' = "send" /\ UNCHANGED events
           \/ pc' = "ended" /\ events' = Emit("message") \o <<[type |-> "done", call |-> 0]>>
    BY <1>8 DEF StreamEmpty
  <2>2. events = <<>> \/ events[Len(events)].type = "message"
    BY <2>1 DEF SaidInv, Said
  <2>3. CASE pc' = "send" /\ UNCHANGED events
    BY <2>2, <2>3 DEF SaidInv, Said, DoneMeansAnswered
  <2>4. CASE pc' = "ended" /\ events' = Emit("message") \o <<[type |-> "done", call |-> 0]>>
    <3>1. /\ Len(events') = Len(events) + 2
          /\ events'[Len(events')].type = "done" /\ events'[Len(events') - 1].type = "message"
          /\ events # <<>> => events'[Len(events') - 2] = events[Len(events)]
      BY <1>1, <2>4, LastEvents
    <3>2. Len(events') > 1 /\ (events = <<>> => Len(events') = 2)
      BY <1>1, <3>1
    <3> QED  BY <2>2, <2>4, <3>1, <3>2 DEF SaidInv, DoneMeansAnswered
  <2> QED  BY <2>1, <2>3, <2>4
<1>9. CASE StreamAnswer
  <2>1. /\ pc = "stream" /\ spoke /\ pc' = "ended" /\ events' = Emit("done")
    BY <1>9 DEF StreamAnswer
  <2>2. /\ events # <<>> /\ events[Len(events)].type = "message"
        /\ Len(events) > 1 => events[Len(events) - 1].type = "message"
    BY <2>1 DEF SaidInv, Said
  <2>3. /\ Len(events') = Len(events) + 1 /\ Len(events') > 1
        /\ events'[Len(events') - 1] = events[Len(events)]
        /\ Len(events) > 1 => events'[Len(events') - 2] = events[Len(events) - 1]
    BY <1>1, <2>1, <2>2, LastEvents
  <2>4. Len(events) > 1 \/ Len(events') = 2
    BY <1>1, <2>2, <2>3
  <2> QED  BY <2>1, <2>2, <2>3, <2>4 DEF SaidInv, DoneMeansAnswered
<1>10. CASE NextRound
  <2>1. \/ pc' = "send" /\ events' = Emit("message")
        \/ pc' = "ended" /\ iter' = MaxIter
           /\ events' = Emit("message") \o <<[type |-> "done", call |-> 0]>>
    <3>1. pc = "tools" /\ iter \in Nat /\ iter < MaxIter /\ MaxIter \in Nat
      BY <1>10, AgentAssumption DEF NextRound, TypeInv, TypeOK, Rounds
    <3> QED  BY <1>10, <3>1 DEF NextRound
  <2>2. CASE pc' = "send" /\ events' = Emit("message")
    BY <1>1, <2>2, LastEvents DEF SaidInv, Said, DoneMeansAnswered
  <2>3. CASE pc' = "ended" /\ iter' = MaxIter
             /\ events' = Emit("message") \o <<[type |-> "done", call |-> 0]>>
    <3>1. /\ Len(events') = Len(events) + 2
          /\ events'[Len(events')].type = "done" /\ events'[Len(events') - 1].type = "message"
      BY <1>1, <2>3, LastEvents
    <3>2. Len(events') > 1
      BY <1>1, <3>1
    <3>3. ~ (iter' < MaxIter)
      BY <2>3, AgentAssumption
    <3> QED  BY <2>3, <3>1, <3>2, <3>3 DEF SaidInv, DoneMeansAnswered
  <2> QED  BY <2>1, <2>2, <2>3
<1>11. CASE \/ \E n \in 1..MaxCalls : \E kinds \in [1..n -> CallKinds] : StreamCalls(n, kinds)
            \/ RunTool \/ Panic
  <2>1. pc' \in {"tools", "panicked"}
    BY <1>11 DEF StreamCalls, RunTool, Panic
  <2> QED  BY <2>1 DEF SaidInv, DoneMeansAnswered
<1>12. CASE Cancel \/ UNCHANGED vars
  <2>1. UNCHANGED <<pc, events, spoke, iter>>
    BY <1>12 DEF Cancel, vars
  <2> QED  BY <2>1 DEF SaidInv, Said, DoneMeansAnswered
<1> QED  BY <1>3, <1>4, <1>5, <1>6, <1>7, <1>8, <1>9, <1>10, <1>11, <1>12 DEF Next, Step

\* However often a request is repeated, a question gets one answer: what the
\* reader has seen of an answer is never asked for again, and a turn that says
\* it is done has spoken after its last tool, unless it ran out of rounds.
THEOREM AgentAnswersOnce == Spec => []AnsweredOnce
<1>1. Init => SaidInv
  BY DEF Init, SaidInv, DoneMeansAnswered
<1>2. TypeInv /\ SaidInv => AnsweredOnce
  BY DEF TypeInv, Silence, SaidInv, AnsweredOnce, OneVoicePerRound
<1> QED  BY <1>1, <1>2, SaidInvNext, TypeInvariance, PTL DEF Spec

----------------------------------------------------------------------------
(* No tool runs twice. *)

ToolNews == {"tool_call", "tool_result"}

\* The id of the first call that is still to be executed.
NextToRun == nextCall - Len(todo)

\* Calls are executed in the order of their ids: one still to come has neither
\* run nor been told of.
OnceInv ==
  /\ ToolsRunOnce
  /\ pc # "panicked" =>
       /\ pc # "tools" => todo = <<>>
       /\ \A j \in DOMAIN todo : todo[j].id = NextToRun + j - 1
       /\ \A i \in DOMAIN events : events[i].type \in ToolNews => events[i].call < NextToRun
       /\ \A c \in CallIds : c >= NextToRun => ran[c] = 0

\* The steps that run no tool and tell of none.
LEMMA OncePlain ==
  ASSUME OnceInv, pc # "panicked", UNCHANGED ran, NextToRun' = NextToRun,
         pc' # "tools" => todo' = <<>>,
         \A j \in DOMAIN todo' : todo'[j].id = NextToRun + j - 1,
         DOMAIN events \subseteq DOMAIN events',
         \A i \in DOMAIN events : events'[i] = events[i],
         \A i \in DOMAIN events' \ DOMAIN events : events'[i].type \notin ToolNews
  PROVE  OnceInv'
<1>1. \A type \in ToolNews : \A c \in CallIds :
        {i \in DOMAIN events' : events'[i].type = type /\ events'[i].call = c} =
        {i \in DOMAIN events : events[i].type = type /\ events[i].call = c}
  OBVIOUS
<1>2. ToolsRunOnce'
  BY <1>1 DEF OnceInv, ToolsRunOnce, ToolNews
<1>3. \A i \in DOMAIN events' : events'[i].type \in ToolNews => events'[i].call < NextToRun
  BY DEF OnceInv
<1> QED  BY <1>2, <1>3 DEF OnceInv

\* What is pushed between the tools is no news of a tool.
LEMMA PlainEvents ==
  ASSUME events \in Seq(Event),
         \/ events' = events
         \/ \E type \in {"message", "error", "done"} : events' = Emit(type)
         \/ events' = Emit("message") \o <<[type |-> "done", call |-> 0]>>
  PROVE  /\ DOMAIN events \subseteq DOMAIN events'
         /\ \A i \in DOMAIN events : events'[i] = events[i]
         /\ \A i \in DOMAIN events' \ DOMAIN events : events'[i].type \notin ToolNews
<1>1. ASSUME NEW type \in {"message", "error", "done"}, NEW es \in Seq(Event)
      PROVE  LET fs == Append(es, [type |-> type, call |-> 0]) IN
             /\ fs \in Seq(Event) /\ DOMAIN es \subseteq DOMAIN fs
             /\ \A i \in DOMAIN es : fs[i] = es[i]
             /\ \A i \in DOMAIN fs \ DOMAIN es : fs[i].type \notin ToolNews
  <2> DEFINE e == [type |-> type, call |-> 0]
             fs == Append(es, e)
  <2>1. e \in Event /\ e.type \notin ToolNews
    BY DEF Event, ToolNews
  <2> HIDE DEF e
  <2>2. fs \in Seq(Event) /\ Len(fs) = Len(es) + 1 /\ fs[Len(es) + 1] = e
        /\ \A i \in 1..Len(es) : fs[i] = es[i]
    BY <2>1
  <2>3. Len(es) \in Nat /\ DOMAIN es = 1..Len(es)
    BY LenProperties
  <2>4. DOMAIN fs = 1..(Len(es) + 1)
    BY <2>2
  <2> HIDE DEF fs
  <2>5. DOMAIN fs \ DOMAIN es = {Len(es) + 1} /\ DOMAIN es \subseteq DOMAIN fs
    BY <2>3, <2>4
  <2> QED  BY <2>1, <2>2, <2>3, <2>5 DEF fs, e
<1>2. CASE events' = events
  BY <1>2
<1>3. CASE \E type \in {"message", "error", "done"} : events' = Emit(type)
  BY <1>1, <1>3 DEF Emit
<1>4. CASE events' = Emit("message") \o <<[type |-> "done", call |-> 0]>>
  <2> DEFINE d == [type |-> "done", call |-> 0]
             es == Emit("message")
  <2>1. /\ es \in Seq(Event) /\ DOMAIN events \subseteq DOMAIN es
        /\ \A i \in DOMAIN events : es[i] = events[i]
        /\ \A i \in DOMAIN es \ DOMAIN events : es[i].type \notin ToolNews
    BY <1>1 DEF Emit
  <2> HIDE DEF es
  <2>2. LET fs == Append(es, d) IN
        /\ fs \in Seq(Event) /\ DOMAIN es \subseteq DOMAIN fs
        /\ \A i \in DOMAIN es : fs[i] = es[i]
        /\ \A i \in DOMAIN fs \ DOMAIN es : fs[i].type \notin ToolNews
    BY <1>1, <2>1
  <2>3. d \in Event
    BY DEF Event
  <2> HIDE DEF d
  <2>4. events' = Append(es, d)
    BY <1>4, <2>1, <2>3 DEF es, d
  <2> QED  BY <2>1, <2>2, <2>4
<1> QED  BY <1>2, <1>3, <1>4

\* The model asks for calls: their ids come next.
LEMMA OnceCalls ==
  ASSUME TypeInv, OnceInv,
         NEW n \in 1..MaxCalls, NEW kinds \in [1..n -> CallKinds], StreamCalls(n, kinds)
  PROVE  OnceInv'
<1> DEFINE calls == [i \in 1..n |-> [id |-> nextCall + i - 1, kind |-> kinds[i]]]
<1>1. /\ pc = "stream" /\ pc' = "tools" /\ todo' = calls /\ nextCall' = nextCall + n
      /\ UNCHANGED <<events, ran>>
  BY DEF StreamCalls
<1>2. Len(calls) = n /\ calls \in Seq(Call)
  BY <1>1, CallsTyped
<1>3. nextCall \in Nat /\ n \in Nat /\ todo = <<>>
  BY <1>1 DEF TypeInv, TypeOK, OnceInv
<1>4. \A j \in 1..n : calls[j].id = nextCall + j - 1
  OBVIOUS
<1> HIDE DEF calls
<1>5. NextToRun = nextCall /\ NextToRun' = nextCall
  BY <1>1, <1>2, <1>3 DEF NextToRun
<1>6. DOMAIN todo' = 1..n
  BY <1>1, <1>2
<1> QED  BY <1>1, <1>4, <1>5, <1>6, OncePlain

\* The next call is executed.
LEMMA OnceTool ==
  ASSUME TypeInv, OnceInv, RunTool
  PROVE  OnceInv'
<1> DEFINE c == Head(todo)
           e == [type |-> "tool_call", call |-> c.id]
           f == [type |-> "tool_result", call |-> c.id]
<1>1. /\ pc = "tools" /\ todo # <<>> /\ pc' = "tools" /\ nextCall' = nextCall
      /\ HandlerRuns(c) /\ events' = events \o <<e, f>> /\ todo' = Tail(todo)
  BY DEF RunTool, ToolEvents
<1>2. /\ todo \in Seq(Call) /\ events \in Seq(Event) /\ nextCall \in Nat
      /\ ran \in [CallIds -> Nat]
  BY DEF TypeInv, TypeOK
<1>3. /\ Len(todo) \in Nat \ {0} /\ Len(todo') = Len(todo) - 1 /\ DOMAIN todo' = 1..(Len(todo) - 1)
      /\ \A j \in 1..(Len(todo) - 1) : todo'[j] = todo[j + 1] /\ j + 1 \in DOMAIN todo
      /\ c = todo[1] /\ 1 \in DOMAIN todo /\ c \in Call
  BY <1>1, <1>2
<1>4. c.id = NextToRun /\ NextToRun \in Int /\ NextToRun' = NextToRun + 1 /\ NextToRun \in CallIds
  <2>1. NextToRun \in Int /\ NextToRun' = NextToRun + 1
    BY <1>1, <1>2, <1>3 DEF NextToRun
  <2>2. c.id = NextToRun + 1 - 1
    BY <1>1, <1>3 DEF OnceInv
  <2>3. c.id \in CallIds
    BY <1>3 DEF Call
  <2> QED  BY <2>1, <2>2, <2>3
<1>5. e \in Event /\ f \in Event
  BY <1>4 DEF Event
<1>6. e.type = "tool_call" /\ f.type = "tool_result" /\ e.call = NextToRun /\ f.call = NextToRun
  BY <1>4
<1> DEFINE n == Len(events)
<1> HIDE DEF c, e, f
<1>7. /\ n \in Nat /\ DOMAIN events = 1..n /\ events' \in Seq(Event) /\ Len(events') = n + 2
      /\ \A i \in 1..n : events'[i] = events[i]
      /\ events'[n + 1] = e /\ events'[n + 2] = f
  <2>1. <<e, f>> \in Seq(Event) /\ Len(<<e, f>>) = 2 /\ <<e, f>>[1] = e /\ <<e, f>>[2] = f
    BY <1>5
  <2>2. /\ events \o <<e, f>> \in Seq(Event) /\ Len(events \o <<e, f>>) = Len(events) + 2
        /\ \A i \in 1..(Len(events) + 2) :
             (events \o <<e, f>>)[i] = IF i <= Len(events) THEN events[i] ELSE <<e, f>>[i - Len(events)]
    BY <1>2, <2>1, ConcatProperties
  <2>3. Len(events) \in Nat /\ DOMAIN events = 1..Len(events)
    BY <1>2, LenProperties
  <2> QED  BY <1>1, <2>1, <2>2, <2>3
<1>8. DOMAIN events' = 1..(n + 2)
  BY <1>7
<1> HIDE DEF n
<1>9. \A i \in DOMAIN events' : i \in DOMAIN events \/ i = n + 1 \/ i = n + 2
  BY <1>7, <1>8
<1>10. n + 1 \in DOMAIN events' /\ n + 2 \in DOMAIN events' /\ n + 1 + 1 = n + 2
       /\ DOMAIN events \subseteq DOMAIN events'
  BY <1>7, <1>8
<1>11. \A i \in DOMAIN events : events[i].type \in ToolNews => events[i].call < NextToRun
  BY <1>1 DEF OnceInv
<1>12. ASSUME NEW d \in CallIds, d # NextToRun
       PROVE  /\ ran'[d] = ran[d]
              /\ \A type \in ToolNews :
                   {i \in DOMAIN events' : events'[i].type = type /\ events'[i].call = d} =
                   {i \in DOMAIN events : events[i].type = type /\ events[i].call = d}
  <2>1. ran'[d] = ran[d]
    BY <1>1, <1>2, <1>4, <1>12 DEF HandlerRuns
  <2> QED  BY <1>6, <1>7, <1>9, <1>10, <1>12, <2>1
<1>13. /\ {i \in DOMAIN events' : events'[i].type = "tool_call" /\ events'[i].call = NextToRun} = {n + 1}
       /\ {i \in DOMAIN events' : events'[i].type = "tool_result" /\ events'[i].call = NextToRun} = {n + 2}
  <2>1. \A i \in DOMAIN events : events'[i].type \in ToolNews => events'[i].call # NextToRun
    BY <1>4, <1>7, <1>11
  <2>2. "tool_call" # "tool_result" /\ "tool_call" \in ToolNews /\ "tool_result" \in ToolNews
    BY DEF ToolNews
  <2>3. events'[n + 1].type = "tool_call" /\ events'[n + 2].type = "tool_result"
        /\ events'[n + 1].call = NextToRun /\ events'[n + 2].call = NextToRun
    BY <1>6, <1>7
  <2> QED  BY <1>9, <1>10, <2>1, <2>2, <2>3
<1>14. ran'[NextToRun] \in {0, 1}
  <2>1. ran[NextToRun] = 0
    BY <1>1, <1>4 DEF OnceInv
  <2> QED  BY <1>1, <1>2, <1>4, <2>1 DEF HandlerRuns
<1>15. ToolsRunOnce'
  <2> SUFFICES ASSUME NEW d \in CallIds
               PROVE  LET News(type) == {i \in DOMAIN events' : events'[i].type = type
                                                                /\ events'[i].call = d} IN
                      /\ ran'[d] <= 1
                      /\ ran'[d] = 1 => News("tool_result") # {}
                      /\ \A i, j \in News("tool_result") : i = j
                      /\ \A i \in News("tool_call") : i + 1 \in News("tool_result")
    BY DEF ToolsRunOnce
  <2>1. CASE d = NextToRun
    BY <1>10, <1>13, <1>14, <2>1
  <2>2. CASE d # NextToRun
    <3>1. LET News(type) == {i \in DOMAIN events : events[i].type = type /\ events[i].call = d} IN
          /\ ran[d] <= 1
          /\ ran[d] = 1 => News("tool_result") # {}
          /\ \A i, j \in News("tool_result") : i = j
          /\ \A i \in News("tool_call") : i + 1 \in News("tool_result")
      BY <1>1 DEF OnceInv, ToolsRunOnce
    <3>2. /\ ran'[d] = ran[d]
          /\ {i \in DOMAIN events' : events'[i].type = "tool_call" /\ events'[i].call = d} =
             {i \in DOMAIN events : events[i].type = "tool_call" /\ events[i].call = d}
          /\ {i \in DOMAIN events' : events'[i].type = "tool_result" /\ events'[i].call = d} =
             {i \in DOMAIN events : events[i].type = "tool_result" /\ events[i].call = d}
      BY <1>12, <2>2 DEF ToolNews
    <3> QED  BY <3>1, <3>2
  <2> QED  BY <2>1, <2>2
<1>16. \A j \in DOMAIN todo' : todo'[j].id = NextToRun' + j - 1
  <2>1. \A j \in DOMAIN todo : todo[j].id = NextToRun + j - 1
    BY <1>1 DEF OnceInv
  <2> QED  BY <1>3, <1>4, <2>1
<1>17. \A i \in DOMAIN events' : events'[i].type \in ToolNews => events'[i].call < NextToRun'
  <2>1. \A i \in DOMAIN events : events'[i].type \in ToolNews => events'[i].call < NextToRun + 1
    <3>1. \A i \in DOMAIN events : events[i] \in Event
      BY <1>2
    <3>2. \A i \in DOMAIN events : events[i].call \in Int
      BY <3>1, AgentAssumption DEF Event, CallIds
    <3> QED  BY <1>4, <1>7, <1>11, <3>2
  <2> QED  BY <1>4, <1>6, <1>7, <1>9, <2>1
<1>18. \A d \in CallIds : d >= NextToRun' => ran'[d] = 0
  <2>1. \A d \in CallIds : d >= NextToRun + 1 => d # NextToRun /\ d >= NextToRun
    BY <1>4, AgentAssumption DEF CallIds
  <2> QED  BY <1>1, <1>4, <1>12, <2>1 DEF OnceInv
<1> QED  BY <1>1, <1>15, <1>16, <1>17, <1>18 DEF OnceInv

\* A panic tells of a call and of no result.
LEMMA OncePanic ==
  ASSUME TypeInv, OnceInv, Panic
  PROVE  OnceInv'
<1> DEFINE e == [type |-> "tool_call", call |-> Head(todo).id]
<1>1. /\ pc = "tools" /\ todo # <<>> /\ pc' = "panicked" /\ events' = Append(events, e)
      /\ UNCHANGED ran
  BY DEF Panic
<1>2. events \in Seq(Event) /\ e \in Event
  <2>1. todo \in Seq(Call) /\ Head(todo) \in Call
    BY <1>1 DEF TypeInv, TypeOK
  <2> QED  BY <2>1 DEF TypeInv, TypeOK, Event, Call
<1>3. e.type # "tool_result"
  OBVIOUS
<1> HIDE DEF e
<1>4. /\ DOMAIN events = 1..Len(events) /\ Len(events) \in Nat /\ DOMAIN events' = 1..(Len(events) + 1)
      /\ events'[Len(events) + 1] = e /\ \A i \in 1..Len(events) : events'[i] = events[i]
  BY <1>1, <1>2
<1>5. \A c \in CallIds :
        {i \in DOMAIN events' : events'[i].type = "tool_result" /\ events'[i].call = c} =
        {i \in DOMAIN events : events[i].type = "tool_result" /\ events[i].call = c}
  <2>1. \A i \in DOMAIN events' : i \in DOMAIN events \/ i = Len(events) + 1
    BY <1>4
  <2>2. DOMAIN events \subseteq DOMAIN events' /\ events'[Len(events) + 1].type # "tool_result"
    BY <1>3, <1>4
  <2> QED  BY <1>4, <2>1, <2>2
<1>6. ToolsRunOnce'
  BY <1>1, <1>5 DEF OnceInv, ToolsRunOnce
<1> QED  BY <1>1, <1>6 DEF OnceInv

LEMMA OnceInvNext == TypeInv /\ OnceInv /\ [Next]_vars => OnceInv'
<1> SUFFICES ASSUME TypeInv, OnceInv, [Next]_vars PROVE OnceInv'
  OBVIOUS
<1>1. CASE \E n \in 1..MaxCalls : \E kinds \in [1..n -> CallKinds] : StreamCalls(n, kinds)
  BY <1>1, OnceCalls
<1>2. CASE RunTool
  BY <1>2, OnceTool
<1>3. CASE Panic
  BY <1>3, OncePanic
<1>4. CASE \/ PreFiltered \/ Begin \/ Accepted \/ Busy \/ Refused \/ Backoff
           \/ StreamText \/ StreamBroken \/ StreamEmpty \/ StreamAnswer \/ NextRound \/ Cancel
  <2>1. /\ UNCHANGED <<todo, nextCall, ran>> /\ pc # "panicked"
        /\ pc' = "tools" => pc = "tools"
        /\ pc = "tools" => pc' = "tools" \/ todo = <<>>
    BY <1>4 DEF PreFiltered, Begin, Accepted, Busy, Refused, Backoff, Retry, Fail, StreamText,
                StreamBroken, StreamEmpty, StreamAnswer, NextRound, Cancel
  <2>2. \/ events' = events
        \/ \E type \in {"message", "error", "done"} : events' = Emit(type)
        \/ events' = Emit("message") \o <<[type |-> "done", call |-> 0]>>
    BY <1>4 DEF PreFiltered, Begin, Accepted, Busy, Refused, Backoff, Retry, Fail, StreamText,
                StreamBroken, StreamEmpty, StreamAnswer, NextRound, Cancel
  <2>3. events \in Seq(Event)
    BY DEF TypeInv, TypeOK
  <2>4. NextToRun' = NextToRun /\ (pc' # "tools" => todo' = <<>>)
        /\ \A j \in DOMAIN todo' : todo'[j].id = NextToRun + j - 1
    BY <2>1 DEF NextToRun, OnceInv
  <2> QED  BY <2>1, <2>2, <2>3, <2>4, PlainEvents, OncePlain
<1>5. CASE UNCHANGED vars
  BY <1>5 DEF vars, OnceInv, ToolsRunOnce, NextToRun
<1> QED  BY <1>1, <1>2, <1>3, <1>4, <1>5 DEF Next, Step

\* However often requests, answers and rounds are repeated, no call of the
\* model runs its tool twice, and each call the reader saw begin is reported
\* once, unless the turn panicked in it.
THEOREM AgentRunsToolsOnce == Spec => []ToolsRunOnce
<1>1. Init => OnceInv
  <2> SUFFICES ASSUME Init PROVE OnceInv
    OBVIOUS
  <2>1. todo = <<>> /\ events = <<>> /\ pc = "start" /\ \A c \in CallIds : ran[c] = 0
    BY DEF Init
  <2> QED  BY <2>1 DEF OnceInv, ToolsRunOnce
<1>2. OnceInv => ToolsRunOnce
  BY DEF OnceInv
<1> QED  BY <1>1, <1>2, OnceInvNext, TypeInvariance, PTL DEF Spec
=============================================================================
