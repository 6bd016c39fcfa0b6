-------------------------------- MODULE Chat --------------------------------
(***************************************************************************)
(* Conversations: the chat endpoint (internal/api/chat.go) around a turn of *)
(* the agent, and deleting a conversation.  Each request is a goroutine; it *)
(* reads and writes the database in single statements, so the requests of  *)
(* a reader with two open pages, or a deletion, come in between.  The turn *)
(* itself (module Agent) is one step here: it ends with a text or without  *)
(* one, and touches no conversation.                                       *)
(***************************************************************************)
EXTENDS Integers, FiniteSets, Functions

CONSTANTS
  Users, Handlers,
  MaxContext,   \* messages of the history that are sent (maxContextMessages)
  Faults,       \* may statements fail and requests die?
  MaxConv,      \* bound: conversations
  MaxTurn       \* bound: turns

ASSUME ChatAssumption ==
  MaxContext \in Nat \ {0} /\ Faults \in BOOLEAN /\ MaxConv \in Nat /\ MaxTurn \in Nat

VARIABLES
  convs,       \* the table conversations; a deleted row keeps its place
  messages,    \* the table messages: from the ids that are there to rows
  nextMessage, \* the next id of the table
  pc, req,     \* per handler: the next statement and the local variables
  nextTurn,    \* turns so far, plus one
  complete,    \* history: <<turn, conversation>> of the turns no statement failed in
  spanned      \* history: the turns a conversation was deleted under

table == <<messages, nextMessage>>
vars == <<convs, table, pc, req, nextTurn, complete, spanned>>

Convs == 1..MaxConv
Turns == 1..MaxTurn

\* Titles and times of the last message are left out.
Conversation == [status: {"unused", "open", "deleted"}, user: Users]
\* turn stands for the content; user is history: whose request stored it.
Message == [conv: Convs, turn: Turns, role: {"user", "assistant"}, user: Users]
\* What SummarizeHistory puts in the place of early messages: no row's id.
Summary == 0

PC == {"idle", "reread", "history", "run", "question", "answer"}
\* turn: the question.
\* context: the messages of the history, in the order of their ids; read: could
\* it be read?; before: the turns complete when the request came; intact: has
\* every statement succeeded?
Req == [user: Users, conv: Convs, turn: Turns, context: SUBSET Nat,
        read: BOOLEAN, before: SUBSET Turns, intact: BOOLEAN]

TypeOK ==
  /\ convs \in [Convs -> Conversation]
  /\ nextMessage \in Nat \ {0} /\ DOMAIN messages \subseteq 1..(nextMessage - 1)
  /\ messages \in [DOMAIN messages -> Message]
  /\ pc \in [Handlers -> PC]
  /\ \A h \in Handlers : req[h] \in IF pc[h] = "idle" THEN {<<>>} ELSE Req
  /\ nextTurn \in 1..(MaxTurn + 1) /\ complete \subseteq Turns \X Convs
  /\ spanned \in [Convs -> SUBSET Turns]

----------------------------------------------------------------------------
(* Helpers. *)

Open(c) == convs[c].status = "open"
MessagesOf(c) == {i \in DOMAIN messages : messages[i].conv = c}

\* The first of the conversation instead of the last.
Oldest(ids, n) == {i \in ids : Cardinality({j \in ids : j < i}) < n}
Latest(ids, n) == {i \in ids : Cardinality({j \in ids : j > i}) < n}

SummarizeHistory(history, max) ==
  IF Cardinality(history) <= max THEN history ELSE {Summary} \cup Latest(history, max)

\* The messages are cut to MaxContext first; the long conversation then has its
\* cut history summarised.
History(c) ==
  LET all == MessagesOf(c)
      recent == Latest(all, MaxContext) IN
  IF Cardinality(all) > 2 * MaxContext THEN SummarizeHistory(recent, MaxContext) ELSE recent

\* Loop.Run passes on the two roles of a dialogue.
Sent(history) == history \ {Summary}

Goto(h, label) == pc' = [pc EXCEPT ![h] = label]

Begin(h, u, c, label) ==
  /\ pc[h] = "idle" /\ nextTurn <= MaxTurn
  /\ req' = [req EXCEPT ![h] =
       [user |-> u, conv |-> c, turn |-> nextTurn, context |-> {},
        read |-> TRUE, before |-> {t \in Turns : <<t, c>> \in complete}, intact |-> TRUE]]
  /\ nextTurn' = nextTurn + 1
  /\ Goto(h, label)

Leave(h) == Goto(h, "idle") /\ req' = [req EXCEPT ![h] = <<>>]

\* A database id that was used is given out again.
LowestFree == {c \in Convs : ~ Open(c) /\ \A d \in 1..(c - 1) : Open(d)}
\* AUTOINCREMENT: ids of deleted rows are not used again.
NextConv == {c \in Convs : convs[c].status = "unused" /\ \A d \in 1..(c - 1) : convs[d].status # "unused"}

Insert(c, u) == convs' = [convs EXCEPT ![c] = [status |-> "open", user |-> u]]

----------------------------------------------------------------------------
(* handleChat. *)

\* The request names a conversation, which has to exist and be the user's.
Chat(h, u, c) ==
  /\ Open(c) /\ convs[c].user = u
  /\ Begin(h, u, c, "history")
  /\ UNCHANGED <<convs, table, complete, spanned>>

\* Not taking the id of the new row.
NewChatNoId(h, u) ==
  \E c \in NextConv :
    /\ Insert(c, u)
    /\ Begin(h, u, 0, "reread")
    /\ UNCHANGED <<table, complete, spanned>>

\* The request names none: the INSERT of CreateConversation.
NewChat(h, u) ==
  \E c \in NextConv :
    /\ Insert(c, u)
    /\ Begin(h, u, c, "reread")
    /\ UNCHANGED <<table, complete, spanned>>

\* The SELECT of CreateConversation.
Reread(h) ==
  /\ pc[h] = "reread"
  /\ IF Open(req[h].conv)
     THEN Goto(h, "history") /\ UNCHANGED req
     ELSE Leave(h)
  /\ UNCHANGED <<convs, table, nextTurn, complete, spanned>>

\* A history that cannot be read is left out.
ReadHistory(h) ==
  /\ pc[h] = "history"
  /\ \/ req' = [req EXCEPT ![h].context = Sent(History(req[h].conv))]
     \/ Faults /\ req' = [req EXCEPT ![h].read = FALSE]
  /\ Goto(h, "run")
  /\ UNCHANGED <<convs, table, nextTurn, complete, spanned>>

\* Loop.Run.  Its text does not matter: an empty one is replaced.
RunTurn(h) ==
  /\ pc[h] = "run"
  /\ Goto(h, "question")
  /\ UNCHANGED <<convs, table, req, nextTurn, complete, spanned>>

\* The INSERT of AddMessage: the conversation need not be there any more.
Store(h, role) ==
  LET row == [conv |-> req[h].conv, turn |-> req[h].turn, role |-> role, user |-> req[h].user] IN
  /\ messages' = [i \in DOMAIN messages \cup {nextMessage} |->
                    IF i = nextMessage THEN row ELSE messages[i]]
  /\ nextMessage' = nextMessage + 1

\* AddMessage, whose error is dropped.
AddQuestion(h) ==
  \/ Store(h, "user") /\ UNCHANGED req
  \/ Faults /\ req' = [req EXCEPT ![h].intact = FALSE] /\ UNCHANGED table

\* Storing again when it looked like a failure.
StoreQuestionAgain(h) ==
  /\ pc[h] = "question"
  /\ AddQuestion(h)
  /\ \E label \in {"question", "answer"} : Goto(h, label)
  /\ UNCHANGED <<convs, nextTurn, complete, spanned>>

\* A turn without an answer is not stored.
StoreQuestionOfAnswered(h) ==
  /\ pc[h] = "question"
  /\ \/ AddQuestion(h)
     \/ UNCHANGED <<table, req>>
  /\ Goto(h, "answer")
  /\ UNCHANGED <<convs, nextTurn, complete, spanned>>

StoreQuestion(h) ==
  /\ pc[h] = "question"
  /\ AddQuestion(h)
  /\ Goto(h, "answer")
  /\ UNCHANGED <<convs, nextTurn, complete, spanned>>

\* AddMessage again; the title that a new conversation gets after this and
\* what the page is told change no row that is modelled.
StoreAnswer(h) ==
  /\ pc[h] = "answer"
  /\ \/ /\ Store(h, "assistant")
        /\ complete' = IF req[h].intact THEN complete \cup {<<req[h].turn, req[h].conv>>} ELSE complete
     \/ Faults /\ UNCHANGED <<table, complete>>
  /\ Leave(h)
  /\ UNCHANGED <<convs, nextTurn, spanned>>

\* The handler panics or the process dies in the middle of the request.
Die(h) ==
  /\ Faults /\ pc[h] # "idle"
  /\ Leave(h)
  /\ UNCHANGED <<convs, table, nextTurn, complete, spanned>>

----------------------------------------------------------------------------
(* The other endpoints. *)

\* handleCreateConversation.  The web page does not use it.
CreateConversation(u) ==
  /\ \E c \in NextConv : Insert(c, u)
  /\ UNCHANGED <<table, pc, req, nextTurn, complete, spanned>>

\* handleDeleteConversation: one transaction, after a check that nothing undoes.
DeleteConversation(u, c) ==
  /\ Open(c) /\ convs[c].user = u
  /\ messages' = Restrict(messages, DOMAIN messages \ MessagesOf(c))
  /\ convs' = [convs EXCEPT ![c].status = "deleted"]
  /\ spanned' = [spanned EXCEPT ![c] = {req[h].turn : h \in {g \in Handlers : pc[g] # "idle" /\ req[g].conv = c}}]
  /\ UNCHANGED <<nextMessage, pc, req, nextTurn, complete>>

Init ==
  /\ convs \in [Convs -> {[status |-> "unused", user |-> u] : u \in Users}]
  /\ \A c, d \in Convs : convs[c] = convs[d]
  /\ messages = [i \in {} |-> i] /\ nextMessage = 1
  /\ pc = [h \in Handlers |-> "idle"] /\ req = [h \in Handlers |-> <<>>]
  /\ nextTurn = 1 /\ complete = {}
  /\ spanned = [c \in Convs |-> {}]

Continue(h) ==
  Reread(h) \/ ReadHistory(h) \/ RunTurn(h) \/ StoreQuestion(h) \/ StoreAnswer(h)

Next ==
  \/ \E h \in Handlers :
       \/ Continue(h) \/ Die(h)
       \/ \E u \in Users : NewChat(h, u) \/ \E c \in Convs : Chat(h, u, c)
  \/ \E u \in Users : CreateConversation(u) \/ \E c \in Convs : DeleteConversation(u, c)

Spec == Init /\ [][Next]_vars

----------------------------------------------------------------------------
(* Properties. *)

\* However requests interleave and fail, a question is stored before its
\* answer, and neither of them twice (chat.go stores both after the turn).
QuestionBeforeAnswer ==
  \A i, j \in DOMAIN messages :
    i < j /\ messages[i].turn = messages[j].turn =>
      messages[i].role = "user" /\ messages[j].role = "assistant"

\* A turn whose statements all succeeded is stored as a whole, as long as its
\* conversation is there.
CompleteTurnsStored ==
  \A t \in Turns, c \in Convs : <<t, c>> \in complete /\ Open(c) =>
    \A role \in {"user", "assistant"} :
      \E i \in DOMAIN messages :
        messages[i].conv = c /\ messages[i].turn = t /\ messages[i].role = role

\* A turn knows what was said before it: each message of a turn that was
\* complete when the request came is in the context, or the context is full of
\* later messages of the conversation (the cut of chat.go).
ContextFollowsOn ==
  \A h \in Handlers : pc[h] = "run" /\ req[h].read =>
    \A i \in DOMAIN messages :
      messages[i].conv = req[h].conv /\ messages[i].turn \in req[h].before =>
        \/ i \in req[h].context
        \/ Cardinality(req[h].context) = MaxContext /\ \A j \in req[h].context : i < j

\* Messages belong to a conversation by its id only, and a turn can outlive its
\* conversation: what it stores then never shows up in another one, so the messages
\* of a conversation come from requests of its user.
OwnMessages ==
  \A i \in DOMAIN messages :
    Open(messages[i].conv) => convs[messages[i].conv].user = messages[i].user

\* A message of a deleted conversation is left over from a turn that was
\* running when it was deleted: no turn starts in a conversation that is gone.
OrphansFromRunningTurns ==
  \A i \in DOMAIN messages :
    ~ Open(messages[i].conv) => messages[i].turn \in spanned[messages[i].conv]

\* The id is all that ties a message to its conversation, and it is enough.
MessagesKeepTheirConversation == OwnMessages /\ OrphansFromRunningTurns

\* What chat.go says where it reads the history: if there are more than
\* 2 * MaxContext messages, those cut off included, the early ones are
\* compressed into a summary, which the model then gets.
EarlyMessagesSummarised ==
  [][\A h \in Handlers :
       pc[h] = "history" /\ req'[h].read /\ Cardinality(MessagesOf(req[h].conv)) > 2 * MaxContext
         /\ pc'[h] = "run" => Summary \in req'[h].context]_vars
=============================================================================
