------------------------------ MODULE Assistant ------------------------------
(***************************************************************************)
(* The three ways to the same services: the buttons of the page            *)
(* (internal/api), the tools the model calls (agent/tools.go) and, without *)
(* a model, the scripts of the offline mode (agent/loop_mock.go).          *)
(*                                                                         *)
(* What the services themselves decide (limits, queues, slots, who is in)  *)
(* is the subject of the other modules.  Here a service does what it is    *)
(* asked or refuses, and what counts is who asked, for which record, and   *)
(* what the reader is told in the end.  The catalogue's answers are left   *)
(* open; a reader's own records are read as they are at that moment, and   *)
(* may be others by the time the request acts on them.                     *)
(***************************************************************************)
EXTENDS Integers, FiniteSets, Sequences, Requests

CONSTANTS
  Chats,      \* the handlers that serve the chat
  Buttons,    \* those that serve the page
  Accounts,   \* the readers, each with an account
  Offline,    \* those of them who chat while there is no model
  Librarian,  \* the one among them whose account is an administrator's
  Titles,     \* the books
  TitlesWith, \* of each title, those that it is a part of, itself among them
  MaxRecords  \* bound: records ever made

ASSUME AssistantAssumption ==
  /\ Chats \subseteq Handlers /\ Buttons \subseteq Handlers
  /\ Offline \subseteq Accounts /\ Librarian \in Accounts
  /\ TitlesWith \in [Titles -> SUBSET Titles] /\ \A t \in Titles : t \in TitlesWith[t]
  /\ MaxRecords \in Nat

VARIABLES
  provider,   \* the configured model: "mock" (none) or "keyed"
  matter,     \* bound: the one kind of record the requests are about
  records     \* loans, holds, seat reservations and passages; the index is the id

given == <<provider, matter>>
assistantVars == <<pc, req, given, records>>

\* What each tool and button works on.  A request works on records of one
\* kind, and the kinds have nothing in common.
LoanTools == {"return_book", "renew_loan"}
SeatTools == {"cancel_seat_reservation", "checkin_seat"}
Closing == LoanTools \cup SeatTools \cup {"cancel_hold"}
Opening == {"borrow", "place_hold", "reserve_seat", "gate_scan"}

Kinds == {"loan", "seat", "hold", "passage"}

Kind(tool) ==
  CASE tool \in LoanTools \cup {"borrow", "get_my_loans"} -> "loan"
    [] tool \in SeatTools \cup {"reserve_seat", "get_my_seat_reservations"} -> "seat"
    [] tool \in {"place_hold", "cancel_hold"} -> "hold"
    [] OTHER -> "passage"

\* The services that read the row back after they wrote it: when this fails,
\* the request fails though its act stands.
ReadBack == {"borrow", "renew_loan", "reserve_seat", "checkin_seat"}

\* state: open, or the tool that closed the record.
Record ==
  [kind: Kinds, owner: Accounts, title: Titles \cup {Nobody},
   state: {"open"} \cup Closing]

AssistantTypeOK ==
  /\ provider \in {"mock", "keyed"} /\ matter \in Kinds
  /\ records \in Seq(Record) /\ Len(records) <= MaxRecords
  /\ pc \in [Handlers -> {"idle", "script", "act", "answered"}]

----------------------------------------------------------------------------
(* The services. *)

\* A record of the kind, whatever its state.
Found(tool, id) == id \in DOMAIN records /\ records[id].kind = Kind(tool)

\* Closing it whatever its state.
CloseAgain(tool, who, id) ==
  /\ Found(tool, id)
  /\ records' = [records EXCEPT ![id].state = tool]

\* Return, Renew, CancelSeatReservation, CheckinSeat, CancelHold.  The last
\* three compare the owner; the first two leave that to the caller.
Close(tool, who, id) ==
  /\ Found(tool, id) /\ records[id].state = "open"
  /\ tool \notin LoanTools => records[id].owner = who
  /\ LET closed == [records EXCEPT ![id].state = tool]
     IN IF tool = "renew_loan"
        THEN /\ Len(records) < MaxRecords   \* bound
             /\ records' = Append(closed, records[id])
        ELSE records' = closed

\* Borrow, PlaceHold, ReserveSeat, GateScan.
Open(tool, who, title) ==
  /\ Len(records) < MaxRecords   \* bound
  /\ records' = Append(records, [kind |-> Kind(tool), owner |-> who, state |-> "open",
                                 title |-> IF tool = "borrow" THEN title ELSE Nobody])

\* A request of the account "session" on behalf of the reader "who".
\* cards: the tool calls shown to the reader, with what became of them.
Asked(op, session, who, tool, id, title) ==
  [op |-> op, session |-> session, who |-> who, tool |-> tool, id |-> id, title |-> title,
   steps |-> <<>>, cards |-> <<>>, did |-> FALSE]

\* The answer, before it leaves: what is told, and what it is about.
Tell(h, r, told) ==
  Goto(h, "answered",
       [op |-> IF r.op = "offline" THEN r.op ELSE "other", tool |-> r.tool, cards |-> r.cards,
        told |-> told, did |-> r.did, id |-> IF r.did THEN r.id ELSE 0,
        title |-> IF r.did THEN r.title ELSE Nobody])

\* A request gets as far as its act, or no further than its first checks.
Accept(h, r) == Kind(r.tool) = matter /\ Begin(h, "act", r)

Refuse(h, r) == Kind(r.tool) = matter /\ pc[h] = "idle" /\ Tell(h, r, "failed")

\* The card of the act.  Two scripts put their error inside the result,
\* where the page does not look for it.
ActCard(r, told) ==
  IF r.op = "offline"
  THEN Append(r.cards, [tool |-> r.tool,
                        done |-> told = "done" \/ r.tool \in {"reserve_seat", "gate_scan"}])
  ELSE r.cards

\* Not looking at the error of the service.
ActUnchecked(h) ==
  LET r == req[h] IN
  /\ pc[h] = "act"
  /\ \/ /\ IF r.tool \in Opening THEN Open(r.tool, r.who, r.title) ELSE Close(r.tool, r.who, r.id)
        /\ Tell(h, [r EXCEPT !.did = TRUE, !.cards = ActCard(r, "done")], "done")
     \/ /\ UNCHANGED records
        /\ Tell(h, [r EXCEPT !.cards = ActCard(r, "done")], "done")
  /\ UNCHANGED given

\* The call of the service, and what its error makes of the answer.
Act(h) ==
  LET r == req[h] IN
  /\ pc[h] = "act"
  /\ \/ /\ IF r.tool \in Opening THEN Open(r.tool, r.who, r.title) ELSE Close(r.tool, r.who, r.id)
        /\ \E told \in {"done"} \cup IF r.tool \in ReadBack THEN {"failed"} ELSE {} :
             Tell(h, [r EXCEPT !.did = TRUE, !.cards = ActCard(r, told)], told)
     \/ /\ UNCHANGED records
        /\ Tell(h, [r EXCEPT !.cards = ActCard(r, "failed")], "failed")
  /\ UNCHANGED given

\* The answer leaves.
Respond(h) ==
  /\ pc[h] = "answered"
  /\ Finish(h)
  /\ UNCHANGED <<given, records>>

----------------------------------------------------------------------------
(* The page. *)

\* LoanOwner, then requirePatronScope: the reader's own, or any for the
\* administrator.
requirePatronScope(a, owner) == owner = a \/ a = Librarian

ByLoanOwner(h, a, tool, id) ==
  LET r == Asked("page", a, a, tool, id, Nobody) IN
  /\ IF Found(tool, id) /\ requirePatronScope(a, records[id].owner)
     THEN Accept(h, r)
     ELSE Refuse(h, r)
  /\ UNCHANGED <<given, records>>

handleReturn(h, a, id) == ByLoanOwner(h, a, "return_book", id)

handleRenew(h, a, id) == ByLoanOwner(h, a, "renew_loan", id)

\* handleBorrow and handlePlaceHold: patron_id is for the administrator.
OnBehalf(h, a, tool, p, t) ==
  LET r == Asked("page", a, p, tool, 0, t) IN
  /\ IF p = a \/ a = Librarian THEN Accept(h, r) ELSE Refuse(h, r)
  /\ UNCHANGED <<given, records>>

handleBorrow(h, a, p, t) == OnBehalf(h, a, "borrow", p, t)

\* CheckoutByBarcode: at the desk, for the reader of the card.
handleAdminCheckout(h, p, t) == OnBehalf(h, Librarian, "borrow", p, t)

handlePlaceHold(h, a, p) == OnBehalf(h, a, "place_hold", p, Nobody)

\* The buttons that pass on the reader of the session and nothing else.
Own(h, a, tool, id) ==
  /\ Accept(h, Asked("page", a, a, tool, id, Nobody))
  /\ UNCHANGED <<given, records>>

handleReserveSeat(h, a) == Own(h, a, "reserve_seat", 0)

handleSeatReservation(h, a, id) == \E tool \in SeatTools : Own(h, a, tool, id)

handleCancelHold(h, a, id) == Own(h, a, "cancel_hold", id)

handleGateScan(h, a) == Own(h, a, "gate_scan", 0)

\* ReturnByItemBarcode: the loan the copy is on at that moment.
handleAdminReturn(h, id) ==
  LET r == Asked("page", Librarian, Librarian, "return_book", id, Nobody) IN
  /\ IF Found("return_book", id) /\ records[id].state = "open"
     THEN Accept(h, r)
     ELSE Refuse(h, r)
  /\ UNCHANGED <<given, records>>

----------------------------------------------------------------------------
(* The tools, called by the model with whatever arguments it likes. *)

\* Leaving patron_id as the model gave it.
AsTheModelSays(p, claimed) == claimed

\* executeTool puts the reader of the session in the place of patron_id.
Injected(p, claimed) == p

\* The tool gets the reader of the session, whoever the model named.  (A tool
\* that only reads is not told apart from an answer without one.)
executeTool(h, p, tool, claimed, id) ==
  /\ provider = "keyed"
  /\ Accept(h, Asked("model", p, Injected(p, claimed), tool, id, Nobody))
  /\ UNCHANGED <<given, records>>

place_hold(h, p, claimed) == executeTool(h, p, "place_hold", claimed, 0)

reserve_seat(h, p, claimed) == executeTool(h, p, "reserve_seat", claimed, 0)

cancel_seat_reservation(h, p, claimed, id) ==
  executeTool(h, p, "cancel_seat_reservation", claimed, id)

gate_scan(h, p, claimed) == executeTool(h, p, "gate_scan", claimed, 0)

\* LoanOwner, compared with patron_id.
OfLoanOwner(h, p, tool, claimed, id) ==
  LET who == Injected(p, claimed) IN
  \/ /\ Found(tool, id) /\ records[id].owner = who
     /\ executeTool(h, p, tool, claimed, id)
  \/ /\ ~ (Found(tool, id) /\ records[id].owner = who)
     /\ provider = "keyed"
     /\ Refuse(h, Asked("model", p, who, tool, id, Nobody))
     /\ UNCHANGED <<given, records>>

return_book(h, p, claimed, id) == OfLoanOwner(h, p, "return_book", claimed, id)

renew_loan(h, p, claimed, id) == OfLoanOwner(h, p, "renew_loan", claimed, id)

----------------------------------------------------------------------------
(* The offline scripts.  A step calls a tool.  Of a call that reads:        *)
(*   empty: is an empty result shown on the call's card, or is the card     *)
(*          left as it was;                                                 *)
(*   error: does the turn end with the error ("tell"), as if there were     *)
(*          nothing ("hide"), or go on ("skip").                            *)
(* An empty list ends the turn, except that of a book's copies.             *)

Ask(tool, empty, error) == [tool |-> tool, empty |-> empty, error |-> error]
Read(tool) == Ask(tool, "shown", "tell")
Do(tool) == Ask(tool, "shown", "tell")

Lists == {"get_my_loans", "get_my_seat_reservations"}
Copies == "get_book_availability"

\* Each script as the set of its courses; the title is the one the reader
\* named, Nobody for none.
mockSearch == {<<Read("search_books")>>}
mockLoans == {<<Read("get_my_loans")>>}
mockBorrow == {<<Ask("search_books", "hidden", "tell"), Read(Copies), last>> :
                 last \in {Read("guide_borrow"), Do("place_hold")}}
mockStats == {<<Read("get_library_stats")>>}
mockRecommend == {<<Read("recommend_books")>>}
mockAvailability ==
  {<<Read("search_books")>> \o [i \in 1..n |-> Ask(Copies, "shown", "skip")] : n \in 1..2}
mockRenew == {<<Read("get_my_loans"), Do("renew_loan")>>}
mockReturn == {<<Read("get_my_loans"), Do("return_book")>>}
mockFines == {<<Read("get_my_fines")>>}
mockHold == {<<Ask("search_books", "hidden", "tell"), Do("place_hold")>>}
mockSeats == {<<Read("search_seats")>>}
mockReserveSeat == {<<Ask("search_seats", "hidden", "tell"), Do("reserve_seat")>>}
mockCancelSeat == {<<Read("get_my_seat_reservations"), Do("cancel_seat_reservation")>>}
mockCheckinSeat == {<<Read("get_my_seat_reservations"), Do("checkin_seat")>>}
mockGateScan == {<<Do("gate_scan")>>}
mockGateStatus == {<<Read("gate_status")>>}
mockLocation == {<<Ask("search_books", "hidden", "hide"), Read(Copies)>>}

\* The empty course: asking back what is meant.
Courses(named) ==
  {<<>>} \cup mockSearch \cup mockLoans \cup mockStats \cup mockRecommend \cup mockAvailability
    \cup mockRenew \cup mockReturn \cup mockFines \cup mockSeats \cup mockReserveSeat
    \cup mockCancelSeat \cup mockCheckinSeat \cup mockGateScan \cup mockGateStatus
    \cup IF named = Nobody THEN {} ELSE mockBorrow \cup mockHold \cup mockLocation

Acts(steps) == {steps[i].tool : i \in DOMAIN steps} \cap (Opening \cup Closing)

\* Bound: the scripts that touch no record run beside the passages.
AboutMatter(steps) ==
  LET kinds == {Kind(steps[i].tool) : i \in DOMAIN steps} \ {"passage"}
  IN matter \in IF kinds = {} THEN {"passage"} ELSE kinds

\* The next step of a script: an answer at its end, the act, or the next read.
Proceed(h, r) ==
  IF r.steps = <<>> THEN Tell(h, r, "information")
  ELSE IF Head(r.steps).tool \in Opening \cup Closing
       THEN Goto(h, "act", [r EXCEPT !.tool = Head(r.steps).tool, !.steps = <<>>])
       ELSE Goto(h, "script", r)

\* runMock: the script the words of the message select.
runMock(h, p) ==
  /\ provider = "mock" /\ pc[h] = "idle"
  /\ \E named \in Titles \cup {Nobody} : \E steps \in {c \in Courses(named) : AboutMatter(c)} :
       Proceed(h, [Asked("offline", p, p, Nobody, 0, named) EXCEPT !.steps = steps])
  /\ UNCHANGED <<given, records>>

\* PatronLoans, MySeatReservations.
Listed(tool, p) ==
  {i \in DOMAIN records :
     /\ records[i].owner = p /\ records[i].state = "open"
     /\ records[i].kind = Kind(tool)}

\* strings.Contains, true of any title when no book was named.
Contains(title, named) == named = Nobody \/ title \in TitlesWith[named]

\* Taking the first loan when the named book is not among them.
FirstOf(list, named) ==
  LET those == {i \in list : Contains(records[i].title, named)}
  IN IF those = {} THEN list ELSE those

\* The records of the list the script may pick: it takes the first whose title
\* contains the named one, in the order of the due dates, which is any here.
Picked(list, named) ==
  {i \in list : records[i].kind = "loan" => Contains(records[i].title, named)}

WithCard(r, tool, done) ==
  [r EXCEPT !.steps = Tail(@), !.cards = Append(@, [tool |-> tool, done |-> done])]

\* A read fails.
LookFails(h) ==
  LET r == req[h]  step == Head(r.steps)  shown == WithCard(r, step.tool, FALSE) IN
  /\ pc[h] = "script"
  /\ CASE step.error = "skip" -> Proceed(h, shown)
       [] step.error = "hide" -> Tell(h, shown, "information")
       [] OTHER -> Tell(h, shown, "failed")
  /\ UNCHANGED <<given, records>>

\* A read finds nothing, or nothing that the script could act on: the named
\* book is not on loan, no loan can be renewed.
LookInVain(h) ==
  LET r == req[h]  step == Head(r.steps) IN
  /\ pc[h] = "script"
  /\ IF step.tool \in Lists
     THEN /\ \/ Listed(step.tool, r.who) = {}
             \/ Acts(r.steps) = {"renew_loan"}
             \/ Acts(r.steps) # {} /\ Picked(Listed(step.tool, r.who), r.title) = {}
          /\ Tell(h, WithCard(r, step.tool, TRUE), "information")
     ELSE /\ step.tool # Copies
          /\ Tell(h, WithCard(r, step.tool, step.empty = "shown"), "information")
  /\ UNCHANGED <<given, records>>

\* A read finds what it looked for.
LookFinds(h) ==
  LET r == req[h]  step == Head(r.steps)  shown == WithCard(r, step.tool, TRUE) IN
  /\ pc[h] = "script"
  /\ step.tool \in Lists => Listed(step.tool, r.who) # {}
  /\ IF step.tool \in Lists /\ Acts(r.steps) # {}
     THEN \E i \in Picked(Listed(step.tool, r.who), r.title) : Proceed(h, [shown EXCEPT !.id = i])
     ELSE Proceed(h, shown)
  /\ UNCHANGED <<given, records>>

----------------------------------------------------------------------------

AssistantInit ==
  /\ pc = [h \in Handlers |-> "idle"] /\ req = [h \in Handlers |-> NoReq]
  /\ provider \in {"mock", "keyed"} /\ matter \in Kinds
  /\ records = <<>>

\* The process stops; what the services have written stays.
Crash ==
  /\ \E h \in Handlers : pc[h] # "idle"
  /\ DropRequests
  /\ UNCHANGED <<given, records>>

AssistantNext ==
  \/ \E h \in Buttons :
       \/ \E a \in Accounts, id \in 1..MaxRecords :
            handleReturn(h, a, id) \/ handleRenew(h, a, id) \/ handleSeatReservation(h, a, id)
              \/ handleCancelHold(h, a, id)
       \/ \E p \in Accounts, t \in Titles : handleAdminCheckout(h, p, t)
       \/ \E a, p \in Accounts, t \in Titles : handleBorrow(h, a, p, t)
       \/ \E a, p \in Accounts : handlePlaceHold(h, a, p)
       \/ \E a \in Accounts : handleReserveSeat(h, a) \/ handleGateScan(h, a)
       \/ \E id \in 1..MaxRecords : handleAdminReturn(h, id)
  \/ \E h \in Chats :
       \/ \E p, claimed \in Accounts :
            \/ place_hold(h, p, claimed) \/ reserve_seat(h, p, claimed) \/ gate_scan(h, p, claimed)
            \/ \E id \in 1..MaxRecords :
                 return_book(h, p, claimed, id) \/ renew_loan(h, p, claimed, id)
                   \/ cancel_seat_reservation(h, p, claimed, id)
       \/ \E p \in Offline : runMock(h, p)
       \/ LookFails(h) \/ LookInVain(h) \/ LookFinds(h)
  \/ \E h \in Handlers : Act(h) \/ Respond(h)
  \/ Crash

AssistantSpec == AssistantInit /\ [][AssistantNext]_assistantVars

----------------------------------------------------------------------------
(* What must hold. *)

\* A record comes into being, or changes, only for the reader it belongs to
\* or, over the page, for the administrator: whichever way the request
\* came, whatever arguments the model made up, and although Return and Renew
\* do not look at the owner.  (The request that acts is the one that leaves
\* "act".)
OnlyOwnRecords ==
  [][\A i \in DOMAIN records' :
       i \notin DOMAIN records \/ records'[i] # records[i] =>
         \E h \in Handlers :
           /\ pc[h] = "act" /\ pc'[h] # "act"
           /\ \/ req[h].session = records'[i].owner
              \/ req[h].session = Librarian /\ req[h].op = "page"]_assistantVars

\* What the reader is told in the end is what took place: success means that
\* the request did the act, and that its record has not been closed by
\* anyone else; an act that took place is told as a success, unless reading
\* it back had failed; and a card of an offline turn shows the act as done
\* only then (but for the two scripts that hide the error in the result).
ToldWhatHappened ==
  \A h \in Handlers : pc[h] = "answered" =>
    LET r == req[h] IN
    /\ r.told = "done" =>
         /\ r.did
         /\ r.tool \in Closing => records[r.id].state = r.tool
    /\ r.did => r.told = "done" \/ r.tool \in ReadBack
    /\ \A i \in DOMAIN r.cards :
         /\ r.cards[i].tool \in Closing \cup {"place_hold"} => (r.cards[i].done <=> r.told = "done")
         /\ r.told = "done" => r.cards[i].done

\* "尊重意图": an offline turn that names a book returns or renews a loan whose
\* title contains that name, or none, though the list it picked from may be
\* out of date by then.  The loan is of that very book unless the name is part
\* of another book's title.
NamedBookOnly ==
  \A h \in Handlers : pc[h] = "answered" =>
    LET r == req[h] IN
    r.op = "offline" /\ r.did /\ r.tool \in LoanTools =>
      /\ Contains(records[r.id].title, r.title)
      /\ r.title # Nobody /\ TitlesWith[r.title] = {r.title} => records[r.id].title = r.title
=============================================================================
