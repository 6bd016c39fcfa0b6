---------------------------- MODULE AssistantProofs ----------------------------
(***************************************************************************)
(* Who may touch whose records, and what the reader is told of it, for any *)
(* number of accounts, requests and records, whatever arguments the model  *)
(* makes up.                                                               *)
(***************************************************************************)
EXTENDS Assistant, SequenceTheorems, TLAPS

----------------------------------------------------------------------------
(* The invariant. *)

AssistantLabels == {"idle", "script", "act", "answered"}
ToolNames ==
  Opening \cup Closing \cup Lists \cup
    {"search_books", Copies, "guide_borrow", "get_library_stats", "recommend_books",
     "get_my_fines", "search_seats", "gate_status"}
Step == [tool: ToolNames, empty: {"shown", "hidden"}, error: {"tell", "hide", "skip"}]

\* A request that is on its way speaks for the reader of its session, unless
\* the administrator sent it from the page.
Privileged(r) == r.op = "page" /\ r.session = Librarian

Scoped(r) ==
  /\ r = [op |-> r.op, session |-> r.session, who |-> r.who, tool |-> r.tool, id |-> r.id,
          title |-> r.title, steps |-> r.steps, cards |-> r.cards, did |-> r.did]
  /\ r.session \in Accounts /\ r.who \in Accounts /\ r.title \in Titles \cup {Nobody}
  /\ r.who = r.session \/ Privileged(r)

\* Return and Renew do not look at the owner: the request has.
OwnerSeen(r) ==
  r.tool \in LoanTools =>
    r.id \in DOMAIN records /\ (records[r.id].owner = r.who \/ Privileged(r))

\* Behind its first step a script returns or renews only what the list of loans
\* of the step before has given it; one that goes on after an error does nothing
\* but read.
Ordered(s) ==
  /\ s \in Seq(Step)
  /\ \A i \in 2..Len(s) : s[i].tool \in LoanTools =>
       s[i - 1].tool = "get_my_loans" /\ s[i - 1].error = "tell"
  /\ (\E i \in DOMAIN s : s[i].error = "skip") => Acts(s) = {}

ScopeInv ==
  /\ AssistantTypeOK
  /\ req = [h \in Handlers |-> req[h]]
  /\ \A h \in Handlers :
       /\ pc[h] \in {"script", "act"} => Scoped(req[h])
       /\ pc[h] = "script" =>
            /\ Ordered(req[h].steps) /\ req[h].steps # <<>>
            /\ req[h].steps[1].tool \notin LoanTools
       /\ pc[h] = "act" => req[h].tool \in Opening \cup Closing /\ OwnerSeen(req[h])

----------------------------------------------------------------------------
(* Requests. *)

LEMMA KindTyped == \A tool : Kind(tool) \in Kinds
BY DEF Kind, Kinds

LEMMA AskedScoped ==
  ASSUME NEW op, NEW session \in Accounts, NEW who \in Accounts, NEW tool, NEW id,
         NEW title \in Titles \cup {Nobody},
         who = session \/ (op = "page" /\ session = Librarian)
  PROVE  LET r == Asked(op, session, who, tool, id, title) IN
         Scoped(r) /\ r.op = op /\ r.session = session /\ r.who = who /\ r.tool = tool /\ r.id = id
BY DEF Asked, Scoped, Privileged

\* What the scripts leave as it was.
SameTurn(e, r) == e.op = r.op /\ e.who = r.who /\ e.title = r.title /\ e.did = r.did

LEMMA FieldsScoped ==
  ASSUME NEW r, Scoped(r), NEW t, NEW s, NEW i, NEW c
  PROVE  LET e == [op |-> r.op, session |-> r.session, who |-> r.who, tool |-> t, id |-> i,
                   title |-> r.title, steps |-> s, cards |-> c, did |-> r.did]
         IN Scoped(e) /\ e.tool = t /\ e.steps = s /\ e.id = i /\ e.cards = c /\ SameTurn(e, r)
BY DEF Scoped, Privileged, SameTurn

ToAct(r, tool, steps) == [r EXCEPT !.tool = tool, !.steps = steps]

LEMMA ActScoped ==
  ASSUME NEW r, Scoped(r), NEW x, NEW y, NEW e, e = ToAct(r, x, y)
  PROVE  Scoped(e) /\ e.tool = x /\ e.id = r.id /\ e.cards = r.cards /\ SameTurn(e, r)
<1> DEFINE With(t, s) ==
             [op |-> r.op, session |-> r.session, who |-> r.who, tool |-> t, id |-> r.id,
              title |-> r.title, steps |-> s, cards |-> r.cards, did |-> r.did]
<1>1. r = With(r.tool, r.steps)
  BY DEF Scoped
<1>2. [r EXCEPT !.tool = x, !.steps = y] = [[r EXCEPT !.tool = x] EXCEPT !.steps = y]
  OBVIOUS
<1>3. [r EXCEPT !.tool = x] = With(x, r.steps)
  BY <1>1
<1>4. [With(x, r.steps) EXCEPT !.steps = y] = With(x, y)
  OBVIOUS
<1>5. [r EXCEPT !.tool = x, !.steps = y] = With(x, y)
  BY <1>2, <1>3, <1>4
<1> HIDE DEF With
<1>6. LET f == With(x, y) IN
        Scoped(f) /\ f.tool = x /\ f.id = r.id /\ f.cards = r.cards /\ SameTurn(f, r)
  BY FieldsScoped DEF With
<1> QED  BY <1>5, <1>6 DEF ToAct

WithSteps(r, steps) == [r EXCEPT !.steps = steps]
WithId(r, id) == [r EXCEPT !.id = id]

LEMMA StepsScoped ==
  ASSUME NEW r, Scoped(r), NEW x, NEW e, e = WithSteps(r, x)
  PROVE  Scoped(e) /\ e.steps = x /\ e.id = r.id /\ e.cards = r.cards /\ SameTurn(e, r)
<1>1. [r EXCEPT !.steps = x] =
        [op |-> r.op, session |-> r.session, who |-> r.who, tool |-> r.tool, id |-> r.id,
         title |-> r.title, steps |-> x, cards |-> r.cards, did |-> r.did]
  BY DEF Scoped
<1>2. LET f == [op |-> r.op, session |-> r.session, who |-> r.who, tool |-> r.tool, id |-> r.id,
                title |-> r.title, steps |-> x, cards |-> r.cards, did |-> r.did]
      IN Scoped(f) /\ f.steps = x /\ f.id = r.id /\ f.cards = r.cards /\ SameTurn(f, r)
  BY FieldsScoped
<1> QED  BY <1>1, <1>2 DEF WithSteps

LEMMA IdScoped ==
  ASSUME NEW r, Scoped(r), NEW x, NEW e, e = WithId(r, x)
  PROVE  Scoped(e) /\ e.steps = r.steps /\ e.id = x /\ e.cards = r.cards /\ SameTurn(e, r)
<1>1. [r EXCEPT !.id = x] =
        [op |-> r.op, session |-> r.session, who |-> r.who, tool |-> r.tool, id |-> x,
         title |-> r.title, steps |-> r.steps, cards |-> r.cards, did |-> r.did]
  BY DEF Scoped
<1>2. LET f == [op |-> r.op, session |-> r.session, who |-> r.who, tool |-> r.tool, id |-> x,
                title |-> r.title, steps |-> r.steps, cards |-> r.cards, did |-> r.did]
      IN Scoped(f) /\ f.steps = r.steps /\ f.id = x /\ f.cards = r.cards /\ SameTurn(f, r)
  BY FieldsScoped
<1> QED  BY <1>1, <1>2 DEF WithId

Shown(cards, tool, done) == Append(cards, [tool |-> tool, done |-> done])

LEMMA CardScoped ==
  ASSUME NEW r, Scoped(r), NEW tool, NEW done, NEW e, e = WithCard(r, tool, done)
  PROVE  /\ Scoped(e) /\ e.steps = Tail(r.steps) /\ e.id = r.id /\ SameTurn(e, r)
         /\ e.cards = Shown(r.cards, tool, done)
<1> DEFINE c == Append(r.cards, [tool |-> tool, done |-> done])
           s == Tail(r.steps)
           With(x, y) ==
             [op |-> r.op, session |-> r.session, who |-> r.who, tool |-> r.tool, id |-> r.id,
              title |-> r.title, steps |-> x, cards |-> y, did |-> r.did]
<1>1. WithCard(r, tool, done) = [[r EXCEPT !.steps = s] EXCEPT !.cards = c]
  BY DEF WithCard
<1> HIDE DEF c, s
<1>2. [r EXCEPT !.steps = s] = With(s, r.cards)
  BY DEF Scoped
<1>3. [With(s, r.cards) EXCEPT !.cards = c] = With(s, c)
  OBVIOUS
<1>4. WithCard(r, tool, done) = With(s, c)
  BY <1>1, <1>2, <1>3
<1>5. LET f == With(s, c) IN
        Scoped(f) /\ f.steps = s /\ f.id = r.id /\ f.cards = c /\ SameTurn(f, r)
  BY FieldsScoped
<1>6. With(s, c) = e
  BY <1>4
<1> HIDE DEF With
<1> QED  BY <1>5, <1>6 DEF s, c, Shown

\* A step of one handler that leaves the records alone.
LEMMA OneGoes ==
  ASSUME ScopeInv, NEW h \in Handlers, NEW label \in AssistantLabels, NEW r, Goto(h, label, r),
         UNCHANGED <<given, records>>,
         label \in {"script", "act"} => Scoped(r),
         label = "script" => /\ Ordered(r.steps) /\ r.steps # <<>>
                             /\ r.steps[1].tool \notin LoanTools,
         label = "act" => r.tool \in Opening \cup Closing /\ OwnerSeen(r)
  PROVE  ScopeInv'
<1>1. pc \in [Handlers -> AssistantLabels] /\ req = [g \in Handlers |-> req[g]]
  BY DEF ScopeInv, AssistantTypeOK, AssistantLabels
<1>2. pc' \in [Handlers -> AssistantLabels] /\ pc'[h] = label /\ \A g \in Handlers : g # h => pc'[g] = pc[g]
  BY <1>1 DEF Goto
<1>3. req' = [g \in Handlers |-> req'[g]] /\ req'[h] = r /\ \A g \in Handlers : g # h => req'[g] = req[g]
  BY <1>1 DEF Goto
<1>4. AssistantTypeOK'
  BY <1>2 DEF ScopeInv, AssistantTypeOK, AssistantLabels, given
<1>5. ASSUME NEW g \in Handlers
      PROVE  /\ pc'[g] \in {"script", "act"} => Scoped(req'[g])
             /\ pc'[g] = "script" =>
                  /\ Ordered(req'[g].steps) /\ req'[g].steps # <<>>
                  /\ req'[g].steps[1].tool \notin LoanTools
             /\ pc'[g] = "act" => req'[g].tool \in Opening \cup Closing /\ OwnerSeen(req'[g])
  <2>1. CASE g = h
    BY <1>2, <1>3, <2>1
  <2>2. CASE g # h
    BY <1>2, <1>3, <2>2 DEF ScopeInv
  <2> QED  BY <2>1, <2>2
<1>6. records' = records
  OBVIOUS
<1> QED  BY <1>3, <1>4, <1>5, <1>6 DEF ScopeInv, OwnerSeen

LEMMA Answers ==
  ASSUME ScopeInv, NEW h \in Handlers, NEW r, NEW told, Tell(h, r, told), UNCHANGED <<given, records>>
  PROVE  ScopeInv'
<1>1. PICK answer : Goto(h, "answered", answer)
  BY DEF Tell
<1> QED  BY <1>1, OneGoes DEF AssistantLabels

LEMMA Accepts ==
  ASSUME ScopeInv, NEW h \in Handlers, NEW r, Accept(h, r), UNCHANGED <<given, records>>,
         Scoped(r), r.tool \in Opening \cup Closing, OwnerSeen(r)
  PROVE  ScopeInv'
BY OneGoes DEF Accept, Begin, AssistantLabels

----------------------------------------------------------------------------
(* The page and the tools. *)

LEMMA NotForLoans ==
  \A tool \in Opening \cup SeatTools \cup {"cancel_hold"} :
    tool \notin LoanTools /\ tool \in Opening \cup Closing
BY DEF Opening, SeatTools, LoanTools, Closing

LEMMA ForLoans == \A tool \in LoanTools : tool \in Opening \cup Closing
BY DEF Opening, LoanTools, Closing

LEMMA PageScoped ==
  ASSUME ScopeInv, NEW h \in Buttons,
         \/ \E a \in Accounts, id \in 1..MaxRecords :
              handleReturn(h, a, id) \/ handleRenew(h, a, id) \/ handleSeatReservation(h, a, id)
                \/ handleCancelHold(h, a, id)
         \/ \E p \in Accounts, t \in Titles : handleAdminCheckout(h, p, t)
         \/ \E a, p \in Accounts, t \in Titles : handleBorrow(h, a, p, t)
         \/ \E a, p \in Accounts : handlePlaceHold(h, a, p)
         \/ \E a \in Accounts : handleReserveSeat(h, a) \/ handleGateScan(h, a)
         \/ \E id \in 1..MaxRecords : handleAdminReturn(h, id)
  PROVE  ScopeInv' /\ UNCHANGED <<given, records>>
<1>1. h \in Handlers /\ Librarian \in Accounts
  BY AssistantAssumption
<1>2. ASSUME NEW r, NEW told, Refuse(h, r), UNCHANGED <<given, records>>
      PROVE  ScopeInv'
  BY <1>1, <1>2, Answers DEF Refuse
<1>3. ASSUME NEW a \in Accounts, NEW tool \in LoanTools, NEW id, ByLoanOwner(h, a, tool, id)
      PROVE  ScopeInv' /\ UNCHANGED <<given, records>>
  <2> DEFINE r == Asked("page", a, a, tool, id, Nobody)
  <2>1. Scoped(r) /\ r.op = "page" /\ r.session = a /\ r.who = a /\ r.tool = tool /\ r.id = id
    BY AskedScoped
  <2>2. UNCHANGED <<given, records>>
    BY <1>3 DEF ByLoanOwner
  <2>3. CASE Found(tool, id) /\ requirePatronScope(a, records[id].owner) /\ Accept(h, r)
    <3>1. OwnerSeen(r)
      BY <2>1, <2>3 DEF Found, requirePatronScope, OwnerSeen, Privileged
    <3> HIDE DEF r
    <3> QED  BY <1>1, <2>1, <2>2, <2>3, <3>1, ForLoans, Accepts
  <2>4. CASE Refuse(h, r)
    BY <1>1, <1>2, <2>2, <2>4
  <2> QED  BY <1>3, <2>2, <2>3, <2>4 DEF ByLoanOwner
<1>4. ASSUME NEW a \in Accounts, NEW p \in Accounts, NEW tool \in Opening,
             NEW t \in Titles \cup {Nobody}, OnBehalf(h, a, tool, p, t)
      PROVE  ScopeInv' /\ UNCHANGED <<given, records>>
  <2> DEFINE r == Asked("page", a, p, tool, 0, t)
  <2>1. UNCHANGED <<given, records>>
    BY <1>4 DEF OnBehalf
  <2>2. CASE (p = a \/ a = Librarian) /\ Accept(h, r)
    <3>1. Scoped(r) /\ r.tool = tool
      BY <2>2, AskedScoped
    <3>2. OwnerSeen(r)
      BY <3>1, NotForLoans DEF OwnerSeen
    <3> HIDE DEF r
    <3> QED  BY <1>1, <2>1, <2>2, <3>1, <3>2, NotForLoans, Accepts
  <2>3. CASE Refuse(h, r)
    BY <1>1, <1>2, <2>1, <2>3
  <2> QED  BY <1>4, <2>1, <2>2, <2>3 DEF OnBehalf
<1>5. ASSUME NEW a \in Accounts, NEW tool \in Opening \cup SeatTools \cup {"cancel_hold"}, NEW id,
             Own(h, a, tool, id)
      PROVE  ScopeInv' /\ UNCHANGED <<given, records>>
  <2> DEFINE r == Asked("page", a, a, tool, id, Nobody)
  <2>1. Accept(h, r) /\ UNCHANGED <<given, records>>
    BY <1>5 DEF Own
  <2>2. Scoped(r) /\ r.tool = tool
    BY AskedScoped
  <2>3. OwnerSeen(r)
    BY <2>2, NotForLoans DEF OwnerSeen
  <2> HIDE DEF r
  <2> QED  BY <1>1, <2>1, <2>2, <2>3, NotForLoans, Accepts
<1>6. ASSUME NEW id, handleAdminReturn(h, id)
      PROVE  ScopeInv' /\ UNCHANGED <<given, records>>
  <2> DEFINE r == Asked("page", Librarian, Librarian, "return_book", id, Nobody)
  <2>1. UNCHANGED <<given, records>>
    BY <1>6 DEF handleAdminReturn
  <2>2. Scoped(r) /\ r.op = "page" /\ r.session = Librarian /\ r.tool = "return_book" /\ r.id = id
    BY <1>1, AskedScoped
  <2>3. CASE Found("return_book", id) /\ Accept(h, r)
    <3>1. OwnerSeen(r)
      BY <2>2, <2>3 DEF Found, OwnerSeen, Privileged
    <3>2. r.tool \in Opening \cup Closing
      BY <2>2 DEF Closing, LoanTools
    <3> HIDE DEF r
    <3> QED  BY <1>1, <2>1, <2>2, <2>3, <3>1, <3>2, Accepts
  <2>4. CASE Refuse(h, r)
    BY <1>1, <1>2, <2>1, <2>4
  <2> QED  BY <1>6, <2>1, <2>3, <2>4 DEF handleAdminReturn
<1>7. ASSUME NEW a \in Accounts, NEW id \in 1..MaxRecords,
             handleReturn(h, a, id) \/ handleRenew(h, a, id) \/ handleSeatReservation(h, a, id)
               \/ handleCancelHold(h, a, id)
      PROVE  ScopeInv' /\ UNCHANGED <<given, records>>
  <2>1. "return_book" \in LoanTools /\ "renew_loan" \in LoanTools
    BY DEF LoanTools
  <2> QED  BY <1>3, <1>5, <1>7, <2>1 DEF handleReturn, handleRenew, handleSeatReservation, handleCancelHold
<1>8. "borrow" \in Opening /\ "place_hold" \in Opening /\ "reserve_seat" \in Opening /\ "gate_scan" \in Opening
  BY DEF Opening
<1>9. ASSUME NEW a \in Accounts, handleReserveSeat(h, a) \/ handleGateScan(h, a)
      PROVE  ScopeInv' /\ UNCHANGED <<given, records>>
  BY <1>5, <1>8, <1>9 DEF handleReserveSeat, handleGateScan
<1>10. ASSUME NEW a \in Accounts, NEW p \in Accounts,
              handlePlaceHold(h, a, p) \/ \E t \in Titles : handleBorrow(h, a, p, t)
       PROVE  ScopeInv' /\ UNCHANGED <<given, records>>
  BY <1>4, <1>8, <1>10 DEF handlePlaceHold, handleBorrow
<1>11. ASSUME NEW p \in Accounts, NEW t \in Titles, handleAdminCheckout(h, p, t)
       PROVE  ScopeInv' /\ UNCHANGED <<given, records>>
  BY <1>4, <1>8, <1>11, AssistantAssumption DEF handleAdminCheckout
<1> QED  BY <1>6, <1>7, <1>9, <1>10, <1>11

LEMMA ToolsScoped ==
  ASSUME ScopeInv, NEW h \in Chats, NEW p \in Accounts, NEW claimed \in Accounts,
         \/ place_hold(h, p, claimed) \/ reserve_seat(h, p, claimed) \/ gate_scan(h, p, claimed)
         \/ \E id \in 1..MaxRecords :
              return_book(h, p, claimed, id) \/ renew_loan(h, p, claimed, id)
                \/ cancel_seat_reservation(h, p, claimed, id)
  PROVE  ScopeInv' /\ UNCHANGED <<given, records>>
<1>1. h \in Handlers
  BY AssistantAssumption
<1>2. ASSUME NEW tool \in Opening \cup Closing, NEW id, executeTool(h, p, tool, claimed, id),
             tool \in LoanTools => id \in DOMAIN records /\ records[id].owner = p
      PROVE  ScopeInv' /\ UNCHANGED <<given, records>>
  <2> DEFINE r == Asked("model", p, p, tool, id, Nobody)
  <2>1. Accept(h, r) /\ UNCHANGED <<given, records>>
    BY <1>2 DEF executeTool, Injected
  <2>2. Scoped(r) /\ r.tool = tool /\ r.id = id /\ r.who = p
    BY AskedScoped
  <2>3. OwnerSeen(r)
    BY <1>2, <2>2 DEF OwnerSeen
  <2> HIDE DEF r
  <2> QED  BY <1>1, <2>1, <2>2, <2>3, Accepts
<1>3. ASSUME NEW tool \in LoanTools, NEW id, OfLoanOwner(h, p, tool, claimed, id)
      PROVE  ScopeInv' /\ UNCHANGED <<given, records>>
  <2>1. CASE Found(tool, id) /\ records[id].owner = p /\ executeTool(h, p, tool, claimed, id)
    BY <1>2, <2>1, ForLoans DEF Found
  <2>2. CASE Refuse(h, Asked("model", p, p, tool, id, Nobody)) /\ UNCHANGED <<given, records>>
    BY <1>1, <2>2, Answers DEF Refuse
  <2> QED  BY <1>3, <2>1, <2>2 DEF OfLoanOwner, Injected
<1>4. ASSUME place_hold(h, p, claimed) \/ reserve_seat(h, p, claimed) \/ gate_scan(h, p, claimed)
      PROVE  ScopeInv' /\ UNCHANGED <<given, records>>
  <2>1. \A tool \in {"place_hold", "reserve_seat", "gate_scan"} :
          tool \in Opening \cup Closing /\ tool \notin LoanTools
    BY DEF Opening, LoanTools
  <2> QED  BY <1>2, <1>4, <2>1 DEF place_hold, reserve_seat, gate_scan
<1>5. ASSUME NEW id, cancel_seat_reservation(h, p, claimed, id)
      PROVE  ScopeInv' /\ UNCHANGED <<given, records>>
  <2>1. "cancel_seat_reservation" \in Opening \cup Closing /\ "cancel_seat_reservation" \notin LoanTools
    BY DEF Closing, SeatTools, LoanTools
  <2> QED  BY <1>2, <1>5, <2>1 DEF cancel_seat_reservation
<1>6. "return_book" \in LoanTools /\ "renew_loan" \in LoanTools
  BY DEF LoanTools
<1>7. ASSUME NEW id, return_book(h, p, claimed, id) \/ renew_loan(h, p, claimed, id)
      PROVE  ScopeInv' /\ UNCHANGED <<given, records>>
  BY <1>3, <1>6, <1>7 DEF return_book, renew_loan
<1> QED  BY <1>4, <1>5, <1>7

----------------------------------------------------------------------------
(* The offline scripts. *)

LEMMA TailOrdered ==
  ASSUME NEW s, Ordered(s), s # <<>>
  PROVE  /\ Ordered(Tail(s)) /\ Head(s) = s[1] /\ s[1] \in Step
         /\ Tail(s) # <<>> => Len(s) >= 2 /\ Tail(s)[1] = s[2] /\ s[2].tool \in {s[i].tool : i \in DOMAIN s}
         /\ Tail(s) # <<>> /\ Tail(s)[1].tool \in LoanTools => s[1].tool = "get_my_loans" /\ s[1].error = "tell"
         /\ Acts(Tail(s)) \subseteq Acts(s)
         /\ s[1].error = "skip" => Acts(s) = {}
<1>1. s \in Seq(Step) /\ Len(s) \in Nat \ {0} /\ DOMAIN s = 1..Len(s)
  BY DEF Ordered
<1>2. /\ Tail(s) \in Seq(Step) /\ Len(Tail(s)) = Len(s) - 1
      /\ \A i \in 1..(Len(s) - 1) : Tail(s)[i] = s[i + 1]
  BY <1>1
<1>3. \A i \in 2..Len(Tail(s)) : Tail(s)[i] = s[i + 1] /\ Tail(s)[i - 1] = s[i] /\ i + 1 \in 2..Len(s)
                                 /\ i + 1 - 1 = i
  BY <1>1, <1>2
<1>8. \A i \in DOMAIN Tail(s) : i + 1 \in DOMAIN s /\ Tail(s)[i] = s[i + 1]
  BY <1>1, <1>2
<1>9. Acts(Tail(s)) \subseteq Acts(s)
  BY <1>8 DEF Acts
<1>10. /\ (\E i \in DOMAIN Tail(s) : Tail(s)[i].error = "skip") => Acts(s) = {}
       /\ s[1].error = "skip" => Acts(s) = {}
  BY <1>1, <1>8 DEF Ordered
<1>4. Ordered(Tail(s))
  BY <1>2, <1>3, <1>9, <1>10 DEF Ordered
<1>5. Tail(s) # <<>> => Len(s) >= 2 /\ 2 \in 2..Len(s) /\ 2 \in DOMAIN s /\ 2 - 1 = 1 /\ Tail(s)[1] = s[2]
  BY <1>1, <1>2
<1>6. Tail(s) # <<>> /\ Tail(s)[1].tool \in LoanTools => s[1].tool = "get_my_loans" /\ s[1].error = "tell"
  BY <1>5 DEF Ordered
<1>7. Head(s) = s[1] /\ s[1] \in Step
  BY <1>1
<1> QED  BY <1>4, <1>5, <1>6, <1>7, <1>9, <1>10

\* Wherever a script is, the record of the next act is the reader's own.
LEMMA Proceeds ==
  ASSUME ScopeInv, NEW h \in Handlers, NEW r, Scoped(r), Ordered(r.steps),
         r.steps # <<>> /\ r.steps[1].tool \in LoanTools =>
           r.id \in DOMAIN records /\ records[r.id].owner = r.who,
         Proceed(h, r), UNCHANGED <<given, records>>
  PROVE  ScopeInv'
<1>1. CASE r.steps = <<>> /\ Tell(h, r, "information")
  BY <1>1, Answers
<1>2. Head(r.steps) = r.steps[1]
  BY DEF Ordered
<1>3. CASE /\ r.steps # <<>> /\ r.steps[1].tool \in Opening \cup Closing
           /\ Goto(h, "act", [r EXCEPT !.tool = r.steps[1].tool, !.steps = <<>>])
  <2>0. PICK e : e = ToAct(r, r.steps[1].tool, <<>>)
    OBVIOUS
  <2>1. Scoped(e) /\ e.tool = r.steps[1].tool /\ e.id = r.id /\ e.who = r.who
    BY <2>0, ActScoped DEF SameTurn
  <2>2. Goto(h, "act", e)
    BY <1>3, <2>0 DEF ToAct
  <2>3. OwnerSeen(e)
    BY <1>3, <2>1 DEF OwnerSeen
  <2> QED  BY <1>3, <2>1, <2>2, <2>3, OneGoes DEF AssistantLabels
<1>4. CASE /\ r.steps # <<>> /\ r.steps[1].tool \notin Opening \cup Closing
           /\ Goto(h, "script", r)
  <2>1. r.steps[1].tool \notin LoanTools
    BY <1>4, ForLoans
  <2> QED  BY <1>4, <2>1, OneGoes DEF AssistantLabels
<1> QED  BY <1>1, <1>2, <1>3, <1>4 DEF Proceed

LEMMA StepTyped ==
  \A tool \in ToolNames, empty \in {"shown", "hidden"}, error \in {"tell", "hide", "skip"} :
    /\ Ask(tool, empty, error) \in Step
    /\ Ask(tool, empty, error).tool = tool /\ Ask(tool, empty, error).error = error
BY DEF Ask, Step

\* One step, or two of which the second needs no list or has one.
LEMMA ShortScripts ==
  /\ Ordered(<<>>)
  /\ \A a \in Step : a.error # "skip" => Ordered(<<a>>) /\ (a.tool \notin LoanTools => <<a>>[1].tool \notin LoanTools)
  /\ \A a, b \in Step :
       (b.tool \notin LoanTools \/ (a.tool = "get_my_loans" /\ a.error = "tell"))
         /\ a.error # "skip" /\ b.error # "skip" =>
         Ordered(<<a, b>>) /\ <<a, b>>[1] = a
  /\ \A a, b, c \in Step :
       b.tool \notin LoanTools /\ c.tool \notin LoanTools /\ "skip" \notin {a.error, b.error, c.error} =>
         Ordered(<<a, b, c>>) /\ <<a, b, c>>[1] = a
<1>1. Ordered(<<>>)
  BY DEF Ordered
<1>2. \A a \in Step : a.error # "skip" => Ordered(<<a>>) /\ <<a>>[1] = a
  BY DEF Ordered
<1>3. ASSUME NEW a \in Step, NEW b \in Step,
             b.tool \notin LoanTools \/ (a.tool = "get_my_loans" /\ a.error = "tell"),
             a.error # "skip", b.error # "skip"
      PROVE  Ordered(<<a, b>>) /\ <<a, b>>[1] = a
  <2>1. <<a, b>> \in Seq(Step) /\ Len(<<a, b>>) = 2 /\ <<a, b>>[1] = a /\ <<a, b>>[2] = b
    OBVIOUS
  <2>2. (\A i \in 2..2 : i = 2 /\ i - 1 = 1) /\ \A i \in 1..2 : i = 1 \/ i = 2
    OBVIOUS
  <2> QED  BY <1>3, <2>1, <2>2 DEF Ordered
<1>4. ASSUME NEW a \in Step, NEW b \in Step, NEW c \in Step,
             b.tool \notin LoanTools, c.tool \notin LoanTools, "skip" \notin {a.error, b.error, c.error}
      PROVE  Ordered(<<a, b, c>>) /\ <<a, b, c>>[1] = a
  <2>1. /\ <<a, b, c>> \in Seq(Step) /\ Len(<<a, b, c>>) = 3 /\ <<a, b, c>>[1] = a
        /\ <<a, b, c>>[2] = b /\ <<a, b, c>>[3] = c
    OBVIOUS
  <2>2. (\A i \in 2..3 : i = 2 \/ i = 3) /\ \A i \in 1..3 : i = 1 \/ i = 2 \/ i = 3
    OBVIOUS
  <2> QED  BY <1>4, <2>1, <2>2 DEF Ordered
<1> QED  BY <1>1, <1>2, <1>3, <1>4

LEMMA CoursesOrdered ==
  ASSUME NEW named, NEW steps \in Courses(named)
  PROVE  Ordered(steps) /\ (steps # <<>> => steps[1].tool \notin LoanTools)
<1> DEFINE Fine(s) == Ordered(s) /\ (s # <<>> => s[1].tool \notin LoanTools)
<1>1. Fine(<<>>)
  BY ShortScripts
<1>2. \A tool \in ToolNames : tool \notin LoanTools => Fine(<<Read(tool)>>) /\ Fine(<<Do(tool)>>)
  <2> SUFFICES ASSUME NEW tool \in ToolNames, tool \notin LoanTools
               PROVE  Fine(<<Read(tool)>>) /\ Fine(<<Do(tool)>>)
    OBVIOUS
  <2>1. Read(tool) \in Step /\ Read(tool).tool = tool /\ Do(tool) = Read(tool) /\ Read(tool).error # "skip"
    BY StepTyped DEF Read, Do
  <2> QED  BY <2>1, ShortScripts
<1>3. \A list \in Lists, tool \in ToolNames :
        tool \notin LoanTools \/ list = "get_my_loans" => Fine(<<Read(list), Do(tool)>>)
  <2> SUFFICES ASSUME NEW list \in Lists, NEW tool \in ToolNames,
                      tool \notin LoanTools \/ list = "get_my_loans"
               PROVE  Fine(<<Read(list), Do(tool)>>)
    OBVIOUS
  <2>1. /\ Read(list) \in Step /\ Read(list).tool = list /\ Read(list).error = "tell"
        /\ Do(tool) \in Step /\ Do(tool).tool = tool /\ Do(tool).error = "tell"
    BY StepTyped DEF Read, Do, ToolNames
  <2>2. list \notin LoanTools
    BY DEF Lists, LoanTools
  <2> QED  BY <2>1, <2>2, ShortScripts
<1>4. ASSUME NEW first \in ToolNames, NEW tool \in ToolNames, NEW empty \in {"shown", "hidden"},
             NEW error \in {"tell", "hide"}, first \notin LoanTools, tool \notin LoanTools
      PROVE  Fine(<<Ask(first, empty, error), Read(tool)>>) /\ Fine(<<Ask(first, empty, error), Do(tool)>>)
  <2>1. /\ Ask(first, empty, error) \in Step /\ Ask(first, empty, error).tool = first
        /\ Ask(first, empty, error).error # "skip"
        /\ Read(tool) \in Step /\ Read(tool).tool = tool /\ Do(tool) = Read(tool)
        /\ Read(tool).error # "skip"
    BY StepTyped DEF Read, Do
  <2> QED  BY <1>4, <2>1, ShortScripts
<1>5. \A s \in mockSearch \cup mockLoans \cup mockStats \cup mockRecommend \cup mockFines \cup mockSeats
                \cup mockGateScan \cup mockGateStatus : Fine(s)
  <2>1. \A tool \in {"search_books", "get_my_loans", "get_library_stats", "recommend_books",
                     "get_my_fines", "search_seats", "gate_scan", "gate_status"} :
          tool \in ToolNames /\ tool \notin LoanTools
    BY DEF LoanTools, ToolNames, Lists, Opening
  <2> HIDE DEF Fine
  <2> QED  BY <1>2, <2>1 DEF mockSearch, mockLoans, mockStats, mockRecommend, mockFines, mockSeats,
                             mockGateScan, mockGateStatus
<1>6. \A s \in mockRenew \cup mockReturn \cup mockCancelSeat \cup mockCheckinSeat : Fine(s)
  <2>1. /\ "get_my_loans" \in Lists /\ "get_my_seat_reservations" \in Lists
        /\ {"renew_loan", "return_book", "cancel_seat_reservation", "checkin_seat"} \subseteq ToolNames
        /\ "cancel_seat_reservation" \notin LoanTools /\ "checkin_seat" \notin LoanTools
    BY DEF Lists, ToolNames, Closing, LoanTools, SeatTools
  <2> HIDE DEF Fine
  <2> QED  BY <1>3, <2>1 DEF mockRenew, mockReturn, mockCancelSeat, mockCheckinSeat
<1>7. \A s \in mockHold \cup mockReserveSeat \cup mockLocation : Fine(s)
  <2>1. \A tool \in {"search_books", "search_seats", "place_hold", "reserve_seat", Copies} :
          tool \in ToolNames /\ tool \notin LoanTools
    BY DEF LoanTools, Copies, ToolNames, Opening
  <2> HIDE DEF Fine
  <2> QED  BY <1>4, <2>1 DEF mockHold, mockReserveSeat, mockLocation
<1>8. \A s \in mockBorrow : Fine(s)
  <2>1. Ask("search_books", "hidden", "tell") \in Step
        /\ Ask("search_books", "hidden", "tell").tool = "search_books"
        /\ Ask("search_books", "hidden", "tell").error # "skip"
    BY StepTyped DEF ToolNames
  <2>2. \A tool \in {Copies, "guide_borrow", "place_hold"} :
          /\ Read(tool) \in Step /\ Read(tool).tool = tool /\ Do(tool) = Read(tool) /\ tool \notin LoanTools
          /\ Read(tool).error # "skip"
    BY StepTyped DEF Read, Do, Copies, LoanTools, ToolNames, Opening
  <2>3. "search_books" \notin LoanTools
    BY DEF LoanTools
  <2>4. \A last \in {Read("guide_borrow"), Do("place_hold")} :
          Fine(<<Ask("search_books", "hidden", "tell"), Read(Copies), last>>)
    BY <2>1, <2>2, <2>3, ShortScripts
  <2> HIDE DEF Fine
  <2> QED  BY <2>4 DEF mockBorrow
<1>9. \A s \in mockAvailability : Fine(s)
  <2> DEFINE a == Read("search_books")
             b == Ask(Copies, "shown", "skip")
  <2>1. /\ a \in Step /\ a.tool \notin LoanTools \cup Opening \cup Closing
        /\ b \in Step /\ b.tool \notin LoanTools \cup Opening \cup Closing
    <3>1. \A tool \in {"search_books", Copies} :
            tool \in ToolNames /\ tool \notin LoanTools \cup Opening \cup Closing
      BY DEF LoanTools, SeatTools, Opening, Closing, Copies, ToolNames
    <3> QED  BY <3>1, StepTyped DEF Read
  <2> HIDE DEF a, b
  <2>2. ASSUME NEW n \in 1..2
        PROVE  Fine(<<a>> \o [i \in 1..n |-> b])
    <3> DEFINE l == <<a>>
               c == [i \in 1..n |-> b]
               s == l \o c
    <3>1. l \in Seq(Step) /\ Len(l) = 1 /\ l[1] = a
      BY <2>1
    <3>2. c \in Seq(Step) /\ Len(c) = n /\ \A i \in 1..n : c[i] = b
      BY <2>1
    <3> HIDE DEF l, c
    <3>3. s \in Seq(Step) /\ Len(s) = n + 1
          /\ \A i \in 1..(n + 1) : s[i] = IF i <= 1 THEN l[i] ELSE c[i - 1]
      BY <3>1, <3>2, ConcatProperties
    <3>4. s[1] = a /\ \A i \in 2..Len(s) : s[i] = b
      BY <3>1, <3>2, <3>3
    <3> HIDE DEF s
    <3>5. Fine(s)
      <4>1. \A i \in DOMAIN s : i = 1 \/ i \in 2..Len(s)
        BY <3>3
      <4>2. Acts(s) = {}
        BY <2>1, <3>4, <4>1 DEF Acts
      <4> QED  BY <2>1, <3>3, <3>4, <4>2 DEF Ordered
    <3> QED  BY <3>5 DEF s, c, l
  <2> HIDE DEF Fine
  <2> QED  BY <2>2 DEF mockAvailability, a, b
<1> HIDE DEF Fine
<1>10. Fine(steps)
  BY <1>1, <1>5, <1>6, <1>7, <1>8, <1>9 DEF Courses
<1> QED  BY <1>10 DEF Fine

LEMMA ScriptsScoped ==
  ASSUME ScopeInv, NEW h \in Chats,
         (\E p \in Offline : runMock(h, p)) \/ LookFails(h) \/ LookInVain(h) \/ LookFinds(h)
  PROVE  ScopeInv' /\ UNCHANGED <<given, records>>
<1>1. h \in Handlers /\ Offline \subseteq Accounts
  BY AssistantAssumption
<1>2. UNCHANGED <<given, records>>
  BY DEF runMock, LookFails, LookInVain, LookFinds
<1>3. ASSUME NEW p \in Offline, runMock(h, p)
      PROVE  ScopeInv'
  <2>0. PICK named \in Titles \cup {Nobody} : \E steps \in Courses(named) :
          Proceed(h, WithSteps(Asked("offline", p, p, Nobody, 0, named), steps))
    BY <1>3 DEF runMock, WithSteps
  <2>1. PICK steps \in Courses(named) :
          Proceed(h, WithSteps(Asked("offline", p, p, Nobody, 0, named), steps))
    BY <2>0
  <2>2. PICK r : r = Asked("offline", p, p, Nobody, 0, named)
    OBVIOUS
  <2>3. Scoped(r)
    BY <1>1, <2>2, AskedScoped
  <2>4. PICK e : e = WithSteps(r, steps)
    OBVIOUS
  <2>5. Scoped(e) /\ e.steps = steps
    BY <2>3, <2>4, StepsScoped
  <2>6. Ordered(steps) /\ (steps # <<>> => steps[1].tool \notin LoanTools)
    BY CoursesOrdered
  <2>7. Proceed(h, e)
    BY <2>1, <2>2, <2>4
  <2> QED  BY <1>1, <1>2, <2>5, <2>6, <2>7, Proceeds
<1>4. ASSUME pc[h] = "script", NEW done, NEW e,
             e = WithCard(req[h], Head(req[h].steps).tool, done)
      PROVE  /\ Scoped(e) /\ e.steps = Tail(req[h].steps) /\ e.who = req[h].who /\ Ordered(e.steps)
             /\ e.steps # <<>> /\ e.steps[1].tool \in LoanTools =>
                  /\ Head(req[h].steps).tool \in Lists /\ Head(req[h].steps).error = "tell"
                  /\ Acts(e.steps) # {}
  <2>1. Scoped(req[h]) /\ Ordered(req[h].steps) /\ req[h].steps # <<>>
    BY <1>1, <1>4 DEF ScopeInv
  <2>2. Scoped(e) /\ e.steps = Tail(req[h].steps) /\ e.who = req[h].who
    <3>1. PICK r, tool : r = req[h] /\ tool = Head(req[h].steps).tool
      OBVIOUS
    <3>2. Scoped(r) /\ e = WithCard(r, tool, done)
      BY <1>4, <2>1, <3>1
    <3>3. Scoped(e) /\ e.steps = Tail(r.steps) /\ SameTurn(e, r)
      BY <3>2, CardScoped
    <3> QED  BY <3>1, <3>3 DEF SameTurn
  <2>3. /\ Ordered(e.steps)
        /\ e.steps # <<>> /\ e.steps[1].tool \in LoanTools =>
             Head(req[h].steps).tool \in Lists /\ Head(req[h].steps).error = "tell"
    BY <2>1, <2>2, TailOrdered DEF Lists
  <2>4. e.steps # <<>> /\ e.steps[1].tool \in LoanTools => Acts(e.steps) # {}
    <3> SUFFICES ASSUME e.steps # <<>>, e.steps[1].tool \in LoanTools  PROVE Acts(e.steps) # {}
      OBVIOUS
    <3>1. 1 \in DOMAIN e.steps
      BY <2>3 DEF Ordered
    <3>2. e.steps[1].tool \in Opening \cup Closing
      BY ForLoans
    <3> QED  BY <3>1, <3>2 DEF Acts
  <2> QED  BY <2>2, <2>3, <2>4
<1>5. ASSUME LookFails(h)
      PROVE  ScopeInv'
  <2>1. pc[h] = "script"
    BY <1>5 DEF LookFails
  <2>2. PICK e : e = WithCard(req[h], Head(req[h].steps).tool, FALSE)
    OBVIOUS
  <2>3. \/ Head(req[h].steps).error = "skip" /\ Proceed(h, e)
        \/ Tell(h, e, "information") \/ Tell(h, e, "failed")
    BY <1>5, <2>2 DEF LookFails
  <2>4. Head(req[h].steps).error = "skip" => ~ (e.steps # <<>> /\ e.steps[1].tool \in LoanTools)
    BY <1>4, <2>1, <2>2
  <2>5. Scoped(e) /\ Ordered(e.steps)
    BY <1>4, <2>1, <2>2
  <2> QED  BY <1>1, <1>2, <2>3, <2>4, <2>5, Proceeds, Answers
<1>6. ASSUME LookInVain(h)
      PROVE  ScopeInv'
  <2>1. \E e : Tell(h, e, "information")
    BY <1>6 DEF LookInVain
  <2> QED  BY <1>1, <1>2, <2>1, Answers
<1>7. ASSUME LookFinds(h)
      PROVE  ScopeInv'
  <2>1. pc[h] = "script"
    BY <1>7 DEF LookFinds
  <2>2. PICK e : e = WithCard(req[h], Head(req[h].steps).tool, TRUE)
    OBVIOUS
  <2>3. /\ Scoped(e) /\ e.steps = Tail(req[h].steps) /\ e.who = req[h].who /\ Ordered(e.steps)
        /\ e.steps # <<>> /\ e.steps[1].tool \in LoanTools =>
             Head(req[h].steps).tool \in Lists /\ Acts(e.steps) # {}
    BY <1>4, <2>1, <2>2
  <2>4. CASE ~ (Head(req[h].steps).tool \in Lists /\ Acts(req[h].steps) # {}) /\ Proceed(h, e)
    <3>1. Acts(e.steps) # {} => Acts(req[h].steps) # {}
      <4>1. Ordered(req[h].steps) /\ req[h].steps # <<>>
        BY <1>1, <2>1 DEF ScopeInv
      <4> QED  BY <2>3, <4>1, TailOrdered
    <3> QED  BY <1>1, <1>2, <2>3, <2>4, <3>1, Proceeds
  <2>5. CASE \E i \in Picked(Listed(Head(req[h].steps).tool, req[h].who), req[h].title) :
               Proceed(h, WithId(e, i))
    <3>1. PICK i \in Picked(Listed(Head(req[h].steps).tool, req[h].who), req[h].title) :
            Proceed(h, WithId(e, i))
      BY <2>5
    <3>2. i \in DOMAIN records /\ records[i].owner = req[h].who
      BY DEF Picked, Listed
    <3>3. PICK f : f = WithId(e, i)
      OBVIOUS
    <3>4. Scoped(f) /\ f.steps = e.steps /\ f.id = i /\ f.who = e.who
      BY <2>3, <3>3, IdScoped DEF SameTurn
    <3>5. Proceed(h, f)
      BY <3>1, <3>3
    <3> QED  BY <1>1, <1>2, <2>3, <3>2, <3>4, <3>5, Proceeds
  <2> QED  BY <1>7, <2>2, <2>4, <2>5 DEF LookFinds, WithId
<1> QED  BY <1>2, <1>3, <1>5, <1>6, <1>7

----------------------------------------------------------------------------
(* The act. *)

\* New records come at the end, and no record changes hands.
Kept ==
  /\ records' \in Seq(Record) /\ Len(records') <= MaxRecords
  /\ \A i \in DOMAIN records : i \in DOMAIN records' /\ records'[i].owner = records[i].owner

LEMMA GoesOn ==
  ASSUME ScopeInv, Kept, NEW h \in Handlers, NEW r, Goto(h, "answered", r), UNCHANGED given
  PROVE  ScopeInv' /\ pc'[h] # "act"
<1>1. pc \in [Handlers -> AssistantLabels] /\ req = [g \in Handlers |-> req[g]]
  BY DEF ScopeInv, AssistantTypeOK, AssistantLabels
<1>2. pc' \in [Handlers -> AssistantLabels] /\ pc'[h] = "answered"
      /\ \A g \in Handlers : g # h => pc'[g] = pc[g] /\ req'[g] = req[g]
  BY <1>1 DEF Goto, AssistantLabels
<1>3. req' = [g \in Handlers |-> req'[g]]
  BY <1>1 DEF Goto
<1>4. AssistantTypeOK'
  BY <1>2 DEF ScopeInv, AssistantTypeOK, AssistantLabels, given, Kept
<1>5. ASSUME NEW g \in Handlers, g # h
      PROVE  /\ pc'[g] \in {"script", "act"} => Scoped(req'[g])
             /\ pc'[g] = "script" =>
                  /\ Ordered(req'[g].steps) /\ req'[g].steps # <<>>
                  /\ req'[g].steps[1].tool \notin LoanTools
             /\ pc'[g] = "act" => req'[g].tool \in Opening \cup Closing
  BY <1>2, <1>5 DEF ScopeInv
<1>6. ASSUME NEW g \in Handlers, g # h, pc'[g] = "act"
      PROVE  OwnerSeen(req[g])'
  <2>1. pc[g] = "act" /\ req'[g] = req[g]
    BY <1>2, <1>6
  <2>2. OwnerSeen(req[g])
    BY <2>1 DEF ScopeInv
  <2> QED  BY <2>1, <2>2 DEF OwnerSeen, Kept
<1>7. pc'[h] \notin {"script", "act"}
  BY <1>2
<1>8. \A g \in Handlers :
        /\ pc'[g] \in {"script", "act"} => Scoped(req'[g])
        /\ pc'[g] = "script" =>
             /\ Ordered(req'[g].steps) /\ req'[g].steps # <<>>
             /\ req'[g].steps[1].tool \notin LoanTools
        /\ pc'[g] = "act" => req'[g].tool \in Opening \cup Closing /\ OwnerSeen(req[g])'
  BY <1>5, <1>6, <1>7
<1> QED  BY <1>2, <1>3, <1>4, <1>8 DEF ScopeInv

OwnChanges ==
  \A i \in DOMAIN records' :
    i \notin DOMAIN records \/ records'[i] # records[i] =>
      \E h \in Handlers :
        /\ pc[h] = "act" /\ pc'[h] # "act"
        /\ \/ req[h].session = records'[i].owner
           \/ req[h].session = Librarian /\ req[h].op = "page"

\* The service touches one record, of the reader it was given, or one whose
\* owner the request had looked at.
LEMMA ServiceScoped ==
  ASSUME ScopeInv, NEW h \in Handlers, pc[h] = "act",
         IF req[h].tool \in Opening THEN Open(req[h].tool, req[h].who, req[h].title)
                                    ELSE Close(req[h].tool, req[h].who, req[h].id)
  PROVE  /\ Kept
         /\ \A i \in DOMAIN records' : i \notin DOMAIN records \/ records'[i] # records[i] =>
              records'[i].owner = req[h].session \/ Privileged(req[h])
<1> DEFINE r == req[h]
<1>1. /\ Scoped(r) /\ r.tool \in Opening \cup Closing /\ OwnerSeen(r)
      /\ r.who \in Accounts /\ r.title \in Titles \cup {Nobody}
      /\ r.who = r.session \/ Privileged(r)
  BY DEF ScopeInv, Scoped
<1>2. /\ records \in Seq(Record) /\ Len(records) \in Nat /\ DOMAIN records = 1..Len(records)
      /\ Len(records) <= MaxRecords /\ MaxRecords \in Nat
  BY AssistantAssumption DEF ScopeInv, AssistantTypeOK
<1> HIDE DEF r
<1>3. ASSUME NEW x \in Record, records' = Append(records, x), Len(records) < MaxRecords
      PROVE  /\ Kept
             /\ \A i \in DOMAIN records' : i \notin DOMAIN records \/ records'[i] # records[i] =>
                  records'[i] = x
  BY <1>2, <1>3 DEF Kept
<1>4. CASE r.tool \in Opening
  <2>1. PICK x : /\ x = [kind |-> Kind(r.tool), owner |-> r.who, state |-> "open",
                         title |-> IF r.tool = "borrow" THEN r.title ELSE Nobody]
                 /\ records' = Append(records, x) /\ Len(records) < MaxRecords
    BY <1>4 DEF Open, r
  <2>2. x \in Record /\ x.owner = r.who
    BY <1>1, <2>1, KindTyped DEF Record
  <2>3. Kept /\ \A i \in DOMAIN records' : i \notin DOMAIN records \/ records'[i] # records[i] =>
                  records'[i].owner = r.who
    BY <1>3, <2>1, <2>2
  <2> QED  BY <1>1, <2>3 DEF r
<1>5. CASE r.tool \notin Opening
  <2>1. /\ r.id \in DOMAIN records /\ r.tool \in Closing
        /\ r.tool \notin LoanTools => records[r.id].owner = r.who
    BY <1>1, <1>5 DEF Close, Found, r
  <2>2. PICK closed : /\ closed = [records EXCEPT ![r.id].state = r.tool]
                      /\ \/ records' = closed
                         \/ records' = Append(closed, records[r.id]) /\ Len(records) < MaxRecords
    BY <1>5 DEF Close, r
  <2>3. PICK x : x = [records[r.id] EXCEPT !.state = r.tool]
    OBVIOUS
  <2>4. records[r.id] \in Record
    BY <1>2, <2>1
  <2>5. x \in Record /\ x.owner = records[r.id].owner
    BY <2>1, <2>3, <2>4 DEF Record
  <2>6. closed = [records EXCEPT ![r.id] = x]
    BY <2>2, <2>3
  <2>7. /\ closed \in Seq(Record) /\ Len(closed) = Len(records) /\ DOMAIN closed = DOMAIN records
        /\ closed[r.id] = x /\ \A i \in DOMAIN records : i # r.id => closed[i] = records[i]
    BY <1>2, <2>1, <2>5, <2>6
  <2>8. CASE records' = closed
    BY <1>1, <1>2, <2>1, <2>5, <2>7, <2>8 DEF Kept, OwnerSeen, r
  <2>9. CASE records' = Append(closed, records[r.id]) /\ Len(records) < MaxRecords
    <3>1. /\ records' \in Seq(Record) /\ Len(records') = Len(records) + 1
          /\ DOMAIN records' = 1..(Len(records) + 1)
          /\ records'[Len(records) + 1] = records[r.id]
          /\ \A i \in DOMAIN records : records'[i] = closed[i]
      BY <1>2, <2>4, <2>7, <2>9
    <3>2. \A i \in DOMAIN records' : i \in DOMAIN records \/ i = Len(records) + 1
      BY <1>2, <3>1
    <3>3. Kept
      BY <1>2, <2>5, <2>7, <2>9, <3>1 DEF Kept
    <3>4. \A i \in DOMAIN records' : i \notin DOMAIN records \/ records'[i] # records[i] =>
            records'[i].owner = records[r.id].owner
      BY <2>5, <2>7, <3>1, <3>2
    <3>5. records[r.id].owner = r.who \/ Privileged(r)
      BY <1>1, <2>1 DEF OwnerSeen
    <3> QED  BY <1>1, <3>3, <3>4, <3>5 DEF r
  <2> QED  BY <2>2, <2>8, <2>9
<1> QED  BY <1>4, <1>5

LEMMA ActsScoped ==
  ASSUME ScopeInv, NEW h \in Handlers, Act(h)
  PROVE  ScopeInv' /\ OwnChanges
<1>1. pc[h] = "act" /\ UNCHANGED given /\ \E r : Goto(h, "answered", r)
  BY DEF Act, Tell
<1>2. CASE IF req[h].tool \in Opening THEN Open(req[h].tool, req[h].who, req[h].title)
                                      ELSE Close(req[h].tool, req[h].who, req[h].id)
  <2>1. /\ Kept
        /\ \A i \in DOMAIN records' : i \notin DOMAIN records \/ records'[i] # records[i] =>
             records'[i].owner = req[h].session \/ Privileged(req[h])
    BY <1>1, <1>2, ServiceScoped
  <2>2. ScopeInv' /\ pc'[h] # "act"
    BY <1>1, <2>1, GoesOn
  <2> QED  BY <1>1, <2>1, <2>2 DEF OwnChanges, Privileged
<1>3. CASE UNCHANGED records
  <2>1. Kept
    BY <1>3 DEF Kept, ScopeInv, AssistantTypeOK
  <2>2. ScopeInv'
    BY <1>1, <2>1, GoesOn
  <2> QED  BY <1>3, <2>2 DEF OwnChanges
<1> QED  BY <1>2, <1>3 DEF Act

----------------------------------------------------------------------------

LEMMA ScopeInvInit == AssistantInit => ScopeInv
<1> SUFFICES ASSUME AssistantInit  PROVE ScopeInv
  OBVIOUS
<1>1. AssistantTypeOK
  BY AssistantAssumption DEF AssistantInit, AssistantTypeOK
<1>2. req = [h \in Handlers |-> req[h]] /\ \A h \in Handlers : pc[h] = "idle"
  BY DEF AssistantInit
<1> QED  BY <1>1, <1>2 DEF ScopeInv

LEMMA ScopeInvNext == ScopeInv /\ [AssistantNext]_assistantVars => ScopeInv' /\ OwnChanges
<1> SUFFICES ASSUME ScopeInv, [AssistantNext]_assistantVars  PROVE ScopeInv' /\ OwnChanges
  OBVIOUS
<1>1. UNCHANGED records => OwnChanges
  BY DEF OwnChanges
<1>2. ASSUME NEW h \in Buttons,
             \/ \E a \in Accounts, id \in 1..MaxRecords :
                  handleReturn(h, a, id) \/ handleRenew(h, a, id) \/ handleSeatReservation(h, a, id)
                    \/ handleCancelHold(h, a, id)
             \/ \E p \in Accounts, t \in Titles : handleAdminCheckout(h, p, t)
             \/ \E a, p \in Accounts, t \in Titles : handleBorrow(h, a, p, t)
             \/ \E a, p \in Accounts : handlePlaceHold(h, a, p)
             \/ \E a \in Accounts : handleReserveSeat(h, a) \/ handleGateScan(h, a)
             \/ \E id \in 1..MaxRecords : handleAdminReturn(h, id)
      PROVE  ScopeInv' /\ OwnChanges
  BY <1>1, <1>2, PageScoped
<1>3. ASSUME NEW h \in Chats, NEW p \in Accounts, NEW claimed \in Accounts,
             \/ place_hold(h, p, claimed) \/ reserve_seat(h, p, claimed) \/ gate_scan(h, p, claimed)
             \/ \E id \in 1..MaxRecords :
                  return_book(h, p, claimed, id) \/ renew_loan(h, p, claimed, id)
                    \/ cancel_seat_reservation(h, p, claimed, id)
      PROVE  ScopeInv' /\ OwnChanges
  BY <1>1, <1>3, ToolsScoped
<1>4. ASSUME NEW h \in Chats,
             (\E p \in Offline : runMock(h, p)) \/ LookFails(h) \/ LookInVain(h) \/ LookFinds(h)
      PROVE  ScopeInv' /\ OwnChanges
  BY <1>1, <1>4, ScriptsScoped
<1>5. ASSUME NEW h \in Handlers, Act(h)
      PROVE  ScopeInv' /\ OwnChanges
  BY <1>5, ActsScoped
<1>6. ASSUME NEW h \in Handlers, Respond(h)
      PROVE  ScopeInv' /\ OwnChanges
  BY <1>1, <1>6, OneGoes DEF Respond, Finish, AssistantLabels
<1>7. CASE Crash
  <2>1. /\ pc' = [h \in Handlers |-> "idle"] /\ req' = [h \in Handlers |-> NoReq]
        /\ UNCHANGED <<given, records>>
    BY <1>7 DEF Crash, DropRequests
  <2>2. AssistantTypeOK'
    BY <2>1 DEF ScopeInv, AssistantTypeOK, given
  <2>3. \A h \in Handlers : pc'[h] = "idle"
    BY <2>1
  <2>4. req' = [h \in Handlers |-> req'[h]]
    BY <2>1
  <2> QED  BY <1>1, <2>1, <2>2, <2>3, <2>4 DEF ScopeInv
<1>8. CASE UNCHANGED assistantVars
  <2>1. UNCHANGED <<pc, req, provider, matter, records>>
    BY <1>8 DEF assistantVars, given
  <2>2. ScopeInv'
    BY <2>1 DEF ScopeInv, AssistantTypeOK, Scoped, Privileged, OwnerSeen, Ordered
  <2> QED  BY <1>1, <2>1, <2>2
<1> QED  BY <1>2, <1>3, <1>4, <1>5, <1>6, <1>7, <1>8 DEF AssistantNext

\* The variables keep to their values, whatever records the requests make.
THEOREM AssistantTypeCorrect == AssistantSpec => []AssistantTypeOK
<1>1. ScopeInv => AssistantTypeOK
  BY DEF ScopeInv
<1> QED  BY <1>1, ScopeInvInit, ScopeInvNext, PTL DEF AssistantSpec

\* Over the page, the tools of the model and the offline scripts alike, and
\* whatever patron_id the model makes up, a record changes only for its own
\* reader or for the administrator at the page.
THEOREM OnlyOwnRecordsChange == AssistantSpec => OnlyOwnRecords
<1>1. ScopeInv /\ [AssistantNext]_assistantVars => [OwnChanges]_assistantVars
  BY ScopeInvNext
<1> QED  BY <1>1, ScopeInvInit, ScopeInvNext, PTL DEF AssistantSpec, OnlyOwnRecords, OwnChanges

----------------------------------------------------------------------------
(* What the reader is told.  The records that a step leaves behind are an  *)
(* argument of what is said about them.                                    *)

ReadCard == [tool: ToolNames \ (Opening \cup Closing), done: BOOLEAN]
AllDone(cards) == \A i \in DOMAIN cards : cards[i].done

\* Until the act, nothing has been done and only reads have been shown.
Reading(r) == r.did = FALSE /\ r.cards \in Seq(ReadCard)

OfNamed(r, rs) ==
  r.op = "offline" /\ r.tool \in LoanTools => Contains(rs[r.id].title, r.title)

\* A script on its way to an act has found all it looked for.
OnItsWay(r) == Reading(r) /\ (Acts(r.steps) # {} => AllDone(r.cards))

Looking(r) == OnItsWay(r) /\ r.steps[1].tool \notin Opening \cup Closing

AboutToAct(r, rs) == Reading(r) /\ AllDone(r.cards) /\ OfNamed(r, rs)

Truthful(r, rs) ==
  /\ r.told = "done" => r.did
  /\ r.did => r.told = "done" \/ r.tool \in ReadBack
  /\ r.did /\ r.tool \in Closing => r.id \in DOMAIN rs /\ rs[r.id].state = r.tool
  /\ \A i \in DOMAIN r.cards :
       /\ r.cards[i].tool \in Closing \cup {"place_hold"} => (r.cards[i].done <=> r.told = "done")
       /\ r.told = "done" => r.cards[i].done
  /\ r.did => OfNamed(r, rs)

ToldInv ==
  \A h \in Handlers :
    /\ pc[h] = "script" => Looking(req[h])
    /\ pc[h] = "act" => AboutToAct(req[h], records)
    /\ pc[h] = "answered" => Truthful(req[h], records)

\* Records keep their titles, and a closed one stays as it is.
Lasting(rs) ==
  \A i \in DOMAIN records :
    /\ i \in DOMAIN rs /\ rs[i].title = records[i].title
    /\ records[i].state # "open" => rs[i].state = records[i].state

LEMMA LoansClose == LoanTools \subseteq Closing /\ "open" \notin Closing
BY DEF LoanTools, SeatTools, Closing

LEMMA ToldGoes ==
  ASSUME ScopeInv, ToldInv, NEW rs, records' = rs, Lasting(rs),
         NEW h \in Handlers, NEW label \in AssistantLabels, NEW r, Goto(h, label, r),
         label = "script" => Looking(r),
         label = "act" => AboutToAct(r, rs),
         label = "answered" => Truthful(r, rs)
  PROVE  ToldInv'
<1>1. pc \in [Handlers -> AssistantLabels] /\ req = [g \in Handlers |-> req[g]]
  BY DEF ScopeInv, AssistantTypeOK, AssistantLabels
<1>2. /\ pc'[h] = label /\ req'[h] = r
      /\ \A g \in Handlers : g # h => pc'[g] = pc[g] /\ req'[g] = req[g]
  BY <1>1 DEF Goto
<1>3. ASSUME NEW g \in Handlers
      PROVE  /\ pc'[g] = "script" => Looking(req'[g])
             /\ pc'[g] = "act" => AboutToAct(req'[g], rs)
             /\ pc'[g] = "answered" => Truthful(req'[g], rs)
  <2>1. CASE g = h
    BY <1>2, <2>1
  <2>2. CASE g # h
    <3>1. PICK e : e = req[g]
      OBVIOUS
    <3>2. pc'[g] = pc[g] /\ req'[g] = e
      BY <1>2, <2>2, <3>1
    <3>3. /\ pc[g] = "script" => Looking(e)
          /\ pc[g] = "act" => AboutToAct(e, records)
          /\ pc[g] = "answered" => Truthful(e, records)
      BY <3>1 DEF ToldInv
    <3>4. pc[g] = "act" => AboutToAct(e, rs)
      <4> SUFFICES ASSUME pc[g] = "act"  PROVE AboutToAct(e, rs)
        OBVIOUS
      <4>1. e.tool \in LoanTools => e.id \in DOMAIN records
        BY <3>1 DEF ScopeInv, OwnerSeen
      <4> QED  BY <3>3, <4>1 DEF AboutToAct, OfNamed, Lasting
    <3>5. pc[g] = "answered" => Truthful(e, rs)
      <4> SUFFICES ASSUME Truthful(e, records)  PROVE Truthful(e, rs)
        BY <3>3
      <4>1. e.did /\ e.tool \in Closing => e.id \in DOMAIN records /\ records[e.id].state = e.tool
        BY DEF Truthful
      <4>2. e.did /\ e.tool \in Closing =>
              e.id \in DOMAIN rs /\ rs[e.id].state = e.tool /\ rs[e.id].title = records[e.id].title
        BY <4>1, LoansClose DEF Lasting
      <4>3. e.did => OfNamed(e, rs)
        BY <4>2, LoansClose DEF Truthful, OfNamed
      <4> QED  BY <4>2, <4>3 DEF Truthful
    <3> QED  BY <3>2, <3>3, <3>4, <3>5
  <2> QED  BY <2>1, <2>2
<1> QED  BY <1>3 DEF ToldInv

\* What is told of a request that did nothing.
LEMMA TellsNothing ==
  ASSUME ScopeInv, ToldInv, NEW h \in Handlers, NEW r, Reading(r),
         NEW told \in {"failed", "information"}, Tell(h, r, told), UNCHANGED records
  PROVE  ToldInv'
<1> DEFINE a == [op |-> IF r.op = "offline" THEN r.op ELSE "other", tool |-> r.tool, cards |-> r.cards,
                 told |-> told, did |-> r.did, id |-> IF r.did THEN r.id ELSE 0,
                 title |-> IF r.did THEN r.title ELSE Nobody]
<1>1. Goto(h, "answered", a)
  BY DEF Tell
<1>2. a.told = told /\ a.did = FALSE /\ a.cards = r.cards
  BY DEF Reading
<1> HIDE DEF a
<1>3. \A i \in DOMAIN a.cards : a.cards[i].tool \notin Closing \cup {"place_hold"}
  <2>1. \A i \in DOMAIN r.cards : r.cards[i] \in ReadCard
    BY DEF Reading
  <2> QED  BY <1>2, <2>1 DEF ReadCard, Opening
<1>4. Truthful(a, records)
  BY <1>2, <1>3 DEF Truthful
<1>5. Lasting(records) /\ "answered" \in AssistantLabels
  BY DEF Lasting, AssistantLabels
<1> QED  BY <1>1, <1>4, <1>5, ToldGoes

LEMMA AcceptsReading ==
  ASSUME ScopeInv, ToldInv, NEW h \in Handlers, NEW r, Accept(h, r), UNCHANGED records,
         r.op # "offline", r.cards = <<>>, r.did = FALSE
  PROVE  ToldInv'
<1>1. Goto(h, "act", r)
  BY DEF Accept, Begin
<1>2. AboutToAct(r, records)
  BY DEF AboutToAct, Reading, AllDone, OfNamed
<1>3. Lasting(records) /\ "act" \in AssistantLabels
  BY DEF Lasting, AssistantLabels
<1> QED  BY <1>1, <1>2, <1>3, ToldGoes

\* What the page and the tools of the model do first.
LEMMA AskedFirst ==
  ASSUME ScopeInv, ToldInv, NEW h \in Handlers, NEW op, op # "offline", NEW session, NEW who, NEW tool,
         NEW id, NEW title, UNCHANGED records,
         \/ Accept(h, Asked(op, session, who, tool, id, title))
         \/ Refuse(h, Asked(op, session, who, tool, id, title))
  PROVE  ToldInv'
<1>1. PICK r : r = Asked(op, session, who, tool, id, title)
  OBVIOUS
<1>2. r.op = op /\ r.cards = <<>> /\ r.did = FALSE
  BY <1>1 DEF Asked
<1>3. CASE Accept(h, r)
  BY <1>2, <1>3, AcceptsReading
<1>4. CASE Refuse(h, r)
  <2>1. Tell(h, r, "failed")
    BY <1>4 DEF Refuse
  <2>2. Reading(r)
    BY <1>2 DEF Reading
  <2> QED  BY <2>1, <2>2, TellsNothing
<1> QED  BY <1>1, <1>3, <1>4
LEMMA PageTold ==
  ASSUME ScopeInv, ToldInv, NEW h \in Buttons,
         \/ \E a \in Accounts, id \in 1..MaxRecords :
              handleReturn(h, a, id) \/ handleRenew(h, a, id) \/ handleSeatReservation(h, a, id)
                \/ handleCancelHold(h, a, id)
         \/ \E p \in Accounts, t \in Titles : handleAdminCheckout(h, p, t)
         \/ \E a, p \in Accounts, t \in Titles : handleBorrow(h, a, p, t)
         \/ \E a, p \in Accounts : handlePlaceHold(h, a, p)
         \/ \E a \in Accounts : handleReserveSeat(h, a) \/ handleGateScan(h, a)
         \/ \E id \in 1..MaxRecords : handleAdminReturn(h, id)
  PROVE  ToldInv'
<1>1. h \in Handlers
  BY AssistantAssumption
<1>2. UNCHANGED records
  BY PageScoped
<1>3. \E session, who, tool, id, title :
        \/ Accept(h, Asked("page", session, who, tool, id, title))
        \/ Refuse(h, Asked("page", session, who, tool, id, title))
  <2>1. ASSUME NEW a, NEW tool, NEW id, ByLoanOwner(h, a, tool, id)
        PROVE  \/ Accept(h, Asked("page", a, a, tool, id, Nobody))
               \/ Refuse(h, Asked("page", a, a, tool, id, Nobody))
    BY <2>1 DEF ByLoanOwner
  <2>2. ASSUME NEW a, NEW p, NEW tool, NEW t, OnBehalf(h, a, tool, p, t)
        PROVE  \/ Accept(h, Asked("page", a, p, tool, 0, t))
               \/ Refuse(h, Asked("page", a, p, tool, 0, t))
    BY <2>2 DEF OnBehalf
  <2>3. ASSUME NEW a, NEW tool, NEW id, Own(h, a, tool, id)
        PROVE  Accept(h, Asked("page", a, a, tool, id, Nobody))
    BY <2>3 DEF Own
  <2>4. ASSUME NEW id, handleAdminReturn(h, id)
        PROVE  \/ Accept(h, Asked("page", Librarian, Librarian, "return_book", id, Nobody))
               \/ Refuse(h, Asked("page", Librarian, Librarian, "return_book", id, Nobody))
    BY <2>4 DEF handleAdminReturn
  <2>5. CASE \E a \in Accounts, id \in 1..MaxRecords :
               handleReturn(h, a, id) \/ handleRenew(h, a, id) \/ handleSeatReservation(h, a, id)
                 \/ handleCancelHold(h, a, id)
    <3>1. PICK a \in Accounts, id \in 1..MaxRecords :
            handleReturn(h, a, id) \/ handleRenew(h, a, id) \/ handleSeatReservation(h, a, id)
              \/ handleCancelHold(h, a, id)
      BY <2>5
    <3>2. CASE handleReturn(h, a, id) \/ handleRenew(h, a, id)
      BY <2>1, <3>2 DEF handleReturn, handleRenew
    <3>3. CASE handleSeatReservation(h, a, id) \/ handleCancelHold(h, a, id)
      BY <2>3, <3>3 DEF handleSeatReservation, handleCancelHold
    <3> QED  BY <3>1, <3>2, <3>3
  <2>6. CASE \/ \E p \in Accounts, t \in Titles : handleAdminCheckout(h, p, t)
             \/ \E a, p \in Accounts, t \in Titles : handleBorrow(h, a, p, t)
             \/ \E a, p \in Accounts : handlePlaceHold(h, a, p)
    BY <2>2, <2>6 DEF handleAdminCheckout, handleBorrow, handlePlaceHold
  <2>7. CASE \E a \in Accounts : handleReserveSeat(h, a) \/ handleGateScan(h, a)
    BY <2>3, <2>7 DEF handleReserveSeat, handleGateScan
  <2>8. CASE \E id \in 1..MaxRecords : handleAdminReturn(h, id)
    BY <2>4, <2>8
  <2> QED  BY <2>5, <2>6, <2>7, <2>8
<1> QED  BY <1>1, <1>2, <1>3, AskedFirst

LEMMA ToolsTold ==
  ASSUME ScopeInv, ToldInv, NEW h \in Chats, NEW p \in Accounts, NEW claimed \in Accounts,
         \/ place_hold(h, p, claimed) \/ reserve_seat(h, p, claimed) \/ gate_scan(h, p, claimed)
         \/ \E id \in 1..MaxRecords :
              return_book(h, p, claimed, id) \/ renew_loan(h, p, claimed, id)
                \/ cancel_seat_reservation(h, p, claimed, id)
  PROVE  ToldInv'
<1>1. h \in Handlers
  BY AssistantAssumption
<1>2. UNCHANGED records
  BY ToolsScoped
<1>3. \E tool, id :
        \/ Accept(h, Asked("model", p, p, tool, id, Nobody))
        \/ Refuse(h, Asked("model", p, p, tool, id, Nobody))
  <2>1. ASSUME NEW tool, NEW id, executeTool(h, p, tool, claimed, id)
        PROVE  Accept(h, Asked("model", p, p, tool, id, Nobody))
    BY <2>1 DEF executeTool, Injected
  <2>2. ASSUME NEW tool, NEW id, OfLoanOwner(h, p, tool, claimed, id)
        PROVE  \/ Accept(h, Asked("model", p, p, tool, id, Nobody))
               \/ Refuse(h, Asked("model", p, p, tool, id, Nobody))
    BY <2>1, <2>2 DEF OfLoanOwner, Injected
  <2>3. CASE place_hold(h, p, claimed) \/ reserve_seat(h, p, claimed) \/ gate_scan(h, p, claimed)
    BY <2>1, <2>3 DEF place_hold, reserve_seat, gate_scan
  <2>4. ASSUME NEW id \in 1..MaxRecords,
               return_book(h, p, claimed, id) \/ renew_loan(h, p, claimed, id)
                 \/ cancel_seat_reservation(h, p, claimed, id)
        PROVE  \E tool :
                 \/ Accept(h, Asked("model", p, p, tool, id, Nobody))
                 \/ Refuse(h, Asked("model", p, p, tool, id, Nobody))
    BY <2>1, <2>2, <2>4 DEF return_book, renew_loan, cancel_seat_reservation
  <2> QED  BY <2>3, <2>4
<1> QED  BY <1>1, <1>2, <1>3, AskedFirst

\* One more card, of a read.
LEMMA ShownReading ==
  ASSUME NEW cards \in Seq(ReadCard), NEW tool \in ToolNames \ (Opening \cup Closing), NEW done \in BOOLEAN
  PROVE  /\ Shown(cards, tool, done) \in Seq(ReadCard)
         /\ AllDone(cards) /\ done => AllDone(Shown(cards, tool, done))
<1> DEFINE card == [tool |-> tool, done |-> done]
<1>1. card \in ReadCard /\ card.done = done
  BY DEF ReadCard
<1> HIDE DEF card
<1>2. PICK s : s = Append(cards, card)
  OBVIOUS
<1>3. /\ s \in Seq(ReadCard) /\ Len(s) = Len(cards) + 1 /\ Len(cards) \in Nat
      /\ s[Len(cards) + 1] = card /\ \A i \in 1..Len(cards) : s[i] = cards[i]
  BY <1>1, <1>2
<1>4. \A i \in DOMAIN s : i \in DOMAIN cards \/ i = Len(cards) + 1
  BY <1>3
<1>5. \A i \in DOMAIN s : (i \in DOMAIN cards /\ s[i] = cards[i]) \/ s[i] = card
  BY <1>3, <1>4
<1>6. AllDone(cards) /\ done => AllDone(s)
  BY <1>1, <1>5, Zenon DEF AllDone
<1> QED  BY <1>2, <1>3, <1>6 DEF Shown, card

LEMMA ProceedsTold ==
  ASSUME ScopeInv, ToldInv, NEW h \in Handlers, NEW r, Scoped(r), Ordered(r.steps), OnItsWay(r),
         r.steps # <<>> /\ r.steps[1].tool \in LoanTools => Contains(records[r.id].title, r.title),
         Proceed(h, r), UNCHANGED <<given, records>>
  PROVE  ToldInv'
<1>1. Lasting(records) /\ "act" \in AssistantLabels /\ "script" \in AssistantLabels
  BY DEF Lasting, AssistantLabels
<1>2. CASE r.steps = <<>> /\ Tell(h, r, "information")
  <2>1. Reading(r)
    BY DEF OnItsWay
  <2> QED  BY <1>2, <2>1, TellsNothing
<1>3. Head(r.steps) = r.steps[1] /\ (r.steps # <<>> => 1 \in DOMAIN r.steps)
  BY DEF Ordered
<1>4. CASE /\ r.steps # <<>> /\ r.steps[1].tool \in Opening \cup Closing
           /\ Goto(h, "act", [r EXCEPT !.tool = r.steps[1].tool, !.steps = <<>>])
  <2>0. PICK e : e = ToAct(r, r.steps[1].tool, <<>>)
    OBVIOUS
  <2>1. Scoped(e) /\ e.tool = r.steps[1].tool /\ e.id = r.id /\ e.cards = r.cards /\ SameTurn(e, r)
    BY <2>0, ActScoped
  <2>2. Goto(h, "act", e)
    BY <1>4, <2>0 DEF ToAct
  <2>3. Acts(r.steps) # {}
    BY <1>3, <1>4 DEF Acts
  <2>4. OfNamed(e, records)
    BY <1>4, <2>1 DEF OfNamed, SameTurn
  <2>5. AboutToAct(e, records)
    BY <2>1, <2>3, <2>4 DEF AboutToAct, OnItsWay, Reading, SameTurn
  <2> QED  BY <1>1, <2>2, <2>5, ToldGoes
<1>5. CASE /\ r.steps # <<>> /\ r.steps[1].tool \notin Opening \cup Closing
           /\ Goto(h, "script", r)
  <2>1. Looking(r)
    BY <1>5 DEF Looking
  <2> QED  BY <1>1, <1>5, <2>1, ToldGoes
<1> QED  BY <1>2, <1>3, <1>4, <1>5 DEF Proceed

LEMMA ScriptsTold ==
  ASSUME ScopeInv, ToldInv, NEW h \in Chats,
         (\E p \in Offline : runMock(h, p)) \/ LookFails(h) \/ LookInVain(h) \/ LookFinds(h)
  PROVE  ToldInv'
<1>1. h \in Handlers /\ Offline \subseteq Accounts
  BY AssistantAssumption
<1>2. UNCHANGED <<given, records>>
  BY DEF runMock, LookFails, LookInVain, LookFinds
<1>3. ASSUME NEW p \in Offline, runMock(h, p)
      PROVE  ToldInv'
  <2>0. PICK named \in Titles \cup {Nobody} : \E steps \in Courses(named) :
          Proceed(h, WithSteps(Asked("offline", p, p, Nobody, 0, named), steps))
    BY <1>3 DEF runMock, WithSteps
  <2>1. PICK steps \in Courses(named) :
          Proceed(h, WithSteps(Asked("offline", p, p, Nobody, 0, named), steps))
    BY <2>0
  <2>2. PICK r : r = Asked("offline", p, p, Nobody, 0, named)
    OBVIOUS
  <2>3. Scoped(r)
    BY <1>1, <2>2, AskedScoped
  <2>4. r.cards = <<>> /\ r.did = FALSE
    BY <2>2 DEF Asked
  <2>5. PICK e : e = WithSteps(r, steps)
    OBVIOUS
  <2>6. Scoped(e) /\ e.steps = steps /\ e.cards = r.cards /\ SameTurn(e, r)
    BY <2>3, <2>5, StepsScoped
  <2>7. Ordered(steps) /\ (steps # <<>> => steps[1].tool \notin LoanTools)
    BY CoursesOrdered
  <2>8. Proceed(h, e)
    BY <2>1, <2>2, <2>5
  <2>9. OnItsWay(e)
    BY <2>4, <2>6 DEF OnItsWay, Reading, AllDone, SameTurn
  <2> QED  BY <1>1, <1>2, <2>6, <2>7, <2>8, <2>9, ProceedsTold
<1>4. ASSUME pc[h] = "script", NEW r, r = req[h]
      PROVE  /\ Scoped(r) /\ Ordered(r.steps) /\ r.steps # <<>> /\ OnItsWay(r)
             /\ Head(r.steps) = r.steps[1] /\ r.steps[1] \in Step /\ 1 \in DOMAIN r.steps
             /\ pc[h] = "script"
  <2>1. Scoped(r) /\ Ordered(r.steps) /\ r.steps # <<>> /\ OnItsWay(r)
    BY <1>1, <1>4 DEF ScopeInv, ToldInv, Looking
  <2> QED  BY <1>4, <2>1, TailOrdered DEF Ordered
<1>5. PICK r : r = req[h]
  OBVIOUS
<1>6. \A i \in DOMAIN r.steps : r.steps[i].tool \in Opening \cup Closing => Acts(r.steps) # {}
  BY DEF Acts
<1>7. ASSUME pc[h] = "script", NEW done \in BOOLEAN, NEW e, e = WithCard(r, Head(r.steps).tool, done)
      PROVE  /\ Scoped(e) /\ e.id = r.id /\ SameTurn(e, r)
             /\ e.steps = Tail(r.steps) /\ Ordered(e.steps) /\ Acts(e.steps) \subseteq Acts(r.steps)
             /\ e.steps # <<>> /\ e.steps[1].tool \in LoanTools =>
                  Head(r.steps).tool = "get_my_loans" /\ Acts(e.steps) # {}
             /\ Head(r.steps).error = "skip" => Acts(r.steps) = {}
             /\ Reading(e)
             /\ (AllDone(r.cards) /\ done) => AllDone(e.cards)
  <2>1. /\ Scoped(r) /\ Ordered(r.steps) /\ r.steps # <<>> /\ OnItsWay(r)
        /\ Head(r.steps) = r.steps[1] /\ r.steps[1] \in Step
    BY <1>4, <1>5, <1>7
  <2>2. PICK tool : tool = Head(r.steps).tool
    OBVIOUS
  <2>3. /\ Scoped(e) /\ e.steps = Tail(r.steps) /\ e.id = r.id /\ SameTurn(e, r)
        /\ e.cards = Shown(r.cards, tool, done)
    BY <1>7, <2>1, <2>2, CardScoped
  <2>4. tool \in ToolNames \ (Opening \cup Closing)
    <3>2. tool \in ToolNames
      BY <2>1, <2>2 DEF Step
    <3>3. tool \notin Opening \cup Closing
      BY <1>1, <1>5, <1>7, <2>1, <2>2 DEF ToldInv, Looking
    <3> QED  BY <3>2, <3>3
  <2>5. /\ e.cards \in Seq(ReadCard)
        /\ (AllDone(r.cards) /\ done) => AllDone(e.cards)
    BY <2>1, <2>3, <2>4, ShownReading DEF OnItsWay, Reading
  <2>6. Reading(e)
    BY <2>1, <2>3, <2>5 DEF OnItsWay, Reading, SameTurn
  <2>7. /\ Ordered(e.steps) /\ Acts(e.steps) \subseteq Acts(r.steps)
        /\ e.steps # <<>> /\ e.steps[1].tool \in LoanTools => Head(r.steps).tool = "get_my_loans"
        /\ Head(r.steps).error = "skip" => Acts(r.steps) = {}
    BY <2>1, <2>3, TailOrdered
  <2>8. e.steps # <<>> /\ e.steps[1].tool \in LoanTools => Acts(e.steps) # {}
    BY <2>7, ForLoans DEF Acts, Ordered
  <2> QED  BY <2>3, <2>5, <2>6, <2>7, <2>8
<1>8. ASSUME LookFails(h)
      PROVE  ToldInv'
  <2>1. pc[h] = "script"
    BY <1>8 DEF LookFails
  <2>2. PICK e : e = WithCard(r, Head(r.steps).tool, FALSE)
    OBVIOUS
  <2>3. \/ Head(r.steps).error = "skip" /\ Proceed(h, e)
        \/ Tell(h, e, "information") \/ Tell(h, e, "failed")
    BY <1>5, <1>8, <2>2 DEF LookFails
  <2>4. /\ Scoped(e) /\ Ordered(e.steps) /\ Reading(e) /\ Acts(e.steps) \subseteq Acts(r.steps)
        /\ e.steps # <<>> /\ e.steps[1].tool \in LoanTools => Acts(e.steps) # {}
        /\ Head(r.steps).error = "skip" => Acts(r.steps) = {}
    BY <1>7, <2>1, <2>2
  <2>5. CASE Head(r.steps).error = "skip" /\ Proceed(h, e)
    <3>1. OnItsWay(e)
      BY <2>4, <2>5 DEF OnItsWay
    <3> QED  BY <1>1, <1>2, <2>4, <2>5, <3>1, ProceedsTold
  <2> QED  BY <1>1, <1>2, <2>3, <2>4, <2>5, TellsNothing
<1>9. ASSUME LookInVain(h)
      PROVE  ToldInv'
  <2>1. pc[h] = "script"
    BY <1>9 DEF LookInVain
  <2>2. PICK done \in BOOLEAN : Tell(h, WithCard(r, Head(r.steps).tool, done), "information")
    <3>1. (Head(r.steps).empty = "shown") \in BOOLEAN
      OBVIOUS
    <3> QED  BY <1>5, <1>9, <3>1 DEF LookInVain
  <2>3. PICK e : e = WithCard(r, Head(r.steps).tool, done)
    OBVIOUS
  <2>4. Reading(e)
    BY <1>7, <2>1, <2>3
  <2>5. Tell(h, e, "information")
    BY <2>2, <2>3
  <2> QED  BY <1>1, <1>2, <2>4, <2>5, TellsNothing
<1>10. ASSUME LookFinds(h)
       PROVE  ToldInv'
  <2>1. pc[h] = "script"
    BY <1>10 DEF LookFinds
  <2>2. PICK e : e = WithCard(r, Head(r.steps).tool, TRUE)
    OBVIOUS
  <2>3. /\ Scoped(e) /\ Ordered(e.steps) /\ Reading(e) /\ Acts(e.steps) \subseteq Acts(r.steps)
        /\ SameTurn(e, r)
        /\ e.steps # <<>> /\ e.steps[1].tool \in LoanTools =>
             Head(r.steps).tool = "get_my_loans" /\ Acts(e.steps) # {}
        /\ AllDone(r.cards) => AllDone(e.cards)
    BY <1>7, <2>1, <2>2
  <2>4. OnItsWay(e)
    <3>1. OnItsWay(r)
      BY <1>4, <1>5, <2>1
    <3> QED  BY <2>3, <3>1 DEF OnItsWay
  <2>5. CASE ~ (Head(r.steps).tool \in Lists /\ Acts(r.steps) # {}) /\ Proceed(h, e)
    BY <1>1, <1>2, <2>3, <2>4, <2>5, ProceedsTold DEF Lists
  <2>6. CASE \E i \in Picked(Listed(Head(r.steps).tool, r.who), r.title) : Proceed(h, WithId(e, i))
    <3>1. PICK i \in Picked(Listed(Head(r.steps).tool, r.who), r.title) : Proceed(h, WithId(e, i))
      BY <2>6
    <3>2. PICK f : f = WithId(e, i)
      OBVIOUS
    <3>3. Scoped(f) /\ f.steps = e.steps /\ f.id = i /\ f.cards = e.cards /\ SameTurn(f, e)
      BY <2>3, <3>2, IdScoped
    <3>4. Proceed(h, f)
      BY <3>1, <3>2
    <3>5. OnItsWay(f)
      BY <2>4, <3>3 DEF OnItsWay, Reading, SameTurn
    <3>6. f.steps # <<>> /\ f.steps[1].tool \in LoanTools => Contains(records[i].title, f.title)
      <4> SUFFICES ASSUME f.steps # <<>>, f.steps[1].tool \in LoanTools
                   PROVE  Contains(records[i].title, f.title)
        OBVIOUS
      <4>1. Head(r.steps).tool = "get_my_loans" /\ f.title = r.title
        BY <2>3, <3>3 DEF SameTurn
      <4>2. records[i].kind = "loan" /\ (records[i].kind = "loan" => Contains(records[i].title, r.title))
        <5>1. Kind("get_my_loans") = "loan"
          BY DEF Kind, LoanTools, SeatTools
        <5> QED  BY <4>1, <5>1 DEF Picked, Listed
      <4> QED  BY <4>1, <4>2
    <3> QED  BY <1>1, <1>2, <2>3, <3>3, <3>4, <3>5, <3>6, ProceedsTold
  <2> QED  BY <1>5, <1>10, <2>2, <2>5, <2>6 DEF LookFinds, WithId
<1> QED  BY <1>3, <1>8, <1>9, <1>10
\* The service closes an open record, or adds one.
LEMMA ServiceLasts ==
  ASSUME ScopeInv, NEW h \in Handlers, pc[h] = "act", NEW r, r = req[h], NEW rs, records' = rs,
         IF r.tool \in Opening THEN Open(r.tool, r.who, r.title) ELSE Close(r.tool, r.who, r.id)
  PROVE  /\ Lasting(rs)
         /\ r.tool \in Closing =>
              r.id \in DOMAIN records /\ r.id \in DOMAIN rs /\ rs[r.id].state = r.tool
<1>1. /\ Scoped(r) /\ r.tool \in Opening \cup Closing
  BY DEF ScopeInv
<1>2. /\ records \in Seq(Record) /\ Len(records) \in Nat /\ DOMAIN records = 1..Len(records)
  BY DEF ScopeInv, AssistantTypeOK
<1>3. CASE r.tool \in Opening
  <2>1. PICK x : rs = Append(records, x)
    BY <1>3 DEF Open
  <2>2. \A i \in DOMAIN records : i \in DOMAIN rs /\ rs[i] = records[i]
    BY <1>2, <2>1
  <2>3. r.tool \notin Closing
    BY <1>3 DEF Opening, Closing, LoanTools, SeatTools
  <2> QED  BY <2>2, <2>3 DEF Lasting
<1>4. CASE r.tool \notin Opening
  <2>1. r.id \in DOMAIN records /\ records[r.id].state = "open" /\ r.tool \in Closing
    BY <1>1, <1>4 DEF Close, Found
  <2>2. PICK closed : /\ closed = [records EXCEPT ![r.id].state = r.tool]
                      /\ rs = closed \/ rs = Append(closed, records[r.id])
    BY <1>4 DEF Close
  <2>3. PICK x : x = [records[r.id] EXCEPT !.state = r.tool]
    OBVIOUS
  <2>4. x \in Record /\ x.state = r.tool /\ x.title = records[r.id].title
    <3>1. records[r.id] \in Record
      BY <1>2, <2>1
    <3> QED  BY <2>1, <2>3, <3>1 DEF Record
  <2>5. closed = [records EXCEPT ![r.id] = x]
    BY <2>2, <2>3
  <2>6. /\ closed \in Seq(Record) /\ Len(closed) = Len(records) /\ DOMAIN closed = DOMAIN records
        /\ closed[r.id] = x /\ \A i \in DOMAIN records : i # r.id => closed[i] = records[i]
    BY <1>2, <2>1, <2>4, <2>5
  <2>7. \A i \in DOMAIN records : i \in DOMAIN rs /\ rs[i] = closed[i]
    <3>1. CASE rs = closed
      BY <2>6, <3>1
    <3>2. CASE rs = Append(closed, records[r.id])
      BY <1>2, <2>6, <3>2
    <3> QED  BY <2>2, <3>1, <3>2
  <2>8. \A i \in DOMAIN records : rs[i].title = records[i].title /\ (i = r.id \/ rs[i] = records[i])
    BY <2>4, <2>6, <2>7
  <2>9. Lasting(rs)
    BY <2>1, <2>7, <2>8 DEF Lasting
  <2> QED  BY <2>1, <2>4, <2>6, <2>7, <2>9
<1> QED  BY <1>3, <1>4

CardsRight(cards, told) ==
  \A i \in DOMAIN cards :
    /\ cards[i].tool \in Closing \cup {"place_hold"} => (cards[i].done <=> told = "done")
    /\ told = "done" => cards[i].done

LEMMA ActCardsRight ==
  ASSUME NEW r, Reading(r), AllDone(r.cards), NEW told \in {"done", "failed"}
  PROVE  CardsRight(ActCard(r, told), told)
<1>1. r.cards \in Seq(ReadCard)
  BY DEF Reading
<1>2. \A i \in DOMAIN r.cards :
        r.cards[i].tool \notin Closing \cup {"place_hold"} /\ r.cards[i].done
  <2>1. \A i \in DOMAIN r.cards : r.cards[i] \in ReadCard
    BY <1>1
  <2>2. \A i \in DOMAIN r.cards : r.cards[i].tool \notin Opening \cup Closing
    BY <2>1 DEF ReadCard
  <2> QED  BY <2>2 DEF AllDone, Opening
<1>3. CASE r.op # "offline"
  <2>1. ActCard(r, told) = r.cards
    BY <1>3 DEF ActCard
  <2> QED  BY <1>2, <2>1 DEF CardsRight
<1>4. CASE r.op = "offline"
  <2> DEFINE done == told = "done" \/ r.tool \in {"reserve_seat", "gate_scan"}
             card == [tool |-> r.tool, done |-> done]
  <2>1. /\ card.tool = r.tool /\ (card.done <=> done)
    OBVIOUS
  <2>2. /\ card.tool \in Closing \cup {"place_hold"} => (card.done <=> told = "done")
        /\ told = "done" => card.done
    <3>1. \A tool \in Closing \cup {"place_hold"} : tool \notin {"reserve_seat", "gate_scan"}
      BY DEF Closing, LoanTools, SeatTools
    <3> QED  BY <2>1, <3>1
  <2> HIDE DEF card, done
  <2>3. PICK cs : cs = Append(r.cards, card)
    OBVIOUS
  <2>4. \A i \in DOMAIN cs : (i \in DOMAIN r.cards /\ cs[i] = r.cards[i]) \/ cs[i] = card
    <3>1. /\ Len(r.cards) \in Nat /\ Len(cs) = Len(r.cards) + 1 /\ DOMAIN cs = 1..(Len(r.cards) + 1)
          /\ cs[Len(r.cards) + 1] = card /\ \A i \in 1..Len(r.cards) : cs[i] = r.cards[i]
      BY <1>1, <2>3
    <3> QED  BY <1>1, <3>1
  <2>5. CardsRight(cs, told)
    BY <1>2, <2>2, <2>4, Zenon DEF CardsRight
  <2>6. ActCard(r, told) = cs
    BY <1>4, <2>3 DEF ActCard, card, done
  <2> QED  BY <2>5, <2>6
<1> QED  BY <1>3, <1>4

\* What is told of a request that did its act.
Told(r, cards, did, told) ==
  [op |-> IF r.op = "offline" THEN r.op ELSE "other", tool |-> r.tool, cards |-> cards,
   told |-> told, did |-> did, id |-> IF did THEN r.id ELSE 0,
   title |-> IF did THEN r.title ELSE Nobody]

LEMMA TellIsTold ==
  ASSUME NEW r, Scoped(r), NEW cards, NEW did \in BOOLEAN, NEW told, NEW h,
         NEW e, e = [[r EXCEPT !.did = did] EXCEPT !.cards = cards], Tell(h, e, told)
  PROVE  Goto(h, "answered", Told(r, cards, did, told))
<1>1. r = [op |-> r.op, session |-> r.session, who |-> r.who, tool |-> r.tool, id |-> r.id,
           title |-> r.title, steps |-> r.steps, cards |-> r.cards, did |-> r.did]
  BY DEF Scoped
<1>2. e = [op |-> r.op, session |-> r.session, who |-> r.who, tool |-> r.tool, id |-> r.id,
           title |-> r.title, steps |-> r.steps, cards |-> cards, did |-> did]
  BY <1>1
<1>3. e.op = r.op /\ e.tool = r.tool /\ e.id = r.id /\ e.title = r.title /\ e.cards = cards /\ e.did = did
  BY <1>2
<1> QED  BY <1>3 DEF Tell, Told

LEMMA ActsTold ==
  ASSUME ScopeInv, ToldInv, NEW h \in Handlers, Act(h)
  PROVE  ToldInv'
<1>1. pc[h] = "act" /\ "answered" \in AssistantLabels
  BY DEF Act, AssistantLabels
<1>2. PICK r, rs : r = req[h] /\ rs = records'
  OBVIOUS
<1>3. Scoped(r) /\ Reading(r) /\ AllDone(r.cards) /\ OfNamed(r, records)
  BY <1>1, <1>2 DEF ScopeInv, ToldInv, AboutToAct
<1>4. CASE /\ IF r.tool \in Opening THEN Open(r.tool, r.who, r.title) ELSE Close(r.tool, r.who, r.id)
           /\ \E told \in {"done"} \cup IF r.tool \in ReadBack THEN {"failed"} ELSE {} :
                Tell(h, [r EXCEPT !.did = TRUE, !.cards = ActCard(r, told)], told)
  <2>1. PICK told \in {"done"} \cup IF r.tool \in ReadBack THEN {"failed"} ELSE {} :
          Tell(h, [r EXCEPT !.did = TRUE, !.cards = ActCard(r, told)], told)
    BY <1>4
  <2>2. PICK a : a = Told(r, ActCard(r, told), TRUE, told)
    OBVIOUS
  <2>3. Goto(h, "answered", a)
    BY <1>3, <2>1, <2>2, TellIsTold
  <2>4. /\ a.op = IF r.op = "offline" THEN r.op ELSE "other"
        /\ a.tool = r.tool /\ a.cards = ActCard(r, told) /\ a.told = told /\ a.did = TRUE
        /\ a.id = r.id /\ a.title = r.title
    BY <2>2 DEF Told
  <2>5. told \in {"done", "failed"} /\ (told = "done" \/ r.tool \in ReadBack)
    BY <2>1
  <2>6. CardsRight(a.cards, told)
    BY <1>3, <2>4, <2>5, ActCardsRight
  <2>7. /\ Lasting(rs)
        /\ r.tool \in Closing =>
             r.id \in DOMAIN records /\ r.id \in DOMAIN rs /\ rs[r.id].state = r.tool
    BY <1>1, <1>2, <1>4, ServiceLasts
  <2>8. OfNamed(a, rs)
    BY <1>3, <2>4, <2>7, LoansClose DEF OfNamed, Lasting
  <2>9. Truthful(a, rs)
    BY <2>4, <2>5, <2>6, <2>7, <2>8 DEF Truthful, CardsRight
  <2> QED  BY <1>1, <1>2, <2>3, <2>7, <2>9, ToldGoes
<1>5. CASE /\ UNCHANGED records
           /\ Tell(h, [r EXCEPT !.cards = ActCard(r, "failed")], "failed")
  <2>1. PICK a : a = Told(r, ActCard(r, "failed"), FALSE, "failed")
    OBVIOUS
  <2>2. [r EXCEPT !.cards = ActCard(r, "failed")] = [[r EXCEPT !.did = FALSE] EXCEPT !.cards = ActCard(r, "failed")]
    <3>1. r = [op |-> r.op, session |-> r.session, who |-> r.who, tool |-> r.tool, id |-> r.id,
               title |-> r.title, steps |-> r.steps, cards |-> r.cards, did |-> r.did]
      BY <1>3 DEF Scoped
    <3>2. [r EXCEPT !.did = FALSE] = r
      BY <1>3, <3>1 DEF Reading
    <3> QED  BY <3>2
  <2>3. Goto(h, "answered", a)
    BY <1>3, <1>5, <2>1, <2>2, TellIsTold
  <2>4. a.cards = ActCard(r, "failed") /\ a.told = "failed" /\ a.did = FALSE
    BY <2>1 DEF Told
  <2>5. CardsRight(a.cards, "failed")
    BY <1>3, <2>4, ActCardsRight
  <2>6. Truthful(a, records)
    BY <2>4, <2>5 DEF Truthful, CardsRight
  <2>7. Lasting(records)
    BY DEF Lasting
  <2> QED  BY <1>1, <1>5, <2>3, <2>6, <2>7, ToldGoes
<1> QED  BY <1>2, <1>4, <1>5 DEF Act

LEMMA ToldInvInit == AssistantInit => ToldInv
BY DEF AssistantInit, ToldInv

LEMMA ToldInvNext == ScopeInv /\ ToldInv /\ [AssistantNext]_assistantVars => ToldInv'
<1> SUFFICES ASSUME ScopeInv, ToldInv, [AssistantNext]_assistantVars  PROVE ToldInv'
  OBVIOUS
<1>1. ASSUME NEW h \in Handlers, Respond(h)
      PROVE  ToldInv'
  <2>1. Goto(h, "idle", NoReq) /\ UNCHANGED records /\ Lasting(records) /\ "idle" \in AssistantLabels
    BY <1>1 DEF Respond, Finish, Lasting, AssistantLabels
  <2> QED  BY <2>1, ToldGoes
<1>2. CASE Crash
  BY <1>2 DEF Crash, DropRequests, ToldInv
<1>3. CASE UNCHANGED assistantVars
  BY <1>3 DEF assistantVars, ToldInv
<1> QED  BY <1>1, <1>2, <1>3, PageTold, ToolsTold, ScriptsTold, ActsTold DEF AssistantNext

\* What a request is answered agrees with what it did to the records, whoever
\* else closes them meanwhile, and so do the cards of an offline turn.
THEOREM ToldIsTrue == AssistantSpec => []ToldWhatHappened
<1>1. ToldInv => ToldWhatHappened
  BY DEF ToldInv, Truthful, ToldWhatHappened
<1> QED  BY <1>1, ScopeInvInit, ScopeInvNext, ToldInvInit, ToldInvNext, PTL DEF AssistantSpec

\* An offline turn that names a book returns or renews no other one, however
\* old the list it chose from is by then.
THEOREM OnlyTheNamedBook == AssistantSpec => []NamedBookOnly
<1>1. ToldInv => NamedBookOnly
  <2> SUFFICES ASSUME ToldInv, NEW h \in Handlers, pc[h] = "answered", NEW r, r = req[h],
                      r.op = "offline", r.did, r.tool \in LoanTools
               PROVE  /\ Contains(records[r.id].title, r.title)
                      /\ r.title # Nobody /\ TitlesWith[r.title] = {r.title} =>
                           records[r.id].title = r.title
    BY DEF NamedBookOnly
  <2>1. Contains(records[r.id].title, r.title)
    BY DEF ToldInv, Truthful, OfNamed
  <2> QED  BY <2>1 DEF Contains
<1> QED  BY <1>1, ScopeInvInit, ScopeInvNext, ToldInvInit, ToldInvNext, PTL DEF AssistantSpec
=============================================================================
