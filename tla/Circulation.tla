----------------------------- MODULE Circulation -----------------------------
(***************************************************************************)
(* Lending, returning, renewing and reserving books: internal/service      *)
(* (service.go, admin.go) over internal/store (ops.go, entities.go,        *)
(* admin.go).                                                              *)
(*                                                                         *)
(* The service runs one goroutine per HTTP request or agent tool call; a   *)
(* "handler" here is such a goroutine.  It executes its database           *)
(* statements one at a time, and between two statements any other handler  *)
(* may run, so each statement is one action and pc says which one comes    *)
(* next.  What the handler keeps in local variables is in req.  A request  *)
(* that its first statement refuses leaves no trace and is not a step.     *)
(*                                                                         *)
(* Driver says which database is underneath (store.go, mysql.go):          *)
(*   sqlite: one connection, so a transaction is a single atomic step;     *)
(*   mysql:  ten connections at the default isolation.  The SELECTs of a   *)
(*           transaction read the snapshot its first SELECT took, its      *)
(*           UPDATEs act on the latest rows and keep them locked until     *)
(*           the commit.  The writes are one atomic step, and ReturnTx,    *)
(*           the only transaction that decides on what it SELECTed, is     *)
(*           a snapshot step followed by a commit step.                    *)
(***************************************************************************)
EXTENDS Integers, FiniteSets, FiniteSetsExt

CONSTANTS
  Patrons, Books, Copies,
  Handlers,          \* goroutines that serve requests
  Nobody,            \* the null reference
  BookOf,            \* items.biblio_id of each copy
  LoanDurationDays,  \* items.loan_duration_days of each copy
  BarcodeNo,         \* the number at the end of each copy's barcode
  InitialCopies,     \* the copies that exist at start
  MaxActiveLoans, MaxRenewals, FinePerDayCents, DefaultLoanDays,
  Driver,            \* "sqlite" or "mysql"
  Ops,               \* the operations this instance exercises
  MaxLoanId, MaxHoldId, MaxDay  \* bounds: rows ever inserted, days that pass

OpNames == {"borrow", "return", "renew", "hold", "cancel", "book", "copy",
            "vip", "disable", "day", "fault"}

ASSUME ReferenceAssumption ==
  /\ Nobody \notin Patrons \cup Books \cup Copies \cup Handlers
  /\ BookOf \in [Copies -> Books]
  /\ InitialCopies \subseteq Copies
ASSUME NumberAssumption ==
  /\ LoanDurationDays \in [Copies -> Nat] /\ BarcodeNo \in [Copies -> Nat]
  /\ {MaxActiveLoans, MaxRenewals, FinePerDayCents, MaxLoanId, MaxHoldId,
      MaxDay} \subseteq Nat
  /\ DefaultLoanDays \in Nat \ {0}
ASSUME ChoiceAssumption == Driver \in {"sqlite", "mysql"} /\ Ops \subseteq OpNames
ASSUME FinitenessAssumption == IsFiniteSet(Patrons)

VARIABLES
  today,      \* store.Now()
  items,      \* items.status of each copy; "unborn" and "deleted": no row
  biblios,    \* the books that have a row
  loans,      \* the loans table
  nextLoan,   \* its next id
  fines,      \* sum of the fines rows of each loan, in cents
  holds,      \* the holds table
  nextHold,   \* its next id
  disabled,   \* the patrons with status 'disabled'
  vip,        \* the patrons with vip = 1
  everVip,    \* history: the patrons who were VIP at some time
  borrowMu,   \* the handler that holds each patron's mutex
  pc, req,    \* next statement and local variables of each handler
  holdTold,   \* number of hold_ready notifications about each hold
  fineTold    \* number of fine notifications about each loan

tables == <<today, items, biblios, loans, nextLoan, fines, holds, nextHold,
            disabled, vip, everVip, holdTold, fineTold>>
vars == <<today, items, biblios, loans, nextLoan, fines, holds, nextHold,
          disabled, vip, everVip, borrowMu, pc, req, holdTold, fineTold>>

----------------------------------------------------------------------------
(* Rows and types. *)

LoanIds == 1..MaxLoanId
HoldIds == 1..MaxHoldId

ItemStatus == {"unborn", "available", "borrowed", "deleted"}
LoanStatus == {"none", "active", "returned"}
HoldStatus == {"none", "waiting", "fulfilled", "cancelled", "deleted"}

Loan == [copy: Copies \cup {Nobody}, patron: Patrons \cup {Nobody}, due: Nat,
         checkin: Nat, renewals: Nat, from: 0..MaxLoanId, status: LoanStatus]
NoLoan == [copy |-> Nobody, patron |-> Nobody, due |-> 0, checkin |-> 0,
           renewals |-> 0, from |-> 0, status |-> "none"]

\* before is history: the holds that were in the table when this one read
\* its queue position.
Hold == [book: Books \cup {Nobody}, patron: Patrons \cup {Nobody},
         copy: Copies \cup {Nobody}, pos: Nat, before: SUBSET HoldIds,
         status: HoldStatus]
NoHold == [book |-> Nobody, patron |-> Nobody, copy |-> Nobody, pos |-> 0,
           before |-> {}, status |-> "none"]

PC == {"idle",
       "borrowLock", "borrowItem", "borrowCount", "borrowVip", "borrowCheckout",
       "returnCommit", "notifyHold", "notifyFine",
       "renewItem", "renewHolds", "renewCheckout",
       "holdItems", "holdOwn", "holdPos", "holdInsert",
       "deleteHolds", "deleteBook", "deleteItem"}

\* n: the loan count, the renewals or the queue position that was read;
\* day: the day or due date that was read; hold: the hold to wake; owed: the
\* fine of the return under way.
Req == [patron: Patrons \cup {Nobody}, copy: Copies \cup {Nobody},
        book: Books \cup {Nobody}, loan: 0..MaxLoanId, hold: 0..MaxHoldId,
        n: Nat, day: Nat, owed: Nat, before: SUBSET HoldIds]
NoReq == [patron |-> Nobody, copy |-> Nobody, book |-> Nobody, loan |-> 0,
          hold |-> 0, n |-> 0, day |-> 0, owed |-> 0, before |-> {}]

\* The statements a borrow runs with its patron's mutex held.
Locked == {"borrowItem", "borrowCount", "borrowVip", "borrowCheckout"}

TypeOK ==
  /\ today \in Nat
  /\ items \in [Copies -> ItemStatus]
  /\ biblios \subseteq Books
  /\ loans \in [LoanIds -> Loan]
  /\ nextLoan \in 1..(MaxLoanId + 1)
  /\ fines \in [LoanIds -> Nat]
  /\ holds \in [HoldIds -> Hold]
  /\ nextHold \in 1..(MaxHoldId + 1)
  /\ disabled \subseteq Patrons
  /\ vip \subseteq everVip /\ everVip \subseteq Patrons
  /\ borrowMu \in [Patrons -> Handlers \cup {Nobody}]
  /\ pc \in [Handlers -> PC]
  /\ req \in [Handlers -> Req]
  /\ holdTold \in [HoldIds -> Nat]
  /\ fineTold \in [LoanIds -> Nat]

----------------------------------------------------------------------------
(* Queries of the store. *)

\* ActiveLoans, and ActiveLoanByItem for the one copy.
ActiveLoans(p) == {l \in LoanIds : loans[l].status = "active" /\ loans[l].patron = p}
ActiveLoansOn(c) == {l \in LoanIds : loans[l].status = "active" /\ loans[l].copy = c}

HasRow(c) == items[c] \in {"available", "borrowed"}

\* BiblioActiveLoanCount joins items: a loan on a deleted copy is not counted.
ActiveLoansOfBook(b) ==
  {l \in LoanIds : \E c \in Copies :
     BookOf[c] = b /\ HasRow(c) /\ l \in ActiveLoansOn(c)}

HoldsOf(b) == {k \in HoldIds : holds[k].book = b
                 /\ holds[k].status \in {"waiting", "fulfilled", "cancelled"}}
WaitingHolds(b) == {k \in HoldsOf(b) : holds[k].status = "waiting"}

\* A queue that serves the latest arrival first.
NextInQueueReversed(b) ==
  {k \in WaitingHolds(b) : \A m \in WaitingHolds(b) :
     holds[m].pos < holds[k].pos \/ (holds[m].pos = holds[k].pos /\ m <= k)}

\* ORDER BY queue_pos, id LIMIT 1: at most one hold.
NextInQueue(b) ==
  {k \in WaitingHolds(b) : \A m \in WaitingHolds(b) :
     holds[k].pos < holds[m].pos \/ (holds[k].pos = holds[m].pos /\ k <= m)}

\* COALESCE(MAX(queue_pos),0)+1 over the rows of the book in any status.
QueueEnd(b) == Max({0} \cup {holds[k].pos : k \in HoldsOf(b)}) + 1

LoanDays(c) == IF LoanDurationDays[c] <= 0 THEN DefaultLoanDays ELSE LoanDurationDays[c]

\* Charging the day the copy comes back even when it is not late.
FineCharging(due, checkin) ==
  IF due <= checkin THEN (checkin - due + 1) * FinePerDayCents ELSE 0

\* Charging without asking whether the copy is late.
FineSigned(due, checkin) == (checkin - due) * FinePerDayCents

Fine(due, checkin) ==
  IF due < checkin THEN (checkin - due) * FinePerDayCents ELSE 0

\* The borrowing limit of a patron.
LoanLimit(isVip) == IF isVip THEN MaxActiveLoans * 2 ELSE MaxActiveLoans

----------------------------------------------------------------------------
(* Moving a handler from one statement to the next. *)

Goto(h, label, locals) ==
  /\ pc' = [pc EXCEPT ![h] = label]
  /\ req' = [req EXCEPT ![h] = locals]

Begin(h, label, locals) == pc[h] = "idle" /\ Goto(h, label, locals)

Finish(h) == Goto(h, "idle", NoReq)

\* defer mu.Unlock(): every way out of Borrow goes through it.
Unlock(h) == borrowMu' = [p \in Patrons |-> IF borrowMu[p] = h THEN Nobody ELSE borrowMu[p]]

----------------------------------------------------------------------------
(* Borrow. *)

BorrowRequest(h, p, c) ==
  /\ "borrow" \in Ops
  /\ Begin(h, "borrowLock", [NoReq EXCEPT !.patron = p, !.copy = c])
  /\ UNCHANGED <<tables, borrowMu>>

\* No mutex: two borrows of one patron run side by side.
BorrowUnlocked(h) ==
  LET p == req[h].patron IN
  /\ pc[h] = "borrowLock"
  /\ p \notin disabled
  /\ Goto(h, "borrowItem", req[h])
  /\ UNCHANGED <<tables, borrowMu>>

\* The mutex of the patron, then GetPatron: a disabled patron is turned away.
BorrowLock(h) ==
  LET p == req[h].patron IN
  /\ pc[h] = "borrowLock"
  /\ borrowMu[p] = Nobody
  /\ IF p \in disabled
     THEN Finish(h) /\ UNCHANGED borrowMu
     ELSE /\ borrowMu' = [borrowMu EXCEPT ![p] = h]
          /\ Goto(h, "borrowItem", req[h])
  /\ UNCHANGED tables

\* An early return that leaves the mutex locked.
BorrowItemLeaving(h) ==
  /\ pc[h] = "borrowItem"
  /\ IF items[req[h].copy] = "available"
     THEN Goto(h, "borrowCount", req[h])
     ELSE Finish(h)
  /\ UNCHANGED <<tables, borrowMu>>

\* GetItem.
BorrowItem(h) ==
  /\ pc[h] = "borrowItem"
  /\ IF items[req[h].copy] = "available"
     THEN Goto(h, "borrowCount", req[h]) /\ UNCHANGED borrowMu
     ELSE Finish(h) /\ Unlock(h)
  /\ UNCHANGED tables

\* ActiveLoans.
BorrowCount(h) ==
  /\ pc[h] = "borrowCount"
  /\ Goto(h, "borrowVip",
          [req[h] EXCEPT !.n = Cardinality(ActiveLoans(req[h].patron))])
  /\ UNCHANGED <<tables, borrowMu>>

\* An off-by-one in the limit.
BorrowVipOneMore(h) ==
  /\ pc[h] = "borrowVip"
  /\ IF req[h].n <= LoanLimit(req[h].patron \in vip)
     THEN Goto(h, "borrowCheckout", req[h]) /\ UNCHANGED borrowMu
     ELSE Finish(h) /\ Unlock(h)
  /\ UNCHANGED tables

\* IsVip and the limit.
BorrowVip(h) ==
  /\ pc[h] = "borrowVip"
  /\ IF req[h].n < LoanLimit(req[h].patron \in vip)
     THEN Goto(h, "borrowCheckout", req[h]) /\ UNCHANGED borrowMu
     ELSE Finish(h) /\ Unlock(h)
  /\ UNCHANGED tables

\* Checkout without the condition on the status in its UPDATE.
CheckoutBlind(c, p) ==
  IF nextLoan \in LoanIds
  THEN /\ loans' = [loans EXCEPT ![nextLoan] =
                      [NoLoan EXCEPT !.copy = c, !.patron = p, !.status = "active",
                                     !.due = today + LoanDays(c)]]
       /\ nextLoan' = nextLoan + 1
       /\ items' = [items EXCEPT ![c] = "borrowed"]
  ELSE UNCHANGED <<loans, nextLoan, items>>

\* Checkout: the row is inserted only if the UPDATE still finds the copy
\* available; otherwise the transaction rolls back.  At the bound on rows the
\* INSERT fails, here and in RenewWrites and HoldInsert.
Checkout(c, p) ==
  IF items[c] = "available" /\ nextLoan \in LoanIds
  THEN /\ loans' = [loans EXCEPT ![nextLoan] =
                      [NoLoan EXCEPT !.copy = c, !.patron = p, !.status = "active",
                                     !.due = today + LoanDays(c)]]
       /\ nextLoan' = nextLoan + 1
       /\ items' = [items EXCEPT ![c] = "borrowed"]
  ELSE UNCHANGED <<loans, nextLoan, items>>

BorrowCheckout(h) ==
  /\ pc[h] = "borrowCheckout"
  /\ Checkout(req[h].copy, req[h].patron)
  /\ Finish(h)
  /\ Unlock(h)
  /\ UNCHANGED <<today, biblios, fines, holds, nextHold, disabled, vip, everVip,
                 holdTold, fineTold>>

----------------------------------------------------------------------------
(* Return. *)

\* What a return of loan l finds in line: no one once the copy's row is gone.
InLineFor(l) ==
  IF HasRow(loans[l].copy) THEN NextInQueue(BookOf[loans[l].copy]) ELSE {}

\* The hold it wakes, 0 if none: an error while waking is dropped and the
\* return goes through.
Woken(l) ==
  IF InLineFor(l) = {} THEN {0}
  ELSE InLineFor(l) \cup (IF "fault" \in Ops THEN {0} ELSE {})

\* Forgetting to free the copy.
ReturnWritesKeeping(l, day, wake) ==
  LET row == loans[l] IN
  /\ fines' = [fines EXCEPT ![l] = @ + Fine(row.due, day)]
  /\ loans' = [loans EXCEPT ![l].status = "returned", ![l].checkin = day]
  /\ holds' = IF wake = 0 THEN holds
              ELSE [holds EXCEPT ![wake].status = "fulfilled", ![wake].copy = row.copy]
  /\ UNCHANGED items

\* The writes of ReturnTx: none of its UPDATEs has a condition on the status,
\* an UPDATE of a deleted row changes nothing.
ReturnWrites(l, day, wake) ==
  LET row == loans[l] IN
  /\ fines' = [fines EXCEPT ![l] = @ + Fine(row.due, day)]
  /\ loans' = [loans EXCEPT ![l].status = "returned", ![l].checkin = day]
  /\ items' = [items EXCEPT ![row.copy] = IF HasRow(row.copy) THEN "available" ELSE @]
  /\ holds' = IF wake = 0 \/ holds[wake].status = "deleted" THEN holds
              ELSE [holds EXCEPT ![wake].status = "fulfilled", ![wake].copy = row.copy]

\* Return after the transaction: the notifications still to be written.
ReturnNotify(h, l, owed, wake) ==
  IF wake # 0 \/ owed > 0
  THEN Goto(h, IF wake # 0 THEN "notifyHold" ELSE "notifyFine",
            [NoReq EXCEPT !.loan = l, !.hold = wake, !.owed = owed])
  ELSE Finish(h)

UnchangedByReturn == UNCHANGED <<today, biblios, nextLoan, nextHold, disabled, vip,
                                 everVip, borrowMu, holdTold, fineTold>>

\* One connection: ReturnTx is one step.
ReturnTx(h, l) ==
  /\ "return" \in Ops /\ Driver = "sqlite"
  /\ pc[h] = "idle"
  /\ loans[l].status = "active"
  /\ \E wake \in Woken(l) :
       /\ ReturnWrites(l, today, wake)
       /\ ReturnNotify(h, l, Fine(loans[l].due, today), wake)
  /\ UnchangedByReturn

\* The first SELECT fixes the snapshot: what it says of the loan and of the
\* queue is what the whole transaction decides on.
ReturnSnapshot(h, l) ==
  /\ "return" \in Ops /\ Driver = "mysql"
  /\ loans[l].status = "active"
  /\ \E wake \in Woken(l) :
       Begin(h, "returnCommit", [NoReq EXCEPT !.loan = l, !.hold = wake, !.day = today])
  /\ UNCHANGED <<tables, borrowMu>>

ReturnCommit(h) ==
  LET r == req[h] IN
  /\ pc[h] = "returnCommit"
  /\ ReturnWrites(r.loan, r.day, r.hold)
  /\ ReturnNotify(h, r.loan, Fine(loans[r.loan].due, r.day), r.hold)
  /\ UnchangedByReturn

\* Returning early after the first notification.
NotifyHoldOnly(h) ==
  /\ pc[h] = "notifyHold"
  /\ holdTold' = [holdTold EXCEPT ![req[h].hold] = @ + 1]
  /\ Finish(h)
  /\ UNCHANGED <<today, items, biblios, loans, nextLoan, fines, holds, nextHold,
                 disabled, vip, everVip, borrowMu, fineTold>>

\* NotifyHoldReady, then the fine if there is one.
NotifyHold(h) ==
  /\ pc[h] = "notifyHold"
  /\ holdTold' = [holdTold EXCEPT ![req[h].hold] = @ + 1]
  /\ IF req[h].owed > 0
     THEN Goto(h, "notifyFine", [req[h] EXCEPT !.hold = 0])
     ELSE Finish(h)
  /\ UNCHANGED <<today, items, biblios, loans, nextLoan, fines, holds, nextHold,
                 disabled, vip, everVip, borrowMu, fineTold>>

NotifyFine(h) ==
  /\ pc[h] = "notifyFine"
  /\ fineTold' = [fineTold EXCEPT ![req[h].loan] = @ + 1]
  /\ Finish(h)
  /\ UNCHANGED <<today, items, biblios, loans, nextLoan, fines, holds, nextHold,
                 disabled, vip, everVip, borrowMu, holdTold>>

----------------------------------------------------------------------------
(* Renew. *)

\* GetLoan and the part of renewErr that looks at the loan alone.
RenewLoan(h, l) ==
  /\ "renew" \in Ops
  /\ loans[l].status = "active"
  /\ loans[l].renewals < MaxRenewals
  /\ loans[l].due >= today
  /\ Begin(h, "renewItem", [NoReq EXCEPT !.loan = l, !.day = loans[l].due,
                                        !.n = loans[l].renewals])
  /\ UNCHANGED <<tables, borrowMu>>

\* GetItem.
RenewItem(h) ==
  /\ pc[h] = "renewItem"
  /\ IF HasRow(loans[req[h].loan].copy) THEN Goto(h, "renewHolds", req[h]) ELSE Finish(h)
  /\ UNCHANGED <<tables, borrowMu>>

\* WaitingHolds: a failing query lets the renewal through (err is dropped).
\* The second GetItem reads only the immutable loan_duration_days.
RenewHolds(h) ==
  /\ pc[h] = "renewHolds"
  /\ IF WaitingHolds(BookOf[loans[req[h].loan].copy]) = {}
     THEN Goto(h, "renewCheckout", req[h])
     ELSE \/ Finish(h)
          \/ "fault" \in Ops /\ Goto(h, "renewCheckout", req[h])
  /\ UNCHANGED <<tables, borrowMu>>

\* Closing the old loan without the condition on its status.
RenewWritesBlind(l, due, renewals) ==
  IF nextLoan \in LoanIds
  THEN /\ loans' = [loans EXCEPT ![l].status = "returned", ![l].checkin = due,
                      ![nextLoan] = [loans[l] EXCEPT
                        !.status = "active", !.checkin = 0, !.renewals = renewals + 1,
                        !.due = due + LoanDays(loans[l].copy), !.from = l]]
       /\ nextLoan' = nextLoan + 1
  ELSE UNCHANGED <<loans, nextLoan>>

\* RenewCheckout: close the old loan on its due date if it is still active
\* and open the next one from there, or roll back.
RenewWrites(l, due, renewals) ==
  IF loans[l].status = "active" /\ nextLoan \in LoanIds
  THEN /\ loans' = [loans EXCEPT ![l].status = "returned", ![l].checkin = due,
                      ![nextLoan] = [loans[l] EXCEPT
                        !.status = "active", !.checkin = 0, !.renewals = renewals + 1,
                        !.due = due + LoanDays(loans[l].copy), !.from = l]]
       /\ nextLoan' = nextLoan + 1
  ELSE UNCHANGED <<loans, nextLoan>>

RenewCheckout(h) ==
  /\ pc[h] = "renewCheckout"
  /\ RenewWrites(req[h].loan, req[h].day, req[h].n)
  /\ Finish(h)
  /\ UNCHANGED <<today, items, biblios, fines, holds, nextHold, disabled, vip,
                 everVip, borrowMu, holdTold, fineTold>>

----------------------------------------------------------------------------
(* Holds. *)

\* PlaceHold: GetBiblio.
HoldBook(h, p, b) ==
  /\ "hold" \in Ops
  /\ b \in biblios
  /\ Begin(h, "holdItems", [NoReq EXCEPT !.patron = p, !.book = b])
  /\ UNCHANGED <<tables, borrowMu>>

\* ListItems: refused while a copy can be borrowed.
HoldItems(h) ==
  /\ pc[h] = "holdItems"
  /\ IF \E c \in Copies : BookOf[c] = req[h].book /\ items[c] = "available"
     THEN Finish(h)
     ELSE Goto(h, "holdOwn", req[h])
  /\ UNCHANGED <<tables, borrowMu>>

\* PatronHolds.
HoldOwn(h) ==
  /\ pc[h] = "holdOwn"
  /\ IF \E k \in WaitingHolds(req[h].book) : holds[k].patron = req[h].patron
     THEN Finish(h)
     ELSE Goto(h, "holdPos", req[h])
  /\ UNCHANGED <<tables, borrowMu>>

\* CreateHold reads the end of the queue ...
HoldPos(h) ==
  /\ pc[h] = "holdPos"
  /\ Goto(h, "holdInsert", [req[h] EXCEPT !.n = QueueEnd(req[h].book),
                                          !.before = HoldsOf(req[h].book)])
  /\ UNCHANGED <<tables, borrowMu>>

\* ... and inserts the hold there in a statement of its own.
HoldInsert(h) ==
  /\ pc[h] = "holdInsert"
  /\ IF nextHold \in HoldIds
     THEN /\ holds' = [holds EXCEPT ![nextHold] =
                         [book |-> req[h].book, patron |-> req[h].patron,
                          copy |-> Nobody, pos |-> req[h].n,
                          before |-> req[h].before, status |-> "waiting"]]
          /\ nextHold' = nextHold + 1
     ELSE UNCHANGED <<holds, nextHold>>
  /\ Finish(h)
  /\ UNCHANGED <<today, items, biblios, loans, nextLoan, fines, disabled, vip,
                 everVip, borrowMu, holdTold, fineTold>>

\* Cancelling a hold whatever became of it.
CancelAny(k) ==
  /\ holds[k].status \in {"waiting", "fulfilled"}
  /\ holds' = [holds EXCEPT ![k].status = "cancelled"]

\* CancelHoldByID: one conditional UPDATE.
CancelWaiting(k) ==
  /\ holds[k].status = "waiting"
  /\ holds' = [holds EXCEPT ![k].status = "cancelled"]

CancelHold(k) ==
  /\ "cancel" \in Ops
  /\ CancelWaiting(k)
  /\ UNCHANGED <<today, items, biblios, loans, nextLoan, fines, nextHold, disabled,
                 vip, everVip, borrowMu, pc, req, holdTold, fineTold>>

----------------------------------------------------------------------------
(* The catalogue and the patrons (service/admin.go, store/admin.go). *)

\* AdminDeleteBook: BiblioActiveLoanCount ...
DeleteBookLoans(h, b) ==
  /\ "book" \in Ops
  /\ b \in biblios
  /\ ActiveLoansOfBook(b) = {}
  /\ Begin(h, "deleteHolds", [NoReq EXCEPT !.book = b])
  /\ UNCHANGED <<tables, borrowMu>>

\* ... BiblioWaitingHoldCount ...
DeleteBookHolds(h) ==
  /\ pc[h] = "deleteHolds"
  /\ IF WaitingHolds(req[h].book) = {} THEN Goto(h, "deleteBook", req[h]) ELSE Finish(h)
  /\ UNCHANGED <<tables, borrowMu>>

\* ... and DeleteBiblioAndItems, which looks at neither again.
DeleteBook(h) ==
  LET b == req[h].book IN
  /\ pc[h] = "deleteBook"
  /\ items' = [c \in Copies |-> IF BookOf[c] = b /\ HasRow(c) THEN "deleted" ELSE items[c]]
  /\ holds' = [k \in HoldIds |-> IF k \in HoldsOf(b)
                                THEN [holds[k] EXCEPT !.status = "deleted"] ELSE holds[k]]
  /\ biblios' = biblios \ {b}
  /\ Finish(h)
  /\ UNCHANGED <<today, loans, nextLoan, fines, nextHold, disabled, vip, everVip,
                 borrowMu, holdTold, fineTold>>

\* AdminDeleteItem: GetItem and ActiveLoanByItem; a failure of the second is
\* taken for no loan ...
DeleteItemLoans(h, c) ==
  /\ "copy" \in Ops
  /\ HasRow(c)
  /\ ActiveLoansOn(c) = {} \/ "fault" \in Ops
  /\ Begin(h, "deleteItem", [NoReq EXCEPT !.copy = c])
  /\ UNCHANGED <<tables, borrowMu>>

\* Deleting the copy on the strength of the check alone.
ShelfAfterDeleting(c) == [items EXCEPT ![c] = "deleted"]

\* DeleteItemSafe: DELETE ... WHERE id=? AND status='available'.
ShelfAfterDeletingSafely(c) ==
  [items EXCEPT ![c] = IF @ = "available" THEN "deleted" ELSE @]

\* ... then the conditional DELETE.
DeleteItem(h) ==
  /\ pc[h] = "deleteItem"
  /\ items' = ShelfAfterDeletingSafely(req[h].copy)
  /\ Finish(h)
  /\ UNCHANGED <<today, biblios, loans, nextLoan, fines, holds, nextHold, disabled,
                 vip, everVip, borrowMu, holdTold, fineTold>>

\* AdminAddCopies: one INSERT for each new copy.  It wakes no hold, and does
\* not look whether the book is still there.  Only MySQL knows the function
\* that finds the next free barcode; on SQLite the numbers start at 1 again
\* and the INSERT fails while another copy of the book has the number.
AddCopy(c) ==
  /\ "copy" \in Ops
  /\ items[c] = "unborn"
  /\ Driver = "sqlite" =>
       ~ \E d \in Copies : HasRow(d) /\ BookOf[d] = BookOf[c] /\ BarcodeNo[d] = BarcodeNo[c]
  /\ items' = [items EXCEPT ![c] = "available"]
  /\ UNCHANGED <<today, biblios, loans, nextLoan, fines, holds, nextHold, disabled,
                 vip, everVip, borrowMu, pc, req, holdTold, fineTold>>

\* SetVip, either way.
SetVip(p) ==
  /\ "vip" \in Ops
  /\ vip' = IF p \in vip THEN vip \ {p} ELSE vip \cup {p}
  /\ everVip' = everVip \cup vip'
  /\ UNCHANGED <<today, items, biblios, loans, nextLoan, fines, holds, nextHold,
                 disabled, borrowMu, pc, req, holdTold, fineTold>>

\* UpdatePatronStatusRole: the status, either way.
SetStatus(p) ==
  /\ "disable" \in Ops
  /\ disabled' = IF p \in disabled THEN disabled \ {p} ELSE disabled \cup {p}
  /\ UNCHANGED <<today, items, biblios, loans, nextLoan, fines, holds, nextHold,
                 vip, everVip, borrowMu, pc, req, holdTold, fineTold>>

----------------------------------------------------------------------------
(* The surroundings. *)

NextDay ==
  /\ "day" \in Ops
  /\ today < MaxDay   \* bound
  /\ today' = today + 1
  /\ UNCHANGED <<items, biblios, loans, nextLoan, fines, holds, nextHold, disabled,
                 vip, everVip, borrowMu, pc, req, holdTold, fineTold>>

\* The next statement fails (the transaction it belongs to rolls back), or
\* the process dies: what was committed stays, the rest is not done.
Fault(h) ==
  /\ "fault" \in Ops
  /\ pc[h] # "idle"
  /\ Finish(h)
  /\ Unlock(h)
  /\ UNCHANGED tables

Init ==
  /\ today = 0
  /\ items = [c \in Copies |-> IF c \in InitialCopies THEN "available" ELSE "unborn"]
  /\ biblios = Books
  /\ loans = [l \in LoanIds |-> NoLoan] /\ nextLoan = 1
  /\ fines = [l \in LoanIds |-> 0]
  /\ holds = [k \in HoldIds |-> NoHold] /\ nextHold = 1
  /\ disabled = {} /\ vip = {} /\ everVip = {}
  /\ borrowMu = [p \in Patrons |-> Nobody]
  /\ pc = [h \in Handlers |-> "idle"]
  /\ req = [h \in Handlers |-> NoReq]
  /\ holdTold = [k \in HoldIds |-> 0]
  /\ fineTold = [l \in LoanIds |-> 0]

\* What a handler does once its request is under way.
Continue(h) ==
  \/ BorrowLock(h) \/ BorrowItem(h) \/ BorrowCount(h) \/ BorrowVip(h)
  \/ BorrowCheckout(h)
  \/ ReturnCommit(h) \/ NotifyHold(h) \/ NotifyFine(h)
  \/ RenewItem(h) \/ RenewHolds(h) \/ RenewCheckout(h)
  \/ HoldItems(h) \/ HoldOwn(h) \/ HoldPos(h) \/ HoldInsert(h)
  \/ DeleteBookHolds(h) \/ DeleteBook(h) \/ DeleteItem(h)

\* The requests that arrive at an idle handler.
Arrive(h) ==
  \/ \E p \in Patrons, c \in Copies : BorrowRequest(h, p, c)
  \/ \E l \in LoanIds : ReturnTx(h, l) \/ ReturnSnapshot(h, l) \/ RenewLoan(h, l)
  \/ \E p \in Patrons, b \in Books : HoldBook(h, p, b)
  \/ \E b \in Books : DeleteBookLoans(h, b)
  \/ \E c \in Copies : DeleteItemLoans(h, c)

\* Operations of a single statement, and time.
Direct ==
  \/ \E k \in HoldIds : CancelHold(k)
  \/ \E c \in Copies : AddCopy(c)
  \/ \E p \in Patrons : SetVip(p) \/ SetStatus(p)
  \/ NextDay

Next ==
  \/ \E h \in Handlers : Arrive(h) \/ Continue(h) \/ Fault(h)
  \/ Direct

Spec == Init /\ [][Next]_vars

----------------------------------------------------------------------------
(* Safety properties. *)

\* A copy is never out to two readers: "杜绝双借" (ops.go, Checkout).
OneBorrowerPerCopy ==
  \A l, m \in LoanIds :
    loans[l].status = "active" /\ loans[m].status = "active"
      /\ loans[l].copy = loans[m].copy => l = m

\* The status in items and the rows of loans, written by different statements
\* of Checkout, ReturnTx and RenewCheckout, never disagree: a copy that can be
\* borrowed or does not exist yet is on no active loan, one marked borrowed is.
ShelfMatchesLoans ==
  \A c \in Copies :
    /\ items[c] \in {"unborn", "available"} => ActiveLoansOn(c) = {}
    /\ items[c] = "borrowed" => ActiveLoansOn(c) # {}

\* However many borrows of a patron run at once, and whenever the patron
\* becomes VIP or stops being one, the patron never has more loans than the
\* limit allowed at some time (Borrow checks and lends in separate statements).
LoansWithinLimit ==
  \A p \in Patrons : Cardinality(ActiveLoans(p)) <= LoanLimit(p \in everVip)

\* A loan is fined once, for the days between its due date and its return,
\* and not before it is returned; a loan closed by a renewal is not fined.
FinesMatchLateness ==
  \A l \in LoanIds :
    fines[l] = IF loans[l].status = "returned" /\ loans[l].checkin > loans[l].due
               THEN FinePerDayCents * (loans[l].checkin - loans[l].due)
               ELSE 0

\* A loan is renewed into at most one next loan, which is for the same reader
\* and copy and continues where the closed one ended: concurrent renewals
\* neither multiply a loan nor exceed MaxRenewals.
RenewalsFormChains ==
  \A m \in LoanIds : LET l == loans[m].from IN
    /\ loans[m].renewals <= MaxRenewals
    /\ l # 0 =>
         /\ loans[l].status = "returned"
         /\ loans[m].copy = loans[l].copy /\ loans[m].patron = loans[l].patron
         /\ loans[m].renewals = loans[l].renewals + 1
         /\ loans[m].due = loans[l].due + LoanDays(loans[l].copy)
         /\ \A n \in LoanIds : loans[n].from = l => n = m

\* First come, first served in real time: when a hold is woken, no reader
\* whose hold was already in the table when this one took its place is still
\* waiting, although taking a place and inserting the row are two statements
\* and two readers can take the same place.
WakesInArrivalOrder ==
  [][\A k \in HoldIds :
       holds[k].status = "waiting" /\ holds'[k].status = "fulfilled"
         => \A j \in holds[k].before : holds[j].status # "waiting"]_vars

\* A hold leaves the queue once: one that was woken or cancelled is not woken
\* again, for this copy or another, and not cancelled.
HoldsEndOnce ==
  [][\A k \in HoldIds :
       holds[k].status \in {"fulfilled", "cancelled", "deleted"}
         => /\ holds'[k].status \in {holds[k].status, "deleted"}
            /\ holds'[k].copy = holds[k].copy]_vars

\* Every reader whose hold was woken is told exactly once, unless the handler
\* that returned the copy is still about to write the notification, and no
\* other reader is; the same goes for fines.  (Without faults.)
EachWakeToldOnce ==
  /\ \A k \in HoldIds :
       holdTold[k] + Cardinality({h \in Handlers : pc[h] = "notifyHold" /\ req[h].hold = k})
         = IF holds[k].copy # Nobody THEN 1 ELSE 0
  /\ \A l \in LoanIds :
       fineTold[l] + Cardinality({h \in Handlers : req[h].owed > 0 /\ req[h].loan = l})
         = IF fines[l] > 0 THEN 1 ELSE 0

\* Deleting one copy never leaves a reader with a loan of it, whatever borrow
\* slips in between the check and the DELETE of AdminDeleteItem: such a loan
\* exists only if the whole book has been deleted.
CopyDeletedOffLoan ==
  \A c \in Copies :
    items[c] = "deleted" /\ ActiveLoansOn(c) # {} => BookOf[c] \notin biblios

\* Deleting a book never leaves a reader with a loan of a copy that is not in
\* the catalogue: "有在借或等待预约时拒绝" (admin.go, AdminDeleteBook).
NoLoanOfDeletedCopy ==
  \A c \in Copies : items[c] = "deleted" => ActiveLoansOn(c) = {}

----------------------------------------------------------------------------
(* What circulation promises (module Lending). *)

BorrowerOf(c) ==
  IF ActiveLoansOn(c) = {} THEN Nobody ELSE loans[Min(ActiveLoansOn(c))].patron

StockOf(c) ==
  CASE items[c] = "unborn" -> "new" [] HasRow(c) -> "held" [] items[c] = "deleted" -> "gone"

Promise == INSTANCE Lending WITH
  stock <- [c \in Copies |-> StockOf(c)],
  borrower <- [c \in Copies |-> BorrowerOf(c)],
  privileged <- everVip

\* Borrowing, returning and renewing, statement by statement and interleaved,
\* implement the abstract lending desk.
ImplementsLending == Promise!Spec

----------------------------------------------------------------------------
(* Liveness. *)

\* The Go scheduler runs every goroutine that can run, the driver answers
\* every statement, and sync.Mutex hands itself to a waiter that has waited
\* long enough (its starvation mode), hence strong fairness for the lock.
Fairness ==
  \A h \in Handlers : WF_vars(Continue(h)) /\ SF_vars(BorrowLock(h))

FairSpec == Spec /\ Fairness

\* Every request is answered: no path out of Borrow leaves a mutex locked,
\* so no later borrow of the patron waits for ever.
RequestsFinish == \A h \in Handlers : pc[h] # "idle" ~> pc[h] = "idle"
=============================================================================
