-------------------------- MODULE CirculationProofs --------------------------
(***************************************************************************)
(* Theorems about Circulation, for any number of readers, copies, handlers *)
(* and rows: types, copies and shelf, renewals, fines, limits, the queue,  *)
(* notifications, and that it implements Lending.  Those that hold on      *)
(* SQLite only have that as their assumption.                              *)
(***************************************************************************)
EXTENDS Circulation, FiniteSetTheorems, WellFoundedInduction, TLAPS

----------------------------------------------------------------------------
(* Type correctness.  TypeOK is not inductive: whether a statement writes a *)
(* well-typed row depends on the local variables its handler carries to it, *)
(* and those on the rows they were read from.                               *)

\* The rows below the next id are the rows ever inserted, loan rows name a
\* copy and a reader, and no hold's position exceeds its id.
RowsOK ==
  /\ \A l \in LoanIds :
       /\ l >= nextLoan => loans[l].status = "none"
       /\ loans[l].status # "none" => loans[l].copy \in Copies /\ loans[l].patron \in Patrons
  /\ \A k \in HoldIds :
       /\ holds[k].pos <= k
       /\ k >= nextHold => holds[k].status = "none"

\* What a handler's local variables hold when it stands at a statement.
LocalOK(label, r) ==
  /\ label \in Locked \cup {"borrowLock"} => r.patron \in Patrons /\ r.copy \in Copies
  /\ label \in {"returnCommit", "notifyHold", "notifyFine",
                "renewItem", "renewHolds", "renewCheckout"}
       => r.loan \in LoanIds /\ loans[r.loan].status # "none"
  /\ label = "returnCommit" /\ r.hold # 0
       => r.hold \in HoldIds /\ holds[r.hold].status # "none"
  /\ label = "notifyHold" => r.hold \in HoldIds
  /\ label \in {"holdItems", "holdOwn", "holdPos", "holdInsert"}
       => r.patron \in Patrons /\ r.book \in Books
  /\ label = "holdInsert" => r.n <= nextHold
  /\ label \in {"deleteHolds", "deleteBook"} => r.book \in Books
  /\ label = "deleteItem" => r.copy \in Copies

\* A step after which no loan or hold that was ever made is as if it had not.
RowsStay ==
  /\ \A l \in LoanIds : loans[l].status # "none" => loans'[l].status # "none"
  /\ \A k \in HoldIds : holds[k].status # "none" => holds'[k].status # "none"

LocalsOK == \A h \in Handlers : LocalOK(pc[h], req[h])

TypeInv == TypeOK /\ RowsOK /\ LocalsOK

\* A nonempty set of naturals with an upper bound has a largest element.
LEMMA MaxOfBounded ==
  ASSUME NEW S, S \subseteq Nat, S # {}, NEW n \in Nat, \A s \in S : s <= n
  PROVE  Max(S) \in S /\ \A s \in S : s <= Max(S)
<1> DEFINE Bounds == {u \in Nat : \A s \in S : s <= u}
<1>1. Bounds \subseteq Nat /\ Bounds # {}
  OBVIOUS
<1>2. PICK u \in Bounds : \A v \in Bounds : ~ (<<v, u>> \in OpToRel(<, Nat))
  <2> HIDE DEF Bounds
  <2> QED  BY <1>1, NatLessThanWellFounded, WFMin
<1>3. \A v \in Bounds : ~ (v < u)
  BY <1>2 DEF OpToRel
<1>4. u \in S
  <2>1. SUFFICES ASSUME u \notin S PROVE FALSE
    OBVIOUS
  <2>2. PICK s \in S : TRUE
    OBVIOUS
  <2>3. u # 0 /\ \A t \in S : t <= u - 1
    BY <2>1, <2>2
  <2>4. u - 1 \in Bounds
    BY <2>3
  <2> QED  BY <2>4, <1>3
<1>5. \E x \in S : \A y \in S : x >= y
  BY <1>4
<1> QED  BY <1>5 DEF Max

\* The position a new hold takes is a natural number no greater than the id
\* the next hold will get.
LEMMA QueueEndBound ==
  ASSUME TypeOK, RowsOK, NEW b
  PROVE  QueueEnd(b) \in Nat /\ QueueEnd(b) <= nextHold
<1> DEFINE S == {0} \cup {holds[k].pos : k \in HoldsOf(b)}
<1>1. \A s \in S : s \in Nat /\ s <= nextHold - 1
  <2>1. nextHold \in 1..(MaxHoldId + 1) /\ MaxHoldId \in Nat
    BY NumberAssumption DEF TypeOK
  <2>2. ASSUME NEW k \in HoldsOf(b)
        PROVE  holds[k].pos \in Nat /\ holds[k].pos <= nextHold - 1
    <3>1. k \in HoldIds /\ holds[k].status # "none"
      BY DEF HoldsOf
    <3>2. holds[k].pos \in Nat
      BY <3>1 DEF TypeOK, Hold
    <3>3. holds[k].pos <= k /\ k < nextHold
      BY <3>1, <2>1 DEF RowsOK, HoldIds
    <3> QED  BY <3>1, <3>2, <3>3, <2>1 DEF HoldIds
  <2> QED  BY <2>1, <2>2
<1>2. nextHold \in Nat /\ nextHold - 1 \in Nat
  BY NumberAssumption DEF TypeOK
<1>3. Max(S) \in S
  <2> HIDE DEF S
  <2>1. S \subseteq Nat
    BY <1>1
  <2>2. S # {}
    BY DEF S
  <2> QED  BY <1>1, <1>2, <2>1, <2>2, MaxOfBounded
<1>4. Max(S) \in Nat /\ Max(S) <= nextHold - 1
  BY <1>1, <1>3
<1>5. QueueEnd(b) = Max(S) + 1
  BY DEF QueueEnd
<1> HIDE DEF S
<1> QED  BY <1>2, <1>4, <1>5

\* Moving handler h to the next statement keeps every handler's local
\* variables in order, if those it carries along are and no row disappears.
LEMMA HandlerStep ==
  ASSUME TypeInv, NEW h \in Handlers, NEW label \in PC, NEW locals \in Req,
         Goto(h, label, locals), LocalOK(label, locals)',
         nextHold' \in Int, nextHold' >= nextHold, RowsStay
  PROVE  pc' \in [Handlers -> PC] /\ req' \in [Handlers -> Req] /\ LocalsOK'
<1>1. pc' \in [Handlers -> PC] /\ req' \in [Handlers -> Req]
  BY DEF TypeInv, TypeOK, Goto
<1>2. ASSUME NEW g \in Handlers
      PROVE  LocalOK(pc[g], req[g])'
  <2>1. CASE g = h
    BY <2>1 DEF TypeInv, TypeOK, Goto
  <2>2. CASE g # h
    <3>1. pc'[g] = pc[g] /\ req'[g] = req[g] /\ req[g] \in Req
      BY <2>2 DEF TypeInv, TypeOK, Goto
    <3>2. LocalOK(pc[g], req[g])
      BY DEF TypeInv, LocalsOK
    <3>3. nextHold \in Int /\ req[g].n \in Int
      BY <3>1, NumberAssumption DEF TypeInv, TypeOK, Req
    <3> QED  BY <3>1, <3>2, <3>3 DEF LocalOK, RowsStay
  <2> QED  BY <2>1, <2>2
<1> QED  BY <1>1, <1>2 DEF LocalsOK

\* A statement that only reads.
LEMMA ReadStep ==
  ASSUME TypeInv, NEW h \in Handlers, NEW label \in PC, NEW locals \in Req,
         Goto(h, label, locals), LocalOK(label, locals),
         borrowMu' \in [Patrons -> Handlers \cup {Nobody}], UNCHANGED tables
  PROVE  TypeInv'
<1>1. LocalOK(label, locals)'
  BY DEF LocalOK, tables
<1>2. nextHold \in Int
  BY NumberAssumption DEF TypeInv, TypeOK
<1>3. pc' \in [Handlers -> PC] /\ req' \in [Handlers -> Req] /\ LocalsOK'
  BY <1>1, <1>2, HandlerStep DEF tables, RowsStay
<1>4. TypeOK'
  BY <1>3 DEF TypeInv, TypeOK, tables
<1>5. RowsOK'
  BY DEF TypeInv, RowsOK, tables
<1> QED  BY <1>3, <1>4, <1>5 DEF TypeInv

\* A patron has finitely many active loans.
LEMMA ActiveLoansFinite ==
  ASSUME NEW p
  PROVE  IsFiniteSet(ActiveLoans(p)) /\ Cardinality(ActiveLoans(p)) \in Nat
<1>1. IsFiniteSet(1..MaxLoanId)
  BY NumberAssumption, FS_Interval
<1>2. ActiveLoans(p) \in SUBSET (1..MaxLoanId)
  BY DEF ActiveLoans, LoanIds
<1>3. IsFiniteSet(ActiveLoans(p))
  BY <1>1, <1>2, FS_Subset
<1> QED  BY <1>3, FS_CardinalityType

\* An idle handler carries nothing.
LEMMA NoReqTyped == NoReq \in Req /\ "idle" \in PC /\ LocalOK("idle", NoReq)
BY NumberAssumption DEF NoReq, Req, PC, LocalOK, Locked

\* Unlocking leaves every mutex with a handler or free.
LEMMA UnlockTyped ==
  ASSUME TypeInv, NEW h \in Handlers, Unlock(h)
  PROVE  borrowMu' \in [Patrons -> Handlers \cup {Nobody}]
BY DEF Unlock, TypeInv, TypeOK

\* A return wakes a hold or none.
LEMMA WokenTyped ==
  ASSUME NEW l, NEW wake \in Woken(l)
  PROVE  /\ wake \in 0..MaxHoldId
         /\ wake # 0 => wake \in HoldIds /\ holds[wake].status = "waiting"
BY NumberAssumption DEF Woken, InLineFor, NextInQueue, WaitingHolds, HoldsOf, HoldIds

\* The statements that read, lock and unlock preserve the invariant.
LEMMA ReadsTyped ==
  ASSUME TypeInv, NEW h \in Handlers,
         \/ BorrowLock(h) \/ BorrowItem(h) \/ BorrowCount(h) \/ BorrowVip(h)
         \/ RenewItem(h) \/ RenewHolds(h)
         \/ HoldItems(h) \/ HoldOwn(h) \/ HoldPos(h) \/ DeleteBookHolds(h)
  PROVE  TypeInv'
<1> DEFINE Keeps == borrowMu' \in [Patrons -> Handlers \cup {Nobody}] /\ UNCHANGED tables
<1>1. /\ LocalOK(pc[h], req[h]) /\ req[h] \in Req
      /\ borrowMu \in [Patrons -> Handlers \cup {Nobody}]
  BY DEF TypeInv, LocalsOK, TypeOK
<1>2. ASSUME Finish(h), Keeps PROVE TypeInv'
  BY <1>2, NoReqTyped, ReadStep DEF Finish
<1>3. ASSUME NEW label \in PC, Goto(h, label, req[h]), LocalOK(label, req[h]), Keeps
      PROVE  TypeInv'
  BY <1>1, <1>3, ReadStep
<1>4. CASE BorrowLock(h)
  <2>1. req[h].patron \in Patrons /\ LocalOK("borrowItem", req[h]) /\ "borrowItem" \in PC
    BY <1>1, <1>4 DEF BorrowLock, LocalOK, Locked, PC
  <2>2. Keeps
    BY <1>1, <1>4, <2>1 DEF BorrowLock
  <2> HIDE DEF Keeps
  <2> QED  BY <1>2, <1>3, <1>4, <2>1, <2>2 DEF BorrowLock
<1>5. CASE BorrowItem(h)
  <2>1. LocalOK("borrowCount", req[h]) /\ "borrowCount" \in PC
    BY <1>1, <1>5 DEF BorrowItem, LocalOK, Locked, PC
  <2>2. Keeps
    BY <1>1, <1>5, UnlockTyped DEF BorrowItem
  <2> HIDE DEF Keeps
  <2> QED  BY <1>2, <1>3, <1>5, <2>1, <2>2 DEF BorrowItem
<1>6. CASE BorrowCount(h)
  <2> DEFINE locals == [req[h] EXCEPT !.n = Cardinality(ActiveLoans(req[h].patron))]
  <2>1. Cardinality(ActiveLoans(req[h].patron)) \in Nat
    BY ActiveLoansFinite
  <2>2. locals \in Req
    BY <1>1, <2>1 DEF Req
  <2>3. LocalOK("borrowVip", locals) /\ "borrowVip" \in PC
    BY <1>1, <1>6 DEF BorrowCount, LocalOK, Locked, PC, Req
  <2>4. Goto(h, "borrowVip", locals) /\ Keeps
    BY <1>1, <1>6 DEF BorrowCount
  <2> HIDE DEF locals
  <2> QED  BY <2>2, <2>3, <2>4, ReadStep
<1>7. CASE BorrowVip(h)
  <2>1. LocalOK("borrowCheckout", req[h]) /\ "borrowCheckout" \in PC
    BY <1>1, <1>7 DEF BorrowVip, LocalOK, Locked, PC
  <2>2. Keeps
    BY <1>1, <1>7, UnlockTyped DEF BorrowVip
  <2> HIDE DEF Keeps
  <2> QED  BY <1>2, <1>3, <1>7, <2>1, <2>2 DEF BorrowVip
<1>8. CASE RenewItem(h)
  <2>1. LocalOK("renewHolds", req[h]) /\ "renewHolds" \in PC
    BY <1>1, <1>8 DEF RenewItem, LocalOK, Locked, PC
  <2>2. Keeps
    BY <1>1, <1>8 DEF RenewItem
  <2> HIDE DEF Keeps
  <2> QED  BY <1>2, <1>3, <1>8, <2>1, <2>2 DEF RenewItem
<1>9. CASE RenewHolds(h)
  <2>1. LocalOK("renewCheckout", req[h]) /\ "renewCheckout" \in PC
    BY <1>1, <1>9 DEF RenewHolds, LocalOK, Locked, PC
  <2>2. Keeps
    BY <1>1, <1>9 DEF RenewHolds
  <2> HIDE DEF Keeps
  <2> QED  BY <1>2, <1>3, <1>9, <2>1, <2>2 DEF RenewHolds
<1>10. CASE HoldItems(h)
  <2>1. LocalOK("holdOwn", req[h]) /\ "holdOwn" \in PC
    BY <1>1, <1>10 DEF HoldItems, LocalOK, Locked, PC
  <2>2. Keeps
    BY <1>1, <1>10 DEF HoldItems
  <2> HIDE DEF Keeps
  <2> QED  BY <1>2, <1>3, <1>10, <2>1, <2>2 DEF HoldItems
<1>11. CASE HoldOwn(h)
  <2>1. LocalOK("holdPos", req[h]) /\ "holdPos" \in PC
    BY <1>1, <1>11 DEF HoldOwn, LocalOK, Locked, PC
  <2>2. Keeps
    BY <1>1, <1>11 DEF HoldOwn
  <2> HIDE DEF Keeps
  <2> QED  BY <1>2, <1>3, <1>11, <2>1, <2>2 DEF HoldOwn
<1>12. CASE HoldPos(h)
  <2> DEFINE locals == [req[h] EXCEPT !.n = QueueEnd(req[h].book),
                                      !.before = HoldsOf(req[h].book)]
  <2>1. QueueEnd(req[h].book) \in Nat /\ QueueEnd(req[h].book) <= nextHold
    BY QueueEndBound DEF TypeInv
  <2>2. locals \in Req
    BY <1>1, <2>1 DEF Req, HoldsOf
  <2>3. LocalOK("holdInsert", locals) /\ "holdInsert" \in PC
    BY <1>1, <1>12, <2>1 DEF HoldPos, LocalOK, Locked, PC, Req
  <2>4. Goto(h, "holdInsert", locals) /\ Keeps
    BY <1>1, <1>12 DEF HoldPos
  <2> HIDE DEF locals
  <2> QED  BY <2>2, <2>3, <2>4, ReadStep
<1>13. CASE DeleteBookHolds(h)
  <2>1. LocalOK("deleteBook", req[h]) /\ "deleteBook" \in PC
    BY <1>1, <1>13 DEF DeleteBookHolds, LocalOK, Locked, PC
  <2>2. Keeps
    BY <1>1, <1>13 DEF DeleteBookHolds
  <2> HIDE DEF Keeps
  <2> QED  BY <1>2, <1>3, <1>13, <2>1, <2>2 DEF DeleteBookHolds
<1> QED  BY <1>4, <1>5, <1>6, <1>7, <1>8, <1>9, <1>10, <1>11, <1>12, <1>13

\* So do the requests that begin by reading.
LEMMA ArrivalsTyped ==
  ASSUME TypeInv, NEW h \in Handlers,
         \/ \E p \in Patrons, c \in Copies : BorrowRequest(h, p, c)
         \/ \E l \in LoanIds : ReturnSnapshot(h, l) \/ RenewLoan(h, l)
         \/ \E p \in Patrons, b \in Books : HoldBook(h, p, b)
         \/ \E b \in Books : DeleteBookLoans(h, b)
         \/ \E c \in Copies : DeleteItemLoans(h, c)
  PROVE  TypeInv'
<1>0. NoReq \in Req
  BY NoReqTyped
<1>1. ASSUME NEW label \in PC, NEW locals \in Req, Begin(h, label, locals),
             LocalOK(label, locals), UNCHANGED <<tables, borrowMu>>
      PROVE  TypeInv'
  <2>1. borrowMu' \in [Patrons -> Handlers \cup {Nobody}]
    BY <1>1 DEF TypeInv, TypeOK
  <2> QED  BY <1>1, <2>1, ReadStep DEF Begin
<1>2. CASE \E p \in Patrons, c \in Copies : BorrowRequest(h, p, c)
  <2>1. PICK p \in Patrons, c \in Copies : BorrowRequest(h, p, c)
    BY <1>2
  <2> DEFINE locals == [NoReq EXCEPT !.patron = p, !.copy = c]
  <2>2. locals \in Req /\ "borrowLock" \in PC /\ LocalOK("borrowLock", locals)
    BY <1>0 DEF Req, PC, LocalOK, Locked
  <2>3. Begin(h, "borrowLock", locals) /\ UNCHANGED <<tables, borrowMu>>
    BY <2>1 DEF BorrowRequest
  <2> HIDE DEF locals
  <2> QED  BY <1>1, <2>2, <2>3
<1>3. CASE \E l \in LoanIds : ReturnSnapshot(h, l)
  <2>1. PICK l \in LoanIds : ReturnSnapshot(h, l)
    BY <1>3
  <2>2. PICK wake \in Woken(l) :
          Begin(h, "returnCommit", [NoReq EXCEPT !.loan = l, !.hold = wake, !.day = today])
    BY <2>1 DEF ReturnSnapshot
  <2> DEFINE locals == [NoReq EXCEPT !.loan = l, !.hold = wake, !.day = today]
  <2>3. wake \in 0..MaxHoldId /\ l \in 0..MaxLoanId /\ today \in Nat
    BY WokenTyped, NumberAssumption DEF LoanIds, TypeInv, TypeOK
  <2>4. locals \in Req /\ "returnCommit" \in PC
    BY <1>0, <2>3 DEF Req, PC
  <2>5. loans[l].status = "active" /\ UNCHANGED <<tables, borrowMu>>
    BY <2>1 DEF ReturnSnapshot
  <2>6. LocalOK("returnCommit", locals)
    BY <1>0, <2>5, WokenTyped DEF LocalOK, Locked, Req
  <2> HIDE DEF locals
  <2> QED  BY <1>1, <2>2, <2>4, <2>5, <2>6 DEF locals
<1>4. CASE \E l \in LoanIds : RenewLoan(h, l)
  <2>1. PICK l \in LoanIds : RenewLoan(h, l)
    BY <1>4
  <2> DEFINE locals == [NoReq EXCEPT !.loan = l, !.day = loans[l].due, !.n = loans[l].renewals]
  <2>2. loans[l].due \in Nat /\ loans[l].renewals \in Nat /\ loans[l].status = "active"
    BY <2>1 DEF TypeInv, TypeOK, Loan, RenewLoan
  <2>3. locals \in Req /\ "renewItem" \in PC
    <3>1. l \in 0..MaxLoanId
      BY NumberAssumption DEF LoanIds
    <3> QED  BY <1>0, <2>2, <3>1 DEF Req, PC
  <2>4. LocalOK("renewItem", locals)
    BY <1>0, <2>2 DEF LocalOK, Locked, Req
  <2>5. Begin(h, "renewItem", locals) /\ UNCHANGED <<tables, borrowMu>>
    BY <2>1 DEF RenewLoan
  <2> HIDE DEF locals
  <2> QED  BY <1>1, <2>3, <2>4, <2>5
<1>5. CASE \E p \in Patrons, b \in Books : HoldBook(h, p, b)
  <2>1. PICK p \in Patrons, b \in Books : HoldBook(h, p, b)
    BY <1>5
  <2> DEFINE locals == [NoReq EXCEPT !.patron = p, !.book = b]
  <2>2. locals \in Req /\ "holdItems" \in PC /\ LocalOK("holdItems", locals)
    BY <1>0 DEF Req, PC, LocalOK, Locked
  <2>3. Begin(h, "holdItems", locals) /\ UNCHANGED <<tables, borrowMu>>
    BY <2>1 DEF HoldBook
  <2> HIDE DEF locals
  <2> QED  BY <1>1, <2>2, <2>3
<1>6. CASE \E b \in Books : DeleteBookLoans(h, b)
  <2>1. PICK b \in Books : DeleteBookLoans(h, b)
    BY <1>6
  <2> DEFINE locals == [NoReq EXCEPT !.book = b]
  <2>2. locals \in Req /\ "deleteHolds" \in PC /\ LocalOK("deleteHolds", locals)
    BY <1>0 DEF Req, PC, LocalOK, Locked
  <2>3. Begin(h, "deleteHolds", locals) /\ UNCHANGED <<tables, borrowMu>>
    BY <2>1 DEF DeleteBookLoans
  <2> HIDE DEF locals
  <2> QED  BY <1>1, <2>2, <2>3
<1>7. CASE \E c \in Copies : DeleteItemLoans(h, c)
  <2>1. PICK c \in Copies : DeleteItemLoans(h, c)
    BY <1>7
  <2> DEFINE locals == [NoReq EXCEPT !.copy = c]
  <2>2. locals \in Req /\ "deleteItem" \in PC /\ LocalOK("deleteItem", locals)
    BY <1>0 DEF Req, PC, LocalOK, Locked
  <2>3. Begin(h, "deleteItem", locals) /\ UNCHANGED <<tables, borrowMu>>
    BY <2>1 DEF DeleteItemLoans
  <2> HIDE DEF locals
  <2> QED  BY <1>1, <2>2, <2>3
<1> QED  BY <1>2, <1>3, <1>4, <1>5, <1>6, <1>7

\* A handler that is done has nothing to keep in order.
LEMMA FinishStep ==
  ASSUME TypeInv, NEW h \in Handlers, Finish(h),
         nextHold' \in Int, nextHold' >= nextHold, RowsStay
  PROVE  pc' \in [Handlers -> PC] /\ req' \in [Handlers -> Req] /\ LocalsOK'
<1>1. LocalOK("idle", NoReq)'
  BY DEF LocalOK, Locked
<1>2. Goto(h, "idle", NoReq)
  BY DEF Finish
<1> QED  BY <1>1, <1>2, NoReqTyped, HandlerStep

\* Loan periods and fines are natural numbers.
LEMMA LoanDaysTyped == \A c \in Copies : LoanDays(c) \in Nat
BY NumberAssumption DEF LoanDays

\* A fine is a natural number of cents.
LEMMA FineTyped == \A due, day \in Nat : Fine(due, day) \in Nat
<1>1. \A x, y \in Nat : x * y \in Nat
  OBVIOUS
<1>2. FinePerDayCents \in Nat
  BY NumberAssumption
<1>3. SUFFICES ASSUME NEW due \in Nat, NEW day \in Nat PROVE Fine(due, day) \in Nat
  OBVIOUS
<1>4. CASE due < day
  <2>1. day - due \in Nat
    BY <1>4
  <2>2. (day - due) * FinePerDayCents \in Nat
    BY <1>1, <1>2, <2>1
  <2> QED  BY <1>4, <2>2 DEF Fine
<1>5. CASE ~ (due < day)
  BY <1>5 DEF Fine
<1> QED  BY <1>4, <1>5

\* The row a checkout inserts.
LEMMA NoLoanTyped == NoLoan \in Loan
BY NumberAssumption DEF NoLoan, Loan, LoanStatus

\* The row that a checkout inserts is well typed and is the next one.
LEMMA CheckoutTyped ==
  ASSUME TypeInv, NEW h \in Handlers, BorrowCheckout(h)
  PROVE  TypeInv'
<1> DEFINE c == req[h].copy
           p == req[h].patron
<1>1. c \in Copies /\ p \in Patrons
  BY DEF TypeInv, LocalsOK, LocalOK, BorrowCheckout, Locked
<1>2. Checkout(c, p) /\ Finish(h) /\ Unlock(h)
      /\ UNCHANGED <<today, biblios, fines, holds, nextHold, disabled, vip, everVip,
                     holdTold, fineTold>>
  BY DEF BorrowCheckout
<1> DEFINE row == [NoLoan EXCEPT !.copy = c, !.patron = p, !.status = "active",
                                 !.due = today + LoanDays(c)]
<1> HIDE DEF c, p
<1>3. CASE items[c] = "available" /\ nextLoan \in LoanIds
  <2>1. /\ loans' = [loans EXCEPT ![nextLoan] = row]
        /\ nextLoan' = nextLoan + 1
        /\ items' = [items EXCEPT ![c] = "borrowed"]
    BY <1>2, <1>3 DEF Checkout
  <2>2. row \in Loan /\ row.copy = c /\ row.patron = p /\ row.status = "active"
    <3>1. today + LoanDays(c) \in Nat
      BY <1>1, LoanDaysTyped DEF TypeInv, TypeOK
    <3> QED  BY <1>1, <3>1, NoLoanTyped DEF Loan, LoanStatus
  <2> HIDE DEF row
  <2>3. loans' \in [LoanIds -> Loan] /\ items' \in [Copies -> ItemStatus]
    BY <2>1, <2>2 DEF TypeInv, TypeOK, ItemStatus
  <2>4. nextLoan' \in 1..(MaxLoanId + 1)
    BY <1>3, <2>1, NumberAssumption DEF LoanIds
  <2>5. /\ loans'[nextLoan] = row
        /\ \A l \in LoanIds \ {nextLoan} : loans'[l] = loans[l]
    BY <1>3, <2>1 DEF TypeInv, TypeOK
  <2>6. pc' \in [Handlers -> PC] /\ req' \in [Handlers -> Req] /\ LocalsOK'
    <3>1. nextHold \in Int
      BY NumberAssumption DEF TypeInv, TypeOK
    <3>2. RowsStay
      BY <1>2, <2>2, <2>5 DEF RowsStay
    <3> QED  BY <1>2, <3>1, <3>2, FinishStep
  <2>7. TypeOK'
    BY <1>2, <2>3, <2>4, <2>6, UnlockTyped DEF TypeInv, TypeOK
  <2>8. RowsOK'
    <3>1. ASSUME NEW l \in LoanIds
          PROVE  /\ l >= nextLoan' => loans'[l].status = "none"
                 /\ loans'[l].status # "none" => loans'[l].copy \in Copies
                                                 /\ loans'[l].patron \in Patrons
      <4>1. nextLoan \in Int /\ l \in Int
        BY NumberAssumption DEF TypeInv, TypeOK, LoanIds
      <4>2. CASE l = nextLoan
        BY <1>1, <2>1, <2>2, <2>5, <4>1, <4>2
      <4>3. CASE l # nextLoan
        BY <2>1, <2>5, <4>1, <4>3 DEF TypeInv, RowsOK
      <4> QED  BY <4>2, <4>3
    <3> QED  BY <1>2, <3>1 DEF TypeInv, RowsOK
  <2> QED  BY <2>6, <2>7, <2>8 DEF TypeInv
<1>4. CASE ~ (items[c] = "available" /\ nextLoan \in LoanIds)
  <2>1. UNCHANGED tables
    BY <1>2, <1>4 DEF Checkout, tables
  <2> QED  BY <1>2, <2>1, NoReqTyped, UnlockTyped, ReadStep DEF Finish
<1> QED  BY <1>3, <1>4

\* Closing a loan and opening the next.
LEMMA RenewTyped ==
  ASSUME TypeInv, NEW h \in Handlers, RenewCheckout(h)
  PROVE  TypeInv'
<1> DEFINE l == req[h].loan
<1>1. l \in LoanIds /\ loans[l].status # "none" /\ req[h].day \in Nat /\ req[h].n \in Nat
  BY DEF TypeInv, TypeOK, LocalsOK, LocalOK, RenewCheckout, Req
<1>2. RenewWrites(l, req[h].day, req[h].n) /\ Finish(h)
      /\ UNCHANGED <<today, items, biblios, fines, holds, nextHold, disabled, vip,
                     everVip, borrowMu, holdTold, fineTold>>
  BY DEF RenewCheckout
<1>3. loans[l] \in Loan /\ loans[l].copy \in Copies /\ loans[l].patron \in Patrons
  BY <1>1 DEF TypeInv, TypeOK, RowsOK
<1> DEFINE next == [loans[l] EXCEPT !.status = "active", !.checkin = 0,
                      !.renewals = req[h].n + 1,
                      !.due = req[h].day + LoanDays(loans[l].copy), !.from = l]
<1> HIDE DEF l
<1>4. CASE loans[l].status = "active" /\ nextLoan \in LoanIds
  <2>1. /\ loans' = [loans EXCEPT ![l].status = "returned", ![l].checkin = req[h].day,
                                  ![nextLoan] = next]
        /\ nextLoan' = nextLoan + 1
    BY <1>2, <1>4 DEF RenewWrites
  <2>2. next \in Loan /\ next.copy \in Copies /\ next.patron \in Patrons
        /\ next.status = "active"
    <3>1. req[h].day + LoanDays(loans[l].copy) \in Nat /\ req[h].n + 1 \in Nat
      BY <1>1, <1>3, LoanDaysTyped
    <3>2. l \in 0..MaxLoanId
      BY <1>1, NumberAssumption DEF LoanIds
    <3> QED  BY <1>3, <3>1, <3>2, NumberAssumption DEF Loan, LoanStatus
  <2> HIDE DEF next
  <2>3. nextLoan \in Int /\ l # nextLoan
    BY <1>1, NumberAssumption DEF TypeInv, TypeOK, RowsOK, LoanIds
  <2>4. /\ loans'[nextLoan] = next
        /\ loans'[l] = [loans[l] EXCEPT !.status = "returned", !.checkin = req[h].day]
        /\ \A m \in LoanIds \ {l, nextLoan} : loans'[m] = loans[m]
        /\ loans' = [m \in LoanIds |-> loans'[m]]
    BY <1>1, <1>4, <2>1, <2>3 DEF TypeInv, TypeOK
  <2>5. loans'[l] \in Loan /\ loans'[l].copy \in Copies /\ loans'[l].patron \in Patrons
        /\ loans'[l].status = "returned"
    BY <1>1, <1>3, <2>4 DEF Loan, LoanStatus
  <2>6. loans' \in [LoanIds -> Loan]
    <3>1. \A m \in LoanIds : loans'[m] \in Loan
      BY <2>2, <2>4, <2>5 DEF TypeInv, TypeOK
    <3> QED  BY <2>4, <3>1
  <2>7. nextLoan' \in 1..(MaxLoanId + 1)
    BY <1>4, <2>1, NumberAssumption DEF LoanIds
  <2>8. pc' \in [Handlers -> PC] /\ req' \in [Handlers -> Req] /\ LocalsOK'
    <3>1. nextHold \in Int
      BY NumberAssumption DEF TypeInv, TypeOK
    <3>2. RowsStay
      BY <1>2, <2>2, <2>4, <2>5 DEF RowsStay
    <3> QED  BY <1>2, <3>1, <3>2, FinishStep
  <2>9. TypeOK'
    BY <1>2, <2>6, <2>7, <2>8 DEF TypeInv, TypeOK
  <2>10. RowsOK'
    <3>1. ASSUME NEW m \in LoanIds
          PROVE  /\ m >= nextLoan' => loans'[m].status = "none"
                 /\ loans'[m].status # "none" => loans'[m].copy \in Copies
                                                 /\ loans'[m].patron \in Patrons
      <4>1. m \in Int
        BY NumberAssumption DEF LoanIds
      <4>2. CASE m = nextLoan
        BY <2>1, <2>2, <2>3, <2>4, <4>2
      <4>3. CASE m = l
        BY <1>1, <2>1, <2>3, <2>5, <4>1, <4>3 DEF TypeInv, RowsOK
      <4>4. CASE m # l /\ m # nextLoan
        <5>1. /\ m >= nextLoan => loans[m].status = "none"
              /\ loans[m].status # "none" => loans[m].copy \in Copies
                                             /\ loans[m].patron \in Patrons
          BY DEF TypeInv, RowsOK
        <5>2. loans'[m] = loans[m] /\ nextLoan' = nextLoan + 1
          BY <2>1, <2>4, <4>4
        <5> QED  BY <2>3, <4>1, <5>1, <5>2
      <4> QED  BY <4>2, <4>3, <4>4
    <3> QED  BY <1>2, <3>1 DEF TypeInv, RowsOK
  <2> QED  BY <2>8, <2>9, <2>10 DEF TypeInv
<1>5. CASE ~ (loans[l].status = "active" /\ nextLoan \in LoanIds)
  <2>1. UNCHANGED tables /\ borrowMu' \in [Patrons -> Handlers \cup {Nobody}]
    BY <1>2, <1>5 DEF RenewWrites, tables, TypeInv, TypeOK
  <2> QED  BY <1>2, <2>1, NoReqTyped, ReadStep DEF Finish
<1> QED  BY <1>4, <1>5

\* The writes of a return and the step to its notifications, in either of
\* the two ways ReturnTx runs.
LEMMA ReturnTyped ==
  ASSUME TypeInv, NEW h \in Handlers, NEW l \in LoanIds, loans[l].status # "none",
         NEW day \in Nat, NEW wake \in 0..MaxHoldId,
         wake # 0 => wake \in HoldIds /\ holds[wake].status # "none",
         ReturnWrites(l, day, wake), ReturnNotify(h, l, Fine(loans[l].due, day), wake),
         UnchangedByReturn
  PROVE  TypeInv'
<1>1. loans[l] \in Loan /\ loans[l].copy \in Copies /\ loans[l].patron \in Patrons
      /\ loans[l].due \in Nat
  BY DEF TypeInv, TypeOK, RowsOK, Loan
<1>2. Fine(loans[l].due, day) \in Nat
  BY <1>1, FineTyped
<1>3. fines' \in [LoanIds -> Nat]
  <2>1. fines' = [fines EXCEPT ![l] = @ + Fine(loans[l].due, day)]
    BY DEF ReturnWrites
  <2>2. fines[l] + Fine(loans[l].due, day) \in Nat
    BY <1>2 DEF TypeInv, TypeOK
  <2> QED  BY <2>1, <2>2 DEF TypeInv, TypeOK
<1>4. /\ loans' \in [LoanIds -> Loan]
      /\ loans'[l].status = "returned" /\ loans'[l].copy = loans[l].copy
      /\ loans'[l].patron = loans[l].patron
      /\ \A m \in LoanIds \ {l} : loans'[m] = loans[m]
  <2>1. loans' = [loans EXCEPT ![l].status = "returned", ![l].checkin = day]
    BY DEF ReturnWrites
  <2>2. [loans[l] EXCEPT !.status = "returned", !.checkin = day] \in Loan
    BY <1>1 DEF Loan, LoanStatus
  <2> QED  BY <1>1, <2>1, <2>2 DEF TypeInv, TypeOK, Loan
<1>5. items' \in [Copies -> ItemStatus]
  BY <1>1 DEF ReturnWrites, TypeInv, TypeOK, ItemStatus
<1>6. /\ holds' \in [HoldIds -> Hold]
      /\ \A k \in HoldIds : holds'[k].pos = holds[k].pos
                           /\ (holds[k].status = "none" <=> holds'[k].status = "none")
  <2>1. CASE wake = 0 \/ holds[wake].status = "deleted"
    BY <2>1 DEF ReturnWrites, TypeInv, TypeOK
  <2>2. CASE ~ (wake = 0 \/ holds[wake].status = "deleted")
    <3> DEFINE woken == [holds[wake] EXCEPT !.status = "fulfilled", !.copy = loans[l].copy]
    <3>1. holds' = [holds EXCEPT ![wake] = woken]
      BY <2>2 DEF ReturnWrites
    <3>2. woken \in Hold /\ woken.pos = holds[wake].pos /\ woken.status = "fulfilled"
      BY <1>1, <2>2 DEF TypeInv, TypeOK, Hold, HoldStatus
    <3> HIDE DEF woken
    <3> QED  BY <2>2, <3>1, <3>2 DEF TypeInv, TypeOK
  <2> QED  BY <2>1, <2>2
<1>7. RowsStay
  BY <1>4, <1>6 DEF RowsStay
<1>8. nextHold' \in Int /\ nextHold' >= nextHold
  BY NumberAssumption DEF UnchangedByReturn, TypeInv, TypeOK
<1>9. pc' \in [Handlers -> PC] /\ req' \in [Handlers -> Req] /\ LocalsOK'
  <2> DEFINE owed == Fine(loans[l].due, day)
             label == IF wake # 0 THEN "notifyHold" ELSE "notifyFine"
             locals == [NoReq EXCEPT !.loan = l, !.hold = wake, !.owed = owed]
  <2>1. CASE wake # 0 \/ owed > 0
    <3>1. Goto(h, label, locals)
      BY <2>1 DEF ReturnNotify
    <3>2. l \in 0..MaxLoanId
      BY NumberAssumption DEF LoanIds
    <3>3. label \in PC /\ locals \in Req
      BY <1>2, <3>2, NoReqTyped DEF PC, Req
    <3>4. PICK lab \in PC, loc \in Req : lab = label /\ loc = locals
      BY <3>3
    <3>5. LocalOK(lab, loc)'
      BY <1>4, <3>4, NoReqTyped DEF LocalOK, Locked, Req
    <3>6. Goto(h, lab, loc)
      BY <3>1, <3>4
    <3> QED  BY <1>7, <1>8, <3>5, <3>6, HandlerStep
  <2>2. CASE ~ (wake # 0 \/ owed > 0)
    <3>1. Finish(h)
      BY <2>2 DEF ReturnNotify
    <3> QED  BY <1>7, <1>8, <3>1, FinishStep
  <2> QED  BY <2>1, <2>2
<1>10. TypeOK'
  BY <1>3, <1>4, <1>5, <1>6, <1>9 DEF UnchangedByReturn, TypeInv, TypeOK
<1>11. RowsOK'
  <2>1. UNCHANGED <<nextLoan, nextHold>>
    BY DEF UnchangedByReturn
  <2> QED  BY <1>1, <1>4, <1>6, <2>1 DEF TypeInv, RowsOK
<1> QED  BY <1>9, <1>10, <1>11 DEF TypeInv

\* The notifications a return ends with.
LEMMA NotifyTyped ==
  ASSUME TypeInv, NEW h \in Handlers, NotifyHold(h) \/ NotifyFine(h)
  PROVE  TypeInv'
<1>1. /\ req[h] \in Req /\ LocalOK(pc[h], req[h])
      /\ nextHold \in Int
  BY NumberAssumption DEF TypeInv, TypeOK, LocalsOK
<1>2. UNCHANGED <<today, items, biblios, loans, nextLoan, fines, holds, nextHold,
                  disabled, vip, everVip, borrowMu>>
  BY DEF NotifyHold, NotifyFine
<1>3. RowsStay
  BY <1>2 DEF RowsStay
<1>4. pc' \in [Handlers -> PC] /\ req' \in [Handlers -> Req] /\ LocalsOK'
  <2>1. CASE Finish(h)
    BY <1>1, <1>2, <1>3, <2>1, FinishStep
  <2>2. CASE ~ Finish(h)
    <3>1. /\ pc[h] = "notifyHold"
          /\ Goto(h, "notifyFine", [req[h] EXCEPT !.hold = 0])
      BY <2>2 DEF NotifyHold, NotifyFine
    <3>2. [req[h] EXCEPT !.hold = 0] \in Req /\ "notifyFine" \in PC
      BY <1>1, NumberAssumption DEF Req, PC
    <3>3. PICK loc \in Req : loc = [req[h] EXCEPT !.hold = 0]
      BY <3>2
    <3>4. loc.loan \in LoanIds /\ loans[loc.loan].status # "none"
      BY <1>1, <3>1, <3>3 DEF LocalOK, Req
    <3>5. LocalOK("notifyFine", loc)'
      BY <1>2, <3>4 DEF LocalOK, Locked
    <3> QED  BY <1>1, <1>2, <1>3, <3>1, <3>2, <3>3, <3>5, HandlerStep
  <2> QED  BY <2>1, <2>2
<1>5. holdTold' \in [HoldIds -> Nat] /\ fineTold' \in [LoanIds -> Nat]
  <2>1. CASE NotifyHold(h)
    <3>1. req[h].hold \in HoldIds
      BY <1>1, <2>1 DEF NotifyHold, LocalOK
    <3> QED  BY <2>1, <3>1 DEF NotifyHold, TypeInv, TypeOK
  <2>2. CASE NotifyFine(h)
    <3>1. req[h].loan \in LoanIds
      BY <1>1, <2>2 DEF NotifyFine, LocalOK
    <3> QED  BY <2>2, <3>1 DEF NotifyFine, TypeInv, TypeOK
  <2> QED  BY <2>1, <2>2
<1>6. TypeOK'
  BY <1>2, <1>4, <1>5 DEF TypeInv, TypeOK
<1>7. RowsOK'
  BY <1>2 DEF TypeInv, RowsOK
<1> QED  BY <1>4, <1>6, <1>7 DEF TypeInv

\* A new hold.
LEMMA HoldInsertTyped ==
  ASSUME TypeInv, NEW h \in Handlers, HoldInsert(h)
  PROVE  TypeInv'
<1>1. /\ req[h] \in Req /\ req[h].patron \in Patrons /\ req[h].book \in Books
      /\ req[h].n \in Nat /\ req[h].n <= nextHold /\ req[h].before \in SUBSET HoldIds
      /\ Finish(h)
  BY DEF TypeInv, TypeOK, LocalsOK, LocalOK, HoldInsert, Req
<1>2. UNCHANGED <<today, items, biblios, loans, nextLoan, fines, disabled, vip,
                  everVip, borrowMu, holdTold, fineTold>>
  BY DEF HoldInsert
<1>3. nextHold \in Int /\ MaxHoldId \in Int
  BY NumberAssumption DEF TypeInv, TypeOK
<1> DEFINE row == [book |-> req[h].book, patron |-> req[h].patron, copy |-> Nobody,
                   pos |-> req[h].n, before |-> req[h].before, status |-> "waiting"]
<1>4. row \in Hold /\ row.pos = req[h].n /\ row.status = "waiting"
  BY <1>1 DEF Hold, HoldStatus
<1> HIDE DEF row
<1>5. CASE nextHold \in HoldIds
  <2>1. holds' = [holds EXCEPT ![nextHold] = row] /\ nextHold' = nextHold + 1
    BY <1>5 DEF HoldInsert, row
  <2>2. /\ holds' \in [HoldIds -> Hold] /\ holds'[nextHold] = row
        /\ \A k \in HoldIds \ {nextHold} : holds'[k] = holds[k]
    BY <1>4, <1>5, <2>1 DEF TypeInv, TypeOK
  <2>3. nextHold' \in 1..(MaxHoldId + 1) /\ nextHold' \in Int /\ nextHold' >= nextHold
    BY <1>3, <1>5, <2>1 DEF HoldIds
  <2>4. RowsStay
    BY <1>2, <1>4, <2>2 DEF RowsStay
  <2>5. pc' \in [Handlers -> PC] /\ req' \in [Handlers -> Req] /\ LocalsOK'
    BY <1>1, <2>3, <2>4, FinishStep
  <2>6. TypeOK'
    BY <1>2, <2>2, <2>3, <2>5 DEF TypeInv, TypeOK
  <2>7. RowsOK'
    <3>1. ASSUME NEW k \in HoldIds
          PROVE  holds'[k].pos <= k /\ (k >= nextHold' => holds'[k].status = "none")
      <4>1. k \in Int
        BY <1>3 DEF HoldIds
      <4>2. CASE k = nextHold
        BY <1>1, <1>3, <1>4, <2>1, <2>2, <4>2
      <4>3. CASE k # nextHold
        <5>1. holds[k].pos <= k /\ (k >= nextHold => holds[k].status = "none")
          BY DEF TypeInv, RowsOK
        <5>2. holds'[k] = holds[k] /\ nextHold' = nextHold + 1
          BY <2>1, <2>2, <4>3
        <5> QED  BY <1>3, <4>1, <5>1, <5>2
      <4> QED  BY <4>2, <4>3
    <3> QED  BY <1>2, <3>1 DEF TypeInv, RowsOK
  <2> QED  BY <2>5, <2>6, <2>7 DEF TypeInv
<1>6. CASE nextHold \notin HoldIds
  <2>1. UNCHANGED tables /\ borrowMu' \in [Patrons -> Handlers \cup {Nobody}]
    BY <1>2, <1>6 DEF HoldInsert, tables, TypeInv, TypeOK
  <2> QED  BY <1>1, <2>1, NoReqTyped, ReadStep DEF Finish
<1> QED  BY <1>5, <1>6

\* Deleting a book or a copy.
LEMMA DeletionsTyped ==
  ASSUME TypeInv, NEW h \in Handlers, DeleteBook(h) \/ DeleteItem(h)
  PROVE  TypeInv'
<1>1. /\ Finish(h)
      /\ UNCHANGED <<today, loans, nextLoan, fines, nextHold, disabled, vip, everVip,
                     borrowMu, holdTold, fineTold>>
  BY DEF DeleteBook, DeleteItem
<1>2. items' \in [Copies -> ItemStatus]
  <2>1. CASE DeleteBook(h)
    BY <2>1 DEF DeleteBook, TypeInv, TypeOK, ItemStatus
  <2>2. CASE DeleteItem(h)
    BY <2>2 DEF DeleteItem, ShelfAfterDeletingSafely, TypeInv, TypeOK, ItemStatus
  <2> QED  BY <2>1, <2>2
<1>3. biblios' \subseteq Books
  BY DEF DeleteBook, DeleteItem, TypeInv, TypeOK
<1>4. /\ holds' \in [HoldIds -> Hold]
      /\ \A k \in HoldIds : holds'[k].pos = holds[k].pos
                           /\ (holds[k].status = "none" <=> holds'[k].status = "none")
  <2>1. CASE DeleteBook(h)
    <3> DEFINE gone(k) == [holds[k] EXCEPT !.status = "deleted"]
    <3>1. \A k \in HoldIds : /\ gone(k) \in Hold /\ gone(k).pos = holds[k].pos
                            /\ gone(k).status = "deleted" /\ holds[k] \in Hold
      BY DEF TypeInv, TypeOK, Hold, HoldStatus
    <3>2. holds' = [k \in HoldIds |-> IF k \in HoldsOf(req[h].book) THEN gone(k) ELSE holds[k]]
      BY <2>1 DEF DeleteBook
    <3>3. \A k \in HoldsOf(req[h].book) : holds[k].status # "none"
      BY DEF HoldsOf
    <3> HIDE DEF gone
    <3> QED  BY <3>1, <3>2, <3>3
  <2>2. CASE DeleteItem(h)
    BY <2>2 DEF DeleteItem, TypeInv, TypeOK
  <2> QED  BY <2>1, <2>2
<1>5. RowsStay
  BY <1>1, <1>4 DEF RowsStay
<1>6. pc' \in [Handlers -> PC] /\ req' \in [Handlers -> Req] /\ LocalsOK'
  <2>1. nextHold \in Int
    BY NumberAssumption DEF TypeInv, TypeOK
  <2> QED  BY <1>1, <1>5, <2>1, FinishStep
<1>7. TypeOK'
  BY <1>1, <1>2, <1>3, <1>4, <1>6 DEF TypeInv, TypeOK
<1>8. RowsOK'
  BY <1>1, <1>4 DEF TypeInv, RowsOK
<1> QED  BY <1>6, <1>7, <1>8 DEF TypeInv

\* The operations of one statement, and time.
LEMMA DirectTyped ==
  ASSUME TypeInv, Direct
  PROVE  TypeInv'
<1>1. UNCHANGED <<biblios, loans, nextLoan, fines, nextHold, borrowMu, pc, req,
                  holdTold, fineTold>>
  BY DEF Direct, CancelHold, AddCopy, SetVip, SetStatus, NextDay
<1>2. /\ holds' \in [HoldIds -> Hold]
      /\ \A k \in HoldIds : holds'[k].pos = holds[k].pos
                           /\ (holds[k].status = "none" <=> holds'[k].status = "none")
  <2>1. CASE \E k \in HoldIds : CancelHold(k)
    <3>1. PICK k \in HoldIds : CancelHold(k)
      BY <2>1
    <3> DEFINE gone == [holds[k] EXCEPT !.status = "cancelled"]
    <3>2. gone \in Hold /\ gone.pos = holds[k].pos /\ gone.status = "cancelled"
      BY DEF TypeInv, TypeOK, Hold, HoldStatus
    <3>3. holds[k].status = "waiting" /\ holds' = [holds EXCEPT ![k] = gone]
      BY <3>1 DEF CancelHold, CancelWaiting
    <3> HIDE DEF gone
    <3> QED  BY <3>2, <3>3 DEF TypeInv, TypeOK
  <2>2. CASE UNCHANGED holds
    BY <2>2 DEF TypeInv, TypeOK
  <2> QED  BY <2>1, <2>2 DEF Direct, AddCopy, SetVip, SetStatus, NextDay
<1>3. items' \in [Copies -> ItemStatus]
  BY DEF Direct, CancelHold, AddCopy, SetVip, SetStatus, NextDay, TypeInv, TypeOK, ItemStatus
<1>4. today' \in Nat
  BY DEF Direct, CancelHold, AddCopy, SetVip, SetStatus, NextDay, TypeInv, TypeOK
<1>5. disabled' \subseteq Patrons /\ vip' \subseteq everVip' /\ everVip' \subseteq Patrons
  BY DEF Direct, CancelHold, AddCopy, SetVip, SetStatus, NextDay, TypeInv, TypeOK
<1>6. TypeOK'
  BY <1>1, <1>2, <1>3, <1>4, <1>5 DEF TypeInv, TypeOK
<1>7. RowsOK'
  BY <1>1, <1>2 DEF TypeInv, RowsOK
<1>8. LocalsOK'
  BY <1>1, <1>2 DEF TypeInv, LocalsOK, LocalOK
<1> QED  BY <1>6, <1>7, <1>8 DEF TypeInv

\* A failing statement, or a crash.
LEMMA FaultTyped ==
  ASSUME TypeInv, NEW h \in Handlers, Fault(h)
  PROVE  TypeInv'
BY NoReqTyped, UnlockTyped, ReadStep DEF Fault, Finish

\* The invariant holds of the empty database.
LEMMA TypeInvInit == Init => TypeInv
<1> SUFFICES ASSUME Init PROVE TypeInv
  OBVIOUS
<1>1. NoLoan \in Loan /\ NoHold \in Hold
  BY NoLoanTyped DEF NoHold, Hold, HoldStatus
<1>2. 1 \in 1..(MaxLoanId + 1) /\ 1 \in 1..(MaxHoldId + 1)
  BY NumberAssumption
<1>3. TypeOK
  BY <1>1, <1>2, NoReqTyped, ReferenceAssumption DEF Init, TypeOK, ItemStatus
<1>4. RowsOK
  <2>1. \A k \in HoldIds : k >= 0
    BY NumberAssumption DEF HoldIds
  <2> QED  BY <2>1 DEF Init, RowsOK, NoLoan, NoHold
<1>5. LocalsOK
  BY DEF Init, LocalsOK, LocalOK, Locked
<1> QED  BY <1>3, <1>4, <1>5 DEF TypeInv

\* Every step keeps the invariant: one step per action or group of actions.
LEMMA TypeInvNext == TypeInv /\ [Next]_vars => TypeInv'
<1> SUFFICES ASSUME TypeInv, [Next]_vars PROVE TypeInv'
  OBVIOUS
<1>1. CASE UNCHANGED vars
  BY <1>1 DEF vars, TypeInv, TypeOK, RowsOK, LocalsOK, LocalOK
<1>2. ASSUME NEW h \in Handlers, Continue(h) PROVE TypeInv'
  <2>1. CASE ReturnCommit(h)
    <3>1. /\ req[h].loan \in LoanIds /\ loans[req[h].loan].status # "none"
          /\ req[h].day \in Nat /\ req[h].hold \in 0..MaxHoldId
          /\ req[h].hold # 0 => req[h].hold \in HoldIds /\ holds[req[h].hold].status # "none"
      BY <2>1 DEF ReturnCommit, TypeInv, TypeOK, LocalsOK, LocalOK, Req
    <3>2. /\ ReturnWrites(req[h].loan, req[h].day, req[h].hold)
          /\ ReturnNotify(h, req[h].loan, Fine(loans[req[h].loan].due, req[h].day), req[h].hold)
          /\ UnchangedByReturn
      BY <2>1 DEF ReturnCommit
    <3> QED  BY <3>1, <3>2, ReturnTyped
  <2> QED  BY <1>2, <2>1, ReadsTyped, CheckoutTyped, NotifyTyped, RenewTyped, HoldInsertTyped,
              DeletionsTyped DEF Continue
<1>3. ASSUME NEW h \in Handlers, Arrive(h) PROVE TypeInv'
  <2>1. ASSUME NEW l \in LoanIds, ReturnTx(h, l) PROVE TypeInv'
    <3>1. PICK wake \in Woken(l) :
            /\ ReturnWrites(l, today, wake)
            /\ ReturnNotify(h, l, Fine(loans[l].due, today), wake)
      BY <2>1 DEF ReturnTx
    <3>2. loans[l].status # "none" /\ today \in Nat /\ UnchangedByReturn
      BY <2>1 DEF ReturnTx, TypeInv, TypeOK
    <3>3. wake \in 0..MaxHoldId
          /\ (wake # 0 => wake \in HoldIds /\ holds[wake].status # "none")
      BY WokenTyped
    <3> QED  BY <3>1, <3>2, <3>3, ReturnTyped
  <2> QED  BY <1>3, <2>1, ArrivalsTyped DEF Arrive
<1> QED  BY <1>1, <1>2, <1>3, FaultTyped, DirectTyped DEF Next

\* The strengthened type invariant holds in every reachable state; the
\* other invariants rest on it.
THEOREM TypeInvariance == Spec => []TypeInv
BY TypeInvInit, TypeInvNext, PTL DEF Spec

\* Every row and every local variable has its type in every reachable state.
THEOREM TypeCorrect == Spec => []TypeOK
<1>1. TypeInv => TypeOK
  BY DEF TypeInv
<1> QED  BY <1>1, TypeInvariance, PTL

----------------------------------------------------------------------------
(* One borrower per copy, over SQLite.  The condition status='available' of *)
(* Checkout looks at items, not at loans: it keeps a copy from two readers  *)
(* only as long as items says of a copy what loans says, so the two         *)
(* properties are proved together, with where a deleted copy can still be   *)
(* on loan.                                                                 *)

ShelfInv ==
  /\ \A h \in Handlers : pc[h] # "returnCommit"
  /\ OneBorrowerPerCopy
  /\ ShelfMatchesLoans
  /\ CopyDeletedOffLoan

\* ShelfInv in terms of single loans.
LEMMA ShelfInvByLoan ==
  ShelfInv <=>
    /\ \A h \in Handlers : pc[h] # "returnCommit"
    /\ OneBorrowerPerCopy
    /\ \A l \in LoanIds, c \in Copies :
         loans[l].status = "active" /\ loans[l].copy = c =>
           /\ items[c] \notin {"unborn", "available"}
           /\ items[c] = "deleted" => BookOf[c] \notin biblios
    /\ \A c \in Copies : items[c] = "borrowed" =>
         \E l \in LoanIds : loans[l].status = "active" /\ loans[l].copy = c
BY DEF ShelfInv, ShelfMatchesLoans, CopyDeletedOffLoan, ActiveLoansOn

\* A checkout takes one copy off the shelf and puts it on one new loan.
LEMMA ShelfCheckout ==
  ASSUME TypeInv, ShelfInv, NEW c \in Copies, NEW p \in Patrons, Checkout(c, p),
         UNCHANGED biblios, \A h \in Handlers : pc'[h] # "returnCommit"
  PROVE  ShelfInv'
<1>1. CASE items[c] = "available" /\ nextLoan \in LoanIds
  <2> DEFINE row == [NoLoan EXCEPT !.copy = c, !.patron = p, !.status = "active",
                                   !.due = today + LoanDays(c)]
  <2>1. row.copy = c /\ row.status = "active"
    BY DEF NoLoan
  <2>2. loans' = [loans EXCEPT ![nextLoan] = row] /\ items' = [items EXCEPT ![c] = "borrowed"]
    BY <1>1 DEF Checkout
  <2> HIDE DEF row
  <2>3. /\ loans'[nextLoan] = row
        /\ \A l \in LoanIds \ {nextLoan} : loans'[l] = loans[l]
        /\ items'[c] = "borrowed"
        /\ \A d \in Copies \ {c} : items'[d] = items[d]
    BY <1>1, <2>2 DEF TypeInv, TypeOK
  <2>4. loans[nextLoan].status = "none"
    BY <1>1, NumberAssumption DEF TypeInv, TypeOK, RowsOK
  <2>5. \A l \in LoanIds : loans[l].status = "active" => loans[l].copy # c
    BY <1>1, ShelfInvByLoan
  <2>6. OneBorrowerPerCopy'
    BY <1>1, <2>1, <2>3, <2>5 DEF ShelfInv, OneBorrowerPerCopy
  <2>7. ASSUME NEW l \in LoanIds, NEW d \in Copies,
               loans'[l].status = "active", loans'[l].copy = d
        PROVE  /\ items'[d] \notin {"unborn", "available"}
               /\ items'[d] = "deleted" => BookOf[d] \notin biblios'
    BY <1>1, <2>1, <2>3, <2>7, ShelfInvByLoan
  <2>8. ASSUME NEW d \in Copies, items'[d] = "borrowed"
        PROVE  \E l \in LoanIds : loans'[l].status = "active" /\ loans'[l].copy = d
    <3>1. CASE d = c
      BY <1>1, <2>1, <2>3, <3>1
    <3>2. CASE d # c
      <4>1. PICK l \in LoanIds : loans[l].status = "active" /\ loans[l].copy = d
        BY <2>3, <2>8, <3>2, ShelfInvByLoan
      <4> QED  BY <2>3, <2>4, <4>1
    <3> QED  BY <3>1, <3>2
  <2> QED  BY <2>6, <2>7, <2>8 DEF ShelfInv, ShelfMatchesLoans, CopyDeletedOffLoan, ActiveLoansOn
<1>2. CASE ~ (items[c] = "available" /\ nextLoan \in LoanIds)
  BY <1>2 DEF Checkout, ShelfInv, OneBorrowerPerCopy, ShelfMatchesLoans, CopyDeletedOffLoan,
              ActiveLoansOn
<1> QED  BY <1>1, <1>2

\* A renewal moves a copy from the one active loan it is on to a new one.
LEMMA ShelfRenew ==
  ASSUME TypeInv, ShelfInv, NEW l \in LoanIds, NEW due, NEW n,
         RenewWrites(l, due, n),
         UNCHANGED <<items, biblios>>, \A h \in Handlers : pc'[h] # "returnCommit"
  PROVE  ShelfInv'
<1>1. CASE loans[l].status = "active" /\ nextLoan \in LoanIds
  <2> DEFINE next == [loans[l] EXCEPT !.status = "active", !.checkin = 0,
                        !.renewals = n + 1, !.due = due + LoanDays(loans[l].copy), !.from = l]
  <2>1. next.copy = loans[l].copy /\ next.status = "active"
    BY DEF TypeInv, TypeOK, Loan
  <2>2. loans' = [loans EXCEPT ![l].status = "returned", ![l].checkin = due,
                               ![nextLoan] = next]
    BY <1>1 DEF RenewWrites
  <2> HIDE DEF next
  <2>3. loans[nextLoan].status = "none"
    BY <1>1, NumberAssumption DEF TypeInv, TypeOK, RowsOK
  <2>4. l # nextLoan
    BY <1>1, <2>3
  <2>5. /\ loans'[nextLoan] = next
        /\ loans'[l].status = "returned"
        /\ \A m \in LoanIds \ {l, nextLoan} : loans'[m] = loans[m]
    BY <1>1, <2>2, <2>4 DEF TypeInv, TypeOK, Loan
  <2>6. \A m \in LoanIds : m # l /\ loans[m].status = "active" => loans[m].copy # loans[l].copy
    BY <1>1 DEF ShelfInv, OneBorrowerPerCopy
  <2>7. OneBorrowerPerCopy'
    BY <2>1, <2>5, <2>6 DEF ShelfInv, OneBorrowerPerCopy
  <2>8. ASSUME NEW m \in LoanIds, NEW d \in Copies,
               loans'[m].status = "active", loans'[m].copy = d
        PROVE  /\ items'[d] \notin {"unborn", "available"}
               /\ items'[d] = "deleted" => BookOf[d] \notin biblios'
    BY <1>1, <2>1, <2>5, <2>8, ShelfInvByLoan
  <2>9. ASSUME NEW d \in Copies, items'[d] = "borrowed"
        PROVE  \E m \in LoanIds : loans'[m].status = "active" /\ loans'[m].copy = d
    <3>1. PICK m \in LoanIds : loans[m].status = "active" /\ loans[m].copy = d
      BY <2>9, ShelfInvByLoan
    <3>2. CASE m = l
      BY <1>1, <2>1, <2>5, <3>1, <3>2
    <3>3. CASE m # l
      BY <2>3, <2>5, <3>1, <3>3
    <3> QED  BY <3>2, <3>3
  <2> QED  BY <2>7, <2>8, <2>9 DEF ShelfInv, ShelfMatchesLoans, CopyDeletedOffLoan, ActiveLoansOn
<1>2. CASE ~ (loans[l].status = "active" /\ nextLoan \in LoanIds)
  BY <1>2 DEF RenewWrites, ShelfInv, OneBorrowerPerCopy, ShelfMatchesLoans, CopyDeletedOffLoan,
              ActiveLoansOn
<1> QED  BY <1>1, <1>2

\* A return closes the one active loan of its copy before the copy is
\* available again.
LEMMA ShelfReturn ==
  ASSUME TypeInv, ShelfInv, NEW l \in LoanIds, loans[l].status = "active",
         NEW day, NEW wake, ReturnWrites(l, day, wake),
         UNCHANGED biblios, \A h \in Handlers : pc'[h] # "returnCommit"
  PROVE  ShelfInv'
<1> DEFINE c == loans[l].copy
<1>1. c \in Copies
  BY DEF TypeInv, RowsOK
<1>2. /\ loans'[l].status = "returned"
      /\ \A m \in LoanIds \ {l} : loans'[m] = loans[m]
      /\ items'[c] = IF HasRow(c) THEN "available" ELSE items[c]
      /\ \A d \in Copies \ {c} : items'[d] = items[d]
  BY <1>1 DEF ReturnWrites, TypeInv, TypeOK, Loan
<1>3. \A m \in LoanIds \ {l} : loans[m].status = "active" => loans[m].copy # c
  BY DEF ShelfInv, OneBorrowerPerCopy
<1> HIDE DEF c
<1>4. OneBorrowerPerCopy'
  BY <1>2 DEF ShelfInv, OneBorrowerPerCopy
<1>5. ASSUME NEW m \in LoanIds, NEW d \in Copies,
             loans'[m].status = "active", loans'[m].copy = d
      PROVE  /\ items'[d] \notin {"unborn", "available"}
             /\ items'[d] = "deleted" => BookOf[d] \notin biblios'
  BY <1>2, <1>3, <1>5, ShelfInvByLoan
<1>6. ASSUME NEW d \in Copies, items'[d] = "borrowed"
      PROVE  \E m \in LoanIds : loans'[m].status = "active" /\ loans'[m].copy = d
  <2>1. d # c
    BY <1>1, <1>2, <1>6 DEF HasRow
  <2>2. PICK m \in LoanIds : loans[m].status = "active" /\ loans[m].copy = d
    BY <1>2, <1>6, <2>1, ShelfInvByLoan
  <2> QED  BY <1>2, <2>1, <2>2 DEF c
<1> QED  BY <1>4, <1>5, <1>6 DEF ShelfInv, ShelfMatchesLoans, CopyDeletedOffLoan, ActiveLoansOn

\* Steps that change the catalogue, not the loans, and how they do it.
LEMMA ShelfCatalogue ==
  ASSUME ShelfInv, UNCHANGED loans, biblios' \subseteq biblios,
         \A h \in Handlers : pc'[h] # "returnCommit",
         \A c \in Copies :
           \/ items'[c] = items[c]
           \/ items[c] = "unborn" /\ items'[c] = "available"
           \/ items[c] = "available" /\ items'[c] = "deleted"
           \/ items'[c] = "deleted" /\ BookOf[c] \notin biblios'
  PROVE  ShelfInv'
<1>1. OneBorrowerPerCopy'
  BY DEF ShelfInv, OneBorrowerPerCopy
<1>2. ASSUME NEW l \in LoanIds, NEW c \in Copies,
             loans'[l].status = "active", loans'[l].copy = c
      PROVE  /\ items'[c] \notin {"unborn", "available"}
             /\ items'[c] = "deleted" => BookOf[c] \notin biblios'
  BY <1>2, ShelfInvByLoan
<1>3. ASSUME NEW c \in Copies, items'[c] = "borrowed"
      PROVE  \E l \in LoanIds : loans'[l].status = "active" /\ loans'[l].copy = c
  BY <1>3, ShelfInvByLoan
<1> QED  BY <1>1, <1>2, <1>3 DEF ShelfInv, ShelfMatchesLoans, CopyDeletedOffLoan, ActiveLoansOn

\* Deleting a book strikes the book off together with its copies.
LEMMA ShelfDeleteBook ==
  ASSUME TypeInv, ShelfInv, NEW h \in Handlers, DeleteBook(h),
         \A g \in Handlers : pc'[g] # "returnCommit"
  PROVE  ShelfInv'
<1> DEFINE b == req[h].book
<1>1. /\ UNCHANGED loans /\ biblios' = biblios \ {b}
      /\ items' = [c \in Copies |-> IF BookOf[c] = b /\ HasRow(c) THEN "deleted" ELSE items[c]]
  BY DEF DeleteBook
<1> HIDE DEF b
<1>2. \A c \in Copies : items'[c] = items[c] \/ (items'[c] = "deleted" /\ BookOf[c] \notin biblios')
  BY <1>1
<1> QED  BY <1>1, <1>2, ShelfCatalogue

\* The conditional DELETE takes only a copy that is on the shelf.
LEMMA ShelfDeleteItem ==
  ASSUME TypeInv, ShelfInv, NEW h \in Handlers, DeleteItem(h),
         \A g \in Handlers : pc'[g] # "returnCommit"
  PROVE  ShelfInv'
<1>1. /\ UNCHANGED <<loans, biblios>>
      /\ items' = ShelfAfterDeletingSafely(req[h].copy)
  BY DEF DeleteItem
<1>2. ASSUME NEW c \in Copies
      PROVE  items'[c] = items[c] \/ (items[c] = "available" /\ items'[c] = "deleted")
  BY <1>1 DEF ShelfAfterDeletingSafely, TypeInv, TypeOK
<1> QED  BY <1>1, <1>2, ShelfCatalogue

\* A new copy is on no loan.
LEMMA ShelfAddCopy ==
  ASSUME TypeInv, ShelfInv, NEW d \in Copies, AddCopy(d)
  PROVE  ShelfInv'
<1>1. /\ UNCHANGED <<loans, biblios, pc>> /\ items[d] = "unborn"
      /\ items' = [items EXCEPT ![d] = "available"]
  BY DEF AddCopy
<1>2. \A c \in Copies : items'[c] = items[c] \/ (items[c] = "unborn" /\ items'[c] = "available")
  BY <1>1 DEF TypeInv, TypeOK
<1>3. \A g \in Handlers : pc'[g] # "returnCommit"
  BY <1>1 DEF ShelfInv
<1> QED  BY <1>1, <1>2, <1>3, ShelfCatalogue

\* Over SQLite a handler never stands inside a transaction.
LEMMA NoSnapshots ==
  ASSUME TypeInv, Driver = "sqlite", [Next]_vars,
         \A h \in Handlers : pc[h] # "returnCommit"
  PROVE  \A h \in Handlers : pc'[h] # "returnCommit"
<1>1. ASSUME NEW h \in Handlers, NEW label, NEW locals, Goto(h, label, locals),
             label # "returnCommit"
      PROVE  \A g \in Handlers : pc'[g] # "returnCommit"
  BY <1>1 DEF Goto, TypeInv, TypeOK
<1>2. ASSUME NEW h \in Handlers, Arrive(h) \/ Continue(h) \/ Fault(h)
      PROVE  \A g \in Handlers : pc'[g] # "returnCommit"
  <2>1. \E label, locals : label # "returnCommit" /\ Goto(h, label, locals)
    BY <1>2 DEF Arrive, Continue, Fault, BorrowRequest, ReturnTx, ReturnSnapshot, RenewLoan,
       HoldBook, DeleteBookLoans, DeleteItemLoans, BorrowLock, BorrowItem, BorrowCount,
       BorrowVip, BorrowCheckout, ReturnCommit, NotifyHold, NotifyFine, RenewItem, RenewHolds,
       RenewCheckout, HoldItems, HoldOwn, HoldPos, HoldInsert, DeleteBookHolds, DeleteBook,
       DeleteItem, Begin, Finish, ReturnNotify
  <2> QED  BY <1>1, <2>1
<1>3. CASE UNCHANGED pc
  BY <1>3
<1> QED  BY <1>2, <1>3 DEF Next, Direct, CancelHold, AddCopy, SetVip, SetStatus, NextDay, vars

\* Every step keeps the invariant.  Without snapshots a return tests the
\* loan and writes in one step, hence the assumption on the driver.
LEMMA ShelfInvNext ==
  ASSUME Driver = "sqlite"
  PROVE  TypeInv /\ ShelfInv /\ [Next]_vars => ShelfInv'
<1> SUFFICES ASSUME TypeInv, ShelfInv, [Next]_vars PROVE ShelfInv'
  OBVIOUS
<1>1. \A h \in Handlers : pc'[h] # "returnCommit"
  BY NoSnapshots DEF ShelfInv
<1>2. ASSUME UNCHANGED <<items, biblios, loans>> PROVE ShelfInv'
  BY <1>1, <1>2, ShelfCatalogue
<1>3. CASE UNCHANGED vars
  BY <1>2, <1>3 DEF vars
<1>4. CASE Direct
  <2>1. ASSUME NEW c \in Copies, AddCopy(c) PROVE ShelfInv'
    BY <2>1, ShelfAddCopy
  <2>2. (\E c \in Copies : AddCopy(c)) \/ UNCHANGED <<items, biblios, loans>>
    BY <1>4 DEF Direct, CancelHold, SetVip, SetStatus, NextDay
  <2> QED  BY <1>2, <2>1, <2>2
<1>5. ASSUME NEW h \in Handlers, Fault(h) PROVE ShelfInv'
  BY <1>2, <1>5 DEF Fault, tables
<1>6. ASSUME NEW h \in Handlers, Arrive(h) PROVE ShelfInv'
  <2>1. ASSUME NEW l \in LoanIds, ReturnTx(h, l) PROVE ShelfInv'
    <3>1. PICK wake \in Woken(l) : ReturnWrites(l, today, wake)
      BY <2>1 DEF ReturnTx
    <3>2. loans[l].status = "active" /\ UNCHANGED biblios
      BY <2>1 DEF ReturnTx, UnchangedByReturn
    <3> QED  BY <1>1, <3>1, <3>2, ShelfReturn
  <2>2. (\E l \in LoanIds : ReturnTx(h, l)) \/ UNCHANGED <<items, biblios, loans>>
    BY <1>6 DEF Arrive, BorrowRequest, ReturnSnapshot, RenewLoan, HoldBook, DeleteBookLoans,
                DeleteItemLoans, tables
  <2> QED  BY <1>2, <2>1, <2>2
<1>7. ASSUME NEW h \in Handlers, Continue(h) PROVE ShelfInv'
  <2>1. CASE BorrowCheckout(h)
    <3>1. req[h].copy \in Copies /\ req[h].patron \in Patrons
      BY <2>1 DEF BorrowCheckout, TypeInv, LocalsOK, LocalOK, Locked
    <3>2. Checkout(req[h].copy, req[h].patron) /\ UNCHANGED biblios
      BY <2>1 DEF BorrowCheckout
    <3> QED  BY <1>1, <3>1, <3>2, ShelfCheckout
  <2>2. CASE RenewCheckout(h)
    <3>1. req[h].loan \in LoanIds
      BY <2>2 DEF RenewCheckout, TypeInv, LocalsOK, LocalOK
    <3>2. RenewWrites(req[h].loan, req[h].day, req[h].n) /\ UNCHANGED <<items, biblios>>
      BY <2>2 DEF RenewCheckout
    <3> QED  BY <1>1, <3>1, <3>2, ShelfRenew
  <2>3. CASE DeleteBook(h)
    BY <1>1, <2>3, ShelfDeleteBook
  <2>4. CASE DeleteItem(h)
    BY <1>1, <2>4, ShelfDeleteItem
  <2>5. CASE ReturnCommit(h)
    BY <2>5 DEF ReturnCommit, ShelfInv
  <2>6. CASE BorrowLock(h) \/ BorrowItem(h) \/ BorrowCount(h) \/ BorrowVip(h)
             \/ NotifyHold(h) \/ NotifyFine(h) \/ RenewItem(h) \/ RenewHolds(h)
             \/ HoldItems(h) \/ HoldOwn(h) \/ HoldPos(h) \/ HoldInsert(h)
             \/ DeleteBookHolds(h)
    <3>1. UNCHANGED <<items, biblios, loans>>
      BY <2>6 DEF BorrowLock, BorrowItem, BorrowCount, BorrowVip, NotifyHold, NotifyFine,
                  RenewItem, RenewHolds, HoldItems, HoldOwn, HoldPos, HoldInsert,
                  DeleteBookHolds, tables
    <3> QED  BY <1>2, <3>1
  <2> QED  BY <1>7, <2>1, <2>2, <2>3, <2>4, <2>5, <2>6 DEF Continue
<1> QED  BY <1>3, <1>4, <1>5, <1>6, <1>7 DEF Next

\* At the start no copy is on loan.
LEMMA ShelfInvInit == Init => ShelfInv
BY DEF Init, ShelfInv, OneBorrowerPerCopy, ShelfMatchesLoans, CopyDeletedOffLoan, ActiveLoansOn,
       NoLoan

\* With SQLite underneath every state satisfies the invariant.
LEMMA ShelfInvariance ==
  ASSUME Driver = "sqlite"
  PROVE  Spec => []ShelfInv
<1>1. TypeInv /\ ShelfInv /\ [Next]_vars => ShelfInv'
  BY ShelfInvNext
<1> QED  BY <1>1, ShelfInvInit, TypeInvariance, PTL DEF Spec

\* No copy is ever out to two readers.
THEOREM CopiesLentOnce ==
  ASSUME Driver = "sqlite"
  PROVE  Spec => []OneBorrowerPerCopy
<1>1. ShelfInv => OneBorrowerPerCopy
  BY DEF ShelfInv
<1> QED  BY <1>1, ShelfInvariance, PTL

\* The status of a copy says whether it is on loan.
THEOREM ShelfAgreesWithLoans ==
  ASSUME Driver = "sqlite"
  PROVE  Spec => []ShelfMatchesLoans
<1>1. ShelfInv => ShelfMatchesLoans
  BY DEF ShelfInv
<1> QED  BY <1>1, ShelfInvariance, PTL

\* A copy still on loan is deleted only with its book.
THEOREM CopiesDeletedOffLoan ==
  ASSUME Driver = "sqlite"
  PROVE  Spec => []CopyDeletedOffLoan
<1>1. ShelfInv => CopyDeletedOffLoan
  BY DEF ShelfInv
<1> QED  BY <1>1, ShelfInvariance, PTL

----------------------------------------------------------------------------
(* What a step does to the loans.  *)

\* A checkout: one new row, which continues no other.
Lent(h) ==
  /\ pc[h] = "borrowCheckout" /\ nextLoan \in LoanIds /\ items[req[h].copy] = "available"
  /\ loans'[nextLoan].status = "active" /\ loans'[nextLoan].from = 0
  /\ loans'[nextLoan].renewals = 0
  /\ loans'[nextLoan].copy = req[h].copy /\ loans'[nextLoan].patron = req[h].patron
  /\ \A m \in LoanIds \ {nextLoan} : loans'[m] = loans[m]
  /\ items' = [items EXCEPT ![req[h].copy] = "borrowed"]
  /\ UNCHANGED <<biblios, fines, everVip>>

\* Row l is closed on a day, and what else it says stays.
Closed(l, day) ==
  /\ loans'[l].status = "returned" /\ loans'[l].checkin = day
  /\ loans'[l].copy = loans[l].copy /\ loans'[l].patron = loans[l].patron
  /\ loans'[l].due = loans[l].due /\ loans'[l].renewals = loans[l].renewals
  /\ loans'[l].from = loans[l].from

\* A renewal that goes through: one row closed, the next one opened.
Renewed(h) ==
  LET l == req[h].loan IN
  /\ pc[h] = "renewCheckout" /\ nextLoan \in LoanIds /\ nextLoan # l
  /\ loans[l].status = "active" /\ Closed(l, req[h].day)
  /\ loans'[nextLoan].status = "active" /\ loans'[nextLoan].from = l
  /\ loans'[nextLoan].renewals = req[h].n + 1
  /\ loans'[nextLoan].due = req[h].day + LoanDays(loans[l].copy)
  /\ loans'[nextLoan].copy = loans[l].copy /\ loans'[nextLoan].patron = loans[l].patron
  /\ \A m \in LoanIds \ {l, nextLoan} : loans'[m] = loans[m]
  /\ UNCHANGED <<items, biblios, fines, everVip>>

\* A return, as far as the loans and the shelf go.
Returned(l, day) ==
  LET c == loans[l].copy IN
  /\ l \in LoanIds /\ loans[l].status # "none" /\ day \in Nat
  /\ Closed(l, day)
  /\ \A m \in LoanIds \ {l} : loans'[m] = loans[m]
  /\ fines'[l] = fines[l] + Fine(loans[l].due, day)
  /\ \A m \in LoanIds \ {l} : fines'[m] = fines[m]
  /\ items' = [items EXCEPT ![c] = IF HasRow(c) THEN "available" ELSE @]
  /\ UNCHANGED <<nextLoan, biblios, everVip>>

LEMMA NextLoanFree ==
  ASSUME TypeInv, nextLoan \in LoanIds
  PROVE  loans[nextLoan].status = "none" /\ nextLoan # 0 /\ nextLoan \in Int
BY NumberAssumption DEF TypeInv, TypeOK, RowsOK, LoanIds

LEMMA CheckoutLends ==
  ASSUME TypeInv, NEW h \in Handlers, BorrowCheckout(h)
  PROVE  Lent(h) \/ UNCHANGED <<items, biblios, loans, nextLoan, fines, everVip>>
<1> DEFINE c == req[h].copy
           p == req[h].patron
           row == [NoLoan EXCEPT !.copy = c, !.patron = p, !.status = "active",
                                 !.due = today + LoanDays(c)]
<1>1. /\ pc[h] = "borrowCheckout" /\ Checkout(c, p)
      /\ UNCHANGED <<biblios, fines, everVip>>
  BY DEF BorrowCheckout
<1>2. CASE items[c] = "available" /\ nextLoan \in LoanIds
  <2>1. loans' = [loans EXCEPT ![nextLoan] = row] /\ items' = [items EXCEPT ![c] = "borrowed"]
    BY <1>1, <1>2 DEF Checkout
  <2>2. /\ row.status = "active" /\ row.from = 0 /\ row.renewals = 0
        /\ row.copy = c /\ row.patron = p
    BY DEF NoLoan
  <2> HIDE DEF row
  <2>3. loans'[nextLoan] = row /\ \A m \in LoanIds \ {nextLoan} : loans'[m] = loans[m]
    BY <1>2, <2>1 DEF TypeInv, TypeOK
  <2> QED  BY <1>1, <1>2, <2>1, <2>2, <2>3 DEF Lent
<1>3. CASE ~ (items[c] = "available" /\ nextLoan \in LoanIds)
  BY <1>1, <1>3 DEF Checkout
<1> QED  BY <1>2, <1>3

LEMMA RenewCheckoutRenews ==
  ASSUME TypeInv, NEW h \in Handlers, RenewCheckout(h)
  PROVE  Renewed(h) \/ UNCHANGED <<items, biblios, loans, nextLoan, fines, everVip>>
<1> DEFINE l == req[h].loan
           next == [loans[l] EXCEPT !.status = "active", !.checkin = 0,
                      !.renewals = req[h].n + 1,
                      !.due = req[h].day + LoanDays(loans[l].copy), !.from = l]
           shut == [loans[l] EXCEPT !.status = "returned", !.checkin = req[h].day]
<1>1. /\ pc[h] = "renewCheckout" /\ RenewWrites(l, req[h].day, req[h].n)
      /\ UNCHANGED <<items, biblios, fines, everVip>>
      /\ l \in LoanIds /\ loans[l] \in Loan
  BY DEF RenewCheckout, TypeInv, TypeOK, LocalsOK, LocalOK
<1>2. CASE loans[l].status = "active" /\ nextLoan \in LoanIds
  <2>1. nextLoan # l
    BY <1>2, NextLoanFree
  <2>2. loans' = [loans EXCEPT ![l].status = "returned", ![l].checkin = req[h].day,
                               ![nextLoan] = next]
    BY <1>1, <1>2 DEF RenewWrites
  <2>3. /\ next.status = "active" /\ next.from = l /\ next.renewals = req[h].n + 1
        /\ next.due = req[h].day + LoanDays(loans[l].copy)
        /\ next.copy = loans[l].copy /\ next.patron = loans[l].patron
    BY <1>1 DEF Loan
  <2>4. /\ shut.status = "returned" /\ shut.checkin = req[h].day
        /\ shut.copy = loans[l].copy /\ shut.patron = loans[l].patron
        /\ shut.due = loans[l].due /\ shut.renewals = loans[l].renewals
        /\ shut.from = loans[l].from
    BY <1>1 DEF Loan
  <2> HIDE DEF next
  <2>5. /\ loans'[nextLoan] = next /\ loans'[l] = shut
        /\ \A m \in LoanIds \ {l, nextLoan} : loans'[m] = loans[m]
    BY <1>1, <1>2, <2>1, <2>2 DEF TypeInv, TypeOK
  <2> HIDE DEF shut
  <2> QED  BY <1>1, <1>2, <2>1, <2>3, <2>4, <2>5 DEF Renewed, Closed
<1>3. CASE ~ (loans[l].status = "active" /\ nextLoan \in LoanIds)
  BY <1>1, <1>3 DEF RenewWrites
<1> QED  BY <1>2, <1>3

LEMMA WritesReturn ==
  ASSUME TypeInv, NEW l \in LoanIds, loans[l].status # "none", NEW day \in Nat, NEW wake,
         ReturnWrites(l, day, wake), UnchangedByReturn
  PROVE  Returned(l, day)
<1> DEFINE shut == [loans[l] EXCEPT !.status = "returned", !.checkin = day]
<1>1. loans[l] \in Loan /\ loans[l].copy \in Copies
  BY DEF TypeInv, TypeOK, RowsOK
<1>2. /\ loans' = [loans EXCEPT ![l].status = "returned", ![l].checkin = day]
      /\ fines' = [fines EXCEPT ![l] = @ + Fine(loans[l].due, day)]
      /\ items' = [items EXCEPT ![loans[l].copy] =
                     IF HasRow(loans[l].copy) THEN "available" ELSE @]
      /\ UNCHANGED <<nextLoan, biblios, everVip>>
  BY DEF ReturnWrites, UnchangedByReturn
<1>3. /\ shut.status = "returned" /\ shut.checkin = day
      /\ shut.copy = loans[l].copy /\ shut.patron = loans[l].patron
      /\ shut.due = loans[l].due /\ shut.renewals = loans[l].renewals
      /\ shut.from = loans[l].from
  BY <1>1 DEF Loan
<1>4. loans'[l] = shut /\ \A m \in LoanIds \ {l} : loans'[m] = loans[m]
  BY <1>1, <1>2 DEF TypeInv, TypeOK
<1>5. /\ fines'[l] = fines[l] + Fine(loans[l].due, day)
      /\ \A m \in LoanIds \ {l} : fines'[m] = fines[m]
  BY <1>2 DEF TypeInv, TypeOK
<1> HIDE DEF shut
<1> QED  BY <1>2, <1>3, <1>4, <1>5 DEF Returned, Closed

\* Every step lends, renews, takes back, or leaves loans and fines alone.
LEMMA LoanSteps ==
  ASSUME TypeInv, [Next]_vars
  PROVE  \/ UNCHANGED <<loans, nextLoan, fines>> /\ everVip \subseteq everVip'
         \/ \E h \in Handlers : BorrowCheckout(h) /\ Lent(h)
         \/ \E h \in Handlers : RenewCheckout(h) /\ Renewed(h)
         \/ \E h \in Handlers, l \in LoanIds :
              ReturnTx(h, l) /\ Returned(l, today) /\ loans[l].status = "active"
         \/ \E h \in Handlers : ReturnCommit(h) /\ Returned(req[h].loan, req[h].day)
<1> DEFINE Stays == UNCHANGED <<loans, nextLoan, fines>> /\ everVip \subseteq everVip'
<1>1. CASE UNCHANGED vars
  BY <1>1 DEF vars
<1>2. CASE Direct
  BY <1>2 DEF Direct, CancelHold, AddCopy, SetVip, SetStatus, NextDay
<1>3. ASSUME NEW h \in Handlers, Fault(h)
      PROVE  Stays
  BY <1>3 DEF Fault, tables
<1>4. ASSUME NEW h \in Handlers, Arrive(h)
      PROVE  Stays \/ \E l \in LoanIds :
                        ReturnTx(h, l) /\ Returned(l, today) /\ loans[l].status = "active"
  <2>1. ASSUME NEW l \in LoanIds, ReturnTx(h, l)
        PROVE  Returned(l, today) /\ loans[l].status = "active"
    <3>1. loans[l].status = "active" /\ today \in Nat /\ UnchangedByReturn
      BY <2>1 DEF ReturnTx, TypeInv, TypeOK
    <3>2. PICK wake \in Woken(l) : ReturnWrites(l, today, wake)
      BY <2>1 DEF ReturnTx
    <3> QED  BY <3>1, <3>2, WritesReturn
  <2>2. Stays \/ \E l \in LoanIds : ReturnTx(h, l)
    BY <1>4 DEF Arrive, BorrowRequest, ReturnSnapshot, RenewLoan, HoldBook, DeleteBookLoans,
                DeleteItemLoans, tables
  <2> QED  BY <2>1, <2>2
<1>5. ASSUME NEW h \in Handlers, Continue(h)
      PROVE  \/ Stays
             \/ BorrowCheckout(h) /\ Lent(h)
             \/ RenewCheckout(h) /\ Renewed(h)
             \/ ReturnCommit(h) /\ Returned(req[h].loan, req[h].day)
  <2>1. CASE BorrowCheckout(h)
    BY <2>1, CheckoutLends
  <2>2. CASE RenewCheckout(h)
    BY <2>2, RenewCheckoutRenews
  <2>3. CASE ReturnCommit(h)
    <3>1. /\ req[h].loan \in LoanIds /\ loans[req[h].loan].status # "none"
          /\ req[h].day \in Nat
      BY <2>3 DEF ReturnCommit, TypeInv, TypeOK, LocalsOK, LocalOK, Req
    <3>2. ReturnWrites(req[h].loan, req[h].day, req[h].hold) /\ UnchangedByReturn
      BY <2>3 DEF ReturnCommit
    <3> QED  BY <2>3, <3>1, <3>2, WritesReturn
  <2>4. CASE BorrowLock(h) \/ BorrowItem(h) \/ BorrowCount(h) \/ BorrowVip(h)
             \/ NotifyHold(h) \/ NotifyFine(h) \/ RenewItem(h) \/ RenewHolds(h)
             \/ HoldItems(h) \/ HoldOwn(h) \/ HoldPos(h) \/ HoldInsert(h)
             \/ DeleteBookHolds(h) \/ DeleteBook(h) \/ DeleteItem(h)
    BY <2>4 DEF BorrowLock, BorrowItem, BorrowCount, BorrowVip, NotifyHold, NotifyFine,
                RenewItem, RenewHolds, HoldItems, HoldOwn, HoldPos, HoldInsert,
                DeleteBookHolds, DeleteBook, DeleteItem, tables
  <2> QED  BY <1>5, <2>1, <2>2, <2>3, <2>4 DEF Continue
<1> QED  BY <1>1, <1>2, <1>3, <1>4, <1>5 DEF Next

----------------------------------------------------------------------------
(* Renewals.  Due dates, renewals and from are written once, so what Renew  *)
(* has read of a loan is still so when RenewCheckout writes, and the UPDATE *)
(* of RenewCheckout lets one renewal of a loan through.  On both databases. *)

Renewing == {"renewItem", "renewHolds", "renewCheckout"}

\* What a handler that renews a loan knows of it.
RenewKnows(label, r) ==
  label \in Renewing =>
    /\ r.n = loans[r.loan].renewals /\ r.n < MaxRenewals
    /\ r.day = loans[r.loan].due

ChainInv == RenewalsFormChains /\ \A h \in Handlers : RenewKnows(pc[h], req[h])

\* One handler at most moves in a step.
LEMMA HandlerMoves ==
  ASSUME TypeInv, NEW h \in Handlers, NEW label, NEW locals, Goto(h, label, locals)
  PROVE  /\ pc'[h] = label /\ req'[h] = locals
         /\ \A g \in Handlers : g # h => pc'[g] = pc[g] /\ req'[g] = req[g]
BY DEF Goto, TypeInv, TypeOK

LEMMA RenewLocals ==
  ASSUME TypeInv, [Next]_vars, NEW g \in Handlers, pc'[g] \in Renewing
  PROVE  \/ pc[g] \in Renewing /\ req'[g] = req[g]
         \/ \E l \in LoanIds :
              /\ RenewLoan(g, l) /\ req'[g].loan = l
              /\ req'[g].day = loans[l].due /\ req'[g].n = loans[l].renewals
<1>1. CASE UNCHANGED <<pc, req>>
  BY <1>1
<1>2. ASSUME NEW h \in Handlers, Arrive(h) \/ Continue(h) \/ Fault(h)
      PROVE  \/ pc[g] \in Renewing /\ req'[g] = req[g]
             \/ \E l \in LoanIds :
                  /\ RenewLoan(g, l) /\ req'[g].loan = l
                  /\ req'[g].day = loans[l].due /\ req'[g].n = loans[l].renewals
  <2>1. CASE \E l \in LoanIds : RenewLoan(h, l)
    <3>1. PICK l \in LoanIds : RenewLoan(h, l)
      BY <2>1
    <3> DEFINE locals == [NoReq EXCEPT !.loan = l, !.day = loans[l].due,
                                       !.n = loans[l].renewals]
    <3>2. Goto(h, "renewItem", locals)
      BY <3>1 DEF RenewLoan, Begin
    <3>3. locals.loan = l /\ locals.day = loans[l].due /\ locals.n = loans[l].renewals
      BY DEF NoReq
    <3> HIDE DEF locals
    <3> QED  BY <3>1, <3>2, <3>3, HandlerMoves
  <2>2. CASE ~ \E l \in LoanIds : RenewLoan(h, l)
    <3>1. CASE RenewItem(h) \/ RenewHolds(h)
      <4>1. pc[h] \in Renewing /\ \E label, locals :
              Goto(h, label, locals) /\ (label = "idle" \/ locals = req[h])
        BY <3>1 DEF RenewItem, RenewHolds, Finish, Renewing
      <4> QED  BY <4>1, HandlerMoves DEF Renewing
    <3>2. CASE ~ (RenewItem(h) \/ RenewHolds(h))
      <4>1. \E label, locals : /\ Goto(h, label, locals)
                               /\ label # "renewItem" /\ label # "renewHolds"
                               /\ label # "renewCheckout"
        BY <1>2, <2>2, <3>2 DEF Arrive, Continue, Fault, BorrowRequest, ReturnTx,
           ReturnSnapshot, HoldBook, DeleteBookLoans, DeleteItemLoans, BorrowLock, BorrowItem,
           BorrowCount, BorrowVip, BorrowCheckout, ReturnCommit, NotifyHold, NotifyFine,
           RenewCheckout, HoldItems, HoldOwn, HoldPos, HoldInsert, DeleteBookHolds, DeleteBook,
           DeleteItem, Begin, Finish, ReturnNotify
      <4> QED  BY <4>1, HandlerMoves DEF Renewing
    <3> QED  BY <3>1, <3>2
  <2> QED  BY <2>1, <2>2
<1> QED  BY <1>1, <1>2 DEF Next, Direct, CancelHold, AddCopy, SetVip, SetStatus, NextDay, vars

\* What a row says of itself is not written again.
LEMMA RowsKeep ==
  ASSUME TypeInv, [Next]_vars, NEW m \in LoanIds, loans[m].status # "none"
  PROVE  /\ loans'[m].copy = loans[m].copy /\ loans'[m].patron = loans[m].patron
         /\ loans'[m].due = loans[m].due /\ loans'[m].renewals = loans[m].renewals
         /\ loans'[m].from = loans[m].from
         /\ loans[m].status = "returned" => loans'[m].status = "returned"
<1>1. nextLoan \in LoanIds => m # nextLoan
  BY NextLoanFree
<1>2. ASSUME NEW l, NEW day, Returned(l, day)
      PROVE  /\ loans'[m].copy = loans[m].copy /\ loans'[m].patron = loans[m].patron
             /\ loans'[m].due = loans[m].due /\ loans'[m].renewals = loans[m].renewals
             /\ loans'[m].from = loans[m].from
             /\ loans[m].status = "returned" => loans'[m].status = "returned"
  BY <1>2 DEF Returned, Closed
<1> QED  BY <1>1, <1>2, LoanSteps DEF Lent, Renewed, Closed

LEMMA ChainInvNext == TypeInv /\ ChainInv /\ [Next]_vars => ChainInv'
<1> SUFFICES ASSUME TypeInv, ChainInv, [Next]_vars
             PROVE  ChainInv'
  OBVIOUS
<1>1. ASSUME NEW g \in Handlers
      PROVE  RenewKnows(pc[g], req[g])'
  <2>1. SUFFICES ASSUME pc'[g] \in Renewing
                 PROVE  /\ req'[g].n = loans'[req'[g].loan].renewals /\ req'[g].n < MaxRenewals
                        /\ req'[g].day = loans'[req'[g].loan].due
    BY DEF RenewKnows
  <2>2. CASE pc[g] \in Renewing /\ req'[g] = req[g]
    <3>1. req[g].loan \in LoanIds /\ loans[req[g].loan].status # "none"
      BY <2>2 DEF TypeInv, LocalsOK, LocalOK, Renewing
    <3>2. RenewKnows(pc[g], req[g])
      BY DEF ChainInv
    <3> QED  BY <2>2, <3>1, <3>2, RowsKeep DEF RenewKnows
  <2>3. CASE \E l \in LoanIds :
               /\ RenewLoan(g, l) /\ req'[g].loan = l
               /\ req'[g].day = loans[l].due /\ req'[g].n = loans[l].renewals
    <3>1. PICK l \in LoanIds :
               /\ RenewLoan(g, l) /\ req'[g].loan = l
               /\ req'[g].day = loans[l].due /\ req'[g].n = loans[l].renewals
      BY <2>3
    <3>2. loans[l].renewals < MaxRenewals /\ loans' = loans
      BY <3>1 DEF RenewLoan, tables
    <3> QED  BY <3>1, <3>2
  <2> QED  BY <2>1, <2>2, <2>3, RenewLocals
<1>2. RenewalsFormChains
  BY DEF ChainInv
\* Rows but for the newest are linked as they were.
<1>3. ASSUME NEW m \in LoanIds, loans'[m].from = loans[m].from, loans[m].from # 0,
             loans'[m].copy = loans[m].copy, loans'[m].patron = loans[m].patron,
             loans'[m].due = loans[m].due, loans'[m].renewals = loans[m].renewals
      PROVE  LET l == loans'[m].from IN
             /\ loans'[l].status = "returned"
             /\ loans'[m].copy = loans'[l].copy /\ loans'[m].patron = loans'[l].patron
             /\ loans'[m].renewals = loans'[l].renewals + 1
             /\ loans'[m].due = loans'[l].due + LoanDays(loans'[l].copy)
  <2>1. PICK l \in LoanIds : l = loans[m].from
    <3>1. loans[m].from \in 0..MaxLoanId
      BY DEF TypeInv, TypeOK, Loan
    <3> QED  BY <1>3, <3>1, NumberAssumption DEF LoanIds
  <2>2. /\ loans[l].status = "returned"
        /\ loans[m].copy = loans[l].copy /\ loans[m].patron = loans[l].patron
        /\ loans[m].renewals = loans[l].renewals + 1
        /\ loans[m].due = loans[l].due + LoanDays(loans[l].copy)
    BY <1>2, <1>3, <2>1 DEF RenewalsFormChains
  <2>3. /\ loans'[l].copy = loans[l].copy /\ loans'[l].patron = loans[l].patron
        /\ loans'[l].due = loans[l].due /\ loans'[l].renewals = loans[l].renewals
        /\ loans'[l].status = "returned"
    BY <2>2, RowsKeep
  <2> QED  BY <1>3, <2>1, <2>2, <2>3
<1>4. CASE \A m \in LoanIds : /\ loans'[m].from = loans[m].from
                              /\ loans'[m].copy = loans[m].copy
                              /\ loans'[m].patron = loans[m].patron
                              /\ loans'[m].due = loans[m].due
                              /\ loans'[m].renewals = loans[m].renewals
  <2>1. \A m, n \in LoanIds : loans'[m].from # 0 /\ loans'[n].from = loans'[m].from => n = m
    BY <1>2, <1>4 DEF RenewalsFormChains
  <2>2. \A m \in LoanIds : loans'[m].renewals <= MaxRenewals
    BY <1>2, <1>4 DEF RenewalsFormChains
  <2>3. RenewalsFormChains'
    BY <1>3, <1>4, <2>1, <2>2 DEF RenewalsFormChains
  <2> QED  BY <1>1, <2>3 DEF ChainInv
<1>5. CASE \E h \in Handlers : Lent(h)
  <2>1. PICK h \in Handlers : Lent(h)
    BY <1>5
  <2>2. /\ loans'[nextLoan].from = 0 /\ loans'[nextLoan].renewals = 0
        /\ nextLoan \in LoanIds
        /\ \A m \in LoanIds \ {nextLoan} : loans'[m] = loans[m]
    BY <2>1 DEF Lent
  <2>3. \A m, n \in LoanIds : loans'[m].from # 0 /\ loans'[n].from = loans'[m].from => n = m
    BY <1>2, <2>2 DEF RenewalsFormChains
  <2>4. \A m \in LoanIds : loans'[m].renewals <= MaxRenewals
    BY <1>2, <2>2, NumberAssumption DEF RenewalsFormChains
  <2>5. ASSUME NEW m \in LoanIds, loans'[m].from # 0
        PROVE  m # nextLoan /\ loans'[m] = loans[m]
    BY <2>2, <2>5
  <2>6. RenewalsFormChains'
    BY <1>3, <2>3, <2>4, <2>5 DEF RenewalsFormChains
  <2> QED  BY <1>1, <2>6 DEF ChainInv
<1>6. CASE \E h \in Handlers : Renewed(h)
  <2>1. PICK h \in Handlers : Renewed(h)
    BY <1>6
  <2>2. PICK l \in LoanIds : l = req[h].loan /\ loans[l].status # "none"
    BY <2>1 DEF Renewed, TypeInv, LocalsOK, LocalOK
  <2>3. /\ nextLoan \in LoanIds /\ nextLoan # l /\ loans[l].status = "active"
        /\ Closed(l, req[h].day)
        /\ loans'[nextLoan].from = l
        /\ loans'[nextLoan].renewals = req[h].n + 1
        /\ loans'[nextLoan].due = req[h].day + LoanDays(loans[l].copy)
        /\ loans'[nextLoan].copy = loans[l].copy /\ loans'[nextLoan].patron = loans[l].patron
        /\ \A m \in LoanIds \ {l, nextLoan} : loans'[m] = loans[m]
    BY <2>1, <2>2 DEF Renewed
  <2>4. req[h].n = loans[l].renewals /\ req[h].n < MaxRenewals /\ req[h].day = loans[l].due
    BY <2>1, <2>2 DEF Renewed, ChainInv, RenewKnows, Renewing
  <2>5. loans[l].renewals \in Nat /\ l # 0 /\ MaxRenewals \in Nat
    BY NumberAssumption DEF TypeInv, TypeOK, Loan, LoanIds
  <2>6. \A m \in LoanIds : m # nextLoan => loans'[m].from = loans[m].from /\ loans[m].from # l
    BY <1>2, <2>3, <2>5 DEF Closed, RenewalsFormChains
  <2>7. \A m, n \in LoanIds : loans'[m].from # 0 /\ loans'[n].from = loans'[m].from => n = m
    BY <1>2, <2>3, <2>6 DEF RenewalsFormChains
  <2>8. \A m \in LoanIds : loans'[m].renewals <= MaxRenewals
    BY <1>2, <2>3, <2>4, <2>5 DEF Closed, RenewalsFormChains
  <2>9. /\ loans'[l].status = "returned"
        /\ loans'[nextLoan].copy = loans'[l].copy /\ loans'[nextLoan].patron = loans'[l].patron
        /\ loans'[nextLoan].renewals = loans'[l].renewals + 1
        /\ loans'[nextLoan].due = loans'[l].due + LoanDays(loans'[l].copy)
    BY <2>3, <2>4 DEF Closed
  <2>10. \A m \in LoanIds : m # nextLoan =>
           /\ loans'[m].copy = loans[m].copy /\ loans'[m].patron = loans[m].patron
           /\ loans'[m].due = loans[m].due /\ loans'[m].renewals = loans[m].renewals
    BY <2>3 DEF Closed
  <2>11. RenewalsFormChains'
    BY <1>3, <2>3, <2>6, <2>7, <2>8, <2>9, <2>10 DEF RenewalsFormChains
  <2> QED  BY <1>1, <2>11 DEF ChainInv
<1>7. ASSUME NEW l, NEW day, Returned(l, day)
      PROVE  ChainInv'
  BY <1>4, <1>7 DEF Returned, Closed
<1>8. CASE UNCHANGED loans
  BY <1>4, <1>8
<1> QED  BY <1>5, <1>6, <1>7, <1>8, LoanSteps

LEMMA ChainInvInit == Init => ChainInv
BY NumberAssumption DEF Init, ChainInv, RenewalsFormChains, RenewKnows, Renewing, NoLoan

LEMMA ChainInvariance == Spec => []ChainInv
BY ChainInvInit, ChainInvNext, TypeInvariance, PTL DEF Spec

\* Renew and RenewCheckout: however many renewals of a loan run at once, they
\* make one chain of the same reader and copy, as long as MaxRenewals allows,
\* on both databases.
THEOREM RenewalsChain == Spec => []RenewalsFormChains
<1>1. ChainInv => RenewalsFormChains
  BY DEF ChainInv
<1> QED  BY <1>1, ChainInvariance, PTL

----------------------------------------------------------------------------
(* Fines, over SQLite: a return finds the loan active, hence not fined yet, *)
(* and a renewal closes a loan on its due date.                             *)

LEMMA FinesNext ==
  ASSUME TypeInv, ChainInv, ShelfInv, FinesMatchLateness, [Next]_vars
  PROVE  FinesMatchLateness'
<1> DEFINE Owed(row) == IF row.status = "returned" /\ row.checkin > row.due
                        THEN FinePerDayCents * (row.checkin - row.due) ELSE 0
<1>1. \A m \in LoanIds : fines[m] = Owed(loans[m])
  BY DEF FinesMatchLateness
<1>2. ASSUME \A m \in LoanIds : fines'[m] = Owed(loans'[m])
      PROVE  FinesMatchLateness'
  BY <1>2 DEF FinesMatchLateness
<1>3. \A row : row.status # "returned" => Owed(row) = 0
  OBVIOUS
<1>4. \A row : row.checkin = row.due /\ row.due \in Nat => Owed(row) = 0
  OBVIOUS
<1>5. ASSUME NEW row, row.status = "returned", row.due \in Nat, row.checkin \in Nat
      PROVE  Owed(row) = Fine(row.due, row.checkin)
  BY <1>5, NumberAssumption DEF Fine
<1>6. \A m \in LoanIds : loans[m].due \in Nat
  BY DEF TypeInv, TypeOK, Loan
<1> HIDE DEF Owed
<1>7. CASE UNCHANGED <<loans, fines>>
  BY <1>1, <1>2, <1>7
<1>8. CASE \E h \in Handlers : Lent(h)
  <2>1. loans[nextLoan].status = "none" /\ loans'[nextLoan].status = "active"
    BY <1>8, NextLoanFree DEF Lent
  <2> QED  BY <1>1, <1>2, <1>3, <1>8, <2>1 DEF Lent
<1>9. CASE \E h \in Handlers : Renewed(h)
  <2>1. PICK h \in Handlers : Renewed(h)
    BY <1>9
  <2>2. PICK l \in LoanIds : l = req[h].loan
    BY <2>1 DEF Renewed, TypeInv, LocalsOK, LocalOK
  <2>3. /\ loans[nextLoan].status = "none" /\ loans'[nextLoan].status = "active"
        /\ loans[l].status = "active" /\ Closed(l, req[h].day) /\ fines' = fines
        /\ \A m \in LoanIds \ {l, nextLoan} : loans'[m] = loans[m]
    BY <2>1, <2>2, NextLoanFree DEF Renewed
  <2>4. loans'[l].checkin = loans'[l].due /\ loans'[l].due \in Nat
    BY <1>6, <2>1, <2>2, <2>3 DEF Renewed, Closed, ChainInv, RenewKnows, Renewing
  <2>5. fines'[l] = Owed(loans'[l])
    BY <1>1, <1>3, <1>4, <2>3, <2>4
  <2> QED  BY <1>1, <1>2, <1>3, <2>3, <2>5
<1>10. ASSUME NEW l \in LoanIds, Returned(l, today), loans[l].status = "active"
       PROVE  FinesMatchLateness'
  <2>1. /\ Closed(l, today) /\ fines'[l] = fines[l] + Fine(loans[l].due, today)
        /\ \A m \in LoanIds \ {l} : loans'[m] = loans[m] /\ fines'[m] = fines[m]
        /\ today \in Nat
    BY <1>10 DEF Returned
  <2>2. fines[l] = 0 /\ Fine(loans[l].due, today) \in Nat
    BY <1>1, <1>3, <1>6, <1>10, <2>1, FineTyped
  <2>3. Owed(loans'[l]) = Fine(loans[l].due, today)
    BY <1>5, <1>6, <2>1 DEF Closed
  <2>4. fines'[l] = Owed(loans'[l])
    BY <2>1, <2>2, <2>3
  <2> QED  BY <1>1, <1>2, <2>1, <2>4
<1>11. \A h \in Handlers : ~ ReturnCommit(h)
  BY DEF ReturnCommit, ShelfInv
<1> QED  BY <1>7, <1>8, <1>9, <1>10, <1>11, LoanSteps

\* ReturnTx: a loan is fined once, for the days it was late, and a renewal
\* costs nothing.
THEOREM FinesAreExact ==
  ASSUME Driver = "sqlite"
  PROVE  Spec => []FinesMatchLateness
<1>1. Init => FinesMatchLateness
  BY DEF Init, FinesMatchLateness, NoLoan
<1>2. TypeInv /\ ChainInv /\ ShelfInv /\ FinesMatchLateness /\ [Next]_vars => FinesMatchLateness'
  BY FinesNext
<1> QED  BY <1>1, <1>2, TypeInvariance, ChainInvariance, ShelfInvariance, PTL DEF Spec

----------------------------------------------------------------------------
(* The limit.  Borrow counts and lends in separate statements; the mutex    *)
(* of the patron keeps others from lending to the same patron in between.   *)
(* On both databases.                                                       *)

\* Whoever runs the statements of Borrow has the mutex, and what it counted
\* is not exceeded since.
LimitKnows(h) ==
  LET p == req[h].patron IN
  /\ pc[h] \in Locked => borrowMu[p] = h
  /\ pc[h] = "borrowVip" => Cardinality(ActiveLoans(p)) <= req[h].n
  /\ pc[h] = "borrowCheckout" => Cardinality(ActiveLoans(p)) < LoanLimit(p \in everVip)

LimitInv == LoansWithinLimit /\ \A h \in Handlers : LimitKnows(h)

\* What a step does to the number of loans of a patron.
LEMMA LoanCounts ==
  ASSUME TypeInv, [Next]_vars, NEW p \in Patrons
  PROVE  \/ Cardinality(ActiveLoans(p)') <= Cardinality(ActiveLoans(p))
         \/ /\ Cardinality(ActiveLoans(p)') = Cardinality(ActiveLoans(p)) + 1
            /\ \E h \in Handlers : BorrowCheckout(h) /\ req[h].patron = p
<1>0. PICK A, B : A = ActiveLoans(p) /\ B = ActiveLoans(p)'
  OBVIOUS
<1>1. IsFiniteSet(A) /\ Cardinality(A) \in Nat
  BY <1>0, ActiveLoansFinite
<1>2. B = {m \in LoanIds : loans'[m].status = "active" /\ loans'[m].patron = p}
      /\ A = {m \in LoanIds : loans[m].status = "active" /\ loans[m].patron = p}
  BY <1>0 DEF ActiveLoans
<1>3. ASSUME B \subseteq A
      PROVE  Cardinality(B) <= Cardinality(A)
  BY <1>1, <1>3, FS_Subset
<1>4. ASSUME UNCHANGED loans
      PROVE  Cardinality(B) <= Cardinality(A)
  BY <1>2, <1>3, <1>4
<1>5. ASSUME NEW h \in Handlers, BorrowCheckout(h), Lent(h)
      PROVE  \/ Cardinality(B) <= Cardinality(A)
             \/ Cardinality(B) = Cardinality(A) + 1 /\ req[h].patron = p
  <2>1. /\ nextLoan \in LoanIds /\ loans[nextLoan].status = "none"
        /\ loans'[nextLoan].status = "active" /\ loans'[nextLoan].patron = req[h].patron
        /\ \A m \in LoanIds \ {nextLoan} : loans'[m] = loans[m]
    BY <1>5, NextLoanFree DEF Lent
  <2>2. CASE req[h].patron = p
    <3>1. B = A \cup {nextLoan} /\ nextLoan \notin A
      BY <1>2, <2>1, <2>2
    <3> QED  BY <1>1, <2>2, <3>1, FS_AddElement
  <2>3. CASE req[h].patron # p
    BY <1>2, <1>3, <2>1, <2>3
  <2> QED  BY <2>2, <2>3
<1>6. ASSUME NEW h \in Handlers, Renewed(h)
      PROVE  Cardinality(B) <= Cardinality(A)
  <2>1. PICK l \in LoanIds : l = req[h].loan
    BY <1>6 DEF Renewed, TypeInv, LocalsOK, LocalOK
  <2>2. /\ nextLoan \in LoanIds /\ nextLoan # l /\ loans[nextLoan].status = "none"
        /\ loans[l].status = "active" /\ loans'[l].status = "returned"
        /\ loans'[nextLoan].status = "active" /\ loans'[nextLoan].patron = loans[l].patron
        /\ \A m \in LoanIds \ {l, nextLoan} : loans'[m] = loans[m]
    BY <1>6, <2>1, NextLoanFree DEF Renewed, Closed
  <2>3. CASE loans[l].patron = p
    <3>1. B = (A \ {l}) \cup {nextLoan} /\ l \in A /\ nextLoan \notin A \ {l}
      BY <1>2, <2>2, <2>3
    <3>2. IsFiniteSet(A \ {l}) /\ Cardinality(A \ {l}) = Cardinality(A) - 1
      BY <1>1, <3>1, FS_RemoveElement
    <3>3. Cardinality(B) = Cardinality(A \ {l}) + 1
      BY <3>1, <3>2, FS_AddElement
    <3> QED  BY <1>1, <3>2, <3>3
  <2>4. CASE loans[l].patron # p
    BY <1>2, <1>3, <2>2, <2>4
  <2> QED  BY <2>3, <2>4
<1>7. ASSUME NEW l, NEW day, Returned(l, day)
      PROVE  Cardinality(B) <= Cardinality(A)
  BY <1>2, <1>3, <1>7 DEF Returned, Closed
<1>8. \/ Cardinality(B) <= Cardinality(A)
      \/ /\ Cardinality(B) = Cardinality(A) + 1
         /\ \E h \in Handlers : BorrowCheckout(h) /\ req[h].patron = p
  BY <1>4, <1>5, <1>6, <1>7, LoanSteps
<1> QED  BY <1>0, <1>8

LEMMA LimitGrows ==
  ASSUME TypeInv, [Next]_vars, NEW p \in Patrons
  PROVE  /\ LoanLimit(p \in everVip) \in Nat /\ LoanLimit(p \in everVip') \in Nat
         /\ LoanLimit(p \in vip) <= LoanLimit(p \in everVip)
         /\ LoanLimit(p \in everVip) <= LoanLimit(p \in everVip')
         /\ LoanLimit(p \in vip) \in Nat
<1>1. everVip \subseteq everVip'
  BY LoanSteps DEF Lent, Renewed, Returned
<1>2. vip \subseteq everVip
  BY DEF TypeInv, TypeOK
<1> QED  BY <1>1, <1>2, NumberAssumption DEF LoanLimit

\* How a step moves the handlers that run Borrow, and the mutexes.
LockedReads(h) == BorrowItem(h) \/ BorrowCount(h) \/ BorrowVip(h)

LEMMA LockMoves ==
  ASSUME TypeInv, [Next]_vars
  PROVE  \/ UNCHANGED <<pc, req, borrowMu>>
         \/ \E h \in Handlers : BorrowLock(h) \/ LockedReads(h)
         \/ \E h \in Handlers : \E label, locals :
              /\ Goto(h, label, locals) /\ label \notin Locked
              /\ UNCHANGED borrowMu \/ Unlock(h)
<1>1. ASSUME NEW h \in Handlers, Arrive(h) \/ Continue(h) \/ Fault(h),
             ~ (BorrowLock(h) \/ LockedReads(h))
      PROVE  \E label, locals :
               /\ Goto(h, label, locals) /\ label \notin Locked
               /\ UNCHANGED borrowMu \/ Unlock(h)
  <2>1. \E label, locals :
          /\ Goto(h, label, locals)
          /\ label # "borrowItem" /\ label # "borrowCount" /\ label # "borrowVip"
          /\ label # "borrowCheckout"
          /\ UNCHANGED borrowMu \/ Unlock(h)
    <3>1. CASE Arrive(h)
      BY <3>1 DEF Arrive, BorrowRequest, ReturnTx, ReturnSnapshot, RenewLoan, HoldBook,
         DeleteBookLoans, DeleteItemLoans, Begin, Finish, ReturnNotify, UnchangedByReturn
    <3>2. CASE Continue(h) \/ Fault(h)
      BY <1>1, <3>2 DEF LockedReads, Continue, Fault, BorrowCheckout, ReturnCommit, NotifyHold,
         NotifyFine, RenewItem, RenewHolds, RenewCheckout, HoldItems, HoldOwn, HoldPos,
         HoldInsert, DeleteBookHolds, DeleteBook, DeleteItem, Finish, ReturnNotify,
         UnchangedByReturn
    <3> QED  BY <1>1, <3>1, <3>2
  <2> QED  BY <2>1 DEF Locked
<1>2. CASE Direct
  BY <1>2 DEF Direct, CancelHold, AddCopy, SetVip, SetStatus, NextDay
<1>3. CASE UNCHANGED vars
  BY <1>3 DEF vars
<1> QED  BY <1>1, <1>2, <1>3 DEF Next

\* A step of another handler disturbs nothing of what g knows.
LEMMA LimitKept ==
  ASSUME TypeInv, LimitInv, [Next]_vars, NEW g \in Handlers, pc'[g] = pc[g], req'[g] = req[g],
         ~ BorrowCheckout(g), pc[g] \in Locked => borrowMu'[req[g].patron] = g
  PROVE  LimitKnows(g)'
<1>1. SUFFICES ASSUME pc[g] \in Locked
               PROVE  LimitKnows(g)'
  BY DEF LimitKnows, Locked
<1>2. PICK p \in Patrons : p = req[g].patron
  BY <1>1 DEF TypeInv, LocalsOK, LocalOK
<1>3. LimitKnows(g)
  BY DEF LimitInv
<1>4. Cardinality(ActiveLoans(p)') <= Cardinality(ActiveLoans(p))
  <2>1. ASSUME NEW h \in Handlers, BorrowCheckout(h), req[h].patron = p
        PROVE  FALSE
    <3>1. pc[h] \in Locked /\ LimitKnows(h)
      BY <2>1 DEF BorrowCheckout, Locked, LimitInv
    <3>2. borrowMu[p] = h /\ borrowMu[p] = g
      BY <1>1, <1>2, <1>3, <2>1, <3>1 DEF LimitKnows
    <3> QED  BY <2>1, <3>2
  <2> QED  BY <2>1, LoanCounts
<1>5. PICK a, b : a = Cardinality(ActiveLoans(p)) /\ b = Cardinality(ActiveLoans(p)')
  OBVIOUS
<1>6. a \in Nat
  BY <1>5, ActiveLoansFinite
<1>7. b \in Nat
  <2>1. IsFiniteSet(1..MaxLoanId) /\ ActiveLoans(p)' \in SUBSET (1..MaxLoanId)
    BY NumberAssumption, FS_Interval DEF ActiveLoans, LoanIds
  <2> QED  BY <1>5, <2>1, FS_Subset, FS_CardinalityType
<1>8. PICK x \in Nat, y \in Nat : x = LoanLimit(p \in everVip) /\ y = LoanLimit(p \in everVip') /\ x <= y
  BY LimitGrows
<1>9. /\ borrowMu'[p] = g
      /\ pc'[g] = "borrowVip" => b <= req'[g].n
      /\ pc'[g] = "borrowCheckout" => b < y
  <2>1. req[g].n \in Nat
    BY DEF TypeInv, TypeOK, Req
  <2>2. /\ pc[g] = "borrowVip" => a <= req[g].n
        /\ pc[g] = "borrowCheckout" => a < x
    BY <1>2, <1>3, <1>5, <1>8 DEF LimitKnows
  <2> QED  BY <1>1, <1>2, <1>4, <1>5, <1>6, <1>7, <1>8, <2>1, <2>2
<1>10. req'[g].patron = p
  BY <1>2
<1> QED  BY <1>5, <1>8, <1>9, <1>10 DEF LimitKnows

LEMMA LimitKnowsNext ==
  ASSUME TypeInv, LimitInv, [Next]_vars, NEW g \in Handlers
  PROVE  LimitKnows(g)'
<1>1. LimitKnows(g) /\ req[g] \in Req
  BY DEF LimitInv, TypeInv, TypeOK
<1>2. pc[g] \in Locked => req[g].patron \in Patrons /\ borrowMu[req[g].patron] = g
  BY <1>1 DEF LimitKnows, TypeInv, LocalsOK, LocalOK
<1>3. CASE UNCHANGED <<pc, req, borrowMu>>
  <2>1. ~ BorrowCheckout(g)
    BY <1>3 DEF BorrowCheckout, Finish, Goto, TypeInv, TypeOK
  <2> QED  BY <1>2, <1>3, <2>1, LimitKept
<1>4. ASSUME NEW h \in Handlers, BorrowLock(h)
      PROVE  LimitKnows(g)'
  <2>1. PICK p \in Patrons : p = req[h].patron
    BY <1>4 DEF BorrowLock, TypeInv, LocalsOK, LocalOK
  <2>2. CASE g # h
    <3>1. pc'[g] = pc[g] /\ req'[g] = req[g]
      BY <1>4, <2>2, HandlerMoves DEF BorrowLock, Finish
    <3>2. pc[g] \in Locked => borrowMu'[req[g].patron] = g
      <4>1. borrowMu[p] = Nobody
        BY <1>4, <2>1 DEF BorrowLock
      <4>2. pc[g] \in Locked => req[g].patron # p
        BY <1>2, <4>1, ReferenceAssumption
      <4>3. \A q \in Patrons : q # p => borrowMu'[q] = borrowMu[q]
        BY <1>4, <2>1 DEF BorrowLock, TypeInv, TypeOK
      <4> QED  BY <1>2, <4>2, <4>3
    <3>3. ~ BorrowCheckout(g)
      BY <1>4, <2>2, <3>1 DEF BorrowCheckout, Finish, Goto, TypeInv, TypeOK
    <3> QED  BY <3>1, <3>2, <3>3, LimitKept
  <2>3. CASE g = h
    <3>1. \/ pc'[g] = "idle"
          \/ pc'[g] = "borrowItem" /\ req'[g] = req[g] /\ borrowMu'[p] = g
      BY <1>4, <2>1, <2>3, HandlerMoves DEF BorrowLock, Finish, TypeInv, TypeOK
    <3> QED  BY <2>1, <2>3, <3>1 DEF LimitKnows, Locked
  <2> QED  BY <2>2, <2>3
<1>5. ASSUME NEW h \in Handlers, LockedReads(h)
      PROVE  LimitKnows(g)'
  <2>1. UNCHANGED tables /\ (UNCHANGED borrowMu \/ (Unlock(h) /\ Finish(h)))
        /\ pc[h] \in Locked /\ pc[h] # "borrowCheckout"
    BY <1>5 DEF LockedReads, BorrowItem, BorrowCount, BorrowVip, Locked
  <2>2. CASE g # h
    <3>1. pc'[g] = pc[g] /\ req'[g] = req[g]
      BY <1>5, <2>2, HandlerMoves DEF LockedReads, BorrowItem, BorrowCount, BorrowVip, Finish
    <3>2. pc[g] \in Locked => borrowMu'[req[g].patron] = g
      BY <1>2, <2>1, <2>2 DEF Unlock
    <3>3. ~ BorrowCheckout(g)
      BY <3>1 DEF BorrowCheckout, Finish, Goto, TypeInv, TypeOK
    <3> QED  BY <3>1, <3>2, <3>3, LimitKept
  <2>3. CASE g = h
    <3>1. PICK p \in Patrons : p = req[g].patron /\ borrowMu[p] = g
      BY <1>2, <2>1, <2>3
    <3>2. ActiveLoans(p)' = ActiveLoans(p) /\ everVip' = everVip
      BY <2>1 DEF tables, ActiveLoans
    <3>3. CASE Finish(h)
      BY <2>3, <3>3, HandlerMoves DEF Finish, LimitKnows, Locked
    <3>4. CASE Goto(h, "borrowCount", req[h]) /\ UNCHANGED borrowMu
      <4>1. pc'[g] = "borrowCount" /\ req'[g] = req[g]
        BY <2>3, <3>4, HandlerMoves
      <4> QED  BY <3>1, <3>4, <4>1 DEF LimitKnows
    <3>5. CASE BorrowCount(h)
      <4> DEFINE locals == [req[h] EXCEPT !.n = Cardinality(ActiveLoans(req[h].patron))]
      <4>1. locals.n = Cardinality(ActiveLoans(p)) /\ locals.patron = p
        BY <1>1, <2>3, <3>1 DEF Req
      <4>2. Goto(h, "borrowVip", locals) /\ borrowMu' = borrowMu
        BY <3>5 DEF BorrowCount
      <4> HIDE DEF locals
      <4>3. pc'[g] = "borrowVip" /\ req'[g].n = Cardinality(ActiveLoans(p))
            /\ req'[g].patron = p /\ borrowMu'[p] = g
        BY <2>3, <3>1, <4>1, <4>2, HandlerMoves
      <4>4. Cardinality(ActiveLoans(p)) \in Nat
        BY ActiveLoansFinite
      <4>5. Cardinality(ActiveLoans(p)') <= req'[g].n
        BY <3>2, <4>3, <4>4
      <4> QED  BY <4>3, <4>5 DEF LimitKnows
    <3>6. CASE /\ pc[h] = "borrowVip" /\ req[h].n < LoanLimit(req[h].patron \in vip)
               /\ Goto(h, "borrowCheckout", req[h]) /\ UNCHANGED borrowMu
      <4>1. pc'[g] = "borrowCheckout" /\ req'[g] = req[g] /\ borrowMu'[p] = g
        BY <2>3, <3>1, <3>6, HandlerMoves
      <4>2. Cardinality(ActiveLoans(p)) <= req[g].n /\ req[g].n < LoanLimit(p \in vip)
        BY <1>1, <2>3, <3>1, <3>6 DEF LimitKnows
      <4>3. Cardinality(ActiveLoans(p)) \in Nat /\ req[g].n \in Nat
        BY <1>1, ActiveLoansFinite DEF Req
      <4>4. Cardinality(ActiveLoans(p)) < LoanLimit(p \in everVip)
        BY <4>2, <4>3, LimitGrows
      <4>5. Cardinality(ActiveLoans(p)') < LoanLimit(p \in everVip')
        BY <3>2, <4>4
      <4>6. req'[g].patron = p
        BY <3>1, <4>1
      <4> QED  BY <4>1, <4>5, <4>6 DEF LimitKnows
    <3> QED  BY <1>5, <3>3, <3>4, <3>5, <3>6 DEF LockedReads, BorrowItem, BorrowVip
  <2> QED  BY <2>2, <2>3
<1>6. ASSUME NEW h \in Handlers, NEW label, NEW locals, Goto(h, label, locals), label \notin Locked,
             UNCHANGED borrowMu \/ Unlock(h)
      PROVE  LimitKnows(g)'
  <2>1. CASE g = h
    BY <1>6, <2>1, HandlerMoves DEF LimitKnows, Locked
  <2>2. CASE g # h
    <3>1. pc'[g] = pc[g] /\ req'[g] = req[g]
      BY <1>6, <2>2, HandlerMoves
    <3>2. pc[g] \in Locked => borrowMu'[req[g].patron] = g
      BY <1>2, <1>6, <2>2 DEF Unlock
    <3>3. ~ BorrowCheckout(g)
      BY <3>1 DEF BorrowCheckout, Finish, Goto, TypeInv, TypeOK
    <3> QED  BY <3>1, <3>2, <3>3, LimitKept
  <2> QED  BY <2>1, <2>2
<1> QED  BY <1>3, <1>4, <1>5, <1>6, LockMoves

LEMMA LimitInvNext == TypeInv /\ LimitInv /\ [Next]_vars => LimitInv'
<1> SUFFICES ASSUME TypeInv, LimitInv, [Next]_vars
             PROVE  LimitInv'
  OBVIOUS
<1>1. ASSUME NEW p \in Patrons
      PROVE  Cardinality(ActiveLoans(p)') <= LoanLimit(p \in everVip')
  <2>1. PICK a, b : a = Cardinality(ActiveLoans(p)) /\ b = Cardinality(ActiveLoans(p)')
    OBVIOUS
  <2>2. a \in Nat
    BY <2>1, ActiveLoansFinite
  <2>3. b \in Nat
    <3>1. IsFiniteSet(1..MaxLoanId) /\ ActiveLoans(p)' \in SUBSET (1..MaxLoanId)
      BY NumberAssumption, FS_Interval DEF ActiveLoans, LoanIds
    <3> QED  BY <2>1, <3>1, FS_Subset, FS_CardinalityType
  <2>4. a <= LoanLimit(p \in everVip)
    BY <2>1 DEF LimitInv, LoansWithinLimit
  <2>5. CASE b <= a
    BY <2>1, <2>2, <2>3, <2>4, <2>5, LimitGrows
  <2>6. CASE b = a + 1 /\ \E h \in Handlers : BorrowCheckout(h) /\ req[h].patron = p
    <3>1. PICK h \in Handlers : BorrowCheckout(h) /\ req[h].patron = p
      BY <2>6
    <3>2. LimitKnows(h) /\ pc[h] = "borrowCheckout"
      BY <3>1 DEF LimitInv, BorrowCheckout
    <3>3. a < LoanLimit(p \in everVip)
      BY <2>1, <3>1, <3>2 DEF LimitKnows
    <3> QED  BY <2>1, <2>2, <2>6, <3>3, LimitGrows
  <2> QED  BY <2>1, <2>5, <2>6, LoanCounts
<1>2. LoansWithinLimit'
  BY <1>1 DEF LoansWithinLimit
<1>3. \A g \in Handlers : LimitKnows(g)'
  BY LimitKnowsNext
<1> QED  BY <1>2, <1>3 DEF LimitInv

LEMMA LimitInvInit == Init => LimitInv
<1> SUFFICES ASSUME Init
             PROVE  LimitInv
  OBVIOUS
<1>1. ASSUME NEW p \in Patrons
      PROVE  Cardinality(ActiveLoans(p)) <= LoanLimit(p \in everVip)
  <2>1. ActiveLoans(p) = {}
    BY DEF Init, ActiveLoans, NoLoan
  <2>2. LoanLimit(p \in everVip) \in Nat
    BY NumberAssumption DEF LoanLimit
  <2> QED  BY <2>1, <2>2, FS_EmptySet
<1> QED  BY <1>1 DEF Init, LimitInv, LoansWithinLimit, LimitKnows, Locked

LEMMA LimitInvariance == Spec => []LimitInv
BY LimitInvInit, LimitInvNext, TypeInvariance, PTL DEF Spec

\* Borrow: the mutex of the patron keeps the limit although counting and
\* lending are separate statements, on both databases and whatever fails.
THEOREM LimitHolds == Spec => []LoansWithinLimit
<1>1. LimitInv => LoansWithinLimit
  BY DEF LimitInv
<1> QED  BY <1>1, LimitInvariance, PTL

----------------------------------------------------------------------------
(* Holds.  Over SQLite a return chooses whom to wake and wakes him in one   *)
(* step; over MySQL it wakes whom it chose in its snapshot, whatever has    *)
(* become of his hold, unless that is deleted.                              *)

\* What else a hold says when its status changes.
SameHold(k) ==
  /\ holds'[k].book = holds[k].book /\ holds'[k].patron = holds[k].patron
  /\ holds'[k].pos = holds[k].pos /\ holds'[k].before = holds[k].before

Inserted(h, k) ==
  /\ HoldInsert(h) /\ holds[k].status = "none" /\ holds'[k].status = "waiting"
  /\ holds'[k].book = req[h].book /\ holds'[k].pos = req[h].n
  /\ holds'[k].before = req[h].before /\ holds'[k].copy = Nobody

Awoken(h, l, k) ==
  /\ ReturnTx(h, l) /\ k \in InLineFor(l) /\ req'[h].hold = k /\ pc'[h] = "notifyHold"
  /\ holds'[k].status = "fulfilled" /\ SameHold(k)
  /\ holds'[k].copy = loans[l].copy

Committed(h, k) ==
  /\ ReturnCommit(h) /\ req[h].hold = k /\ holds[k].status \notin {"none", "deleted"}
  /\ holds'[k].status = "fulfilled" /\ SameHold(k)

Ended(k) ==
  /\ \/ holds[k].status = "waiting" /\ holds'[k].status = "cancelled"
     \/ /\ holds[k].status \in {"waiting", "fulfilled", "cancelled"}
        /\ holds'[k].status = "deleted"
  /\ SameHold(k) /\ holds'[k].copy = holds[k].copy

HoldChange(k) ==
  \/ holds'[k] = holds[k]
  \/ \E h \in Handlers : Inserted(h, k)
  \/ \E h \in Handlers, l \in LoanIds : Awoken(h, l, k)
  \/ \E h \in Handlers : Committed(h, k)
  \/ Ended(k)

LEMMA InLineWaits ==
  ASSUME NEW l, NEW k \in InLineFor(l)
  PROVE  k \in HoldIds /\ holds[k].status = "waiting"
BY DEF InLineFor, NextInQueue, WaitingHolds, HoldsOf

\* The writes of a return wake one hold or none.
LEMMA ReturnAwakes ==
  ASSUME TypeInv, NEW h \in Handlers, NEW l \in LoanIds, ReturnTx(h, l), NEW k \in HoldIds
  PROVE  HoldChange(k)
<1>1. PICK wake \in Woken(l) :
        ReturnWrites(l, today, wake) /\ ReturnNotify(h, l, Fine(loans[l].due, today), wake)
  BY DEF ReturnTx
<1>2. CASE wake = 0
  BY <1>1, <1>2 DEF ReturnWrites, HoldChange
<1>3. CASE wake # 0
  <2>1. wake \in InLineFor(l) /\ wake \in HoldIds /\ holds[wake].status = "waiting"
    BY <1>3, InLineWaits DEF Woken
  <2>2. loans[l].copy \in Copies
    BY DEF ReturnTx, TypeInv, RowsOK
  <2> DEFINE woken == [holds[wake] EXCEPT !.status = "fulfilled", !.copy = loans[l].copy]
  <2>3. holds' = [holds EXCEPT ![wake] = woken]
    BY <1>1, <1>3, <2>1 DEF ReturnWrites
  <2>4. /\ woken.status = "fulfilled" /\ woken.copy = loans[l].copy
        /\ woken.book = holds[wake].book /\ woken.patron = holds[wake].patron
        /\ woken.pos = holds[wake].pos /\ woken.before = holds[wake].before
    BY <2>1 DEF TypeInv, TypeOK, Hold
  <2> HIDE DEF woken
  <2>5. holds'[wake] = woken /\ \A j \in HoldIds \ {wake} : holds'[j] = holds[j]
    BY <2>1, <2>3 DEF TypeInv, TypeOK
  <2>6. pc'[h] = "notifyHold" /\ req'[h].hold = wake
    <3> DEFINE locals == [NoReq EXCEPT !.loan = l, !.hold = wake,
                                       !.owed = Fine(loans[l].due, today)]
    <3>1. Goto(h, "notifyHold", locals)
      BY <1>1, <1>3 DEF ReturnNotify
    <3>2. locals.hold = wake
      BY DEF NoReq
    <3> HIDE DEF locals
    <3> QED  BY <3>1, <3>2, HandlerMoves
  <2>7. CASE k = wake
    BY <2>1, <2>4, <2>5, <2>6, <2>7 DEF HoldChange, Awoken, SameHold
  <2>8. CASE k # wake
    BY <2>5, <2>8 DEF HoldChange
  <2> QED  BY <2>7, <2>8
<1> QED  BY <1>2, <1>3

LEMMA CommitAwakes ==
  ASSUME TypeInv, NEW h \in Handlers, ReturnCommit(h), NEW k \in HoldIds
  PROVE  HoldChange(k)
<1>1. PICK wake, l : wake = req[h].hold /\ l = req[h].loan
  OBVIOUS
<1>2. ReturnWrites(l, req[h].day, wake) /\ pc[h] = "returnCommit"
  BY <1>1 DEF ReturnCommit
<1>3. wake # 0 => wake \in HoldIds /\ holds[wake].status # "none"
  BY <1>1, <1>2 DEF TypeInv, LocalsOK, LocalOK
<1>4. CASE wake = 0 \/ holds[wake].status = "deleted"
  BY <1>2, <1>4 DEF ReturnWrites, HoldChange
<1>5. CASE wake # 0 /\ holds[wake].status # "deleted"
  <2> DEFINE woken == [holds[wake] EXCEPT !.status = "fulfilled", !.copy = loans[l].copy]
  <2>1. holds' = [holds EXCEPT ![wake] = woken]
    BY <1>2, <1>5 DEF ReturnWrites
  <2>2. /\ woken.status = "fulfilled" /\ woken.book = holds[wake].book
        /\ woken.patron = holds[wake].patron /\ woken.pos = holds[wake].pos
        /\ woken.before = holds[wake].before
    BY <1>3, <1>5 DEF TypeInv, TypeOK, Hold
  <2> HIDE DEF woken
  <2>3. holds'[wake] = woken /\ \A j \in HoldIds \ {wake} : holds'[j] = holds[j]
    BY <1>3, <1>5, <2>1 DEF TypeInv, TypeOK
  <2>4. CASE k = wake
    BY <1>1, <1>3, <1>5, <2>2, <2>3, <2>4 DEF HoldChange, Committed, SameHold
  <2>5. CASE k # wake
    BY <2>3, <2>5 DEF HoldChange
  <2> QED  BY <2>4, <2>5
<1> QED  BY <1>4, <1>5

LEMMA HoldSteps ==
  ASSUME TypeInv, [Next]_vars, NEW k \in HoldIds
  PROVE  HoldChange(k)
<1>1. CASE UNCHANGED holds
  BY <1>1 DEF HoldChange
<1>2. CASE \E h \in Handlers : HoldInsert(h)
  <2>1. PICK h \in Handlers : HoldInsert(h)
    BY <1>2
  <2> DEFINE row == [book |-> req[h].book, patron |-> req[h].patron, copy |-> Nobody,
                     pos |-> req[h].n, before |-> req[h].before, status |-> "waiting"]
  <2>2. CASE nextHold \in HoldIds
    <3>1. holds' = [holds EXCEPT ![nextHold] = row]
      BY <2>1, <2>2 DEF HoldInsert
    <3>2. /\ row.status = "waiting" /\ row.book = req[h].book /\ row.pos = req[h].n
          /\ row.before = req[h].before /\ row.copy = Nobody
      OBVIOUS
    <3> HIDE DEF row
    <3>3. holds'[nextHold] = row /\ \A j \in HoldIds \ {nextHold} : holds'[j] = holds[j]
      BY <2>2, <3>1 DEF TypeInv, TypeOK
    <3>4. holds[nextHold].status = "none"
      BY <2>2, NumberAssumption DEF TypeInv, TypeOK, RowsOK
    <3> QED  BY <2>1, <3>2, <3>3, <3>4 DEF HoldChange, Inserted
  <2>3. CASE nextHold \notin HoldIds
    BY <2>1, <2>3 DEF HoldInsert, HoldChange
  <2> QED  BY <2>2, <2>3
<1>3. CASE \E h \in Handlers, l \in LoanIds : ReturnTx(h, l)
  BY <1>3, ReturnAwakes
<1>4. CASE \E j \in HoldIds : CancelHold(j)
  <2>1. PICK j \in HoldIds : CancelHold(j)
    BY <1>4
  <2> DEFINE gone == [holds[j] EXCEPT !.status = "cancelled"]
  <2>2. holds[j].status = "waiting" /\ holds' = [holds EXCEPT ![j] = gone]
    BY <2>1 DEF CancelHold, CancelWaiting
  <2>3. /\ gone.status = "cancelled" /\ gone.copy = holds[j].copy
        /\ gone.book = holds[j].book /\ gone.patron = holds[j].patron
        /\ gone.pos = holds[j].pos /\ gone.before = holds[j].before
    BY DEF TypeInv, TypeOK, Hold
  <2> HIDE DEF gone
  <2>4. holds'[j] = gone /\ \A i \in HoldIds \ {j} : holds'[i] = holds[i]
    BY <2>2 DEF TypeInv, TypeOK
  <2> QED  BY <2>2, <2>3, <2>4 DEF HoldChange, Ended, SameHold
<1>5. CASE \E h \in Handlers : DeleteBook(h)
  <2>1. PICK h \in Handlers : DeleteBook(h)
    BY <1>5
  <2> DEFINE gone == [holds[k] EXCEPT !.status = "deleted"]
  <2>2. holds'[k] = IF k \in HoldsOf(req[h].book) THEN gone ELSE holds[k]
    BY <2>1 DEF DeleteBook
  <2>3. /\ gone.status = "deleted" /\ gone.copy = holds[k].copy
        /\ gone.book = holds[k].book /\ gone.patron = holds[k].patron
        /\ gone.pos = holds[k].pos /\ gone.before = holds[k].before
    BY DEF TypeInv, TypeOK, Hold
  <2>4. k \in HoldsOf(req[h].book) => holds[k].status \in {"waiting", "fulfilled", "cancelled"}
    BY DEF HoldsOf
  <2> HIDE DEF gone
  <2> QED  BY <2>2, <2>3, <2>4 DEF HoldChange, Ended, SameHold
<1>6. CASE \E h \in Handlers : ReturnCommit(h)
  BY <1>6, CommitAwakes
<1>7. \/ UNCHANGED holds
      \/ \E h \in Handlers : HoldInsert(h) \/ DeleteBook(h) \/ ReturnCommit(h)
      \/ \E h \in Handlers, l \in LoanIds : ReturnTx(h, l)
      \/ \E j \in HoldIds : CancelHold(j)
  <2>1. CASE UNCHANGED vars
    BY <2>1 DEF vars
  <2>2. CASE Direct
    BY <2>2 DEF Direct, AddCopy, SetVip, SetStatus, NextDay
  <2>3. ASSUME NEW h \in Handlers, Arrive(h)
        PROVE  UNCHANGED holds \/ \E l \in LoanIds : ReturnTx(h, l)
    BY <2>3 DEF Arrive, BorrowRequest, ReturnSnapshot, RenewLoan, HoldBook, DeleteBookLoans,
                DeleteItemLoans, tables
  <2>4. ASSUME NEW h \in Handlers, Continue(h)
        PROVE  UNCHANGED holds \/ HoldInsert(h) \/ DeleteBook(h) \/ ReturnCommit(h)
    BY <2>4 DEF Continue, BorrowLock, BorrowItem, BorrowCount, BorrowVip, BorrowCheckout,
       NotifyHold, NotifyFine, RenewItem, RenewHolds, RenewCheckout,
       HoldItems, HoldOwn, HoldPos, DeleteBookHolds, DeleteItem, tables
  <2>5. ASSUME NEW h \in Handlers, Fault(h)
        PROVE  UNCHANGED holds
    BY <2>5 DEF Fault, tables
  <2> QED  BY <2>1, <2>2, <2>3, <2>4, <2>5 DEF Next
<1> QED  BY <1>1, <1>2, <1>3, <1>4, <1>5, <1>6, <1>7

\* ReturnTx and CancelHoldByID: a hold that was woken, cancelled or deleted
\* with its book stays so, whatever cancellations and returns race for it.
THEOREM HoldsEnd ==
  ASSUME Driver = "sqlite"
  PROVE  Spec => HoldsEndOnce
<1>1. TypeInv /\ ShelfInv /\ [Next]_vars =>
        [\A k \in HoldIds :
           holds[k].status \in {"fulfilled", "cancelled", "deleted"}
             => /\ holds'[k].status \in {holds[k].status, "deleted"}
                /\ holds'[k].copy = holds[k].copy]_vars
  <2> SUFFICES ASSUME TypeInv, ShelfInv, [Next]_vars, NEW k \in HoldIds,
                      holds[k].status \in {"fulfilled", "cancelled", "deleted"}
               PROVE  /\ holds'[k].status \in {holds[k].status, "deleted"}
                      /\ holds'[k].copy = holds[k].copy
    OBVIOUS
  <2>1. HoldChange(k) /\ \A h \in Handlers : ~ Committed(h, k)
    BY HoldSteps DEF ShelfInv, Committed, ReturnCommit
  <2> QED  BY <2>1, InLineWaits DEF HoldChange, Inserted, Awoken, Ended
<1> QED  BY <1>1, TypeInvariance, ShelfInvariance, PTL DEF Spec, HoldsEndOnce

----------------------------------------------------------------------------
(* The queue, on both databases.  CreateHold reads the end of the queue and *)
(* inserts the row in two statements: between them the holds it has read    *)
(* stay in front of the place it takes.  Over MySQL ReturnTx chooses whom   *)
(* to wake and wakes him in two steps, between which nobody gets in front   *)
(* of him, for a hold that left the queue does not come back.               *)

\* The holds in before have a place in the queue of book, in front of pos.
InFront(before, book, pos) ==
  \A j \in before :
    j \in HoldIds /\ holds[j].status # "none" /\ holds[j].book = book /\ holds[j].pos < pos

\* Nobody waits in front of the hold.
First(k) == \A j \in holds[k].before : holds[j].status # "waiting"

QueueInv ==
  /\ \A k \in HoldIds :
       holds[k].status # "none" => InFront(holds[k].before, holds[k].book, holds[k].pos)
  /\ \A h \in Handlers :
       /\ pc[h] = "holdInsert" => InFront(req[h].before, req[h].book, req[h].n)
       /\ pc[h] = "returnCommit" /\ req[h].hold # 0 => First(req[h].hold)

LEMMA QueueEndLast ==
  ASSUME TypeOK, RowsOK, NEW b, NEW k \in HoldsOf(b)
  PROVE  holds[k].pos < QueueEnd(b)
<1> DEFINE S == {0} \cup {holds[j].pos : j \in HoldsOf(b)}
<1>1. \A s \in S : s \in Nat /\ s <= nextHold
  <2>1. ASSUME NEW j \in HoldsOf(b)
        PROVE  holds[j].pos \in Nat /\ holds[j].pos <= nextHold
    <3>1. j \in HoldIds /\ holds[j].status # "none"
      BY DEF HoldsOf
    <3>2. holds[j].pos \in Nat /\ nextHold \in Nat /\ j \in Nat
      BY <3>1, NumberAssumption DEF TypeOK, Hold, HoldIds
    <3>3. holds[j].pos <= j /\ j < nextHold
      <4>1. holds[j].pos <= j /\ ~ (j >= nextHold)
        BY <3>1 DEF RowsOK
      <4> QED  BY <3>2, <4>1
    <3> QED  BY <3>2, <3>3
  <2>2. nextHold \in Nat
    BY NumberAssumption DEF TypeOK
  <2> QED  BY <2>1, <2>2
<1>2. nextHold \in Nat
  BY NumberAssumption DEF TypeOK
<1>3. holds[k].pos \in S /\ holds[k].pos \in Nat
  BY <1>1
<1>4. QueueEnd(b) = Max(S) + 1
  BY DEF QueueEnd
<1> HIDE DEF S
<1>5. Max(S) \in S /\ holds[k].pos <= Max(S)
  BY <1>1, <1>2, <1>3, MaxOfBounded
<1> QED  BY <1>1, <1>3, <1>4, <1>5

LEMMA HoldLocals ==
  ASSUME TypeInv, [Next]_vars, NEW g \in Handlers, pc'[g] = "holdInsert"
  PROVE  \/ pc[g] = "holdInsert" /\ req'[g] = req[g]
         \/ /\ UNCHANGED holds /\ req'[g].book = req[g].book
            /\ req'[g].n = QueueEnd(req[g].book) /\ req'[g].before = HoldsOf(req[g].book)
<1>1. CASE UNCHANGED <<pc, req>>
  BY <1>1
<1>2. ASSUME NEW h \in Handlers, HoldPos(h)
      PROVE  \/ pc[g] = "holdInsert" /\ req'[g] = req[g]
             \/ /\ UNCHANGED holds /\ req'[g].book = req[g].book
                /\ req'[g].n = QueueEnd(req[g].book)
                /\ req'[g].before = HoldsOf(req[g].book)
  <2> DEFINE place == [req[h] EXCEPT !.n = QueueEnd(req[h].book)]
             locals == [place EXCEPT !.before = HoldsOf(req[h].book)]
  <2>1. Goto(h, "holdInsert", [req[h] EXCEPT !.n = QueueEnd(req[h].book),
                                             !.before = HoldsOf(req[h].book)])
        /\ UNCHANGED holds
    BY <1>2 DEF HoldPos, tables
  <2>2. req[h] \in Req
    BY DEF TypeInv, TypeOK
  <2>3. Goto(h, "holdInsert", locals)
    BY <2>1
  <2>4. /\ locals.book = req[h].book /\ locals.n = QueueEnd(req[h].book)
        /\ locals.before = HoldsOf(req[h].book)
    BY <2>2 DEF Req
  <2> HIDE DEF locals, place
  <2> QED  BY <2>1, <2>3, <2>4, HandlerMoves
<1>3. ASSUME NEW h \in Handlers, Arrive(h) \/ Continue(h) \/ Fault(h), ~ HoldPos(h)
      PROVE  pc[g] = "holdInsert" /\ req'[g] = req[g]
  <2>1. \E label : pc' = [pc EXCEPT ![h] = label] /\ label # "holdInsert"
    <3>1. CASE Arrive(h)
      BY <3>1 DEF Arrive, BorrowRequest, ReturnTx, ReturnSnapshot, RenewLoan, HoldBook,
         DeleteBookLoans, DeleteItemLoans, Begin, Goto, ReturnNotify, Finish
    <3>2. CASE ReturnCommit(h) \/ Fault(h)
      BY <3>2 DEF ReturnCommit, Fault, ReturnNotify, Finish, Goto
    <3>3. CASE Continue(h) /\ ~ ReturnCommit(h)
      BY <1>3, <3>3 DEF Continue, BorrowLock, BorrowItem, BorrowCount, BorrowVip,
         BorrowCheckout, NotifyHold, NotifyFine, RenewItem, RenewHolds, RenewCheckout,
         HoldItems, HoldOwn, HoldInsert, DeleteBookHolds, DeleteBook, DeleteItem, Finish, Goto
    <3> QED  BY <1>3, <3>1, <3>2, <3>3
  <2>2. \E label, locals : Goto(h, label, locals)
    BY <1>3 DEF Arrive, Continue, Fault, BorrowRequest, ReturnTx, ReturnSnapshot, RenewLoan,
       HoldBook, DeleteBookLoans, DeleteItemLoans, BorrowLock, BorrowItem, BorrowCount,
       BorrowVip, BorrowCheckout, ReturnCommit, NotifyHold, NotifyFine, RenewItem, RenewHolds,
       RenewCheckout, HoldItems, HoldOwn, HoldInsert, DeleteBookHolds, DeleteBook, DeleteItem,
       Begin, Finish, ReturnNotify
  <2>3. h # g
    BY <1>3, <2>1 DEF TypeInv, TypeOK
  <2> QED  BY <2>2, <2>3, HandlerMoves
<1> QED  BY <1>1, <1>2, <1>3 DEF Next, Direct, CancelHold, AddCopy, SetVip, SetStatus, NextDay,
         vars

\* A hold keeps its place.
LEMMA PlacesKeep ==
  ASSUME TypeInv, [Next]_vars, NEW k \in HoldIds, holds[k].status # "none"
  PROVE  /\ holds'[k].status # "none" /\ SameHold(k)
         /\ holds[k].status # "waiting" => holds'[k].status # "waiting"
<1>1. HoldChange(k)
  BY HoldSteps
<1> QED  BY <1>1 DEF HoldChange, Inserted, Awoken, Committed, Ended, SameHold

\* The head of the queue has nobody in front of it.
LEMMA HeadIsFirst ==
  ASSUME TypeInv, QueueInv, NEW l, NEW k \in InLineFor(l)
  PROVE  First(k)
<1> SUFFICES ASSUME NEW j \in holds[k].before, holds[j].status = "waiting"
             PROVE  FALSE
  BY DEF First
<1>1. PICK b : k \in NextInQueue(b)
  BY DEF InLineFor
<1>2. k \in HoldIds /\ holds[k].status = "waiting"
  BY InLineWaits
<1>3. InFront(holds[k].before, holds[k].book, holds[k].pos)
  BY <1>2 DEF QueueInv
<1>4. j \in HoldIds /\ holds[j].book = holds[k].book /\ holds[j].pos < holds[k].pos
  BY <1>3 DEF InFront
<1>5. j \in WaitingHolds(b)
  BY <1>1, <1>4 DEF NextInQueue, WaitingHolds, HoldsOf
<1>6. holds[j].pos \in Nat /\ holds[k].pos \in Nat
  BY <1>2, <1>4 DEF TypeInv, TypeOK, Hold
<1> QED  BY <1>1, <1>4, <1>5, <1>6 DEF NextInQueue

\* A return on its way to commit has chosen just now, or stays with its choice.
LEMMA CommitLocals ==
  ASSUME TypeInv, [Next]_vars, NEW g \in Handlers, pc'[g] = "returnCommit"
  PROVE  \/ pc[g] = "returnCommit" /\ req'[g] = req[g]
         \/ /\ UNCHANGED holds
            /\ req'[g].hold # 0 => \E l \in LoanIds : req'[g].hold \in InLineFor(l)
<1>1. CASE UNCHANGED <<pc, req>>
  BY <1>1
<1>2. ASSUME NEW h \in Handlers, NEW l \in LoanIds, ReturnSnapshot(h, l)
      PROVE  \/ pc[g] = "returnCommit" /\ req'[g] = req[g]
             \/ /\ UNCHANGED holds
                /\ req'[g].hold # 0 => \E m \in LoanIds : req'[g].hold \in InLineFor(m)
  <2>1. PICK wake \in Woken(l) :
          Begin(h, "returnCommit", [NoReq EXCEPT !.loan = l, !.hold = wake, !.day = today])
    BY <1>2 DEF ReturnSnapshot
  <2> DEFINE locals == [NoReq EXCEPT !.loan = l, !.hold = wake, !.day = today]
  <2>2. Goto(h, "returnCommit", locals) /\ locals.hold = wake
    BY <2>1 DEF Begin, NoReq
  <2> HIDE DEF locals
  <2>3. UNCHANGED holds /\ (wake # 0 => wake \in InLineFor(l))
    BY <1>2 DEF ReturnSnapshot, tables, Woken
  <2> QED  BY <2>2, <2>3, HandlerMoves
<1>3. ASSUME NEW h \in Handlers, Arrive(h) \/ Continue(h) \/ Fault(h),
             \A l \in LoanIds : ~ ReturnSnapshot(h, l)
      PROVE  pc[g] = "returnCommit" /\ req'[g] = req[g]
  <2>1. \E label, locals : label # "returnCommit" /\ Goto(h, label, locals)
    BY <1>3 DEF Arrive, Continue, Fault, BorrowRequest, ReturnTx, RenewLoan,
       HoldBook, DeleteBookLoans, DeleteItemLoans, BorrowLock, BorrowItem, BorrowCount,
       BorrowVip, BorrowCheckout, ReturnCommit, NotifyHold, NotifyFine, RenewItem, RenewHolds,
       RenewCheckout, HoldItems, HoldOwn, HoldPos, HoldInsert, DeleteBookHolds, DeleteBook,
       DeleteItem, Begin, Finish, ReturnNotify
  <2> QED  BY <2>1, HandlerMoves
<1> QED  BY <1>1, <1>2, <1>3 DEF Next, Direct, CancelHold, AddCopy, SetVip, SetStatus, NextDay,
         vars

LEMMA QueueInvNext ==
  ASSUME TypeInv, QueueInv, [Next]_vars
  PROVE  QueueInv'
<1>1. ASSUME NEW before, NEW book, NEW pos, InFront(before, book, pos)
      PROVE  InFront(before, book, pos)'
  BY <1>1, PlacesKeep DEF InFront, SameHold
<1>2. ASSUME NEW k \in HoldIds, holds'[k].status # "none"
      PROVE  InFront(holds[k].before, holds[k].book, holds[k].pos)'
  <2>1. CASE holds[k].status # "none"
    <3>1. PICK before, book, pos :
            before = holds[k].before /\ book = holds[k].book /\ pos = holds[k].pos
      OBVIOUS
    <3>2. InFront(before, book, pos)
      BY <2>1, <3>1 DEF QueueInv
    <3>3. holds'[k].before = before /\ holds'[k].book = book /\ holds'[k].pos = pos
      BY <2>1, <3>1, PlacesKeep DEF SameHold
    <3>4. InFront(before, book, pos)'
      BY <1>1, <3>2
    <3> QED  BY <3>3, <3>4 DEF InFront
  <2>2. CASE holds[k].status = "none"
    <3>1. HoldChange(k)
      BY HoldSteps
    <3>2. PICK h \in Handlers : Inserted(h, k)
      BY <1>2, <2>2, <3>1, InLineWaits DEF HoldChange, Awoken, Committed, Ended
    <3>3. PICK before, book, pos :
            before = req[h].before /\ book = req[h].book /\ pos = req[h].n
      OBVIOUS
    <3>4. InFront(before, book, pos)
      BY <3>2, <3>3 DEF QueueInv, Inserted, HoldInsert
    <3>5. holds'[k].before = before /\ holds'[k].book = book /\ holds'[k].pos = pos
      BY <3>2, <3>3 DEF Inserted
    <3>6. InFront(before, book, pos)'
      BY <1>1, <3>4
    <3> QED  BY <3>5, <3>6 DEF InFront
  <2> QED  BY <2>1, <2>2
<1>3. ASSUME NEW g \in Handlers, pc'[g] = "holdInsert"
      PROVE  InFront(req[g].before, req[g].book, req[g].n)'
  <2>1. CASE pc[g] = "holdInsert" /\ req'[g] = req[g]
    <3>1. PICK before, book, pos :
            before = req[g].before /\ book = req[g].book /\ pos = req[g].n
      OBVIOUS
    <3>2. InFront(before, book, pos)
      BY <2>1, <3>1 DEF QueueInv
    <3>3. InFront(before, book, pos)'
      BY <1>1, <3>2
    <3> QED  BY <2>1, <3>1, <3>3 DEF InFront
  <2>2. CASE /\ UNCHANGED holds /\ req'[g].book = req[g].book
             /\ req'[g].n = QueueEnd(req[g].book) /\ req'[g].before = HoldsOf(req[g].book)
    <3>1. ASSUME NEW j \in HoldsOf(req[g].book)
          PROVE  /\ j \in HoldIds /\ holds[j].status # "none"
                 /\ holds[j].book = req[g].book /\ holds[j].pos < QueueEnd(req[g].book)
      BY QueueEndLast DEF TypeInv, HoldsOf
    <3> QED  BY <2>2, <3>1 DEF InFront
  <2> QED  BY <1>3, <2>1, <2>2, HoldLocals
<1>4. ASSUME NEW k \in HoldIds, holds[k].status # "none", First(k)
      PROVE  First(k)'
  <2>1. holds'[k].before = holds[k].before
    BY <1>4, PlacesKeep DEF SameHold
  <2>2. ASSUME NEW j \in holds[k].before
        PROVE  holds'[j].status # "waiting"
    <3>1. j \in HoldIds /\ holds[j].status # "none"
      BY <1>4 DEF QueueInv, InFront
    <3> QED  BY <1>4, <3>1, PlacesKeep DEF First
  <2> QED  BY <2>1, <2>2 DEF First
<1>5. ASSUME NEW g \in Handlers, pc'[g] = "returnCommit", req'[g].hold # 0
      PROVE  First(req[g].hold)'
  <2>1. PICK k : k = req'[g].hold
    OBVIOUS
  <2>2. First(k) /\ k \in HoldIds /\ holds[k].status # "none"
    <3>1. CASE pc[g] = "returnCommit" /\ req'[g] = req[g]
      BY <1>5, <2>1, <3>1 DEF QueueInv, TypeInv, LocalsOK, LocalOK
    <3>2. CASE \E l \in LoanIds : k \in InLineFor(l)
      BY <3>2, HeadIsFirst, InLineWaits
    <3> QED  BY <1>5, <2>1, <3>1, <3>2, CommitLocals
  <2>3. First(k)'
    BY <1>4, <2>2
  <2> QED  BY <2>1, <2>3 DEF First
<1> QED  BY <1>2, <1>3, <1>5 DEF QueueInv

LEMMA QueueInvInit == Init => QueueInv
BY DEF Init, QueueInv, NoHold

LEMMA QueueInvariance == Spec => []QueueInv
<1>1. TypeInv /\ QueueInv /\ [Next]_vars => QueueInv'
  BY QueueInvNext
<1> QED  BY <1>1, QueueInvInit, TypeInvariance, PTL DEF Spec

\* CreateHold and ReturnTx: a reader whose hold was in the queue when another
\* read its end is not passed over, even if two readers took one position, nor
\* by a return over MySQL that looked at the queue some time before.
THEOREM FirstComeFirstServed == Spec => WakesInArrivalOrder
<1>1. TypeInv /\ QueueInv /\ [Next]_vars =>
        [\A k \in HoldIds :
           holds[k].status = "waiting" /\ holds'[k].status = "fulfilled"
             => \A j \in holds[k].before : holds[j].status # "waiting"]_vars
  <2> SUFFICES ASSUME TypeInv, QueueInv, [Next]_vars, NEW k \in HoldIds,
                      holds[k].status = "waiting", holds'[k].status = "fulfilled"
               PROVE  First(k)
    BY DEF First
  <2>1. HoldChange(k) /\ k # 0
    BY HoldSteps DEF HoldIds
  <2>2. CASE \E h \in Handlers, l \in LoanIds : Awoken(h, l, k)
    BY <2>2, HeadIsFirst DEF Awoken
  <2>3. CASE \E h \in Handlers : Committed(h, k)
    BY <2>1, <2>3 DEF Committed, ReturnCommit, QueueInv
  <2> QED  BY <2>1, <2>2, <2>3 DEF HoldChange, Inserted, Ended
<1> QED  BY <1>1, QueueInvariance, TypeInvariance, PTL DEF Spec, WakesInArrivalOrder

----------------------------------------------------------------------------
(* Notifications, over SQLite and without faults.  A return that wakes a    *)
(* hold or fines a loan has exactly one handler on its way to write the     *)
(* notification, until it is written.                                       *)

Tells(h, k) == pc[h] = "notifyHold" /\ req[h].hold = k
Bills(h, l) == req[h].owed > 0 /\ req[h].loan = l

HoldNotice(k) ==
  IF holds[k].copy = Nobody
  THEN holdTold[k] = 0 /\ \A h \in Handlers : ~ Tells(h, k)
  ELSE \/ holdTold[k] = 1 /\ \A h \in Handlers : ~ Tells(h, k)
       \/ /\ holdTold[k] = 0
          /\ \E h \in Handlers : Tells(h, k) /\ \A g \in Handlers : Tells(g, k) => g = h

FineNotice(l) ==
  IF fines[l] = 0
  THEN fineTold[l] = 0 /\ \A h \in Handlers : ~ Bills(h, l)
  ELSE \/ fineTold[l] = 1 /\ \A h \in Handlers : ~ Bills(h, l)
       \/ /\ fineTold[l] = 0
          /\ \E h \in Handlers : Bills(h, l) /\ \A g \in Handlers : Bills(g, l) => g = h

\* A handler owes a notification only while it stands at one.
Silent(h) == pc[h] # "notifyHold" /\ pc[h] # "notifyFine" /\ req[h].owed = 0
Notifier(h) == Silent(h) \/ pc[h] = "notifyHold" \/ (pc[h] = "notifyFine" /\ req[h].owed > 0)

NoticeInv ==
  /\ \A k \in HoldIds : /\ HoldNotice(k)
                        /\ holds[k].status \in {"none", "waiting"} => holds[k].copy = Nobody
  /\ \A l \in LoanIds : FineNotice(l)
  /\ \A h \in Handlers : Notifier(h)

\* Every other statement owes nothing, before it and after it.
LEMMA QuietMoves ==
  ASSUME Driver = "sqlite", "fault" \notin Ops, TypeInv, ShelfInv, NoticeInv, [Next]_vars,
         \A h \in Handlers, l \in LoanIds : ~ ReturnTx(h, l),
         \A h \in Handlers : ~ NotifyHold(h) /\ ~ NotifyFine(h)
  PROVE  /\ UNCHANGED <<holdTold, fineTold>>
         /\ \A g \in Handlers : \/ pc'[g] = pc[g] /\ req'[g] = req[g]
                                \/ Silent(g) /\ Silent(g)'
<1>1. CASE UNCHANGED <<pc, req, holdTold, fineTold>>
  BY <1>1
<1>2. ASSUME NEW h \in Handlers, UNCHANGED <<holdTold, fineTold>>, Silent(h),
             \E label, locals : /\ Goto(h, label, locals) /\ locals.owed = 0
                                /\ label # "notifyHold" /\ label # "notifyFine"
      PROVE  /\ UNCHANGED <<holdTold, fineTold>>
             /\ \A g \in Handlers : \/ pc'[g] = pc[g] /\ req'[g] = req[g]
                                    \/ Silent(g) /\ Silent(g)'
  BY <1>2, HandlerMoves DEF Silent
<1>3. ASSUME NEW h \in Handlers, Arrive(h)
      PROVE  /\ UNCHANGED <<holdTold, fineTold>> /\ Silent(h)
             /\ \E label, locals : /\ Goto(h, label, locals) /\ locals.owed = 0
                                   /\ label # "notifyHold" /\ label # "notifyFine"
  <2>1. Silent(h)
    <3>1. pc[h] = "idle"
      BY <1>3 DEF Arrive, BorrowRequest, ReturnTx, ReturnSnapshot, RenewLoan, HoldBook,
         DeleteBookLoans, DeleteItemLoans, Begin
    <3> QED  BY <3>1 DEF NoticeInv, Notifier
  <2>2. ASSUME NEW p, NEW c, BorrowRequest(h, p, c)
        PROVE  /\ UNCHANGED <<holdTold, fineTold>>
               /\ \E label, locals : /\ Goto(h, label, locals) /\ locals.owed = 0
                                     /\ label # "notifyHold" /\ label # "notifyFine"
    <3> DEFINE locals == [NoReq EXCEPT !.patron = p, !.copy = c]
    <3>1. Goto(h, "borrowLock", locals) /\ locals.owed = 0
      BY <2>2 DEF BorrowRequest, Begin, NoReq
    <3> HIDE DEF locals
    <3> QED  BY <2>2, <3>1 DEF BorrowRequest, tables
  <2>3. ASSUME NEW l, RenewLoan(h, l)
        PROVE  /\ UNCHANGED <<holdTold, fineTold>>
               /\ \E label, locals : /\ Goto(h, label, locals) /\ locals.owed = 0
                                     /\ label # "notifyHold" /\ label # "notifyFine"
    <3> DEFINE locals == [NoReq EXCEPT !.loan = l, !.day = loans[l].due,
                                       !.n = loans[l].renewals]
    <3>1. Goto(h, "renewItem", locals) /\ locals.owed = 0
      BY <2>3 DEF RenewLoan, Begin, NoReq
    <3> HIDE DEF locals
    <3> QED  BY <2>3, <3>1 DEF RenewLoan, tables
  <2>4. ASSUME NEW p, NEW b, HoldBook(h, p, b)
        PROVE  /\ UNCHANGED <<holdTold, fineTold>>
               /\ \E label, locals : /\ Goto(h, label, locals) /\ locals.owed = 0
                                     /\ label # "notifyHold" /\ label # "notifyFine"
    <3> DEFINE locals == [NoReq EXCEPT !.patron = p, !.book = b]
    <3>1. Goto(h, "holdItems", locals) /\ locals.owed = 0
      BY <2>4 DEF HoldBook, Begin, NoReq
    <3> HIDE DEF locals
    <3> QED  BY <2>4, <3>1 DEF HoldBook, tables
  <2>5. ASSUME NEW b, DeleteBookLoans(h, b)
        PROVE  /\ UNCHANGED <<holdTold, fineTold>>
               /\ \E label, locals : /\ Goto(h, label, locals) /\ locals.owed = 0
                                     /\ label # "notifyHold" /\ label # "notifyFine"
    <3> DEFINE locals == [NoReq EXCEPT !.book = b]
    <3>1. Goto(h, "deleteHolds", locals) /\ locals.owed = 0
      BY <2>5 DEF DeleteBookLoans, Begin, NoReq
    <3> HIDE DEF locals
    <3> QED  BY <2>5, <3>1 DEF DeleteBookLoans, tables
  <2>6. ASSUME NEW c, DeleteItemLoans(h, c)
        PROVE  /\ UNCHANGED <<holdTold, fineTold>>
               /\ \E label, locals : /\ Goto(h, label, locals) /\ locals.owed = 0
                                     /\ label # "notifyHold" /\ label # "notifyFine"
    <3> DEFINE locals == [NoReq EXCEPT !.copy = c]
    <3>1. Goto(h, "deleteItem", locals) /\ locals.owed = 0
      BY <2>6 DEF DeleteItemLoans, Begin, NoReq
    <3> HIDE DEF locals
    <3> QED  BY <2>6, <3>1 DEF DeleteItemLoans, tables
  <2>7. \A l \in LoanIds : ~ ReturnSnapshot(h, l)
    BY DEF ReturnSnapshot
  <2> QED  BY <1>3, <2>1, <2>2, <2>3, <2>4, <2>5, <2>6, <2>7 DEF Arrive
<1>4. ASSUME NEW h \in Handlers, Continue(h)
      PROVE  /\ UNCHANGED <<holdTold, fineTold>> /\ Silent(h)
             /\ \E label, locals : /\ Goto(h, label, locals) /\ locals.owed = 0
                                   /\ label # "notifyHold" /\ label # "notifyFine"
  <2>1. UNCHANGED <<holdTold, fineTold>> /\ pc[h] # "notifyHold" /\ pc[h] # "notifyFine"
        /\ ~ ReturnCommit(h)
    <3>1. ~ ReturnCommit(h)
      BY DEF ShelfInv, ReturnCommit
    <3> QED  BY <1>4, <3>1 DEF Continue, BorrowLock, BorrowItem, BorrowCount, BorrowVip,
         BorrowCheckout, RenewItem, RenewHolds, RenewCheckout, HoldItems, HoldOwn, HoldPos,
         HoldInsert, DeleteBookHolds, DeleteBook, DeleteItem, tables
  <2>2. Silent(h) /\ req[h].owed = 0 /\ NoReq.owed = 0 /\ req[h] \in Req
    BY <2>1 DEF NoticeInv, Notifier, Silent, NoReq, TypeInv, TypeOK
  <2>3. CASE BorrowCount(h)
    <3> DEFINE locals == [req[h] EXCEPT !.n = Cardinality(ActiveLoans(req[h].patron))]
    <3>1. Goto(h, "borrowVip", locals)
      BY <2>3 DEF BorrowCount
    <3>2. locals.owed = 0
      BY <2>2 DEF Req
    <3> HIDE DEF locals
    <3> QED  BY <2>1, <2>2, <3>1, <3>2
  <2>4. CASE HoldPos(h)
    <3> DEFINE place == [req[h] EXCEPT !.n = QueueEnd(req[h].book)]
               locals == [place EXCEPT !.before = HoldsOf(req[h].book)]
    <3>1. Goto(h, "holdInsert", locals)
      BY <2>4 DEF HoldPos
    <3>2. locals.owed = 0
      BY <2>2 DEF Req
    <3> HIDE DEF locals, place
    <3> QED  BY <2>1, <2>2, <3>1, <3>2
  <2>5. CASE ~ BorrowCount(h) /\ ~ HoldPos(h)
    <3>1. \E label, locals :
            /\ Goto(h, label, locals) /\ (locals = req[h] \/ locals = NoReq)
            /\ label # "notifyHold" /\ label # "notifyFine"
      BY <1>4, <2>1, <2>5 DEF Continue, BorrowLock, BorrowItem, BorrowVip,
         BorrowCheckout, RenewItem, RenewHolds, RenewCheckout, HoldItems, HoldOwn,
         HoldInsert, DeleteBookHolds, DeleteBook, DeleteItem, Finish
    <3> QED  BY <2>1, <2>2, <3>1
  <2> QED  BY <2>3, <2>4, <2>5
<1>5. \A h \in Handlers : ~ Fault(h)
  BY DEF Fault
<1> QED  BY <1>1, <1>2, <1>3, <1>4, <1>5 DEF Next, Direct, CancelHold, AddCopy, SetVip,
         SetStatus, NextDay, vars

\* What a return leaves to be written: one hold woken or none, the fine, and
\* the notifications of both with the handler.
LEMMA ReturnMoves ==
  ASSUME "fault" \notin Ops, TypeInv, ShelfInv, FinesMatchLateness,
         NEW h \in Handlers, NEW l \in LoanIds, ReturnTx(h, l)
  PROVE  \E wake, owed \in Nat :
           /\ pc[h] = "idle" /\ UNCHANGED <<holdTold, fineTold>>
           /\ fines[l] = 0 /\ fines'[l] = owed
           /\ \A m \in LoanIds \ {l} : fines'[m] = fines[m]
           /\ wake # 0 => /\ wake \in HoldIds /\ holds[wake].status = "waiting"
                          /\ holds'[wake].copy # Nobody /\ holds'[wake].status = "fulfilled"
           /\ \A k \in HoldIds \ {wake} : holds'[k] = holds[k]
           /\ IF wake # 0 \/ owed > 0
              THEN /\ pc'[h] = IF wake # 0 THEN "notifyHold" ELSE "notifyFine"
                   /\ req'[h].loan = l /\ req'[h].hold = wake /\ req'[h].owed = owed
              ELSE pc'[h] = "idle" /\ req'[h].owed = 0
           /\ \A g \in Handlers \ {h} : pc'[g] = pc[g] /\ req'[g] = req[g]
<1> DEFINE owed == Fine(loans[l].due, today)
<1>1. /\ pc[h] = "idle" /\ loans[l].status = "active" /\ UnchangedByReturn
      /\ UNCHANGED <<holdTold, fineTold>>
  BY DEF ReturnTx, UnchangedByReturn
<1>2. PICK wake \in Woken(l) : ReturnWrites(l, today, wake) /\ ReturnNotify(h, l, owed, wake)
  BY DEF ReturnTx
<1>3. owed \in Nat /\ today \in Nat /\ loans[l].copy \in Copies
  BY <1>1, FineTyped DEF TypeInv, TypeOK, RowsOK, Loan
<1>4. Returned(l, today)
  BY <1>1, <1>2, <1>3, WritesReturn
<1>5. fines[l] = 0
  BY <1>1 DEF FinesMatchLateness
<1>6. fines'[l] = owed /\ \A m \in LoanIds \ {l} : fines'[m] = fines[m]
  BY <1>3, <1>4, <1>5 DEF Returned
<1>7. wake # 0 => wake \in InLineFor(l) /\ wake \in HoldIds /\ holds[wake].status = "waiting"
  BY <1>2, InLineWaits DEF Woken
<1>8. /\ wake # 0 => holds'[wake].copy # Nobody /\ holds'[wake].status = "fulfilled"
      /\ \A k \in HoldIds \ {wake} : holds'[k] = holds[k]
  <2>1. CASE wake = 0
    BY <1>2, <2>1 DEF ReturnWrites
  <2>2. CASE wake # 0
    <3> DEFINE woken == [holds[wake] EXCEPT !.status = "fulfilled", !.copy = loans[l].copy]
    <3>1. holds' = [holds EXCEPT ![wake] = woken]
      BY <1>2, <1>7, <2>2 DEF ReturnWrites
    <3>2. woken.copy = loans[l].copy /\ woken.status = "fulfilled"
      BY <1>7, <2>2 DEF TypeInv, TypeOK, Hold
    <3> HIDE DEF woken
    <3>3. holds'[wake] = woken /\ \A k \in HoldIds \ {wake} : holds'[k] = holds[k]
      BY <1>7, <2>2, <3>1 DEF TypeInv, TypeOK
    <3> QED  BY <1>3, <3>2, <3>3, ReferenceAssumption
  <2> QED  BY <2>1, <2>2
<1>9. IF wake # 0 \/ owed > 0
      THEN /\ pc'[h] = IF wake # 0 THEN "notifyHold" ELSE "notifyFine"
           /\ req'[h].loan = l /\ req'[h].hold = wake /\ req'[h].owed = owed
      ELSE pc'[h] = "idle" /\ req'[h].owed = 0
  <2> DEFINE locals == [NoReq EXCEPT !.loan = l, !.hold = wake, !.owed = owed]
  <2>1. /\ locals.loan = l /\ locals.hold = wake /\ locals.owed = owed /\ NoReq.owed = 0
    BY DEF NoReq
  <2>2. IF wake # 0 \/ owed > 0
        THEN Goto(h, IF wake # 0 THEN "notifyHold" ELSE "notifyFine", locals)
        ELSE Goto(h, "idle", NoReq)
    BY <1>2 DEF ReturnNotify, Finish
  <2> HIDE DEF locals, owed
  <2> QED  BY <2>1, <2>2, HandlerMoves
<1>10. \A g \in Handlers \ {h} : pc'[g] = pc[g] /\ req'[g] = req[g]
  BY <1>2, HandlerMoves DEF ReturnNotify, Finish
<1>11. wake \in Nat
  BY <1>7, NumberAssumption DEF HoldIds
<1> HIDE DEF owed
<1> QED  BY <1>1, <1>3, <1>5, <1>6, <1>7, <1>8, <1>9, <1>10, <1>11

LEMMA NoticeReturn ==
  ASSUME "fault" \notin Ops, TypeInv, ShelfInv, FinesMatchLateness, NoticeInv,
         NEW h \in Handlers, NEW l \in LoanIds, ReturnTx(h, l)
  PROVE  NoticeInv'
<1>1. PICK wake, owed \in Nat :
        /\ pc[h] = "idle" /\ UNCHANGED <<holdTold, fineTold>>
        /\ fines[l] = 0 /\ fines'[l] = owed
        /\ \A m \in LoanIds \ {l} : fines'[m] = fines[m]
        /\ wake # 0 => /\ wake \in HoldIds /\ holds[wake].status = "waiting"
                       /\ holds'[wake].copy # Nobody /\ holds'[wake].status = "fulfilled"
        /\ \A k \in HoldIds \ {wake} : holds'[k] = holds[k]
        /\ IF wake # 0 \/ owed > 0
           THEN /\ pc'[h] = IF wake # 0 THEN "notifyHold" ELSE "notifyFine"
                /\ req'[h].loan = l /\ req'[h].hold = wake /\ req'[h].owed = owed
           ELSE pc'[h] = "idle" /\ req'[h].owed = 0
        /\ \A g \in Handlers \ {h} : pc'[g] = pc[g] /\ req'[g] = req[g]
  BY ReturnMoves, Zenon
<1>2. Silent(h)
  BY <1>1 DEF NoticeInv, Notifier
<1>3. Notifier(h)'
  BY <1>1 DEF Notifier, Silent
<1>4. ASSUME NEW k \in HoldIds
      PROVE  HoldNotice(k)' /\ (holds'[k].status \in {"none", "waiting"} => holds'[k].copy = Nobody)
  <2>1. HoldNotice(k) /\ (holds[k].status \in {"none", "waiting"} => holds[k].copy = Nobody)
    BY DEF NoticeInv
  <2>2. CASE k = wake
    <3>1. holds[k].copy = Nobody /\ holdTold[k] = 0 /\ \A g \in Handlers : ~ Tells(g, k)
      BY <1>1, <2>1, <2>2 DEF HoldNotice, HoldIds
    <3>2. Tells(h, k)' /\ \A g \in Handlers \ {h} : ~ Tells(g, k)'
      BY <1>1, <2>2, <3>1 DEF Tells, HoldIds
    <3> QED  BY <1>1, <2>2, <3>1, <3>2 DEF HoldNotice, HoldIds
  <2>3. CASE k # wake
    <3>1. ~ Tells(h, k) /\ ~ Tells(h, k)'
      BY <1>1, <2>3 DEF Tells
    <3>2. \A g \in Handlers : Tells(g, k)' <=> Tells(g, k)
      BY <1>1, <3>1 DEF Tells
    <3>3. holds'[k] = holds[k] /\ holdTold' = holdTold
      BY <1>1, <2>3
    <3> QED  BY <2>1, <3>2, <3>3 DEF HoldNotice
  <2> QED  BY <2>2, <2>3
<1>5. ASSUME NEW m \in LoanIds
      PROVE  FineNotice(m)'
  <2>1. FineNotice(m)
    BY DEF NoticeInv
  <2>2. CASE m = l /\ owed > 0
    <3>1. fineTold[m] = 0 /\ \A g \in Handlers : ~ Bills(g, m)
      BY <1>1, <2>1, <2>2 DEF FineNotice
    <3>2. Bills(h, m)' /\ \A g \in Handlers \ {h} : ~ Bills(g, m)'
      BY <1>1, <2>2, <3>1 DEF Bills
    <3> QED  BY <1>1, <2>2, <3>1, <3>2 DEF FineNotice
  <2>3. CASE ~ (m = l /\ owed > 0)
    <3>1. ~ Bills(h, m) /\ ~ Bills(h, m)'
      BY <1>1, <1>2, <2>3 DEF Bills, Silent
    <3>2. \A g \in Handlers : Bills(g, m)' <=> Bills(g, m)
      BY <1>1, <3>1 DEF Bills
    <3>3. fines'[m] = fines[m] /\ fineTold' = fineTold
      BY <1>1, <2>3
    <3> QED  BY <2>1, <3>2, <3>3 DEF FineNotice
  <2> QED  BY <2>2, <2>3
<1>6. \A g \in Handlers : Notifier(g)'
  BY <1>1, <1>3 DEF NoticeInv, Notifier, Silent
<1> QED  BY <1>4, <1>5, <1>6 DEF NoticeInv

LEMMA NoticeHold ==
  ASSUME TypeInv, NoticeInv, NEW h \in Handlers, NotifyHold(h)
  PROVE  NoticeInv'
<1>1. PICK k \in HoldIds : k = req[h].hold
  BY DEF NotifyHold, TypeInv, LocalsOK, LocalOK
<1>2. /\ pc[h] = "notifyHold" /\ UNCHANGED <<holds, fines, fineTold>>
      /\ holdTold'[k] = holdTold[k] + 1
      /\ \A j \in HoldIds \ {k} : holdTold'[j] = holdTold[j]
  BY <1>1 DEF NotifyHold, TypeInv, TypeOK
<1>3. \/ /\ req[h].owed > 0 /\ pc'[h] = "notifyFine"
         /\ req'[h].owed = req[h].owed /\ req'[h].loan = req[h].loan
      \/ ~ (req[h].owed > 0) /\ pc'[h] = "idle" /\ req'[h].owed = 0
  <2> DEFINE locals == [req[h] EXCEPT !.hold = 0]
  <2>1. IF req[h].owed > 0 THEN Goto(h, "notifyFine", locals) ELSE Goto(h, "idle", NoReq)
    BY DEF NotifyHold, Finish
  <2>2. /\ locals.owed = req[h].owed /\ locals.loan = req[h].loan /\ NoReq.owed = 0
    BY DEF TypeInv, TypeOK, Req, NoReq
  <2> HIDE DEF locals
  <2> QED  BY <2>1, <2>2, HandlerMoves
<1>4. \A g \in Handlers \ {h} : pc'[g] = pc[g] /\ req'[g] = req[g]
  BY HandlerMoves DEF NotifyHold, Finish
<1>5. req[h].owed \in Nat
  BY DEF TypeInv, TypeOK, Req
<1>6. ASSUME NEW j \in HoldIds
      PROVE  HoldNotice(j)'
  <2>1. HoldNotice(j)
    BY DEF NoticeInv
  <2>2. CASE j = k
    <3>1. Tells(h, k)
      BY <1>1, <1>2 DEF Tells
    <3>2. holds[k].copy # Nobody /\ holdTold[k] = 0 /\ \A g \in Handlers \ {h} : ~ Tells(g, k)
      BY <2>1, <2>2, <3>1 DEF HoldNotice
    <3>3. \A g \in Handlers : ~ Tells(g, k)'
      BY <1>3, <1>4, <3>2 DEF Tells
    <3> QED  BY <1>2, <2>2, <3>2, <3>3 DEF HoldNotice
  <2>3. CASE j # k
    <3>1. \A g \in Handlers : Tells(g, j)' <=> Tells(g, j)
      BY <1>1, <1>3, <1>4, <2>3 DEF Tells
    <3>2. holdTold'[j] = holdTold[j] /\ holds' = holds
      BY <1>2, <2>3
    <3> QED  BY <2>1, <3>1, <3>2 DEF HoldNotice
  <2> QED  BY <2>2, <2>3
<1>7. ASSUME NEW l \in LoanIds
      PROVE  FineNotice(l)'
  <2>1. \A g \in Handlers : Bills(g, l)' <=> Bills(g, l)
    BY <1>3, <1>4, <1>5 DEF Bills
  <2> QED  BY <1>2, <2>1 DEF NoticeInv, FineNotice
<1>8. \A g \in Handlers : Notifier(g)'
  BY <1>3, <1>4, <1>5 DEF NoticeInv, Notifier, Silent
<1> QED  BY <1>2, <1>6, <1>7, <1>8 DEF NoticeInv

LEMMA NoticeFine ==
  ASSUME TypeInv, NoticeInv, NEW h \in Handlers, NotifyFine(h)
  PROVE  NoticeInv'
<1>1. PICK l \in LoanIds : l = req[h].loan
  BY DEF NotifyFine, TypeInv, LocalsOK, LocalOK
<1>2. /\ pc[h] = "notifyFine" /\ UNCHANGED <<holds, fines, holdTold>>
      /\ fineTold'[l] = fineTold[l] + 1
      /\ \A m \in LoanIds \ {l} : fineTold'[m] = fineTold[m]
  BY <1>1 DEF NotifyFine, TypeInv, TypeOK
<1>3. req[h].owed > 0
  BY <1>2 DEF NoticeInv, Notifier, Silent
<1>4. /\ pc'[h] = "idle" /\ req'[h].owed = 0
      /\ \A g \in Handlers \ {h} : pc'[g] = pc[g] /\ req'[g] = req[g]
  BY HandlerMoves DEF NotifyFine, Finish, NoReq
<1>5. ASSUME NEW m \in LoanIds
      PROVE  FineNotice(m)'
  <2>1. FineNotice(m)
    BY DEF NoticeInv
  <2>2. CASE m = l
    <3>1. Bills(h, l)
      BY <1>1, <1>3 DEF Bills
    <3>2. fines[l] # 0 /\ fineTold[l] = 0 /\ \A g \in Handlers \ {h} : ~ Bills(g, l)
      BY <2>1, <2>2, <3>1 DEF FineNotice
    <3>3. \A g \in Handlers : ~ Bills(g, l)'
      BY <1>4, <3>2 DEF Bills
    <3> QED  BY <1>2, <2>2, <3>2, <3>3 DEF FineNotice
  <2>3. CASE m # l
    <3>1. \A g \in Handlers : Bills(g, m)' <=> Bills(g, m)
      BY <1>1, <1>4, <2>3 DEF Bills
    <3>2. fineTold'[m] = fineTold[m] /\ fines' = fines
      BY <1>2, <2>3
    <3> QED  BY <2>1, <3>1, <3>2 DEF FineNotice
  <2> QED  BY <2>2, <2>3
<1>6. ASSUME NEW k \in HoldIds
      PROVE  HoldNotice(k)'
  <2>1. \A g \in Handlers : Tells(g, k)' <=> Tells(g, k)
    BY <1>2, <1>4 DEF Tells
  <2> QED  BY <1>2, <2>1 DEF NoticeInv, HoldNotice
<1>7. \A g \in Handlers : Notifier(g)'
  BY <1>4 DEF NoticeInv, Notifier, Silent
<1> QED  BY <1>2, <1>5, <1>6, <1>7 DEF NoticeInv

LEMMA NoticeQuiet ==
  ASSUME Driver = "sqlite", "fault" \notin Ops, TypeInv, ShelfInv, NoticeInv, [Next]_vars,
         \A h \in Handlers, l \in LoanIds : ~ ReturnTx(h, l),
         \A h \in Handlers : ~ NotifyHold(h) /\ ~ NotifyFine(h)
  PROVE  NoticeInv'
<1>1. /\ UNCHANGED <<holdTold, fineTold>>
      /\ \A g \in Handlers : \/ pc'[g] = pc[g] /\ req'[g] = req[g]
                             \/ Silent(g) /\ Silent(g)'
  BY QuietMoves
<1>2. UNCHANGED fines
  BY LoanSteps DEF Lent, Renewed, ShelfInv, ReturnCommit
<1>3. ASSUME NEW k \in HoldIds
      PROVE  HoldNotice(k)' /\ (holds'[k].status \in {"none", "waiting"} => holds'[k].copy = Nobody)
  <2>1. HoldNotice(k) /\ (holds[k].status \in {"none", "waiting"} => holds[k].copy = Nobody)
    BY DEF NoticeInv
  <2>2. \A g \in Handlers : Tells(g, k)' <=> Tells(g, k)
    BY <1>1 DEF Tells, Silent
  <2>3. /\ HoldChange(k) /\ \A h \in Handlers, l \in LoanIds : ~ Awoken(h, l, k)
        /\ \A h \in Handlers : ~ Committed(h, k)
    BY HoldSteps DEF ShelfInv, Awoken, Committed, ReturnCommit
  <2>4. holds'[k].copy = holds[k].copy
        /\ (holds'[k].status \in {"none", "waiting"} => holds'[k].copy = Nobody)
    BY <2>1, <2>3 DEF HoldChange, Inserted, Ended
  <2> QED  BY <1>1, <2>1, <2>2, <2>4 DEF HoldNotice
<1>4. ASSUME NEW l \in LoanIds
      PROVE  FineNotice(l)'
  <2>1. \A g \in Handlers : Bills(g, l)' <=> Bills(g, l)
    BY <1>1 DEF Bills, Silent
  <2> QED  BY <1>1, <1>2, <2>1 DEF NoticeInv, FineNotice
<1>5. \A g \in Handlers : Notifier(g)'
  BY <1>1 DEF NoticeInv, Notifier, Silent
<1> QED  BY <1>3, <1>4, <1>5 DEF NoticeInv

LEMMA NoticeInvInit == Init => NoticeInv
BY DEF Init, NoticeInv, HoldNotice, FineNotice, Notifier, Silent, Tells, Bills, NoHold, NoReq

LEMMA NoticeCounts ==
  ASSUME TypeInv, NoticeInv
  PROVE  EachWakeToldOnce
<1>1. ASSUME NEW S, NEW h, S = {h}
      PROVE  Cardinality(S) = 1
  BY <1>1, FS_Singleton
<1>2. ASSUME NEW k \in HoldIds
      PROVE  holdTold[k] + Cardinality({h \in Handlers : pc[h] = "notifyHold" /\ req[h].hold = k})
               = IF holds[k].copy # Nobody THEN 1 ELSE 0
  <2> DEFINE S == {h \in Handlers : pc[h] = "notifyHold" /\ req[h].hold = k}
  <2>1. S = {h \in Handlers : Tells(h, k)} /\ HoldNotice(k)
    BY DEF Tells, NoticeInv
  <2> HIDE DEF S
  <2>2. CASE \A h \in Handlers : ~ Tells(h, k)
    <3>1. Cardinality(S) = 0
      BY <2>1, <2>2, FS_EmptySet
    <3> QED  BY <2>1, <2>2, <3>1 DEF HoldNotice, S
  <2>3. CASE \E h \in Handlers : Tells(h, k)
    <3>1. PICK h \in Handlers : Tells(h, k) /\ \A g \in Handlers : Tells(g, k) => g = h
      BY <2>1, <2>3 DEF HoldNotice
    <3>2. S = {h}
      BY <2>1, <3>1
    <3>3. Cardinality(S) = 1
      BY <1>1, <3>2
    <3> QED  BY <2>1, <2>3, <3>3 DEF HoldNotice, S
  <2> QED  BY <2>2, <2>3
<1>3. ASSUME NEW l \in LoanIds
      PROVE  fineTold[l] + Cardinality({h \in Handlers : req[h].owed > 0 /\ req[h].loan = l})
               = IF fines[l] > 0 THEN 1 ELSE 0
  <2> DEFINE S == {h \in Handlers : req[h].owed > 0 /\ req[h].loan = l}
  <2>1. S = {h \in Handlers : Bills(h, l)} /\ FineNotice(l) /\ fines[l] \in Nat
    BY DEF Bills, NoticeInv, TypeInv, TypeOK
  <2> HIDE DEF S
  <2>2. CASE \A h \in Handlers : ~ Bills(h, l)
    <3>1. Cardinality(S) = 0
      BY <2>1, <2>2, FS_EmptySet
    <3> QED  BY <2>1, <2>2, <3>1 DEF FineNotice, S
  <2>3. CASE \E h \in Handlers : Bills(h, l)
    <3>1. PICK h \in Handlers : Bills(h, l) /\ \A g \in Handlers : Bills(g, l) => g = h
      BY <2>1, <2>3 DEF FineNotice
    <3>2. S = {h}
      BY <2>1, <3>1
    <3>3. Cardinality(S) = 1
      BY <1>1, <3>2
    <3> QED  BY <2>1, <2>3, <3>3 DEF FineNotice, S
  <2> QED  BY <2>2, <2>3
<1> QED  BY <1>2, <1>3 DEF EachWakeToldOnce

\* Return: the reader whose hold a return woke, and the reader it fined, are
\* told once each, and no one else is, whatever returns run side by side.
THEOREM WakesAreTold ==
  ASSUME Driver = "sqlite", "fault" \notin Ops
  PROVE  Spec => []EachWakeToldOnce
<1>1. TypeInv /\ ShelfInv /\ FinesMatchLateness /\ NoticeInv /\ [Next]_vars => NoticeInv'
  BY NoticeReturn, NoticeHold, NoticeFine, NoticeQuiet
<1>2. TypeInv /\ NoticeInv => EachWakeToldOnce
  BY NoticeCounts
<1>3. Spec => []ShelfInv
  BY ShelfInvariance
<1>4. Spec => []FinesMatchLateness
  BY FinesAreExact
<1> QED  BY <1>1, <1>2, <1>3, <1>4, NoticeInvInit, TypeInvariance, PTL DEF Spec

----------------------------------------------------------------------------
(* Circulation over SQLite implements Lending.  Who has a copy is read off  *)
(* its active loan, of which there is one at most; the guard of Lend is the *)
(* limit LimitInv keeps, since a patron has no more copies than loans.      *)

\* The borrower of a copy, in terms of single loans.
BorrowersKnown ==
  \A c \in Copies :
    /\ ActiveLoansOn(c) = {} => BorrowerOf(c) = Nobody
    /\ \A l \in ActiveLoansOn(c) : BorrowerOf(c) = loans[l].patron

DeskInv == TypeInv /\ ShelfInv /\ LimitInv /\ BorrowersKnown

LEMMA LoansNameBorrowers == TypeInv /\ ShelfInv => BorrowersKnown
<1> SUFFICES ASSUME ShelfInv, NEW c \in Copies, NEW l \in ActiveLoansOn(c)
             PROVE  BorrowerOf(c) = loans[l].patron
  BY DEF BorrowersKnown, BorrowerOf
<1>1. ActiveLoansOn(c) = {l} /\ l \in Nat
  BY NumberAssumption DEF ActiveLoansOn, ShelfInv, OneBorrowerPerCopy, LoanIds
<1>2. Min({l}) = l
  BY <1>1 DEF Min
<1> QED  BY <1>1, <1>2 DEF BorrowerOf

\* A patron has no more copies than loans.
LEMMA CopiesBelowLoans ==
  ASSUME DeskInv, NEW p \in Patrons
  PROVE  LET lent == {c \in Copies : BorrowerOf(c) = p} IN
         /\ IsFiniteSet(lent) /\ Cardinality(lent) \in Nat
         /\ Cardinality(lent) <= Cardinality(ActiveLoans(p))
<1> DEFINE lent == {c \in Copies : BorrowerOf(c) = p}
           loanOf == [c \in lent |-> CHOOSE l \in ActiveLoansOn(c) : TRUE]
<1>1. ASSUME NEW c \in lent
      PROVE  /\ loanOf[c] \in ActiveLoans(p) /\ loans[loanOf[c]].copy = c
  <2>1. ActiveLoansOn(c) # {}
    BY ReferenceAssumption DEF DeskInv, BorrowersKnown
  <2>2. loanOf[c] \in ActiveLoansOn(c)
    BY <2>1
  <2> QED  BY <2>2 DEF DeskInv, BorrowersKnown, ActiveLoans, ActiveLoansOn
<1>2. loanOf \in Injection(lent, ActiveLoans(p))
  <2> HIDE DEF lent
  <2>1. loanOf \in [lent -> ActiveLoans(p)]
    BY <1>1
  <2>2. \A a, b \in lent : loanOf[a] = loanOf[b] => a = b
    BY <1>1
  <2> QED  BY <2>1, <2>2 DEF Injection, IsInjective
<1>3. IsFiniteSet(lent) /\ Cardinality(lent) <= Cardinality(ActiveLoans(p))
  <2> HIDE DEF lent, loanOf
  <2> QED  BY <1>2, ActiveLoansFinite, FS_Injection
<1> QED  BY <1>3, FS_CardinalityType

\* What a step does to the shelf, beside the loans.
Struck(S) ==
  /\ \A c \in S : HasRow(c)
  /\ items' = [c \in Copies |-> IF c \in S THEN "deleted" ELSE items[c]]

LEMMA ShelfSteps ==
  ASSUME TypeInv, ShelfInv, [Next]_vars
  PROVE  \/ UNCHANGED <<items, everVip>>
         \/ UNCHANGED items /\ \E p \in Patrons : everVip' = everVip \cup {p}
         \/ /\ UNCHANGED everVip
            /\ \/ \E S \in SUBSET Copies : Struck(S)
               \/ \E c \in Copies :
                    items[c] = "unborn" /\ items' = [items EXCEPT ![c] = "available"]
         \/ \E h \in Handlers : Lent(h)
         \/ \E h \in Handlers, l \in LoanIds : ReturnTx(h, l)
<1>1. CASE UNCHANGED vars
  BY <1>1 DEF vars
<1>2. CASE \E p \in Patrons : SetVip(p)
  BY <1>2 DEF SetVip, TypeInv, TypeOK
<1>3. CASE \E c \in Copies : AddCopy(c)
  BY <1>3 DEF AddCopy
<1>4. CASE Direct /\ ~ (\E p \in Patrons : SetVip(p)) /\ ~ (\E c \in Copies : AddCopy(c))
  BY <1>4 DEF Direct, CancelHold, SetStatus, NextDay
<1>5. ASSUME NEW h \in Handlers, Fault(h)
      PROVE  UNCHANGED <<items, everVip>>
  BY <1>5 DEF Fault, tables
<1>6. ASSUME NEW h \in Handlers, Arrive(h)
      PROVE  UNCHANGED <<items, everVip>> \/ \E l \in LoanIds : ReturnTx(h, l)
  BY <1>6 DEF Arrive, BorrowRequest, ReturnSnapshot, RenewLoan, HoldBook, DeleteBookLoans,
              DeleteItemLoans, tables
<1>7. ASSUME NEW h \in Handlers, DeleteBook(h)
      PROVE  UNCHANGED everVip /\ \E S \in SUBSET Copies : Struck(S)
  <2> DEFINE S == {c \in Copies : BookOf[c] = req[h].book /\ HasRow(c)}
  <2>1. Struck(S) /\ S \in SUBSET Copies
    BY <1>7 DEF DeleteBook, Struck
  <2> QED  BY <1>7, <2>1 DEF DeleteBook
<1>8. ASSUME NEW h \in Handlers, DeleteItem(h)
      PROVE  UNCHANGED everVip /\ \E S \in SUBSET Copies : Struck(S)
  <2> DEFINE S == {c \in {req[h].copy} : items[c] = "available"}
  <2>1. req[h].copy \in Copies /\ items \in [Copies -> ItemStatus]
    BY <1>8 DEF DeleteItem, TypeInv, TypeOK, LocalsOK, LocalOK
  <2>2. Struck(S) /\ S \in SUBSET Copies
    BY <1>8, <2>1 DEF DeleteItem, ShelfAfterDeletingSafely, Struck, HasRow
  <2> QED  BY <1>8, <2>2 DEF DeleteItem
<1>9. ASSUME NEW h \in Handlers, Continue(h), ~ DeleteBook(h), ~ DeleteItem(h),
             ~ BorrowCheckout(h), ~ ReturnCommit(h)
      PROVE  UNCHANGED <<items, everVip>>
  BY <1>9 DEF Continue, BorrowLock, BorrowItem, BorrowCount, BorrowVip, NotifyHold, NotifyFine,
     RenewItem, RenewHolds, RenewCheckout, HoldItems, HoldOwn, HoldPos, HoldInsert,
     DeleteBookHolds, tables
<1>10. ASSUME NEW h \in Handlers, BorrowCheckout(h)
       PROVE  Lent(h) \/ UNCHANGED <<items, everVip>>
  BY <1>10, CheckoutLends
<1>11. \A h \in Handlers : ~ ReturnCommit(h)
  BY DEF ReturnCommit, ShelfInv
<1> QED  BY <1>1, <1>2, <1>3, <1>4, <1>5, <1>6, <1>7, <1>8, <1>9, <1>10, <1>11 DEF Next

\* The borrower of a copy whose loans stay is the same.
LEMMA SameBorrower ==
  ASSUME BorrowersKnown, BorrowersKnown', NEW c \in Copies,
         \A l \in LoanIds : loans[l].copy = c \/ loans'[l].copy = c => loans'[l] = loans[l]
  PROVE  BorrowerOf(c)' = BorrowerOf(c)
<1>1. ActiveLoansOn(c)' = ActiveLoansOn(c)
  BY DEF ActiveLoansOn
<1>2. CASE ActiveLoansOn(c) = {}
  BY <1>1, <1>2 DEF BorrowersKnown
<1>3. CASE ActiveLoansOn(c) # {}
  <2>1. PICK l \in ActiveLoansOn(c) : TRUE
    BY <1>3
  <2>2. loans'[l].patron = loans[l].patron
    BY <2>1 DEF ActiveLoansOn
  <2> QED  BY <1>1, <2>1, <2>2 DEF BorrowersKnown
<1> QED  BY <1>2, <1>3

\* Lending a copy makes its reader the borrower of it and of no other.
LEMMA CheckoutGives ==
  ASSUME DeskInv, DeskInv', NEW h \in Handlers, Lent(h)
  PROVE  \E b \in Copies :
         /\ b = req[h].copy /\ BorrowerOf(b)' = req[h].patron /\ BorrowerOf(b) = Nobody
         /\ \A c \in Copies \ {b} : BorrowerOf(c)' = BorrowerOf(c)
<1>0. BorrowersKnown /\ BorrowersKnown' /\ TypeInv /\ ShelfInv
  BY DEF DeskInv
<1>1. PICK b \in Copies : b = req[h].copy
  BY <1>0 DEF Lent, TypeInv, LocalsOK, LocalOK, Locked
<1>2. nextLoan \in LoanIds /\ nextLoan \in ActiveLoansOn(b)' /\ loans'[nextLoan].patron = req[h].patron
  BY <1>1 DEF Lent, ActiveLoansOn
<1>3. BorrowerOf(b)' = req[h].patron
  BY <1>0, <1>2 DEF BorrowersKnown
<1>4. BorrowerOf(b) = Nobody
  BY <1>0, <1>1 DEF BorrowersKnown, Lent, ShelfInv, ShelfMatchesLoans
<1>5. ASSUME NEW c \in Copies, c # b
      PROVE  BorrowerOf(c)' = BorrowerOf(c)
  <2>1. loans[nextLoan].status = "none" /\ loans'[nextLoan].copy = b
        /\ \A m \in LoanIds \ {nextLoan} : loans'[m] = loans[m]
    BY <1>0, <1>1, NextLoanFree DEF Lent
  <2>2. ActiveLoansOn(c)' = ActiveLoansOn(c)
    BY <1>5, <2>1 DEF ActiveLoansOn
  <2>3. CASE ActiveLoansOn(c) = {}
    BY <1>0, <2>2, <2>3 DEF BorrowersKnown
  <2>4. CASE ActiveLoansOn(c) # {}
    <3>1. PICK l \in ActiveLoansOn(c) : TRUE
      BY <2>4
    <3>2. loans'[l].patron = loans[l].patron
      BY <2>1, <3>1 DEF ActiveLoansOn
    <3> QED  BY <1>0, <2>2, <3>1, <3>2 DEF BorrowersKnown
  <2> QED  BY <2>3, <2>4
<1> QED  BY <1>1, <1>3, <1>4, <1>5

\* Taking a copy back leaves it without a borrower.
LEMMA ReturnTakes ==
  ASSUME DeskInv, DeskInv', NEW l \in LoanIds, Returned(l, today), loans[l].status = "active"
  PROVE  \E b \in Copies :
         /\ b = loans[l].copy /\ BorrowerOf(b)' = Nobody /\ BorrowerOf(b) # Nobody
         /\ \A c \in Copies \ {b} : BorrowerOf(c)' = BorrowerOf(c)
<1>0. BorrowersKnown /\ BorrowersKnown' /\ TypeInv /\ ShelfInv
  BY DEF DeskInv
<1>1. PICK b \in Copies : b = loans[l].copy
  BY <1>0 DEF TypeInv, RowsOK
<1>2. /\ loans'[l].status = "returned" /\ loans'[l].copy = b
      /\ \A m \in LoanIds \ {l} : loans'[m] = loans[m]
  BY <1>1 DEF Returned, Closed
<1>3. ActiveLoansOn(b)' = {}
  BY <1>0, <1>1, <1>2 DEF ActiveLoansOn, ShelfInv, OneBorrowerPerCopy
<1>4. BorrowerOf(b)' = Nobody
  BY <1>0, <1>3 DEF BorrowersKnown
<1>5. l \in ActiveLoansOn(b) /\ loans[l].patron \in Patrons
  BY <1>0, <1>1 DEF ActiveLoansOn, TypeInv, RowsOK
<1>6. BorrowerOf(b) # Nobody
  BY <1>0, <1>5, ReferenceAssumption DEF BorrowersKnown
<1>7. ASSUME NEW c \in Copies, c # b
      PROVE  BorrowerOf(c)' = BorrowerOf(c)
  <2>1. \A m \in LoanIds : loans[m].copy = c \/ loans'[m].copy = c => loans'[m] = loans[m]
    BY <1>1, <1>2, <1>7
  <2> QED  BY <1>0, SameBorrower, <2>1
<1> QED  BY <1>1, <1>4, <1>6, <1>7

\* A renewal leaves the copy with its reader.
LEMMA RenewalKeepsBorrower ==
  ASSUME DeskInv, DeskInv', NEW h \in Handlers, Renewed(h), NEW c \in Copies
  PROVE  BorrowerOf(c)' = BorrowerOf(c)
<1>0. BorrowersKnown /\ BorrowersKnown' /\ TypeInv /\ ShelfInv
  BY DEF DeskInv
<1>1. PICK l \in LoanIds : l = req[h].loan
  BY <1>0 DEF Renewed, TypeInv, LocalsOK, LocalOK
<1>2. /\ nextLoan \in LoanIds /\ nextLoan # l /\ loans[l].status = "active"
      /\ loans'[l].copy = loans[l].copy
      /\ loans'[nextLoan].status = "active"
      /\ loans'[nextLoan].copy = loans[l].copy /\ loans'[nextLoan].patron = loans[l].patron
      /\ \A m \in LoanIds \ {l, nextLoan} : loans'[m] = loans[m]
      /\ loans[nextLoan].status = "none" /\ loans'[l].status = "returned"
  BY <1>0, <1>1, NextLoanFree DEF Renewed, Closed
<1>3. CASE loans[l].copy = c
  <2>1. l \in ActiveLoansOn(c) /\ nextLoan \in ActiveLoansOn(c)'
    BY <1>2, <1>3 DEF ActiveLoansOn
  <2> QED  BY <1>0, <1>2, <2>1 DEF BorrowersKnown
<1>4. CASE loans[l].copy # c
  <2>1. ActiveLoansOn(c)' = ActiveLoansOn(c)
    BY <1>2, <1>4 DEF ActiveLoansOn
  <2>2. CASE ActiveLoansOn(c) = {}
    BY <1>0, <2>1, <2>2 DEF BorrowersKnown
  <2>3. CASE ActiveLoansOn(c) # {}
    <3>1. PICK m \in ActiveLoansOn(c) : TRUE
      BY <2>3
    <3>2. loans'[m].patron = loans[m].patron
      BY <1>2, <1>4, <3>1 DEF ActiveLoansOn
    <3> QED  BY <1>0, <2>1, <3>1, <3>2 DEF BorrowersKnown
  <2> QED  BY <2>2, <2>3
<1> QED  BY <1>3, <1>4

\* The stock as Lending sees it, when loans and returns leave it alone.
LEMMA StockKept ==
  ASSUME TypeInv, \A c \in Copies : HasRow(c)' = HasRow(c),
         \A c \in Copies : HasRow(c) \/ items'[c] = items[c]
  PROVE  \A c \in Copies : StockOf(c)' = StockOf(c)
<1> SUFFICES ASSUME NEW c \in Copies
             PROVE  StockOf(c)' = StockOf(c)
  OBVIOUS
<1>1. CASE HasRow(c)
  <2>1. /\ items[c] # "unborn" /\ items[c] # "deleted" /\ HasRow(c)'
        /\ items'[c] # "unborn" /\ items'[c] # "deleted"
    BY <1>1 DEF HasRow
  <2> QED  BY <1>1, <2>1 DEF StockOf
<1>2. CASE ~ HasRow(c)
  BY <1>2 DEF StockOf
<1> QED  BY <1>1, <1>2

\* A checkout is a Lend: the copy stands on the shelf, and its reader is
\* below the limit.
LEMMA CheckoutIsLend ==
  ASSUME DeskInv, DeskInv', NEW h \in Handlers, Lent(h)
  PROVE  Promise!Next
<1>0. PICK b \in Copies :
        /\ b = req[h].copy /\ BorrowerOf(b)' = req[h].patron /\ BorrowerOf(b) = Nobody
        /\ \A c \in Copies \ {b} : BorrowerOf(c)' = BorrowerOf(c)
  BY CheckoutGives
<1>1. PICK p \in Patrons : p = req[h].patron
  BY DEF Lent, DeskInv, TypeInv, LocalsOK, LocalOK, Locked
<1>2. TypeInv /\ items \in [Copies -> ItemStatus]
  BY DEF DeskInv, TypeInv, TypeOK
<1>3. /\ items[b] = "available" /\ items' = [items EXCEPT ![b] = "borrowed"]
      /\ everVip' = everVip
  BY <1>0 DEF Lent
<1>4. \A c \in Copies : StockOf(c)' = StockOf(c)
  <2>1. HasRow(b) /\ HasRow(b)'
    BY <1>2, <1>3 DEF HasRow
  <2>2. \A c \in Copies \ {b} : items'[c] = items[c]
    BY <1>2, <1>3
  <2> QED  BY <1>2, <2>1, <2>2, StockKept DEF HasRow
<1>5. StockOf(b) = "held"
  BY <1>3 DEF StockOf, HasRow
<1>6. Cardinality({c \in Copies : BorrowerOf(c) = p}) < LoanLimit(p \in everVip)
  <2>1. PICK n, m : n = Cardinality({c \in Copies : BorrowerOf(c) = p})
                    /\ m = Cardinality(ActiveLoans(p))
    OBVIOUS
  <2>2. n \in Nat /\ n <= m
    BY <2>1, CopiesBelowLoans
  <2>3. m \in Nat
    BY <2>1, ActiveLoansFinite
  <2>4. m < LoanLimit(p \in everVip)
    BY <1>1, <2>1 DEF DeskInv, LimitInv, LimitKnows, Lent
  <2>5. LoanLimit(p \in everVip) \in Nat
    BY NumberAssumption DEF LoanLimit
  <2> QED  BY <2>1, <2>2, <2>3, <2>4, <2>5
<1>7. Promise!Lend(b, p)
  <2>1. [c \in Copies |-> StockOf(c)]' = [c \in Copies |-> StockOf(c)]
    BY <1>4
  <2>2. [c \in Copies |-> BorrowerOf(c)]' = [[c \in Copies |-> BorrowerOf(c)] EXCEPT ![b] = p]
    BY <1>0, <1>1
  <2>3. Promise!Cardinality(Promise!LentTo(p)) < Promise!Allowance(p)
    <3>1. Promise!LentTo(p) = {c \in Copies : BorrowerOf(c) = p}
      BY DEF Promise!LentTo
    <3>2. \A S : Promise!Cardinality(S) = Cardinality(S)
      BY DEF Promise!Cardinality, Cardinality
    <3> QED  BY <1>6, <3>1, <3>2 DEF Promise!Allowance, LoanLimit
  <2> QED  BY <1>0, <1>3, <1>5, <2>1, <2>2, <2>3 DEF Promise!Lend
<1> QED  BY <1>7 DEF Promise!Next

\* A return is a TakeBack.
LEMMA ReturnIsTakeBack ==
  ASSUME DeskInv, DeskInv', NEW h \in Handlers, NEW l \in LoanIds, ReturnTx(h, l)
  PROVE  Promise!Next
<1>0. Returned(l, today) /\ loans[l].status = "active"
  <2>1. /\ TypeInv /\ loans[l].status = "active" /\ today \in Nat /\ UnchangedByReturn
    BY DEF ReturnTx, DeskInv, TypeInv, TypeOK
  <2>2. PICK wake \in Woken(l) : ReturnWrites(l, today, wake)
    BY DEF ReturnTx
  <2> QED  BY <2>1, <2>2, WritesReturn
<1>8. PICK b \in Copies :
        /\ b = loans[l].copy /\ BorrowerOf(b)' = Nobody /\ BorrowerOf(b) # Nobody
        /\ \A c \in Copies \ {b} : BorrowerOf(c)' = BorrowerOf(c)
  BY <1>0, ReturnTakes
<1>1. TypeInv /\ items \in [Copies -> ItemStatus]
  BY DEF DeskInv, TypeInv, TypeOK
<1>2. items' = [items EXCEPT ![b] = IF HasRow(b) THEN "available" ELSE @] /\ everVip' = everVip
  BY <1>0, <1>8 DEF Returned
<1>3. \A c \in Copies : HasRow(c)' = HasRow(c) /\ (HasRow(c) \/ items'[c] = items[c])
  <2>1. \A c \in Copies \ {b} : items'[c] = items[c]
    BY <1>1, <1>2
  <2>2. items'[b] = IF HasRow(b) THEN "available" ELSE items[b]
    BY <1>1, <1>2
  <2> QED  BY <2>1, <2>2 DEF HasRow
<1>4. \A c \in Copies : StockOf(c)' = StockOf(c)
  BY <1>1, <1>3, StockKept
<1>5. [c \in Copies |-> StockOf(c)]' = [c \in Copies |-> StockOf(c)]
  BY <1>4
<1>6. [c \in Copies |-> BorrowerOf(c)]' = [[c \in Copies |-> BorrowerOf(c)] EXCEPT ![b] = Nobody]
  BY <1>8
<1>7. Promise!TakeBack(b)
  BY <1>2, <1>5, <1>6, <1>8 DEF Promise!TakeBack
<1> QED  BY <1>7 DEF Promise!Next

\* A step that gives and takes nothing: the catalogue changes, a reader
\* becomes privileged, or Lending sees nothing.
LEMMA DeskStep ==
  ASSUME DeskInv, DeskInv', [Next]_vars, \A c \in Copies : BorrowerOf(c)' = BorrowerOf(c)
  PROVE  [Promise!Next]_(Promise!vars)
<1>1. TypeInv /\ ShelfInv /\ items \in [Copies -> ItemStatus]
  BY DEF DeskInv, TypeInv, TypeOK
<1>2. [c \in Copies |-> BorrowerOf(c)]' = [c \in Copies |-> BorrowerOf(c)]
  OBVIOUS
<1>3. ASSUME \A c \in Copies : StockOf(c)' = StockOf(c), everVip' = everVip
      PROVE  [Promise!Next]_(Promise!vars)
  <2>1. [c \in Copies |-> StockOf(c)]' = [c \in Copies |-> StockOf(c)]
    BY <1>3
  <2> QED  BY <1>2, <1>3, <2>1 DEF Promise!vars
<1>4. CASE UNCHANGED <<items, everVip>>
  BY <1>3, <1>4 DEF StockOf, HasRow
<1>5. ASSUME UNCHANGED items, NEW p \in Patrons, everVip' = everVip \cup {p}
      PROVE  [Promise!Next]_(Promise!vars)
  <2>1. [c \in Copies |-> StockOf(c)]' = [c \in Copies |-> StockOf(c)]
    BY <1>5 DEF StockOf, HasRow
  <2>2. Promise!Privilege(p)
    BY <1>2, <1>5, <2>1 DEF Promise!Privilege
  <2> QED  BY <2>2 DEF Promise!Next
<1>6. ASSUME everVip' = everVip, NEW S \in SUBSET Copies, Struck(S)
      PROVE  [Promise!Next]_(Promise!vars)
  <2>1. \A c \in S : StockOf(c) = "held"
    <3> SUFFICES ASSUME NEW c \in S
                 PROVE  StockOf(c) = "held"
      OBVIOUS
    <3>1. items[c] # "unborn" /\ items[c] # "deleted" /\ HasRow(c)
      BY <1>6 DEF Struck, HasRow
    <3> QED  BY <3>1 DEF StockOf
  <2>2. \A c \in Copies : StockOf(c)' = IF c \in S THEN "gone" ELSE StockOf(c)
    <3>1. ASSUME NEW c \in S
          PROVE  StockOf(c)' = "gone"
      <4>1. items'[c] = "deleted"
        BY <1>6, <3>1 DEF Struck
      <4> QED  BY <4>1 DEF StockOf, HasRow
    <3>2. ASSUME NEW c \in Copies, c \notin S
          PROVE  StockOf(c)' = StockOf(c)
      BY <1>6, <3>2 DEF Struck, StockOf, HasRow
    <3> QED  BY <3>1, <3>2
  <2>3. [c \in Copies |-> StockOf(c)]'
          = [c \in Copies |-> IF c \in S THEN "gone" ELSE [d \in Copies |-> StockOf(d)][c]]
    BY <2>2
  <2>4. Promise!StrikeOff(S)
    BY <1>2, <1>6, <2>1, <2>3 DEF Promise!StrikeOff
  <2> QED  BY <2>4 DEF Promise!Next
<1>7. ASSUME everVip' = everVip, NEW b \in Copies, items[b] = "unborn",
             items' = [items EXCEPT ![b] = "available"]
      PROVE  [Promise!Next]_(Promise!vars)
  <2>1. StockOf(b) = "new"
    BY <1>7 DEF StockOf, HasRow
  <2>2. StockOf(b)' = "held"
    <3>1. items'[b] = "available"
      BY <1>1, <1>7
    <3> QED  BY <3>1 DEF StockOf, HasRow
  <2>3. \A c \in Copies \ {b} : StockOf(c)' = StockOf(c)
    BY <1>1, <1>7 DEF StockOf, HasRow
  <2>4. [c \in Copies |-> StockOf(c)]' = [[c \in Copies |-> StockOf(c)] EXCEPT ![b] = "held"]
    BY <2>2, <2>3
  <2>5. Promise!Acquire(b)
    BY <1>2, <1>7, <2>1, <2>4 DEF Promise!Acquire
  <2> QED  BY <2>5 DEF Promise!Next
<1>8. ASSUME NEW h \in Handlers, Lent(h) \/ \E l \in LoanIds : ReturnTx(h, l)
      PROVE  Promise!Next
  BY <1>8, CheckoutIsLend, ReturnIsTakeBack
<1> QED  BY <1>1, <1>4, <1>5, <1>6, <1>7, <1>8, ShelfSteps

LEMMA LendingStep ==
  ASSUME DeskInv, DeskInv', [Next]_vars
  PROVE  [Promise!Next]_(Promise!vars)
<1>1. TypeInv /\ BorrowersKnown /\ BorrowersKnown' /\ \A h \in Handlers : ~ ReturnCommit(h)
  BY DEF DeskInv, ShelfInv, ReturnCommit
<1>2. CASE UNCHANGED loans
  BY <1>1, <1>2, SameBorrower, DeskStep
<1>3. ASSUME NEW h \in Handlers, Lent(h) \/ \E l \in LoanIds : ReturnTx(h, l)
      PROVE  Promise!Next
  BY <1>3, CheckoutIsLend, ReturnIsTakeBack
<1>4. CASE \E h \in Handlers : Renewed(h)
  BY <1>4, RenewalKeepsBorrower, DeskStep
<1> QED  BY <1>1, <1>2, <1>3, <1>4, LoanSteps

LEMMA LendingInit == Init => Promise!Init
<1> SUFFICES ASSUME Init
             PROVE  Promise!Init
  OBVIOUS
<1>1. \A c \in Copies : ActiveLoansOn(c) = {}
  BY DEF Init, ActiveLoansOn, NoLoan
<1>2. [c \in Copies |-> BorrowerOf(c)] = [c \in Copies |-> Nobody]
  BY <1>1 DEF BorrowerOf
<1>3. \A c \in Copies : StockOf(c) = IF c \in InitialCopies THEN "held" ELSE "new"
  <2>1. ASSUME NEW c \in InitialCopies
        PROVE  StockOf(c) = "held"
    <3>1. items[c] = "available"
      BY ReferenceAssumption DEF Init
    <3> QED  BY <3>1 DEF StockOf, HasRow
  <2>2. ASSUME NEW c \in Copies, c \notin InitialCopies
        PROVE  StockOf(c) = "new"
    <3>1. items[c] = "unborn"
      BY <2>2 DEF Init
    <3> QED  BY <3>1 DEF StockOf, HasRow
  <2> QED  BY <2>1, <2>2
<1>4. [c \in Copies |-> StockOf(c)]
        = [c \in Copies |-> IF c \in InitialCopies THEN "held" ELSE "new"]
  BY <1>3
<1>5. everVip = {}
  BY DEF Init
<1> QED  BY <1>2, <1>4, <1>5 DEF Promise!Init

\* Borrow, Return, Renew, AdminDeleteBook, AdminDeleteItem and AdminAddCopies,
\* cut into statements and interleaved at will, implement the lending desk of
\* Lending: no copy goes from one reader to another but by way of the shelf,
\* and no reader takes one above his limit.
THEOREM LendingImplemented ==
  ASSUME Driver = "sqlite"
  PROVE  Spec => ImplementsLending
<1>1. DeskInv /\ DeskInv' /\ [Next]_vars => [Promise!Next]_(Promise!vars)
  BY LendingStep
<1>2. TypeInv /\ ShelfInv /\ LimitInv => DeskInv
  BY LoansNameBorrowers DEF DeskInv
<1>3. Spec => []ShelfInv
  BY ShelfInvariance
<1> QED  BY <1>1, <1>2, <1>3, LendingInit, TypeInvariance, LimitInvariance, PTL
         DEF Spec, ImplementsLending, Promise!Spec
=============================================================================
