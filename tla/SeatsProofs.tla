----------------------------- MODULE SeatsProofs -----------------------------
(***************************************************************************)
(* Theorems about Seats, for any number of readers, seats, slots, handlers, *)
(* rows and days.                                                          *)
(***************************************************************************)
EXTENDS Seats, TLAPS

----------------------------------------------------------------------------
(* The inductive invariant: TypeOK and three facts it needs.              *)

\* Ids from nextReservation on are unused, the rows below name a seat.
RowsOK ==
  \A r \in Ids :
    /\ r >= nextReservation => reservations[r].status = "none"
    /\ reservations[r].status # "none" => reservations[r].seat \in SeatNos

\* Reservation r was checked in, no later than today.
CheckedIn(r) == reservations[r].status = "checked_in" /\ reservations[r].date <= today

\* What a handler carries between two statements: the reservation under way
\* is a new one, the reservation being checked in is for today or was for an
\* earlier day, and what the clean-up selected was past when it was selected.
LocalOK(label, locals) ==
  /\ label = "create" =>
       /\ locals.row.status = "active"
       /\ locals.row.patron \in Patrons /\ locals.row.seat \in SeatNos
       /\ locals.row.date \in 0..(MaxDay + 1) /\ locals.row.slot \in Slots
  /\ label \in {"checkin", "occupy"} =>
       /\ locals.id \in Ids /\ reservations[locals.id].status # "none"
       /\ reservations[locals.id].date <= today
  /\ label = "occupy" => CheckedIn(locals.id)
  /\ \A r \in locals.stale : reservations[r].status # "none" /\ reservations[r].date < today
  /\ \A r \in locals.over : reservations[r].status = "checked_in" /\ reservations[r].date < today

LocalsOK == \A h \in Handlers : LocalOK(pc[h], req[h])

TypeInv == TypeOK /\ RowsOK /\ LocalsOK /\ \A r \in confirmed : CheckedIn(r)

\* What every statement does to the rows that are there: a standing one may
\* be decided, the rest stays.
RowsKept ==
  \A r \in Ids :
    reservations[r].status # "none" =>
      /\ reservations'[r].seat = reservations[r].seat
      /\ reservations'[r].patron = reservations[r].patron
      /\ reservations'[r].date = reservations[r].date
      /\ reservations'[r].slot = reservations[r].slot
      /\ reservations'[r].status # "none"
      /\ reservations[r].status # "active" => reservations'[r].status = reservations[r].status

\* A statement of handler h keeps the invariant if it keeps the rows, and if
\* what h takes along to its next statement is in order.
LEMMA HandlerStep ==
  ASSUME TypeInv, NEW h \in Handlers, NEW label \in PC, NEW locals \in Req,
         Goto(h, label, locals), LocalOK(label, locals)', UNCHANGED clock,
         reservations' \in [Ids -> Reservation], RowsKept, RowsOK',
         nextReservation' \in 1..(MaxReservation + 1),
         seats' \in [SeatNos -> {"available", "occupied"}],
         confirmed' \subseteq Ids, \A r \in confirmed' \ confirmed : CheckedIn(r)'
  PROVE  TypeInv'
<1>1. pc' \in [Handlers -> PC] /\ req' \in [Handlers -> Req]
  BY DEF TypeInv, TypeOK, Goto
<1>2. TypeOK'
  BY <1>1 DEF TypeInv, TypeOK, clock
<1>3. ASSUME NEW g \in Handlers
      PROVE  LocalOK(pc[g], req[g])'
  <2>1. CASE g = h
    BY <2>1 DEF TypeInv, TypeOK, Goto
  <2>2. CASE g # h
    <3>1. pc'[g] = pc[g] /\ req'[g] = req[g] /\ req[g] \in Req
      BY <2>2 DEF TypeInv, TypeOK, Goto
    <3>2. LocalOK(pc[g], req[g])
      BY DEF TypeInv, LocalsOK
    <3>3. req[g].stale \subseteq Ids /\ req[g].over \subseteq Ids
      BY <3>1 DEF Req
    <3> QED  BY <3>1, <3>2, <3>3 DEF LocalOK, CheckedIn, RowsKept, clock
  <2> QED  BY <2>1, <2>2
<1>4. ASSUME NEW r \in confirmed
      PROVE  CheckedIn(r)'
  BY <1>4 DEF TypeInv, TypeOK, CheckedIn, RowsKept, clock
<1> QED  BY <1>2, <1>3, <1>4 DEF TypeInv, LocalsOK

\* A statement that writes no reservation.
LEMMA RowsUntouched ==
  ASSUME TypeInv, UNCHANGED <<reservations, nextReservation>>
  PROVE  /\ reservations' \in [Ids -> Reservation] /\ RowsKept /\ RowsOK'
         /\ nextReservation' \in 1..(MaxReservation + 1)
BY DEF TypeInv, TypeOK, RowsKept, RowsOK

\* A statement that decides a reservation changes nothing but its status.
LEMMA RowDecided ==
  ASSUME TypeInv, NEW r \in Ids, NEW to \in {"cancelled", "checked_in", "expired"},
         UpdateSeatReservationStatus(r, "active", to), UNCHANGED nextReservation
  PROVE  /\ reservations' \in [Ids -> Reservation] /\ RowsKept /\ RowsOK'
         /\ nextReservation' \in 1..(MaxReservation + 1)
         /\ reservations'[r].status = to /\ reservations[r].status = "active"
         /\ \A q \in Ids : q # r => reservations'[q] = reservations[q]
<1>1. reservations \in [Ids -> Reservation] /\ reservations[r].status = "active"
  BY DEF TypeInv, TypeOK, UpdateSeatReservationStatus
<1>2. /\ reservations' \in [Ids -> Reservation]
      /\ reservations'[r] = [reservations[r] EXCEPT !.status = to]
      /\ \A q \in Ids : q # r => reservations'[q] = reservations[q]
  BY <1>1 DEF UpdateSeatReservationStatus, Reservation
<1>3. /\ reservations'[r].status = to
      /\ reservations'[r].seat = reservations[r].seat
      /\ reservations'[r].patron = reservations[r].patron
      /\ reservations'[r].date = reservations[r].date
      /\ reservations'[r].slot = reservations[r].slot
  BY <1>1, <1>2 DEF Reservation
<1>4. RowsKept
  BY <1>1, <1>2, <1>3 DEF RowsKept
<1>5. RowsOK'
  BY <1>1, <1>2, <1>3 DEF TypeInv, RowsOK
<1> QED  BY <1>1, <1>2, <1>3, <1>4, <1>5 DEF TypeInv, TypeOK

\* An idle handler carries nothing.
LEMMA NoReqTyped ==
  ASSUME TRUE
  PROVE  NoReq \in Req /\ "idle" \in PC /\ LocalOK("idle", NoReq) /\ LocalOK("idle", NoReq)'
BY SeatsAssumption DEF NoReq, NoReservation, Req, Reservation, PC, LocalOK

\* The statements of a reservation.
LEMMA ReserveTyped ==
  ASSUME TypeInv, NEW h \in Handlers,
         \/ \E p \in Patrons, s \in SeatNos, d \in 0..(MaxDay + 1), k \in Slots : ReserveSeat(h, p, s, d, k)
         \/ CreateSeatReservation(h)
  PROVE  TypeInv'
<1>1. CASE \E p \in Patrons, s \in SeatNos, d \in 0..(MaxDay + 1), k \in Slots : ReserveSeat(h, p, s, d, k)
  <2>1. PICK p \in Patrons, s \in SeatNos, d \in 0..(MaxDay + 1), k \in Slots : ReserveSeat(h, p, s, d, k)
    BY <1>1
  <2> DEFINE row == [seat |-> s, patron |-> p, date |-> d, slot |-> k, status |-> "active"]
             locals == [NoReq EXCEPT !.row = row]
  <2>2. row \in Reservation
    BY SeatsAssumption DEF Reservation, Slots
  <2>3. locals \in Req /\ locals.row = row /\ locals.stale = {} /\ locals.over = {}
    BY <2>2, NoReqTyped DEF Req, NoReq
  <2>4. LocalOK("create", locals)' /\ "create" \in PC
    BY <2>3 DEF LocalOK, PC
  <2>5. /\ Goto(h, "create", locals)
        /\ UNCHANGED <<clock, seats, reservations, nextReservation, confirmed>>
    BY <2>1 DEF ReserveSeat, Begin
  <2> HIDE DEF locals
  <2> QED  BY <2>3, <2>4, <2>5, RowsUntouched, HandlerStep DEF TypeInv, TypeOK
<1>2. CASE CreateSeatReservation(h)
  <2>1. req[h].row \in Reservation /\ req[h].row.status = "active" /\ req[h].row.seat \in SeatNos
    BY <1>2 DEF TypeInv, TypeOK, LocalsOK, LocalOK, CreateSeatReservation, Req
  <2>2. Goto(h, "idle", NoReq) /\ UNCHANGED <<clock, seats, confirmed>>
    BY <1>2 DEF CreateSeatReservation, Finish
  <2>3. CASE UNCHANGED <<reservations, nextReservation>>
    BY <2>2, <2>3, NoReqTyped, RowsUntouched, HandlerStep DEF TypeInv, TypeOK
  <2>4. CASE /\ nextReservation \in Ids /\ nextReservation' = nextReservation + 1
             /\ reservations' = [reservations EXCEPT ![nextReservation] = req[h].row]
    <3>1. /\ reservations \in [Ids -> Reservation] /\ MaxReservation \in Nat
          /\ reservations[nextReservation].status = "none" /\ nextReservation \in 1..MaxReservation
      BY <2>4, SeatsAssumption DEF TypeInv, TypeOK, RowsOK, Ids
    <3>2. /\ reservations' \in [Ids -> Reservation]
          /\ nextReservation' \in 1..(MaxReservation + 1)
      BY <2>1, <2>4, <3>1
    <3>3. RowsKept
      BY <2>4, <3>1 DEF RowsKept
    <3>4. RowsOK'
      BY <2>1, <2>4, <3>1 DEF TypeInv, RowsOK, Ids
    <3> QED  BY <2>2, <3>2, <3>3, <3>4, NoReqTyped, HandlerStep DEF TypeInv, TypeOK
  <2> QED  BY <1>2, <2>3, <2>4 DEF CreateSeatReservation
<1> QED  BY <1>1, <1>2

\* The statements of a check-in.
LEMMA CheckinTyped ==
  ASSUME TypeInv, NEW h \in Handlers,
         \/ \E r \in Ids : CheckinSeat(h, r)
         \/ CheckinUpdate(h) \/ Occupy(h)
  PROVE  TypeInv'
<1>0. req[h] \in Req /\ LocalOK(pc[h], req[h])
  BY DEF TypeInv, TypeOK, LocalsOK
<1>1. CASE \E r \in Ids : CheckinSeat(h, r)
  <2>1. PICK r \in Ids : CheckinSeat(h, r)
    BY <1>1
  <2> DEFINE locals == [NoReq EXCEPT !.id = r]
  <2>2. locals \in Req /\ locals.id = r /\ locals.stale = {} /\ locals.over = {}
    BY NoReqTyped, SeatsAssumption DEF Req, NoReq, Ids
  <2>3. reservations[r].status = "active" /\ reservations[r].date = today /\ today \in Nat
    BY <2>1 DEF CheckinSeat, TypeInv, TypeOK
  <2>4. /\ Goto(h, "checkin", locals)
        /\ UNCHANGED <<clock, seats, reservations, nextReservation, confirmed>>
    BY <2>1 DEF CheckinSeat, Begin
  <2>5. LocalOK("checkin", locals)' /\ "checkin" \in PC
    BY <2>2, <2>3, <2>4 DEF LocalOK, PC, clock
  <2> HIDE DEF locals
  <2> QED  BY <2>2, <2>4, <2>5, RowsUntouched, HandlerStep DEF TypeInv, TypeOK
<1>2. CASE CheckinUpdate(h)
  <2> DEFINE r == req[h].id
  <2>1. r \in Ids /\ reservations[r].date <= today /\ reservations[r].status # "none"
    BY <1>0, <1>2 DEF LocalOK, CheckinUpdate
  <2>2. UNCHANGED <<clock, seats, nextReservation, confirmed>>
    BY <1>2 DEF CheckinUpdate
  <2>3. CASE UpdateSeatReservationStatus(r, "active", "checked_in") /\ Goto(h, "occupy", req[h])
    <3> HIDE DEF r
    <3>1. /\ reservations' \in [Ids -> Reservation] /\ RowsKept /\ RowsOK'
          /\ nextReservation' \in 1..(MaxReservation + 1)
          /\ reservations'[r].status = "checked_in"
      BY <2>1, <2>2, <2>3, RowDecided
    <3>2. PICK locals \in Req : locals = req[h]
      BY <1>0
    <3>3. LocalOK("occupy", locals)' /\ "occupy" \in PC
      <4>1. reservations'[r].date <= today'
        BY <2>1, <2>2, <3>1 DEF RowsKept, clock
      <4>2. locals.stale \subseteq Ids /\ locals.over \subseteq Ids
        BY DEF Req
      <4>3. locals.id = r
        BY <3>2 DEF r
      <4> QED  BY <1>0, <2>1, <2>2, <3>1, <3>2, <4>1, <4>2, <4>3
               DEF LocalOK, CheckedIn, PC, RowsKept, clock
    <3> QED  BY <2>2, <2>3, <3>1, <3>2, <3>3, HandlerStep DEF TypeInv, TypeOK
  <2>4. CASE Finish(h) /\ UNCHANGED reservations
    BY <2>2, <2>4, NoReqTyped, RowsUntouched, HandlerStep DEF TypeInv, TypeOK, Finish
  <2> QED  BY <1>2, <2>3, <2>4 DEF CheckinUpdate
<1>3. CASE Occupy(h)
  <2> DEFINE r == req[h].id
  <2>1. r \in Ids /\ CheckedIn(r)
    BY <1>0, <1>3 DEF LocalOK, Occupy
  <2>2. /\ Goto(h, "idle", NoReq) /\ UNCHANGED <<clock, reservations, nextReservation>>
        /\ seats' = [seats EXCEPT ![reservations[r].seat] = "occupied"]
        /\ confirmed' = confirmed \cup {r}
    BY <1>3 DEF Occupy, Finish
  <2> HIDE DEF r
  <2>3. seats' \in [SeatNos -> {"available", "occupied"}] /\ confirmed' \subseteq Ids
    BY <2>1, <2>2 DEF TypeInv, TypeOK
  <2>4. \A q \in confirmed' \ confirmed : CheckedIn(q)'
    BY <2>1, <2>2 DEF CheckedIn, clock
  <2> QED  BY <2>2, <2>3, <2>4, NoReqTyped, RowsUntouched, HandlerStep
<1> QED  BY <1>1, <1>2, <1>3

\* The statements of the clean-up.
LEMMA CleanupTyped ==
  ASSUME TypeInv, NEW h \in Handlers,
         ExpireScan(h) \/ ExpireOne(h) \/ ExpireDone(h) \/ ReleaseOne(h) \/ ReleaseDone(h)
  PROVE  TypeInv'
<1>0. /\ req[h] \in Req /\ LocalOK(pc[h], req[h])
      /\ req[h].stale \subseteq Ids /\ req[h].over \subseteq Ids
  BY DEF TypeInv, TypeOK, LocalsOK, Req
<1>1. CASE ExpireScan(h)
  <2> DEFINE past == {r \in Standing : seatReservationExpired(r)}
             selected == [NoReq EXCEPT !.stale = {r \in past : reservations[r].status = "active"},
                                       !.over = {r \in past : reservations[r].status = "checked_in"}]
  <2>1. /\ Goto(h, "expire", selected)
        /\ UNCHANGED <<clock, seats, reservations, nextReservation, confirmed>>
    BY <1>1 DEF ExpireScan, Begin
  <2>2. /\ selected \in Req
        /\ selected.stale = {r \in past : reservations[r].status = "active"}
        /\ selected.over = {r \in past : reservations[r].status = "checked_in"}
    BY NoReqTyped DEF Req, NoReq, Standing
  <2> HIDE DEF selected
  <2>3. PICK locals \in Req : locals = selected
    BY <2>2
  <2>4. LocalOK("expire", locals)' /\ "expire" \in PC
    BY <2>1, <2>2, <2>3 DEF LocalOK, PC, clock, seatReservationExpired
  <2> QED  BY <2>1, <2>3, <2>4, RowsUntouched, HandlerStep DEF TypeInv, TypeOK
<1>2. CASE ExpireOne(h)
  <2>1. PICK r \in req[h].stale :
          /\ Goto(h, "expire", [req[h] EXCEPT !.stale = @ \ {r}])
          /\ UpdateSeatReservationStatus(r, "active", "expired") \/ UNCHANGED reservations
    BY <1>2 DEF ExpireOne
  <2>2. pc[h] = "expire" /\ UNCHANGED <<clock, seats, nextReservation, confirmed>>
    BY <1>2 DEF ExpireOne
  <2>3. /\ reservations' \in [Ids -> Reservation] /\ RowsKept /\ RowsOK'
        /\ nextReservation' \in 1..(MaxReservation + 1)
    BY <1>0, <2>1, <2>2, RowDecided, RowsUntouched
  <2>4. PICK locals \in Req : locals = [req[h] EXCEPT !.stale = @ \ {r}]
    BY <1>0 DEF Req
  <2>5. locals.stale = req[h].stale \ {r} /\ locals.over = req[h].over
    BY <1>0, <2>4 DEF Req
  <2>6. LocalOK("expire", locals)' /\ "expire" \in PC
    BY <1>0, <2>2, <2>3, <2>5 DEF LocalOK, PC, RowsKept, clock
  <2> QED  BY <2>1, <2>2, <2>3, <2>4, <2>6, HandlerStep DEF TypeInv, TypeOK
<1>3. CASE ExpireDone(h)
  <2>1. /\ Goto(h, "release", req[h])
        /\ UNCHANGED <<clock, seats, reservations, nextReservation, confirmed>>
    BY <1>3 DEF ExpireDone
  <2>2. PICK locals \in Req : locals = req[h]
    BY <1>0
  <2>3. pc[h] = "expire"
    BY <1>3 DEF ExpireDone
  <2>4. LocalOK("release", locals)' /\ "release" \in PC
    BY <1>0, <2>1, <2>2, <2>3 DEF LocalOK, PC, clock
  <2> QED  BY <2>1, <2>2, <2>4, RowsUntouched, HandlerStep DEF TypeInv, TypeOK
<1>4. CASE ReleaseOne(h)
  <2>1. PICK r \in req[h].over :
          /\ Goto(h, "release", [req[h] EXCEPT !.over = @ \ {r}])
          /\ seats' = [seats EXCEPT ![reservations[r].seat] = "available"] \/ UNCHANGED seats
    BY <1>4 DEF ReleaseOne
  <2>2. UNCHANGED <<clock, reservations, nextReservation, confirmed>>
    BY <1>4 DEF ReleaseOne
  <2>3. seats' \in [SeatNos -> {"available", "occupied"}]
    BY <2>1 DEF TypeInv, TypeOK
  <2>4. PICK locals \in Req : locals = [req[h] EXCEPT !.over = @ \ {r}]
    BY <1>0 DEF Req
  <2>5. locals.stale = req[h].stale /\ locals.over = req[h].over \ {r}
    BY <1>0, <2>4 DEF Req
  <2>6. LocalOK("release", locals)' /\ "release" \in PC
    BY <1>0, <2>2, <2>5 DEF LocalOK, PC, clock
  <2> QED  BY <2>1, <2>2, <2>3, <2>4, <2>6, RowsUntouched, HandlerStep DEF TypeInv, TypeOK
<1>5. CASE ReleaseDone(h)
  BY <1>5, NoReqTyped, RowsUntouched, HandlerStep DEF ReleaseDone, Finish, TypeInv, TypeOK
<1> QED  BY <1>1, <1>2, <1>3, <1>4, <1>5

\* Cancelling, and the surroundings.
LEMMA OthersTyped ==
  ASSUME TypeInv,
         (\E h \in Handlers : Fault(h)) \/ (\E r \in Ids : CancelSeatReservation(r)) \/ Tick \/ Midnight
  PROVE  TypeInv'
<1>1. ASSUME NEW h \in Handlers, Fault(h)
      PROVE  TypeInv'
  BY <1>1, NoReqTyped, RowsUntouched, HandlerStep DEF Fault, Finish, TypeInv, TypeOK
<1>2. ASSUME NEW r \in Ids, CancelSeatReservation(r)
      PROVE  TypeInv'
  <2>1. UNCHANGED <<clock, seats, nextReservation, pc, req, confirmed>>
    BY <1>2 DEF CancelSeatReservation
  <2>2. /\ reservations' \in [Ids -> Reservation] /\ RowsKept /\ RowsOK'
        /\ nextReservation' \in 1..(MaxReservation + 1)
    BY <1>2, <2>1, RowDecided DEF CancelSeatReservation
  <2>3. TypeOK'
    BY <2>1, <2>2 DEF TypeInv, TypeOK, clock
  <2>4. \A h \in Handlers : req[h].stale \subseteq Ids /\ req[h].over \subseteq Ids
    BY DEF TypeInv, TypeOK, Req
  <2>5. LocalsOK'
    BY <2>1, <2>2, <2>4 DEF TypeInv, LocalsOK, LocalOK, CheckedIn, RowsKept, clock
  <2>6. \A q \in confirmed' : CheckedIn(q)'
    BY <2>1, <2>2 DEF TypeInv, TypeOK, CheckedIn, RowsKept, clock
  <2> QED  BY <2>2, <2>3, <2>5, <2>6 DEF TypeInv
<1>3. CASE Tick \/ Midnight
  <2>1. /\ today \in Nat /\ today' \in Nat /\ today' >= today /\ instant' \in 0..(2 * LastSlot)
        /\ UNCHANGED <<seats, reservations, nextReservation, pc, req, confirmed>>
    BY <1>3, SeatsAssumption DEF Tick, Midnight, TypeInv, TypeOK
  <2>2. TypeOK' /\ RowsOK'
    BY <2>1 DEF TypeInv, TypeOK, RowsOK
  <2>3. \A r \in Ids : reservations[r].date \in Nat
    BY DEF TypeInv, TypeOK, Reservation
  <2>4. \A h \in Handlers : req[h].stale \subseteq Ids /\ req[h].over \subseteq Ids
    BY DEF TypeInv, TypeOK, Req
  <2>5. LocalsOK'
    BY <2>1, <2>3, <2>4 DEF TypeInv, LocalsOK, LocalOK, CheckedIn
  <2>6. \A q \in confirmed' : CheckedIn(q)'
    BY <2>1, <2>3 DEF TypeInv, TypeOK, CheckedIn
  <2> QED  BY <2>2, <2>5, <2>6 DEF TypeInv
<1> QED  BY <1>1, <1>2, <1>3

LEMMA TypeInvInit == Init => TypeInv
<1> SUFFICES ASSUME Init PROVE TypeInv
  OBVIOUS
<1>1. NoReservation \in Reservation /\ NoReservation.status = "none"
  BY SeatsAssumption DEF NoReservation, Reservation
<1>2. TypeOK
  BY <1>1, NoReqTyped, SeatsAssumption DEF Init, TypeOK
<1>3. RowsOK
  BY <1>1 DEF Init, RowsOK
<1>4. LocalsOK
  BY NoReqTyped DEF Init, LocalsOK
<1> QED  BY <1>2, <1>3, <1>4 DEF Init, TypeInv

LEMMA TypeInvNext == TypeInv /\ [Next]_vars => TypeInv'
<1> SUFFICES ASSUME TypeInv, [Next]_vars PROVE TypeInv'
  OBVIOUS
<1>1. CASE UNCHANGED vars
  BY <1>1 DEF vars, TypeInv, TypeOK, RowsOK, LocalsOK, LocalOK, CheckedIn
<1>2. CASE Next
  BY <1>2, ReserveTyped, CheckinTyped, CleanupTyped, OthersTyped DEF Next
<1> QED  BY <1>1, <1>2

LEMMA TypeInvariance == Spec => []TypeInv
BY TypeInvInit, TypeInvNext, PTL DEF Spec

\* Every variable of the seats model keeps its type.
THEOREM SeatsTypeCorrect == Spec => []TypeOK
<1>1. TypeInv => TypeOK
  BY DEF TypeInv
<1> QED  BY <1>1, TypeInvariance, PTL

----------------------------------------------------------------------------
(* Decisions are final.                                                    *)

\* Each step inserts one new row, decides one active row, or writes none; it
\* expires a row only after its day, and checks none in before it.
LEMMA OneRowAtATime ==
  ASSUME TypeInv, [Next]_vars
  PROVE  \/ UNCHANGED reservations /\ (UNCHANGED today \/ today' = today + 1)
         \/ \E h \in Handlers :
              /\ Free(req[h].row) /\ nextReservation \in Ids /\ LocalOK("create", req[h])
              /\ reservations' = [reservations EXCEPT ![nextReservation] = req[h].row]
              /\ UNCHANGED today
         \/ \E r \in Ids, to \in {"cancelled", "checked_in", "expired"} :
              /\ UpdateSeatReservationStatus(r, "active", to)
              /\ to = "expired" => reservations[r].date < today
              /\ to = "checked_in" => reservations[r].date <= today
              /\ UNCHANGED today
<1>1. ASSUME NEW h \in Handlers, CreateSeatReservation(h), ~ UNCHANGED reservations
      PROVE  /\ Free(req[h].row) /\ nextReservation \in Ids /\ LocalOK("create", req[h])
             /\ reservations' = [reservations EXCEPT ![nextReservation] = req[h].row]
  BY <1>1 DEF CreateSeatReservation, TypeInv, LocalsOK
<1>2. ASSUME NEW h \in Handlers, CheckinUpdate(h), ~ UNCHANGED reservations
      PROVE  \E r \in Ids : /\ UpdateSeatReservationStatus(r, "active", "checked_in")
                            /\ reservations[r].date <= today
  BY <1>2 DEF CheckinUpdate, TypeInv, LocalsOK, LocalOK
<1>3. ASSUME NEW h \in Handlers, ExpireOne(h), ~ UNCHANGED reservations
      PROVE  \E r \in Ids : /\ UpdateSeatReservationStatus(r, "active", "expired")
                            /\ reservations[r].date < today
  <2>1. PICK r \in req[h].stale : UpdateSeatReservationStatus(r, "active", "expired")
    BY <1>3 DEF ExpireOne
  <2>2. r \in Ids /\ reservations[r].date < today
    BY DEF TypeInv, TypeOK, Req, LocalsOK, LocalOK
  <2> QED  BY <2>1, <2>2
<1>4. ASSUME NEW r \in Ids, CancelSeatReservation(r)
      PROVE  UpdateSeatReservationStatus(r, "active", "cancelled") /\ UNCHANGED today
  BY <1>4 DEF CancelSeatReservation, clock
<1>5. ASSUME NEW h \in Handlers,
             \/ \E p \in Patrons, s \in SeatNos, d \in 0..(MaxDay + 1), k \in Slots : ReserveSeat(h, p, s, d, k)
             \/ \E r \in Ids : CheckinSeat(h, r)
             \/ Occupy(h) \/ ExpireScan(h) \/ ExpireDone(h) \/ ReleaseOne(h) \/ ReleaseDone(h)
             \/ Fault(h)
      PROVE  UNCHANGED <<clock, reservations>>
  BY <1>5 DEF ReserveSeat, CheckinSeat, Occupy, ExpireScan, ExpireDone, ReleaseOne, ReleaseDone, Fault
<1>6. ASSUME NEW h \in Handlers, CreateSeatReservation(h) \/ CheckinUpdate(h) \/ ExpireOne(h)
      PROVE  UNCHANGED clock
  BY <1>6 DEF CreateSeatReservation, CheckinUpdate, ExpireOne
<1>7. ASSUME Tick \/ Midnight \/ UNCHANGED vars
      PROVE  UNCHANGED reservations /\ (UNCHANGED today \/ today' = today + 1)
  BY <1>7 DEF Tick, Midnight, vars
<1>8. UNCHANGED clock => UNCHANGED today
  BY DEF clock
<1> QED  BY <1>1, <1>2, <1>3, <1>4, <1>5, <1>6, <1>7, <1>8 DEF Next

\* Cancelled, checked in or expired, a reservation stays so.
THEOREM SeatsDecidedOnce == Spec => DecidedOnce
<1> DEFINE Final == \A r \in Ids :
             reservations[r].status \in {"cancelled", "checked_in", "expired"}
               => reservations'[r] = reservations[r]
<1>1. TypeInv /\ [Next]_vars => Final
  <2> SUFFICES ASSUME TypeInv, [Next]_vars PROVE Final
    OBVIOUS
  <2>1. reservations \in [Ids -> Reservation]
    BY DEF TypeInv, TypeOK
  <2>2. nextReservation \in Ids => reservations[nextReservation].status = "none"
    BY SeatsAssumption DEF TypeInv, TypeOK, RowsOK, Ids
  <2> QED  BY <2>1, <2>2, OneRowAtATime DEF UpdateSeatReservationStatus
<1>2. TypeInv /\ [Next]_vars => [Final]_vars
  BY <1>1
<1> QED  BY <1>2, TypeInvariance, PTL DEF Spec, DecidedOnce

\* A reservation is never expired on its own day.
THEOREM SeatsStandTillMidnight == Spec => TodayStandsTillMidnight
<1> DEFINE Stands == \A r \in Ids :
             reservations[r].status = "active" /\ reservations'[r].status = "expired"
               => reservations[r].date < today
<1>1. TypeInv /\ [Next]_vars => Stands
  <2> SUFFICES ASSUME TypeInv, [Next]_vars PROVE Stands
    OBVIOUS
  <2>1. reservations \in [Ids -> Reservation]
    BY DEF TypeInv, TypeOK
  <2>2. nextReservation \in Ids => reservations[nextReservation].status = "none"
    BY SeatsAssumption DEF TypeInv, TypeOK, RowsOK, Ids
  <2> QED  BY <2>1, <2>2, OneRowAtATime DEF UpdateSeatReservationStatus, Reservation
<1>2. TypeInv /\ [Next]_vars => [Stands]_vars
  BY <1>1
<1> QED  BY <1>2, TypeInvariance, PTL DEF Spec, TodayStandsTillMidnight

----------------------------------------------------------------------------
(* No double booking.                                                      *)

LEMMA BookingNext == TypeInv /\ NoDoubleBooking /\ [Next]_vars => NoDoubleBooking'
<1> SUFFICES ASSUME TypeInv, NoDoubleBooking, [Next]_vars PROVE NoDoubleBooking'
  OBVIOUS
<1>0. reservations \in [Ids -> Reservation]
  BY DEF TypeInv, TypeOK
<1>1. CASE UNCHANGED reservations
  BY <1>1 DEF NoDoubleBooking, Standing
<1>2. ASSUME NEW h \in Handlers, Free(req[h].row), nextReservation \in Ids,
             reservations' = [reservations EXCEPT ![nextReservation] = req[h].row]
      PROVE  NoDoubleBooking'
  <2> DEFINE n == nextReservation
  <2>1. n \in Ids /\ n \notin Standing /\ reservations'[n] = req[h].row
    BY <1>0, <1>2, SeatsAssumption DEF TypeInv, TypeOK, RowsOK, Ids, Standing
  <2>2. \A r \in Ids : r # n => reservations'[r] = reservations[r]
    BY <1>0, <1>2
  <2>3. Standing' \subseteq Standing \cup {n}
    BY <2>2 DEF Standing
  <2>4. \A r \in Standing : r \in Ids /\ reservations'[r] = reservations[r]
    BY <2>1, <2>2 DEF Standing
  <2>5. \A r \in Standing :
          reservations[r].date = req[h].row.date =>
            /\ ~ (reservations[r].seat = req[h].row.seat /\ reservations[r].slot = req[h].row.slot)
            /\ reservations[r].patron # req[h].row.patron
    BY <1>2 DEF Free
  <2> HIDE DEF n
  <2> QED  BY <2>1, <2>3, <2>4, <2>5 DEF NoDoubleBooking
<1>3. ASSUME NEW r \in Ids, NEW to \in {"cancelled", "checked_in", "expired"},
             UpdateSeatReservationStatus(r, "active", to)
      PROVE  NoDoubleBooking'
  <2>1. /\ reservations[r].status = "active"
        /\ \A q \in Ids : /\ reservations'[q].seat = reservations[q].seat
                          /\ reservations'[q].patron = reservations[q].patron
                          /\ reservations'[q].date = reservations[q].date
                          /\ reservations'[q].slot = reservations[q].slot
                          /\ q # r => reservations'[q].status = reservations[q].status
    BY <1>0, <1>3 DEF UpdateSeatReservationStatus, Reservation
  <2>2. Standing' \subseteq Standing /\ Standing \subseteq Ids
    BY <2>1 DEF Standing
  <2> QED  BY <2>1, <2>2 DEF NoDoubleBooking
<1> QED  BY <1>1, <1>2, <1>3, OneRowAtATime

\* Whatever requests race, no seat is reserved twice for a slot, and no reader
\* holds two seats on a day.
THEOREM SeatsBookedOnce == Spec => []NoDoubleBooking
<1>1. Init => NoDoubleBooking
  BY DEF Init, NoDoubleBooking, Standing, NoReservation
<1> QED  BY <1>1, BookingNext, TypeInvariance, PTL DEF Spec

----------------------------------------------------------------------------
(* Seats and check-ins.                                                    *)

\* Every step keeps the rows that are there.
LEMMA RowsKeptNext ==
  ASSUME TypeInv, [Next]_vars
  PROVE  RowsKept
<1>0. reservations \in [Ids -> Reservation]
  BY DEF TypeInv, TypeOK
<1>1. CASE UNCHANGED reservations
  BY <1>1 DEF RowsKept
<1>2. ASSUME NEW h \in Handlers, nextReservation \in Ids,
             reservations' = [reservations EXCEPT ![nextReservation] = req[h].row]
      PROVE  RowsKept
  BY <1>0, <1>2, SeatsAssumption DEF TypeInv, TypeOK, RowsOK, Ids, RowsKept
<1>3. ASSUME NEW r \in Ids, NEW to \in {"cancelled", "checked_in", "expired"},
             UpdateSeatReservationStatus(r, "active", to)
      PROVE  RowsKept
  BY <1>0, <1>3 DEF UpdateSeatReservationStatus, Reservation, RowsKept
<1> QED  BY <1>1, <1>2, <1>3, OneRowAtATime

\* The code keeps the seat of a check-in for more than its slot: until the day
\* is over.  This is what is inductive.
SeatKeptAllDay ==
  \A r \in confirmed :
    LET s == reservations[r].seat IN
    reservations[r].date = today /\ (\A q \in CheckedInOn(s) : reservations[q].date = today)
      => seats[s] = "occupied"

\* A seat that is freed belongs to a check-in of an earlier day, which stays
\* on the books: from then on the proviso of SeatKeptAllDay does not hold
\* for that seat.
LEMMA SeatInvNext ==
  TypeInv /\ OccupiedByCheckin /\ SeatKeptAllDay /\ [Next]_vars
    => OccupiedByCheckin' /\ SeatKeptAllDay'
<1> SUFFICES ASSUME TypeInv, OccupiedByCheckin, SeatKeptAllDay, [Next]_vars
             PROVE  OccupiedByCheckin' /\ SeatKeptAllDay'
  OBVIOUS
<1>1. /\ reservations \in [Ids -> Reservation] /\ today \in Nat /\ confirmed \subseteq Ids
      /\ seats \in [SeatNos -> {"available", "occupied"}]
      /\ \A r \in confirmed : CheckedIn(r)
  BY DEF TypeInv, TypeOK
<1>2. \A s \in SeatNos : \A r \in CheckedInOn(s) :
        r \in CheckedInOn(s)' /\ reservations'[r].date = reservations[r].date
  BY RowsKeptNext DEF CheckedInOn, RowsKept
<1>3. \A r \in confirmed : /\ reservations'[r].seat = reservations[r].seat
                           /\ reservations'[r].date = reservations[r].date
                           /\ reservations[r].seat \in SeatNos
  BY <1>1, RowsKeptNext DEF RowsKept, CheckedIn, TypeInv, RowsOK
<1>4. ASSUME UNCHANGED seats
      PROVE  OccupiedByCheckin'
  BY <1>2, <1>4 DEF OccupiedByCheckin, CheckedInOn
<1>5. ASSUME UNCHANGED <<seats, confirmed, today>>
      PROVE  SeatKeptAllDay'
  BY <1>2, <1>3, <1>5 DEF SeatKeptAllDay
<1>6. ASSUME NEW h \in Handlers, Occupy(h)
      PROVE  OccupiedByCheckin' /\ SeatKeptAllDay'
  <2> DEFINE r == req[h].id
  <2>1. /\ seats' = [seats EXCEPT ![reservations[r].seat] = "occupied"]
        /\ confirmed' = confirmed \cup {r} /\ UNCHANGED <<today, reservations>>
    BY <1>6 DEF Occupy, clock
  <2>2. r \in Ids /\ reservations[r].status = "checked_in"
    BY <1>6 DEF Occupy, TypeInv, LocalsOK, LocalOK, CheckedIn
  <2>3. reservations[r].seat \in SeatNos
    BY <2>2 DEF TypeInv, RowsOK
  <2> HIDE DEF r
  <2>4. OccupiedByCheckin'
    BY <1>1, <2>1, <2>2, <2>3 DEF OccupiedByCheckin
  <2>5. SeatKeptAllDay'
    BY <1>1, <1>3, <2>1, <2>3 DEF SeatKeptAllDay, CheckedInOn
  <2> QED  BY <2>4, <2>5
<1>7. ASSUME NEW h \in Handlers, ReleaseOne(h)
      PROVE  OccupiedByCheckin' /\ SeatKeptAllDay'
  <2>1. PICK r \in req[h].over :
          seats' = [seats EXCEPT ![reservations[r].seat] = "available"] \/ UNCHANGED seats
    BY <1>7 DEF ReleaseOne
  <2>2. /\ r \in Ids /\ reservations[r].status = "checked_in" /\ reservations[r].date < today
        /\ reservations[r].date \in Nat
    BY <1>1 DEF TypeInv, TypeOK, Req, LocalsOK, LocalOK, Reservation
  <2>3. UNCHANGED <<today, reservations, confirmed>>
    BY <1>7 DEF ReleaseOne, clock
  <2>4. OccupiedByCheckin'
    BY <1>1, <2>1, <2>3 DEF OccupiedByCheckin
  <2>5. ASSUME NEW q \in confirmed, reservations[q].date = today,
               \A x \in CheckedInOn(reservations[q].seat) : reservations[x].date = today
        PROVE  seats'[reservations[q].seat] = "occupied"
    <3>1. r \notin CheckedInOn(reservations[q].seat)
      BY <1>1, <2>2, <2>5
    <3>2. reservations[r].seat # reservations[q].seat
      BY <2>2, <3>1 DEF CheckedInOn
    <3>3. seats[reservations[q].seat] = "occupied"
      BY <2>5 DEF SeatKeptAllDay
    <3> QED  BY <1>1, <1>3, <2>1, <3>2, <3>3
  <2>6. SeatKeptAllDay'
    BY <2>3, <2>5 DEF SeatKeptAllDay, CheckedInOn
  <2> QED  BY <2>4, <2>6
<1>8. ASSUME Midnight
      PROVE  OccupiedByCheckin' /\ SeatKeptAllDay'
  <2>1. today' = today + 1 /\ UNCHANGED <<seats, reservations, confirmed>>
    BY <1>8 DEF Midnight
  <2>2. \A r \in confirmed : reservations'[r].date # today'
    <3>1. \A r \in Ids : reservations[r].date \in Nat
      BY <1>1 DEF Reservation
    <3> QED  BY <1>1, <2>1, <3>1 DEF CheckedIn
  <2> QED  BY <1>4, <2>1, <2>2 DEF SeatKeptAllDay
<1>9. CASE \/ \E h \in Handlers :
                \/ \E p \in Patrons, s \in SeatNos, d \in 0..(MaxDay + 1), k \in Slots : ReserveSeat(h, p, s, d, k)
                \/ CreateSeatReservation(h)
                \/ \E r \in Ids : CheckinSeat(h, r)
                \/ CheckinUpdate(h)
                \/ ExpireScan(h) \/ ExpireOne(h) \/ ExpireDone(h) \/ ReleaseDone(h)
                \/ Fault(h)
           \/ \E r \in Ids : CancelSeatReservation(r)
           \/ Tick \/ UNCHANGED vars
  <2>1. UNCHANGED <<seats, confirmed, today>>
    BY <1>9 DEF ReserveSeat, CreateSeatReservation, CheckinSeat, CheckinUpdate, ExpireScan,
                ExpireOne, ExpireDone, ReleaseDone, Fault, CancelSeatReservation, Tick, clock, vars
  <2> QED  BY <1>4, <1>5, <2>1
<1> QED  BY <1>6, <1>7, <1>8, <1>9 DEF Next

LEMMA SeatInvariance == Spec => [](OccupiedByCheckin /\ SeatKeptAllDay)
<1>1. Init => OccupiedByCheckin /\ SeatKeptAllDay
  BY DEF Init, OccupiedByCheckin, SeatKeptAllDay
<1> QED  BY <1>1, SeatInvNext, TypeInvariance, PTL DEF Spec

\* Only a check-in makes a seat occupied, and a check-in that was answered
\* with success keeps it occupied until its slot ends, whatever clean-ups are
\* under way, unless somebody checked in there on an earlier day.
THEOREM SeatsCheckinKept == Spec => []SeatsMatchCheckins
<1>1. SeatKeptAllDay => ConfirmedSeatKept
  BY DEF SeatKeptAllDay, ConfirmedSeatKept
<1>2. OccupiedByCheckin /\ ConfirmedSeatKept => SeatsMatchCheckins
  BY DEF SeatsMatchCheckins
<1> QED  BY <1>1, <1>2, SeatInvariance, PTL

----------------------------------------------------------------------------
(* Seats implements ReadingRoom.                                           *)

BookingsOf(S) == {Booking(r) : r \in S}

\* Booking(r) identifies the standing reservation r.
LEMMA OneRowPerBooking ==
  ASSUME NoDoubleBooking, NEW r \in Standing, NEW q \in Standing, Booking(r) = Booking(q)
  PROVE  r = q
BY DEF NoDoubleBooking, Booking

\* A new row is a new booking, which clashes with none.
LEMMA InsertIsBook ==
  ASSUME TypeInv, NEW h \in Handlers, Free(req[h].row), LocalOK("create", req[h]), UNCHANGED today,
         NEW n \in Ids, n = nextReservation,
         reservations' = [reservations EXCEPT ![n] = req[h].row]
  PROVE  Promise!Next
<1> DEFINE row == req[h].row
           b == [patron |-> row.patron, seat |-> row.seat, date |-> row.date, slot |-> row.slot]
<1>1. /\ reservations \in [Ids -> Reservation]
      /\ reservations[n].status = "none" /\ row.status = "active"
  BY SeatsAssumption DEF TypeInv, TypeOK, RowsOK, Ids, LocalOK
<1>2. reservations'[n] = row /\ \A r \in Ids : r # n => reservations'[r] = reservations[r]
  BY <1>1
<1>3. Standing' = Standing \cup {n} /\ n \notin Standing /\ UNCHANGED <<CheckedInRows, Expired>>
  BY <1>1, <1>2 DEF Standing, CheckedInRows, Expired
<1>4. Booking(n)' = b /\ \A r \in Ids \ {n} : Booking(r)' = Booking(r)
  BY <1>2 DEF Booking
<1>5. /\ n \notin CheckedInRows /\ n \notin Expired
      /\ Standing \subseteq Ids /\ CheckedInRows \subseteq Ids /\ Expired \subseteq Ids
  BY <1>1 DEF Standing, CheckedInRows, Expired
<1>6. /\ BookingsOf(Standing)' = BookingsOf(Standing) \cup {b}
      /\ UNCHANGED <<BookingsOf(CheckedInRows), BookingsOf(Expired)>>
  BY <1>3, <1>4, <1>5 DEF BookingsOf
<1>7. b \in Promise!Bookings
  BY DEF LocalOK, Slots, Promise!Bookings
<1>8. \A c \in BookingsOf(Standing) : ~ Promise!Clash(b, c)
  BY DEF BookingsOf, Booking, Free, Promise!Clash
<1>9. Promise!Book(b)
  BY <1>6, <1>8 DEF BookingsOf, Promise!Book
<1> QED  BY <1>7, <1>9 DEF Promise!Next

\* Deciding a reservation gives it up, honours it, or lets it lapse.
LEMMA DecisionIsPromised ==
  ASSUME TypeInv, NoDoubleBooking, NEW r \in Ids, NEW to \in {"cancelled", "checked_in", "expired"},
         UpdateSeatReservationStatus(r, "active", to), UNCHANGED today,
         to = "expired" => reservations[r].date < today,
         to = "checked_in" => reservations[r].date <= today
  PROVE  Promise!Next
<1> DEFINE b == Booking(r)
<1>1. reservations \in [Ids -> Reservation]
  BY DEF TypeInv, TypeOK
<1>2. /\ reservations[r].status = "active" /\ reservations'[r].status = to
      /\ \A q \in Ids : q # r => reservations'[q] = reservations[q]
      /\ reservations'[r].patron = reservations[r].patron /\ reservations'[r].seat = reservations[r].seat
      /\ reservations'[r].date = reservations[r].date /\ reservations'[r].slot = reservations[r].slot
  BY <1>1 DEF UpdateSeatReservationStatus, Reservation
<1>3. \A q \in Ids : Booking(q)' = Booking(q)
  BY <1>2 DEF Booking
<1>4. /\ r \in Standing \ CheckedInRows /\ CheckedInRows \subseteq Standing
      /\ Standing \subseteq Ids /\ Expired \subseteq Ids
  BY <1>2 DEF Standing, CheckedInRows, Expired
<1>5. /\ Standing' = IF to = "checked_in" THEN Standing ELSE Standing \ {r}
      /\ CheckedInRows' = IF to = "checked_in" THEN CheckedInRows \cup {r} ELSE CheckedInRows
      /\ Expired' = IF to = "expired" THEN Expired \cup {r} ELSE Expired
  BY <1>2 DEF Standing, CheckedInRows, Expired
<1>6. /\ BookingsOf(Standing)' = {Booking(q) : q \in Standing'}
      /\ BookingsOf(CheckedInRows)' = {Booking(q) : q \in CheckedInRows'}
      /\ BookingsOf(Expired)' = {Booking(q) : q \in Expired'}
  BY <1>3 DEF BookingsOf, Standing, CheckedInRows, Expired
<1>7. \A q \in Standing : Booking(q) = b => q = r
  BY <1>4, OneRowPerBooking
<1>8. b \in BookingsOf(Standing) \ BookingsOf(CheckedInRows) /\ b.date = reservations[r].date
  BY <1>4, <1>7 DEF BookingsOf, Booking
<1> HIDE DEF b
<1>9. {Booking(q) : q \in Standing \ {r}} = BookingsOf(Standing) \ {b}
  BY <1>4, <1>7 DEF BookingsOf, b
<1>10. /\ {Booking(q) : q \in CheckedInRows \cup {r}} = BookingsOf(CheckedInRows) \cup {b}
      /\ {Booking(q) : q \in Expired \cup {r}} = BookingsOf(Expired) \cup {b}
  BY DEF BookingsOf, b
<1>11. CASE to = "cancelled"
  <2>1. /\ BookingsOf(Standing)' = BookingsOf(Standing) \ {b}
        /\ UNCHANGED <<BookingsOf(CheckedInRows), BookingsOf(Expired)>>
    <3>1. Standing' = Standing \ {r} /\ CheckedInRows' = CheckedInRows /\ Expired' = Expired
      BY <1>5, <1>11
    <3> QED  BY <1>6, <1>9, <3>1 DEF BookingsOf
  <2>2. Promise!GiveUp(b)
    BY <1>8, <2>1 DEF BookingsOf, Promise!GiveUp
  <2> QED  BY <1>8, <2>2 DEF BookingsOf, Promise!Next
<1>12. CASE to = "checked_in"
  <2>1. /\ BookingsOf(CheckedInRows)' = BookingsOf(CheckedInRows) \cup {b}
        /\ UNCHANGED <<BookingsOf(Standing), BookingsOf(Expired)>>
    <3>1. Standing' = Standing /\ CheckedInRows' = CheckedInRows \cup {r} /\ Expired' = Expired
      BY <1>5, <1>12
    <3> QED  BY <1>6, <1>10, <3>1 DEF BookingsOf
  <2>2. Promise!Appear(b)
    BY <1>8, <1>12, <2>1 DEF BookingsOf, Promise!Appear
  <2> QED  BY <1>8, <2>2 DEF BookingsOf, Promise!Next
<1>13. CASE to = "expired"
  <2>1. /\ BookingsOf(Standing)' = BookingsOf(Standing) \ {b}
        /\ BookingsOf(Expired)' = BookingsOf(Expired) \cup {b}
        /\ UNCHANGED BookingsOf(CheckedInRows)
    <3>1. Standing' = Standing \ {r} /\ CheckedInRows' = CheckedInRows /\ Expired' = Expired \cup {r}
      BY <1>5, <1>13
    <3> QED  BY <1>6, <1>9, <1>10, <3>1 DEF BookingsOf
  <2>2. Promise!Lapse(b)
    BY <1>8, <1>13, <2>1 DEF BookingsOf, Promise!Lapse
  <2> QED  BY <1>8, <2>2 DEF BookingsOf, Promise!Next
<1> QED  BY <1>11, <1>12, <1>13

LEMMA ReadingRoomStep ==
  ASSUME TypeInv, NoDoubleBooking, [Next]_vars
  PROVE  [Promise!Next]_(Promise!vars)
<1>1. ASSUME UNCHANGED reservations, UNCHANGED today \/ today' = today + 1
      PROVE  [Promise!Next]_(Promise!vars)
  <2>1. UNCHANGED <<BookingsOf(Standing), BookingsOf(CheckedInRows), BookingsOf(Expired)>>
    BY <1>1 DEF BookingsOf, Booking, Standing, CheckedInRows, Expired
  <2>2. CASE UNCHANGED today
    BY <2>1, <2>2 DEF BookingsOf, Promise!vars
  <2>3. CASE today' = today + 1
    BY <2>1, <2>3 DEF BookingsOf, Promise!NewDay, Promise!Next
  <2> QED  BY <1>1, <2>2, <2>3
<1> QED  BY <1>1, OneRowAtATime, InsertIsBook, DecisionIsPromised

\* ReserveSeat, CancelSeatReservation, CheckinSeat and the clean-up, cut into
\* statements and interleaved at will, implement the reading room of
\* ReadingRoom: bookings never clash, and a booking that stands ends by its
\* reader's own cancellation or after its day, never once he checked in.
THEOREM ReadingRoomImplemented == Spec => ImplementsReadingRoom
<1>1. Init => Promise!Init
  BY DEF Init, NoReservation, Standing, CheckedInRows, Expired, Promise!Init
<1>2. TypeInv /\ NoDoubleBooking /\ [Next]_vars => [Promise!Next]_(Promise!vars)
  BY ReadingRoomStep
<1> QED  BY <1>1, <1>2, TypeInvariance, SeatsBookedOnce, PTL
         DEF Spec, ImplementsReadingRoom, Promise!Spec
=============================================================================
