-------------------------------- MODULE Seats --------------------------------
(***************************************************************************)
(* Reserving a reading-room seat, checking in and the lazy clean-up of past *)
(* reservations: internal/service/seats.go over internal/store/seats.go.   *)
(*                                                                         *)
(* As in Circulation a handler is the goroutine of one request, and every  *)
(* statement it sends to the database is one action.  Each of them is a    *)
(* single INSERT, UPDATE or SELECT, atomic in both databases.              *)
(*                                                                         *)
(* A day is cut into the instants that the code tells apart: at instant    *)
(* 2k - 1 the k-th slot is running, at an even instant none is.            *)
(***************************************************************************)
EXTENDS Integers, FiniteSets

CONSTANTS
  Patrons, SeatNos, Handlers,
  Nobody,                \* the null reference
  LastSlot,              \* the number of slots in a day (SeatSlots)
  MaxReservation, MaxDay \* bounds: rows ever inserted, last day

ASSUME SeatsAssumption ==
  /\ Nobody \notin Patrons \cup SeatNos
  /\ LastSlot \in Nat \ {0} /\ MaxReservation \in Nat /\ MaxDay \in Nat

VARIABLES
  today, instant,   \* the clock
  seats,            \* seats.status
  reservations,     \* the seat_reservations table
  nextReservation,  \* its next id
  pc, req,          \* next statement and local variables of each handler
  confirmed         \* history: the check-ins that were answered with success

clock == <<today, instant>>
vars == <<today, instant, seats, reservations, nextReservation, pc, req, confirmed>>

Slots == 1..LastSlot
Ids == 1..MaxReservation

Reservation ==
  [seat: SeatNos \cup {Nobody}, patron: Patrons \cup {Nobody}, date: Nat, slot: 0..LastSlot,
   status: {"none", "active", "cancelled", "checked_in", "expired"}]
NoReservation ==
  [seat |-> Nobody, patron |-> Nobody, date |-> 0, slot |-> 0, status |-> "none"]

PC == {"idle", "create", "checkin", "occupy", "expire", "release"}

\* row: what a reservation under way will insert; id: the reservation being
\* checked in; stale: the reservations the clean-up still has to expire,
\* over: those whose seat it still has to release.
Req == [row: Reservation, id: 0..MaxReservation, stale: SUBSET Ids, over: SUBSET Ids]
NoReq == [row |-> NoReservation, id |-> 0, stale |-> {}, over |-> {}]

TypeOK ==
  /\ today \in Nat /\ instant \in 0..(2 * LastSlot)
  /\ seats \in [SeatNos -> {"available", "occupied"}]
  /\ reservations \in [Ids -> Reservation]
  /\ nextReservation \in 1..(MaxReservation + 1)
  /\ pc \in [Handlers -> PC] /\ req \in [Handlers -> Req]
  /\ confirmed \subseteq Ids

----------------------------------------------------------------------------
(* The clock as the code reads it, and the rows that take a seat. *)

slotNow(k) == instant = 2 * k - 1

slotEnded(k) == instant >= 2 * k

\* Expiring a reservation as soon as its slot is over, as an earlier version did.
ExpiredAtSlotEnd(r) ==
  reservations[r].date < today
    \/ (reservations[r].date = today /\ slotEnded(reservations[r].slot))

seatReservationExpired(r) == reservations[r].date < today

Standing == {r \in Ids : reservations[r].status \in {"active", "checked_in"}}

Goto(h, label, locals) ==
  /\ pc' = [pc EXCEPT ![h] = label]
  /\ req' = [req EXCEPT ![h] = locals]

Begin(h, label, locals) == pc[h] = "idle" /\ Goto(h, label, locals)

Finish(h) == Goto(h, "idle", NoReq)

----------------------------------------------------------------------------
(* Reserving. *)

\* ReserveSeat: what it asks of the clock.  The seat exists, seats are never
\* deleted.
ReserveSeat(h, p, s, d, k) ==
  /\ ~ (d = today /\ slotEnded(k))
  /\ d >= today
  /\ Begin(h, "create",
           [NoReq EXCEPT !.row = [seat |-> s, patron |-> p, date |-> d, slot |-> k,
                                  status |-> "active"]])
  /\ UNCHANGED <<clock, seats, reservations, nextReservation, confirmed>>

\* Looking at reservations that are not checked in yet.
FreeOfActive(row) ==
  ~ \E r \in Ids :
      /\ reservations[r].status = "active" /\ reservations[r].date = row.date
      /\ \/ reservations[r].seat = row.seat /\ reservations[r].slot = row.slot
         \/ reservations[r].patron = row.patron

\* The two NOT EXISTS: nobody has the seat in that slot, and the patron has
\* no seat on that day.
Free(row) ==
  ~ \E r \in Standing :
      /\ reservations[r].date = row.date
      /\ \/ reservations[r].seat = row.seat /\ reservations[r].slot = row.slot
         \/ reservations[r].patron = row.patron

\* CreateSeatReservation: INSERT ... SELECT ... WHERE NOT EXISTS ....
CreateSeatReservation(h) ==
  /\ pc[h] = "create"
  /\ IF Free(req[h].row) /\ nextReservation \in Ids   \* bound
     THEN /\ reservations' = [reservations EXCEPT ![nextReservation] = req[h].row]
          /\ nextReservation' = nextReservation + 1
     ELSE UNCHANGED <<reservations, nextReservation>>
  /\ Finish(h)
  /\ UNCHANGED <<clock, seats, confirmed>>

\* Overwriting whatever the status has become.
OverwriteStatus(r, from, to) ==
  /\ reservations[r].status # "none"
  /\ reservations' = [reservations EXCEPT ![r].status = to]

\* UPDATE ... SET status=to WHERE id=r AND status=from, when it finds the row.
UpdateSeatReservationStatus(r, from, to) ==
  /\ reservations[r].status = from
  /\ reservations' = [reservations EXCEPT ![r].status = to]

\* The SELECT before the UPDATE refuses no more than the UPDATE does.
CancelSeatReservation(r) ==
  /\ UpdateSeatReservationStatus(r, "active", "cancelled")
  /\ UNCHANGED <<clock, seats, nextReservation, pc, req, confirmed>>

----------------------------------------------------------------------------
(* Checking in. *)

\* GetSeatReservation, and the day and slot at that moment.
CheckinSeat(h, r) ==
  /\ reservations[r].status = "active"
  /\ reservations[r].date = today
  /\ slotNow(reservations[r].slot)
  /\ Begin(h, "checkin", [NoReq EXCEPT !.id = r])
  /\ UNCHANGED <<clock, seats, reservations, nextReservation, confirmed>>

CheckinUpdate(h) ==
  LET r == req[h].id IN
  /\ pc[h] = "checkin"
  /\ \/ /\ UpdateSeatReservationStatus(r, "active", "checked_in")
        /\ Goto(h, "occupy", req[h])
     \/ /\ reservations[r].status # "active"
        /\ Finish(h)
        /\ UNCHANGED reservations
  /\ UNCHANGED <<clock, seats, nextReservation, confirmed>>

\* Answering before the seat is marked.
OccupyForgotten(h) ==
  /\ pc[h] = "occupy"
  /\ confirmed' = confirmed \cup {req[h].id}
  /\ Finish(h)
  /\ UNCHANGED <<clock, seats, reservations, nextReservation>>

\* Writing the status of the reservation to the seat.
OccupyMixedUp(h) ==
  LET r == req[h].id IN
  /\ pc[h] = "occupy"
  /\ seats' = [seats EXCEPT ![reservations[r].seat] = reservations[r].status]
  /\ confirmed' = confirmed \cup {r}
  /\ Finish(h)
  /\ UNCHANGED <<clock, reservations, nextReservation>>

\* UpdateSeatStatus, and the answer.
Occupy(h) ==
  LET r == req[h].id IN
  /\ pc[h] = "occupy"
  /\ seats' = [seats EXCEPT ![reservations[r].seat] = "occupied"]
  /\ confirmed' = confirmed \cup {r}
  /\ Finish(h)
  /\ UNCHANGED <<clock, reservations, nextReservation>>

----------------------------------------------------------------------------
(* The clean-up that runs before every seat query. *)

\* The SELECT of ExpireStaleSeatReservations.
ExpireScan(h) ==
  LET past == {r \in Standing : seatReservationExpired(r)} IN
  /\ past # {}
  /\ Begin(h, "expire",
           [NoReq EXCEPT !.stale = {r \in past : reservations[r].status = "active"},
                         !.over = {r \in past : reservations[r].status = "checked_in"}])
  /\ UNCHANGED <<clock, seats, reservations, nextReservation, confirmed>>

\* One UPDATE for each stale reservation; an error is dropped.
ExpireOne(h) ==
  /\ pc[h] = "expire"
  /\ \E r \in req[h].stale :
       /\ Goto(h, "expire", [req[h] EXCEPT !.stale = @ \ {r}])
       /\ UpdateSeatReservationStatus(r, "active", "expired") \/ UNCHANGED reservations
  /\ UNCHANGED <<clock, seats, nextReservation, confirmed>>

ExpireDone(h) ==
  /\ pc[h] = "expire" /\ req[h].stale = {}
  /\ Goto(h, "release", req[h])
  /\ UNCHANGED <<clock, seats, reservations, nextReservation, confirmed>>

\* Then one UPDATE for the seat of each reservation that was checked in,
\* which stays checked in; an error is dropped.
ReleaseOne(h) ==
  /\ pc[h] = "release"
  /\ \E r \in req[h].over :
       /\ Goto(h, "release", [req[h] EXCEPT !.over = @ \ {r}])
       /\ seats' = [seats EXCEPT ![reservations[r].seat] = "available"] \/ UNCHANGED seats
  /\ UNCHANGED <<clock, reservations, nextReservation, confirmed>>

ReleaseDone(h) ==
  /\ pc[h] = "release" /\ req[h].over = {}
  /\ Finish(h)
  /\ UNCHANGED <<clock, seats, reservations, nextReservation, confirmed>>

----------------------------------------------------------------------------
(* The surroundings. *)

Tick ==
  /\ instant < 2 * LastSlot
  /\ instant' = instant + 1
  /\ UNCHANGED <<today, seats, reservations, nextReservation, pc, req, confirmed>>

Midnight ==
  /\ instant = 2 * LastSlot /\ today < MaxDay   \* bound
  /\ today' = today + 1 /\ instant' = 0
  /\ UNCHANGED <<seats, reservations, nextReservation, pc, req, confirmed>>

\* The next statement fails, or the process dies.
Fault(h) ==
  /\ pc[h] # "idle"
  /\ Finish(h)
  /\ UNCHANGED <<clock, seats, reservations, nextReservation, confirmed>>

Init ==
  /\ today = 0 /\ instant = 0
  /\ seats = [s \in SeatNos |-> "available"]
  /\ reservations = [r \in Ids |-> NoReservation] /\ nextReservation = 1
  /\ pc = [h \in Handlers |-> "idle"] /\ req = [h \in Handlers |-> NoReq]
  /\ confirmed = {}

Next ==
  \/ \E h \in Handlers :
       \/ \E p \in Patrons, s \in SeatNos, d \in 0..(MaxDay + 1), k \in Slots : ReserveSeat(h, p, s, d, k)
       \/ CreateSeatReservation(h)
       \/ \E r \in Ids : CheckinSeat(h, r)
       \/ CheckinUpdate(h) \/ Occupy(h)
       \/ ExpireScan(h) \/ ExpireOne(h) \/ ExpireDone(h) \/ ReleaseOne(h) \/ ReleaseDone(h)
       \/ Fault(h)
  \/ \E r \in Ids : CancelSeatReservation(r)
  \/ Tick \/ Midnight

Spec == Init /\ [][Next]_vars

----------------------------------------------------------------------------
(* Properties. *)

\* "杜绝并发双预约": whatever requests race, a seat has one standing
\* reservation for a slot, and a patron one standing reservation for a day.
NoDoubleBooking ==
  \A r, q \in Standing :
    r # q /\ reservations[r].date = reservations[q].date =>
      /\ ~ (reservations[r].seat = reservations[q].seat /\ reservations[r].slot = reservations[q].slot)
      /\ reservations[r].patron # reservations[q].patron

\* A reservation is decided once, though reader, check-in and clean-up may
\* all be at it: cancelled, checked in or expired, it stays so.
DecidedOnce ==
  [][\A r \in Ids :
       reservations[r].status \in {"cancelled", "checked_in", "expired"}
         => reservations'[r] = reservations[r]]_vars

\* A reservation of today is never expired under its holder, even when its
\* slot is over (the comment on seatReservationExpired tells why).
TodayStandsTillMidnight ==
  [][\A r \in Ids :
       reservations[r].status = "active" /\ reservations'[r].status = "expired"
         => reservations[r].date < today]_vars

\* Only a check-in makes a seat occupied.
OccupiedByCheckin ==
  \A s \in SeatNos : seats[s] = "occupied" =>
    \E r \in Ids : reservations[r].seat = s /\ reservations[r].status = "checked_in"

CheckedInOn(s) == {r \in Ids : reservations[r].seat = s /\ reservations[r].status = "checked_in"}

\* A reader whose check-in was answered with success has the seat marked as
\* occupied as long as the slot lasts: a failure in between is reported, not
\* swallowed (CheckinSeat), and no clean-up, however late, frees it under the
\* reader.  Nothing is claimed after the end of the slot: there the comment of
\* ExpireStaleSeatReservations frees the seat, and its code keeps it until the
\* next day.  Provided nobody checked in there on an earlier day, see
\* SeatKeptInSlot.
ConfirmedSeatKept ==
  \A r \in confirmed :
    LET row == reservations[r] IN
    /\ row.date = today /\ ~ slotEnded(row.slot)
    /\ \A q \in CheckedInOn(row.seat) : reservations[q].date = today
    => seats[row.seat] = "occupied"

\* The seat room agrees with the check-ins, in both directions.
SeatsMatchCheckins == OccupiedByCheckin /\ ConfirmedSeatKept

\* The same without the proviso, as the clean-up's comment has it: "幂等，可在
\* 任何座位查询前调用".
SeatKeptInSlot ==
  \A r \in confirmed :
    reservations[r].date = today /\ ~ slotEnded(reservations[r].slot)
      => seats[reservations[r].seat] = "occupied"

----------------------------------------------------------------------------
(* What the reading room promises (module ReadingRoom). *)

Booking(r) ==
  LET row == reservations[r] IN
  [patron |-> row.patron, seat |-> row.seat, date |-> row.date, slot |-> row.slot]

Expired == {r \in Ids : reservations[r].status = "expired"}

CheckedInRows == {r \in Ids : reservations[r].status = "checked_in"}

Promise == INSTANCE ReadingRoom WITH
  Dates <- 0..(MaxDay + 1),
  day <- today,
  booked <- {Booking(r) : r \in Standing},
  present <- {Booking(r) : r \in CheckedInRows},
  missed <- {Booking(r) : r \in Expired}

\* Reserving, cancelling, checking in and cleaning up, statement by statement
\* and interleaved, implement the abstract reading room: a booking that stands
\* clashes with none, and its reader loses it neither to another request nor,
\* before his day is over, to the clean-up.
ImplementsReadingRoom == Promise!Spec
=============================================================================
