----------------------------- MODULE ReadingRoom -----------------------------
(***************************************************************************)
(* What the reading room promises its readers, with no rows, statements or *)
(* requests: a booking is for one seat in one slot of a day, bookings never *)
(* clash, and a booking stays until its reader gives it up or has let its  *)
(* day go by.  Seats implements this specification.                        *)
(***************************************************************************)
EXTENDS Integers

CONSTANTS Patrons, SeatNos, LastSlot, Dates

VARIABLES
  day,
  booked,    \* the bookings that stand
  present,   \* those of them whose reader came
  missed     \* the bookings whose reader did not come

vars == <<day, booked, present, missed>>

Bookings == [patron: Patrons, seat: SeatNos, date: Dates, slot: 1..LastSlot]

\* One seat for one slot, one booking a day for one reader.
Clash(b, c) ==
  /\ b.date = c.date
  /\ b.patron = c.patron \/ (b.seat = c.seat /\ b.slot = c.slot)

Init == day = 0 /\ booked = {} /\ present = {} /\ missed = {}

\* A request may be under way when its day ends, so that b may be past.
Book(b) ==
  /\ \A c \in booked : ~ Clash(b, c)
  /\ booked' = booked \cup {b}
  /\ UNCHANGED <<day, present, missed>>

GiveUp(b) ==
  /\ b \in booked \ present
  /\ booked' = booked \ {b}
  /\ UNCHANGED <<day, present, missed>>

\* Not before the day; a check-in under way at midnight still counts.
Appear(b) ==
  /\ b \in booked \ present /\ b.date <= day
  /\ present' = present \cup {b}
  /\ UNCHANGED <<day, booked, missed>>

Lapse(b) ==
  /\ b \in booked \ present /\ b.date < day
  /\ booked' = booked \ {b} /\ missed' = missed \cup {b}
  /\ UNCHANGED <<day, present>>

NewDay == day' = day + 1 /\ UNCHANGED <<booked, present, missed>>

Next ==
  \/ \E b \in Bookings : Book(b)
  \/ \E b \in booked : GiveUp(b) \/ Appear(b) \/ Lapse(b)
  \/ NewDay

Spec == Init /\ [][Next]_vars
=============================================================================
