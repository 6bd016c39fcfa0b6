SPECIFICATION Spec
CONSTANTS
  p1 = p1  p2 = p2  s1 = s1  s2 = s2  h1 = h1  h2 = h2
  Nobody = Nobody
  Patrons = {p1, p2}
  SeatNos = {s1}
  Handlers = {h1, h2}
  LastSlot = 2
  MaxReservation = 2
  MaxDay = 1
SYMMETRY Symmetry
INVARIANTS
  SeatKeptInSlot
