SPECIFICATION Spec
CONSTANTS
  p1 = p1  p2 = p2  b1 = b1  c1 = c1  c2 = c2  h1 = h1  h2 = h2
  Nobody = Nobody
  Patrons = {p1, p2}
  Books = {b1}
  Copies = {c1, c2}
  Handlers = {h1, h2}
  InitialCopies = {c1, c2}
  MaxActiveLoans = 2
  MaxRenewals = 1
  FinePerDayCents = 10
  DefaultLoanDays = 1
  Driver = "sqlite"
  MaxLoanId = 2
  MaxHoldId = 2
  MaxDay = 2
  BookOf <- OneBook
  BarcodeNo <- SameNumber
  LoanDurationDays <- SameDurations
  Ops = {"borrow", "return", "hold", "cancel", "day"}
SYMMETRY CopySymmetry
INVARIANTS
  EachWakeToldOnce
PROPERTIES
  WakesInArrivalOrder
  HoldsEndOnce
