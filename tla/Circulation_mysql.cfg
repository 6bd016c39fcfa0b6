SPECIFICATION Spec
CONSTANTS
  p1 = p1  p2 = p2  b1 = b1  c1 = c1  c2 = c2  h1 = h1  h2 = h2
  Nobody = Nobody
  Patrons = {p1, p2}
  Books = {b1}
  Copies = {c1, c2}
  Handlers = {h1, h2}
  InitialCopies = {c1, c2}
  MaxActiveLoans = 1
  MaxRenewals = 1
  FinePerDayCents = 10
  DefaultLoanDays = 1
  Driver = "mysql"
  MaxLoanId = 3
  MaxHoldId = 0
  MaxDay = 0
  BookOf <- OneBook
  BarcodeNo <- SameNumber
  LoanDurationDays <- SameDurations
  Ops = {"borrow", "return", "renew", "vip", "fault"}
SYMMETRY CopySymmetry
INVARIANTS
  LoansWithinLimit
  RenewalsFormChains
