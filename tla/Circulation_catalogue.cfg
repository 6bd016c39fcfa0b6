SPECIFICATION FairSpec
CONSTANTS
  p1 = p1  p2 = p2  b1 = b1  c1 = c1  c2 = c2  h1 = h1  h2 = h2
  Nobody = Nobody
  Patrons = {p1}
  Books = {b1}
  Copies = {c1, c2}
  Handlers = {h1, h2}
  InitialCopies = {c1}
  MaxActiveLoans = 1
  MaxRenewals = 1
  FinePerDayCents = 10
  DefaultLoanDays = 2
  Driver = "sqlite"
  MaxLoanId = 2
  MaxHoldId = 1
  MaxDay = 0
  BookOf <- OneBook
  BarcodeNo <- SameNumber
  LoanDurationDays <- Durations
  Ops = {"borrow", "return", "hold", "book", "copy", "disable", "fault"}
INVARIANTS
  CopyDeletedOffLoan
PROPERTIES
  ImplementsLending
  RequestsFinish
