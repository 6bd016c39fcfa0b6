SPECIFICATION Spec
CONSTANTS
  Nobody = Nobody
  Handlers = {"h1", "h2"}
  Names = {"n1"}
  Ips = {"i1"}
  maxLoginFails = 2
  loginRatePerWindow = 1
  regRatePerWindow = 1
  lockDuration = 3
  loginWindow = 2
  regWindow = 2
  MaxPatronRows = 2
  Readers = {"p1", "p2"}
  DueLoanIds = {"l1"}
  MaxRows = 4
  Chats = {"h1"}
  Buttons = {"h2"}
  Accounts = {p1, p2}
  Offline = {p1}
  Librarian = p2
  Titles = {"San Ti", "San Ti II"}
  TitlesWith <- MCTitlesWith
  MaxRecords = 2
  Programs = {"seed", "server"}
  Migrations <- MCMigrations
  Questioners = {"h1"}
  Patrons = {p1, p2}
  Reader = p1
  Biblios = {1, 2, 3}
  Subjects <- MCSubjects
  Author <- MCAuthor
  Tastes <- MCTastes
  Limits <- MCLimits
  MaxLends = 3
INVARIANTS
  ServicesTypeOK
  CountersHonest
  OneReaderPerAccount
  NoRepeatWithoutOverlap
  DueLoansReminded
  ToldWhatHappened
  NamedBookOnly
  StartsComplete
  FreshRecommendations
PROPERTIES
  OnlyOwnRecords
  LimitsPass
