# Library agent: specifications

TLA+ models of the library agent in `src/` (a Go server: circulation desk, reading-room seats, gate, reminders, login, an
LLM agent that calls them as tools), the TLC runs that check them, and the theorems TLAPS proves about them.

## 1. The system

A browser talks to the API layer (`internal/api`), which authenticates a request (`internal/auth`) and calls the business
rules (`internal/service`), directly or through the chat agent (`internal/agent`), which lets a language model choose
among tools that call the same service functions; without a model, scripts choose. The service keeps no state but one mutex
per reader; everything else is in the database (`internal/store`, SQLite or MySQL) and in the session store (Redis or
memory). The server runs one goroutine per request. Transactions are used in a few places only (`Checkout`,
`RenewCheckout`, `ReturnTx` and the deletion of a book and of a conversation); everywhere else a request is a series of
single statements between which any other request can run, and after any of which it may fail.

| Component | State | Operations | What can go wrong | What makes it correct |
|---|---|---|---|---|
| Circulation (`service/service.go`, `service/admin.go`, `store/ops.go`, `store/entities.go`) | items, loans, fines, holds, patrons; `borrowMu`, a mutex per reader | Borrow, Return, Renew, PlaceHold, CancelHold, delete a book or a copy, add copies | a check in one statement and the write in another; MySQL's snapshot reads inside `ReturnTx`; failure between a commit and its notification | a copy has one borrower; items and loans agree; limits hold; fines are exact; renewals form a chain; the queue is first come, first served |
| Seats (`service/seats.go`, `store/seats.go`) | seats, seat_reservations | ReserveSeat, CancelSeatReservation, CheckinSeat, lazy clean-up before each query | readers, check-in and clean-up decide one reservation at once; the clock passes slots and midnight | no double booking; a reservation is decided once; a check-in that was answered keeps the seat for its slot |
| Gate (`service/gate.go`, `store/gate.go`) | gate_logs | GateScan, GateStatus | the last direction is read, then the log is appended | directions alternate for each reader, unless two scans overlap |
| Reminders (`service/tasks.go`, `store/tasks.go`) | notifications | CheckDueLoansNow, RunDueLoansTask | check, then insert, with errors dropped; two runs overlap; loans move meanwhile | one reminder of a kind for each loan, and none left out but by a failed INSERT |
| Favourites (`service/social.go`, `store/social.go`) | favorites | ToggleFavorite | a look, then INSERT or DELETE | adding and removing alternate, unless two requests overlap |
| Login and limits (`auth/*.go`, `api/auth_handlers.go`) | session store: failure and rate counters, each with a lifetime; tokens; users, patrons | Register, Login, CheckRate, Logout | counters are read and written in two steps; lifetimes are renewed; Redis is out of reach, the memory store restarts; registration writes two tables | counters never exceed what happened; a lock ends; a name has one reader and one account |
| Agent (`agent/loop.go`, `agent/llm.go`) | the message list of a turn | Run, doChatRequest, executeTool | retries, empty answers, tool errors, cancellation, the iteration cap | a turn ends, and says so once; every tool call is answered in the message list; no retry repeats a tool or an answer |
| Tools, page and offline scripts (`agent/tools.go`, `agent/loop_mock.go`, `api/*.go`) | none of their own; they act on the records of the others | the buttons, the changing tools, `runMock` | the model makes up arguments; `Return` and `Renew` do not look at the owner; a script acts on a list that is out of date; an error after the act | only the reader's own records change; the reader is told what took place |
| Chat (`api/chat.go`, `api/conversations.go`, `store/users.go`) | conversations, messages | handleChat, create, delete, rename | messages are stored one by one after the turn; the conversation is deleted meanwhile; two pages chat at once | a question precedes its answer; a turn knows the turns before it; what a turn leaves behind never shows up elsewhere |
| Recommendations (`service/recommend.go`) | none | RecommendForPatron | five queries, of which three may fail quietly, and readers who borrow in between | no book twice, none the reader knows, in order, no more than asked for |
| Store opening, migrations (`store/store.go`, `store/migrate.go`) | schema, schema_migrations | createSchema, apply each migration once | a crash between the statement and its record; two programs start at once; a database older than the records, in which rows may be repeated | an open database is complete, and a crash never keeps it closed |
| Ratings, reading notifications, reports, statistics, metrics, RAG, configuration, seed data, evaluation, web page | (various) | queries and single upserts | | not modelled, see 8 |

## 2. Modules

| Module | Models |
|---|---|
| `Circulation` | loans, holds, notifications and catalogue, one action per database statement |
| `Lending` | the abstract lending desk that circulation promises: stock, borrower, allowance |
| `MCCirculation` | the constants of small instances of `Circulation` |
| `CirculationProofs` | the theorems about `Circulation`, and that it implements `Lending` |
| `Seats`, `MCSeats`, `SeatsProofs` | reservations, check-in and clean-up of the reading-room seats; an instance; its theorems |
| `ReadingRoom` | what the reading room promises, abstractly: bookings that never clash and end only as they may |
| `Agent`, `MCAgent`, `AgentProofs` | one turn of the chat agent: model client with retries, stream, tools, iteration cap |
| `Chat`, `MCChat`, `ChatProofs` | conversations and messages around the turns of several requests; an instance; its theorems |
| `Requests` | the frame of the smaller services: handlers, their next statement, their locals |
| `Sessions`, `SessionsProofs` | registration, login, and the counters of the session store in front of them |
| `FrontDesk`, `FrontDeskProofs` | gate, favourites and reminders: look first, write afterwards |
| `Assistant`, `AssistantProofs` | the buttons, the tools and the offline scripts over the same records |
| `Recommend` | a recommendation between loans and returns |
| `Startup` | one or two programs opening a database and migrating it |
| `MCServices` | one instance of the five modules above, side by side |
| `ServicesProofs` | the theorems about `Startup` and `Recommend`, and about all five side by side |

`Circulation` is composed with its abstract specification, which it INSTANCEs with a refinement mapping
(`ImplementsLending`), and so is `Seats` (`ReadingRoom`, `ImplementsReadingRoom`). `Chat` uses the turn as one step that
ends: `TurnEnds` and `EndsOnce` of `Agent` justify that. `Agent` treats what a tool does as one outcome; `Assistant` looks at
the same call from the side of the records, for tools, buttons and scripts at once, and leaves to `Circulation`, `Seats` and
`FrontDesk` what the service itself decides. `FrontDesk` takes the days of the loans it reminds of as given.

What could come next: `CreateToken`, `Authenticate` and `Logout` as a
property of expiry; the window between the last copy's return and the INSERT of a hold (`service/service.go:405`).

## 3. How the models correspond to the code

**Statements are actions.** A handler is the goroutine of a request. `pc[h]` names the statement it runs next, `req[h]` is
what it holds in local variables. In `Circulation` the first action of a request (`BorrowRequest`, `RenewLoan`, `HoldBook`, ...)
combines the arrival with the first statement's check; a request refused there changes nothing and is not a step. Each later
check of the code is the condition of an IF whose other branch is the early return.

**Databases.** `Driver = "sqlite"`: `openSQLite` limits the pool to one connection, so a transaction holds the only
connection and is one step. `Driver = "mysql"`: ten connections at InnoDB's default isolation. A transaction's SELECTs read
the snapshot taken by its first SELECT, its UPDATEs and INSERTs act on the latest committed rows and lock them until the
commit, so all writes of a transaction take effect in one step. `Checkout` and `RenewCheckout` decide by the row count of
an UPDATE, hence on the latest rows (the columns `RenewCheckout` SELECTs never change): one step as well. Only `ReturnTx`
decides on what it SELECTed: `ReturnSnapshot`, then `ReturnCommit`. Lock waits and deadlock errors are delays and faults.

**Faults.** `Fault(h)` is both a failing statement (its transaction rolls back, the request returns the error) and the death
of the process in that request: what was committed stays. Errors that the code drops are choices of the action itself:
`RenewHolds` (the renewal goes through when the hold query fails), `Woken` (a return goes through without waking),
`DeleteItemLoans` (a failed look counts as no loan), `ExpireOne` and `ReleaseOne`, the failed looks of `ToggleFavorite` and
`Remind`, the failed INSERT of `CreateReminder`, the empty lists of `ReadHistory`, `ReadSignals` and `AddHot` in `Recommend`,
the failed look of `RegisterLookup` (a name that cannot be looked up counts as free), and what Redis does not answer in
`Sessions` (`GetCounter`, `SetCounter`, `ClearFails`).

**Time.** Days are numbers. The clock is read in the same step as the statement that uses it; `ReturnSnapshot` keeps the day
it read until the commit. In `Seats` a day consists of the instants the code tells apart: in the k-th slot, or between slots.
In `Sessions` time is what is left of each counter's lifetime, in `FrontDesk` what today's date says of a loan.

**Rows.** Ids are dense numbers below a bound (`MaxLoanId`, `MaxHoldId`, `MaxReservation`, `MaxPatronRows`, `MaxRows`,
`MaxRecords`, `MaxLends`); at the bound an INSERT fails, which the code treats as an error, or waits. A deleted hold or copy
keeps its place in the model with status "deleted" (no query sees it), so that properties can speak about it. `fines` sums
the fine rows of a loan. `everVip`, `before` in a hold and `confirmed` are history: no guard reads them.

**Circulation, operation by operation.** `Borrow`: BorrowRequest, BorrowLock (mutex, GetPatron), BorrowItem, BorrowCount,
BorrowVip, BorrowCheckout. `Return`: ReturnTx (or ReturnSnapshot and ReturnCommit), NotifyHold, NotifyFine. `Renew`:
RenewLoan, RenewItem, RenewHolds, RenewCheckout. `PlaceHold`: HoldBook, HoldItems, HoldOwn, HoldPos, HoldInsert. `CancelHold`:
one conditional UPDATE. `AdminDeleteBook`: DeleteBookLoans, DeleteBookHolds, DeleteBook. `AdminDeleteItem`: DeleteItemLoans,
DeleteItem. `AdminAddCopies`: AddCopy for each copy. `SetVip`, `AdminUpdatePatron`: SetVip, SetStatus. `NextDay` is midnight.
The constant `Ops` says which of them an instance exercises.

**Seats, operation by operation.** `ReserveSeat`: ReserveSeat, CreateSeatReservation. `CancelSeatReservation`: one
conditional UPDATE. `CheckinSeat`: CheckinSeat, CheckinUpdate, Occupy. `ExpireStaleSeatReservations`, which runs before every
seat query: ExpireScan, ExpireOne for each stale reservation, ExpireDone, ReleaseOne for each past check-in, ReleaseDone.

**Agent.** A turn is sequential, so `pc` is the place in `Loop.Run` and an action is the code from one exchange with the
surroundings (model, network, reader) to the next. `PreFiltered` is `PreFilter`; `Begin` builds the message list. Accepted,
Busy, Refused and Backoff are the branches of `doChatRequest`; `attempt` is its loop variable. StreamText to StreamCalls are
what `ChatStream` returns and what `Run` makes of it; `tries` counts empty answers in a round. `RunTool` is `executeTool` with
the two events and the tool message, `Panic` the case of arguments that decode to a nil map, `NextRound` the end of the loop
body. The system prompt and the earlier conversation hold no tool calls and are left out of `messages`. Text is left out but
for whether there is any; so is what a tool returns, but for the kinds of outcome that the code tells apart (`CallKinds`).
`ran` and `voices` are history. The shortcut that is suggested after some tools (`loop.go:183`) is an event like those of the
tool, which nothing else depends on; it is left out.

**Assistant.** A service is one action that does what it is asked or refuses (`Act`), and may report an error although the
act stands where the code reads the row back afterwards (`ReadBack`). In front of it are the checks of who asks:
`requirePatronScope` and `LoanOwner` behind the buttons (`handleReturn`, `handleBorrow`, the
librarian's `handleAdminCheckout` and `handleAdminReturn`, ...), the patron id that `executeTool`
puts over whatever the model gave, the owner that `return_book` and `renew_loan` compare. `runMock` picks a script; a script is
a sequence of tool calls that ends in at most one act (`mockReturn`, `mockHold`, ...), with LookFails, LookInVain and LookFinds
for the outcomes of its reading calls, and a card shown for every call. Which keywords select which script, and all wording,
is abstracted: any script may be chosen, with or without a book named. The name a script was given picks a loan whose title
contains it (`Contains`, for `strings.Contains`); `TitlesWith` says which titles contain which.

**Sessions.** CheckRate and CountRate are the two halves of `CheckRate`, ReadFails and WriteFails those of `recordFail`;
LoginLocked, LoginPassword, ClearFails are `Login`; RegisterLookup, InsertPatron, CreateUser are `Register`, RegisterFails a
statement of it that fails. `events` counts what happened behind a counter, `muddled` holds the counters an update of which
was lost, `crossed` the names registered twice at once, cut short, or taken for free by a failed look: history, on which the
properties are conditional where the code promises nothing.

**FrontDesk.** GateScan and InsertGateLog, ToggleFavorite and WriteFavorite, CheckDueLoansNow with Remind and CreateReminder
for each loan: the look, then the write. Each row keeps how many rows its request had seen, which tells overlapping requests
from others. `Drop` is a failing statement or the end of the process. A run of the reminders remembers, as history, the list it
began with and the loans whose INSERT failed: the code logs those and goes on.

**Startup.** createSchema, Look (`SELECT COUNT`), Exec, recordMigration, RecordDuplicate, and `Stop` at any moment, in which
the statement under way may still take effect. A migration has the kind that the code tells apart: one that is refused as a
duplicate, one that does nothing the second time, one for MySQL only, and a unique index, which besides meets the rows of an
older database: where `repeated` says that two of them agree, it fails with an error that is no duplicate structure.

**Recommend.** The five queries of `RecommendForPatron` in order, the ranking with its weights in full, `FillUp` with the hot
list. Keywords are members of a small set; how titles are cut into them is abstracted. A list in order is given by the place
of each book in it, which is one more than the number of books that come before it (`Place`); a sum is the size of a set
(`Total`).

**Chat.** As in `Circulation` a request is a goroutine and an action one statement. `handleChat`: Chat or (NewChat, Reread),
ReadHistory, RunTurn, StoreQuestion, StoreAnswer. The DELETE of a conversation is one transaction. `Faults` says whether
statements fail; the table is a function of the ids that are there, and the context of a turn is a set of ids (`Latest`),
since the order is that of the ids; `AddMessage`'s error and a history that cannot be read are dropped by the code, hence
choices of the action. `Die` is a panic in the handler or the end of the process. Titles and times change nothing that is read
here. `complete`, `spanned`, `before`, `intact` and the `user` of a message are history.

## 4. Runs

| Run | Instance | Shows |
|---|---|---|
| `circulation_loans` | SQLite, 2 readers, 2 copies, 2 handlers, 3 loan rows, days 0 to 2, loans of 1 day, limit 1, 1 renewal | one borrower a copy, shelf and loans agree, fines, under every interleaving; refines `Lending` |
| `circulation_holds` | SQLite, 2 readers, 2 copies, 2 holds, 2 loans, days 0 to 2 | first come first served, a hold ends once, each wake and fine told once |
| `circulation_catalogue` | SQLite, 1 reader, 2 copies (one added later), 1 hold, faults, fairness | deletions against borrows; refines `Lending` with faults and deletions; every request finishes |
| `circulation_mysql` | MySQL, 2 readers, 2 copies, 3 loan rows, VIP, faults | limit and renewal chains do not need SQLite |
| `circulation_mysql_double` | MySQL, 2 readers, 1 copy | violation, finding 1 |
| `circulation_delete_race` | SQLite, 1 reader, 1 copy | violation, finding 2 |
| `seats` | 2 readers, 1 seat, 2 slots, 2 reservations, days 0 and 1, 2 handlers | booking, check-in and clean-up; refines `ReadingRoom` |
| `seats_stale` | as `seats` | violation, finding 3 |
| `agent` | 2 rounds, 3 attempts, 2 empty answers, 2 tool calls an answer; fairness | the protocol with the model, retries, events, termination |
| `chat` | 2 users, 2 handlers, 2 conversations, 3 turns, context of 2 messages, faults | turns, deletions and failures in one table of messages |
| `chat_summary` | 1 user, 1 handler, 4 turns, no faults | violation, finding 4 |
| `services` | `Sessions`, `FrontDesk` (as gate, favourites and reminders), `Assistant`, `Startup`, `Recommend`, one of them a behaviour; fairness of the clock | counters and accounts, no repeats without overlap, no loan forgotten, own records only, what the reader is told, complete starts, recommendations, locks that open |

`MCServices` puts the smaller services side by side: they share only the frame, so `part` chooses one of them at the start and
the others stand still. Together they have about one million distinct states.

Why the bounds are enough: the races are between two requests about one loan, hold, copy or reader, so two handlers, two
readers and two copies produce each of them; three loan rows allow a loan, its renewal and the loan of the next borrower;
limit 1 (2 for a VIP) makes every second borrow reach the limit; a loan of one day over days 0 to 2 can be returned
early, on the day and late. Two reservations on one seat with two slots over two days collide in the seat, in the reader
and across midnight. Readers, handlers, copies and seats are interchangeable where the cfg says SYMMETRY; the runs with
liveness use no symmetry.

For a turn, two rounds are a first and a last one; three attempts and two empty answers are a first, a middle and a last
try; two calls are one answered while another waits. For chat, three turns of two messages exceed a context of two, two
requests overlap while a third comes after one of them; a second conversation is where a message could go astray.

In `services`: one name and one address are enough for counters, because each has a key of its own and two requests meet on
one key; limits of one and two are reached at once and at the second event. The rate counters live for two ticks and the lock
for three, so that a tick alone empties none of them and a count can be renewed while it runs out. Redis fails an answer only
while no counter is off already, and a counter at its limit is counted no further; both bound what can be told apart, not when
a failure comes. Four rows let a reader enter, leave and enter twice more; one loan is reminded of as due and as late by two
runs. Of the records only one kind is in play in a behaviour (`matter`): no request touches two kinds, and the scripts that
touch none run beside the passages. Of the two titles one is part of the other. One handler serves the chat and one the page,
so that a record is changed under a script; two records, one renewed into the other or opened by another request. Five
migrations are one of each kind that `Exec` tells apart, two of them on the table of another; the database may be new, or
older, with or without a repeated row; two programs open it. One handler recommends, since requests that only read do not
meet; three books with three loans suffice for a taste, a reader alike and a hot list that needs filling up.

Deadlock is checked except in `agent`, where a turn ends, and in both `chat` runs, where everything stops once
`MaxTurn` turns are made and `MaxConv` conversations deleted. All other runs can always go on.

**Fairness.** `agent`: weak fairness of the turn's own `Step`. The goroutine runs, and the HTTP client's timeout of 180 s
(`llm.go:106`) ends each request and each stream; nothing is assumed about how they end, or about the reader.

`circulation_catalogue`: A goroutine that can run is run, and the driver answers every statement: weak
fairness of `Continue(h)`. `sync.Mutex` goes over to handing the lock to the longest waiter when one has waited for a
millisecond: strong fairness of `BorrowLock(h)`. Nothing is assumed about arrivals and faults. `RequestsFinish` then says
that no path out of `Borrow` leaves a mutex locked, also when a statement fails.

`services`: weak fairness of the clock alone (`Tick`, as `TimePasses` in `MCServices`). Clients may call as often as they like
and requests may hang; `LimitsPass` says that a lock or a full counter still opens again, because a refused request does not
renew its lifetime. Its proviso is a dropped error: a question that Redis fails reads as zero (`auth.go:117`), the try slips
past the lock, and its own failure renews the lock. Without the proviso TLC finds the lock that never opens.

## 5. Findings

1. `circulation_mysql_double`: on MySQL `ReturnTx` reads the loan in a snapshot and closes it and frees the copy without
   conditions (`store/ops.go:143`). A renewal that commits in between leaves an active loan of an available copy, and the next
   borrow lends it again, which `store/ops.go:16` rules out. By the same race two returns of one loan both succeed.
2. `circulation_delete_race`: `AdminDeleteBook` (`service/admin.go:121`) checks loans and holds in two statements and deletes in
   a third that checks neither again: a borrow in between keeps a loan of a copy that has no row.
3. `seats_stale`: a reservation that was checked in is never closed, so the clean-up (`store/seats.go:268`) frees its seat again
   on every later call, also under a reader who checked in there today and whose slot is still running.
4. `chat_summary`: the summary of early messages that `api/chat.go:95` announces is never made. `SummarizeHistory` gets a
   history that is already cut to the length it allows and returns it as it is; `Loop.Run` would drop a system message anyway.

Read in the code while modelling, for the most part in the models, but not the subject of a run of its own:

- `validateArgs` (`agent/loop.go:256`) looks for `[]any` where the tools declare `required` and `enum` as `[]string`, so neither
  is ever checked; the handlers cope (`Agent`, `CallKinds`).
- The comment at `agent/loop.go:32` promises the scripts when no key is set; `Run` (`agent/loop.go:74`) asks only whether the
  active provider is the offline one, so without a key a turn ends with an error.
- A hold query that fails lets a renewal through (`service/service.go:261`); two `PlaceHold` of one reader at once both insert
  (`service/service.go:419`); copies are added one statement at a time.
- The comment at `store/seats.go:232` has the clean-up free the seat of a check-in when its slot ends. The code frees it on the
  next day only (`seatReservationExpired`, as the note above it at `store/seats.go:222` argues for reservations in general). The
  two agree until the slot ends, and `ConfirmedSeatKept` claims no more than that.
- Migrations v19 and v20 (`store/migrate.go:55`) make favourites and ratings unique. In an older database that holds one of them
  twice the statement fails, the error is not among those that count as done (`store/migrate.go:94`), and since nothing removes
  the second row, every start is refused (`StartsComplete`, its last clause).
- `Register` takes every error of `GetUserByUsername` for a free name (`auth/auth.go:88`). If the look fails for a taken name, a
  second reader row is inserted before the unique index refuses the account (`OneReaderPerAccount`, its proviso).
- The scripts match a named book with `strings.Contains` and take the first hit (`agent/loop_mock.go:306`, `:356`): with two
  loans of which one title contains the other, the wrong one may be returned or renewed (`NamedBookOnly` says what is left).
- A reminder whose INSERT failed is logged and passed over (`service/tasks.go:53`); only a later run makes up for it.
- `CheckRate` renews the lifetime of its counter with each request it lets through (`auth/auth.go:153`), so that a slow, steady
  client is refused in the end, though it never made the allowed number of requests in one window: the comment at
  `auth/auth.go:145` calls it a sliding window.
- A seed that stops between the INSERT of a loan and `UpdateItemStatus` (`seed/seed.go:357`) leaves a loan of an available copy.
- Overlapping scans, toggles and reminder runs do repeat one another; overlapping failures do undercount. The properties say
  that nothing else does.

## 6. Proofs

Everything below holds for any sets and numbers that satisfy the named ASSUMEs of the modules. Each action has a lemma of its
own, and one lemma per invariant combines them.

`CirculationProofs`:

- `TypeCorrect`: `Spec => []TypeOK`, on both databases. Whether a statement writes a well-typed row depends on what its handler
  carries from earlier statements, so the inductive invariant `TypeInv` adds to `TypeOK`: `RowsOK` (rows below the next id
  exist, a loan row names a copy and a reader, a hold's position is at most its id) and `LocalsOK` (at each program counter the
  request carries the references that its next statement dereferences).
- `CopiesLentOnce`, `ShelfAgreesWithLoans`, `CopiesDeletedOffLoan`: on SQLite, the three conjuncts of `ShelfInv`, which also
  says that no handler is about to commit a return it decided on a snapshot. It is inductive relative to `TypeInv`: each
  action that writes one of the two tables either tests the status in the same step (`Checkout`, `DeleteItemSafe`,
  `RenewCheckout`) or moves the one active loan of its copy (`ReturnTx`). `circulation_mysql_double` shows that the first is
  false on MySQL.

What a step can do to the loans is stated once (`Lent`, `Renewed`, `Returned`), then:

- `LimitHolds`, on both databases: `LimitInv` says what a borrower knows at each statement (`LimitKnows`): it holds the reader's
  mutex from the count to the Checkout, nobody else does, and the count it carries is not below the loans there are.
- `RenewalsChain`, on both databases: what a renewer carries of its loan never changes (`RenewKnows`), and the conditional
  UPDATE lets one renewal of a loan through.
- `FinesAreExact`, on SQLite, where a return closes an active loan only, hence once.
- `HoldsEnd`, on SQLite.
- `FirstComeFirstServed`, on both databases: `QueueInv` keeps every hold that was in the table when a place was taken in front
  of that place: a place is behind the positions of all holds there are, so only holds that came later can share it. A return
  on MySQL wakes whom it chose some time before (`CommitLocals`): nobody waits in front of him still, for what has left the
  queue does not come back.
- `WakesAreTold`, on SQLite, provided no statement fails: for a woken hold either its notification is written or exactly one
  handler is on its way to write it (`NoticeInv`).
- `LendingImplemented`, on SQLite: every step is a step of `Lending` or none. Checkout is Lend, and that the abstract count of
  copies is below the allowance follows from the limit, because distinct copies have distinct loans; ReturnTx is TakeBack, a
  renewal stutters, both deletions are StrikeOff, AddCopy is Acquire, SetVip is Privilege. `DeskInv` collects what is needed.

`SeatsProofs` proves all properties of the `seats` run, and `TodayStandsTillMidnight`, which `ImplementsReadingRoom` implies.
Its invariant `TypeInv` adds to `TypeOK` that rows from the next id on are unused, what each handler knows of the rows it
carries (`LocalOK`; above all, what the clean-up selected was past already, and days never go back), and that a confirmed
check-in is on the books. `OneRowAtATime` then says that a step inserts one free row, decides one active row, or writes none,
from which follow:

- `SeatsDecidedOnce` and `SeatsStandTillMidnight`, about steps;
- `SeatsBookedOnce`: a new row meets the `NOT EXISTS` of its INSERT, and deciding a row never makes it standing;
- `SeatsCheckinKept`: a seat is occupied only by a check-in, and freed only for a check-in of an earlier day, which the proviso
  of `SeatsMatchCheckins` names. What is inductive is stronger than the property, the seat is kept all day (`SeatKeptAllDay`).
  `seats_stale` shows that the proviso cannot be dropped;
- `ReadingRoomImplemented`: `Seats` implements `ReadingRoom`, whose state is the day and three sets of bookings (standing,
  honoured, missed). By `NoDoubleBooking` a booking identifies its standing row (`OneRowPerBooking`), so an INSERT is `Book`
  (`InsertIsBook`), and an UPDATE takes exactly one booking away or marks it: `GiveUp`, `Appear` or `Lapse`
  (`DecisionIsPromised`). What the requests carry across midnight (`LocalOK`) gives the guards on the days. A request under way
  at midnight may still book or check in for the day before, and `ReadingRoom` says so.

`AgentProofs` proves all safety properties of the `agent` run:

- `AgentTypeCorrect`: a round uses at most `MaxCalls` ids, so that ids last for `MaxIter` rounds (`Rounds`);
- `AgentEndsOnce`: no event tells of an end before `pc` is "ended" (`Told`), and between two answers the reader has been
  shown nothing (`Silence`);
- `AgentAnswersCalls`: the message list obeys the protocol at every request. The invariant `OrderInv` says so between rounds,
  and during a round that there is one message whose calls are answered up to the length of `todo`;
- `AgentAnswersOnce`: what the last events are when an answer begins and when its text is out (`SaidInv`);
- `AgentRunsToolsOnce`: calls are executed in the order of their ids, and one still to come has neither run nor been told of
  (`OnceInv`).

`SessionsProofs`: `SessInv`. `CountersTellTheTruth` needs that what a request has read of a counter it is about to write is
never more than the events there were, which is why the count may start anew only while nobody is about to write; the number
is exact unless an update was overtaken or lost. `AccountsHaveOneReader` needs, for every name not crossed, that at most one
request is past the look at the accounts, that the name was free at that look, and which row it has inserted (`RowInv`).

`FrontDeskProofs`: `DeskInv`. `RepeatsComeOfOverlap` needs that what a request is about to write alternates with the newest
row among those it has seen (`Alternates`), and for favourites that the set agrees with the newest row (`LastRows`).
`NoLoanForgotten` accounts for every loan the run found at its start (`Accounted`): it is ahead, lost to a failed INSERT,
about to be written, or has its reminder, and no reminder is deleted.

`AssistantProofs`: `ScopeInv`, for type correctness and `OnlyOwnRecordsChange`. Every request on its way speaks for the reader
of its session, unless the administrator sent it from the page, and one about to return or renew has seen the owner of that
very loan (`OwnerSeen`), which never changes. For the scripts this needs that an act on a loan comes right after the list it
picks from, and that a failed list ends the script (`Ordered`).

`ToldInv` on top of it gives `ToldIsTrue` and `OnlyTheNamedBook`. A script on its way to an act has shown no card but those of
reads that succeeded, and the title of the book it is about to act on contains the name (`OnItsWay`, `AboutToAct`); records keep
their titles, and a closed one is never opened again (`Lasting`), so that what was said stays true whatever others do.

`ChatProofs` proves all safety properties of the `chat` run for any number of readers, handlers, conversations and turns, from
`ChatInv`:

- `QuestionsBeforeAnswers` and `CompleteTurnsAreStored`: each request has a turn of its own (`TurnsInv`), and what it has
  stored so far can be read off its statement (`RequestsInv`); ids only grow;
- `ContextsFollowOn`: the last `MaxContext` messages of a conversation are exactly as many as there are, or `MaxContext`
  (`LatestCounts`), and none of them is older than one left out. That needs the number of ids above an id, and as an induction
  over numbers the least counterexample (`LeastNat`, from the well-foundedness of the numbers);
- `MessagesStayWithTheirs`: the id of a deleted conversation is not given again, and a message of a conversation that is gone
  comes from a turn that was running when it went (`RowsInv`);
- `NoSummaryIsMade`: finding 4 for every size. A history has `MaxContext` messages at most when `SummarizeHistory` sees it.

`ServicesProofs`, on starting: `StartInv`. `StartsEndComplete` needs that a migration is reached only over built ones and a
record is written only for what is built, that a record found where none was expected means that another program is starting
(`clashed`), and that every other refusal is one of a unique index over repeated rows.

On recommendations: `FreshInv`. `ListsAreFresh` needs of the history that rows of it are never taken away, so that what was
read later holds what there was before the question; of a list that it is one of books the reader does not know, without
repetition and in order (`Listing`). That `InOrder` is such a list, for any points, is that no two books have the same place,
hence, there being as many places as books, each place is taken (`PlacesTaken`); a prefix of such a list is one
(`PrefixLists`), and so is one with another of other books behind it (`BehindLists`). That scores are numbers at all needs
finite sets only (`ScoreIsInt`).

On all services: `ServicesTypeCorrect`, for the specification of the run itself. `ServicesInv` is the invariant of the part that
the behaviour is of (`InvOf`).

## 7. Checked but not proved

- `RequestsFinish`, `TurnEnds` and `LimitsPass` are liveness under fairness, out of the prover's reach. Every other property
  of the passing runs is a theorem.
- On MySQL `TypeCorrect`, `LimitHolds`, `RenewalsChain` and `FirstComeFirstServed` are proved. Of the others the shelf, the
  fines, the notifications and the refinement fail by finding 1, and so does `HoldsEndOnce`: a return wakes the hold of its
  snapshot although that was cancelled meanwhile, which `circulation_holds` shows with `Driver = "mysql"`.
- What the scores of `Recommend` amount to (that a book by a favourite author comes before one that only others borrow, say)
  is not stated; the code promises no more than their order.

## 8. Not modelled

The components marked `not_modelled` in `PROJECT.json`, with the reason there: the queries for notifications, reports and
statistics (read-only aggregates, whose result is the database's work), metrics and the chat log (nothing reads them back), the
knowledge base (built once, then only read), configuration and start (sequential, before anything else), the seed data and the
evaluation (command-line programs that fill a database and score answers), the web page.

Of the components marked `partly`: in circulation, adding and editing books (rows no other request knows, or wording), payment
of fines (the code has none), the waking of a hold whose reader does not exist (readers are never deleted), and more than one
server process on one database, in which `borrowMu` would not protect the limit. Of sessions, the tokens and with them
`Logout` and `Authenticate`: a token is written once, under a random key, and never changed. It shares the store and its keys
with the counters, where `Authenticate` looks up whatever key it is given (`auth/auth.go:165`). Of the tools and buttons,
those that only read and the rating (`handleRateBook`): one upsert guarded by a unique index. What the model tells the reader
of a tool's result is its own; `ToldWhatHappened` stops at the result the tool hands to it. Of the chat endpoint, titles,
renaming and the queries that list conversations and messages. `RunDueLoansTask`, the hourly loop around the reminders, is
started by no program of the repository.
