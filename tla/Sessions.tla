------------------------------- MODULE Sessions -------------------------------
(***************************************************************************)
(* Registering and logging in, and the counters in front of them:          *)
(* internal/auth over the session store (memory or Redis), called by       *)
(* internal/api/auth_handlers.go and by the middleware of api.go.          *)
(*                                                                         *)
(* The session store keeps counters under keys with a lifetime, which is   *)
(* modelled by what is left of it: a tick of the clock shortens it, and at *)
(* zero the counter is gone.  Every Get, Set and Del and every SQL         *)
(* statement is one action.  The tokens are left out: a login writes one,  *)
(* once, under a random key.                                               *)
(***************************************************************************)
EXTENDS Integers, FiniteSets, Sequences, Requests

CONSTANTS
  Names, Ips,
  maxLoginFails, loginRatePerWindow, regRatePerWindow,
  lockDuration, loginWindow, regWindow,
  MaxPatronRows         \* bound: rows of patrons ever inserted

ASSUME SessionsAssumption ==
  /\ Nobody \notin Names
  /\ {maxLoginFails, loginRatePerWindow, regRatePerWindow} \subseteq Nat \ {0}
  /\ {lockDuration, loginWindow, regWindow} \subseteq Nat \ {0}
  /\ MaxPatronRows \in Nat

VARIABLES
  backend,    \* the session store, "redis" or "memory": the same at every start
  counters,   \* the counters of the session store
  patrons,    \* the names on the rows of patrons, in the order of their ids
  users,      \* users.patron_id of each username, 0 without a row
  events,     \* history: the events behind each counter
  muddled,    \* history: the counters an update of which was lost
  crossed     \* history: the names registered twice at once, or cut short, or
              \* taken for free by a look that failed

accounts == <<patrons, users>>
history == <<events, muddled, crossed>>
sessionsVars == <<pc, req, backend, counters, accounts, history>>

FailKeys == {"login_fail"} \X Names
RateKeys == {"login_rate", "reg_rate"} \X Ips
Keys == FailKeys \cup RateKeys

Limit(k) == CASE k[1] = "login_fail" -> maxLoginFails
              [] k[1] = "login_rate" -> loginRatePerWindow
              [] k[1] = "reg_rate" -> regRatePerWindow

Lifetime(k) == CASE k[1] = "login_fail" -> lockDuration
                 [] k[1] = "login_rate" -> loginWindow
                 [] k[1] = "reg_rate" -> regWindow

Counter == [n: Nat, left: Nat]
NoCounter == [n |-> 0, left |-> 0]

\* The next statement on a counter that is read and then written.
CountLabels == {"rate_set", "fail_set"}

CounterOf(h) == IF pc[h] \in {"rate", "rate_set"} THEN req[h].rate
                ELSE <<"login_fail", req[h].name>>

SessionsTypeOK ==
  /\ backend \in {"redis", "memory"}
  /\ pc \in [Handlers -> {"idle", "taken", "patron", "user", "locked", "password",
                          "fail", "clear"} \cup CountLabels \cup {"rate"}]
  /\ \A h \in Handlers : pc[h] # "idle" =>
       req[h] \in [op: {"login", "register"}, rate: RateKeys, name: Names, n: Nat,
                    patron: 0..MaxPatronRows]
  /\ counters \in [Keys -> Counter]
  /\ patrons \in Seq(Names) /\ Len(patrons) <= MaxPatronRows
  /\ users \in [Names -> 0..MaxPatronRows]
  /\ events \in [Keys -> Nat] /\ muddled \subseteq Keys /\ crossed \subseteq Names

----------------------------------------------------------------------------
(* Counters.  *)

\* Bound: a counter at its limit is counted no further.
Up(k, n) == IF n >= Limit(k) THEN n ELSE n + 1

Counting(k) == \E h \in Handlers : pc[h] \in CountLabels /\ CounterOf(h) = k

\* What the history keeps of a step that counts the keys in K, and loses an
\* update of those in L.  A count starts anew once the key is absent and
\* nothing is about to write it.
Remember(K, L) ==
  LET Quiet(k) == counters'[k].n = 0 /\ ~ Counting(k)'
      Overtaken == {k \in Keys : counters'[k].n # counters[k].n /\ Counting(k)'}
  IN /\ events' = [k \in Keys |->
           IF Quiet(k) THEN 0
           ELSE IF k \in K THEN Up(k, events[k]) ELSE events[k]]
     /\ muddled' = {k \in muddled \cup L \cup Overtaken : ~ Quiet(k)}
     /\ UNCHANGED crossed

\* Redis is another process, and may be out of reach for a while.  Bound: not
\* while a counter is off already.
MayFail == backend = "redis" /\ muddled = {}

\* Get: what is stored, or 0 when the store fails (every caller drops the error).
GetCounter(k) == {counters[k].n} \cup (IF MayFail THEN {0} ELSE {})

\* A Set that starts the count anew each time.
SetForgetful(h, k) ==
  /\ counters' = [counters EXCEPT ![k] = [n |-> 1, left |-> Lifetime(k)]]
  /\ Remember({k}, {})

\* Set of what was read plus one, with a full lifetime, or with no effect.
SetCounter(h, k) ==
  \/ /\ counters' = [counters EXCEPT ![k] = [n |-> Up(k, req[h].n), left |-> Lifetime(k)]]
     /\ Remember({k}, IF req[h].n = counters[k].n THEN {} ELSE {k})
  \/ /\ MayFail
     /\ UNCHANGED counters
     /\ Remember({k}, {k})

----------------------------------------------------------------------------
(* The counters by address. *)

\* handleLogin, handleRegister: a request comes in.
Arrive(h, op, ip, name) ==
  /\ Begin(h, "rate", [op |-> op, name |-> name, n |-> 0, patron |-> 0,
                       rate |-> <<IF op = "login" THEN "login_rate" ELSE "reg_rate", ip>>])
  /\ UNCHANGED <<counters, accounts, history>>

\* Counting before looking, so that a refused request counts as well.
CheckRateRenewing(h) ==
  /\ pc[h] = "rate"
  /\ LET k == req[h].rate
         n == counters[k].n
     IN IF n >= Limit(k)
        THEN Finish(h) /\ counters' = [counters EXCEPT ![k].left = Lifetime(k)]
        ELSE Goto(h, "rate_set", [req[h] EXCEPT !.n = n]) /\ UNCHANGED counters
  /\ UNCHANGED accounts /\ Remember({}, {})

\* CheckRate: refuse, or go on with the number read.
CheckRate(h) ==
  /\ pc[h] = "rate"
  /\ \E n \in GetCounter(req[h].rate) :
       IF n >= Limit(req[h].rate) THEN Finish(h)
       ELSE Goto(h, "rate_set", [req[h] EXCEPT !.n = n])
  /\ UNCHANGED <<counters, accounts>> /\ Remember({}, {})

\* CheckRate writes the counter; then the body is decoded and looked at.
CountRate(h) ==
  /\ pc[h] = "rate_set"
  /\ \/ Finish(h)   \* the body is refused
     \/ Goto(h, IF req[h].op = "login" THEN "locked" ELSE "taken", [req[h] EXCEPT !.n = 0])
  /\ SetCounter(h, req[h].rate)
  /\ UNCHANGED accounts

----------------------------------------------------------------------------
(* Register. *)

\* Going on without looking whether the name is taken.
RegisterUnseen(h) ==
  /\ pc[h] = "taken"
  /\ Goto(h, "patron", req[h])
  /\ UNCHANGED <<counters, accounts, history>>

\* GetUserByUsername: a name is refused when the query finds its account.  Any
\* error of the query counts as a name that is free.
RegisterLookup(h) ==
  LET name == req[h].name
      alongside == \E g \in Handlers \ {h} : pc[g] \in {"patron", "user"} /\ req[g].name = name
  IN /\ pc[h] = "taken"
     /\ \/ users[name] # 0 /\ Finish(h) /\ UNCHANGED crossed
        \/ /\ Goto(h, "patron", req[h])
           /\ crossed' = IF users[name] # 0 \/ alongside THEN crossed \cup {name} ELSE crossed
     /\ UNCHANGED <<counters, accounts, events, muddled>>

\* InsertPatron: a row of its own, unless one with this barcode, the name and
\* the second, is there.
InsertPatron(h) ==
  /\ pc[h] = "patron"
  /\ \/ /\ Len(patrons) < MaxPatronRows   \* bound
        /\ patrons' = Append(patrons, req[h].name)
        /\ Goto(h, "user", [req[h] EXCEPT !.patron = Len(patrons) + 1])
     \/ /\ \E i \in DOMAIN patrons : patrons[i] = req[h].name
        /\ Finish(h)
        /\ UNCHANGED patrons
  /\ UNCHANGED <<counters, users, history>>

\* What is left of a registration is a login like any other.
AsLogin(r) ==
  [r EXCEPT !.op = "login", !.rate = <<"login_rate", r.rate[2]>>, !.patron = 0]

\* CreateUser: the unique index on the name decides; then Register reads the
\* row back and logs in.
CreateUser(h) ==
  /\ pc[h] = "user"
  /\ IF users[req[h].name] = 0
     THEN /\ users' = [users EXCEPT ![req[h].name] = req[h].patron]
          /\ \/ Goto(h, "locked", AsLogin(req[h]))
             \/ Finish(h)
     ELSE /\ Finish(h)
          /\ UNCHANGED users
  /\ UNCHANGED <<counters, patrons, history>>

\* A statement of Register fails, and nothing takes back what it has written.
RegisterFails(h) ==
  /\ pc[h] \in {"patron", "user"}
  /\ Finish(h)
  /\ crossed' = crossed \cup {req[h].name}
  /\ UNCHANGED <<counters, accounts, events, muddled>>

----------------------------------------------------------------------------
(* Login. *)

\* Login: is the name locked?
LoginLocked(h) ==
  /\ pc[h] = "locked"
  /\ \E n \in GetCounter(<<"login_fail", req[h].name>>) :
       IF n >= maxLoginFails THEN Finish(h) ELSE Goto(h, "password", req[h])
  /\ UNCHANGED <<counters, accounts>> /\ Remember({}, {})

\* GetUserByUsername and the comparison of the passwords: no account, another
\* password, or the query fails.
LoginPassword(h) ==
  /\ pc[h] = "password"
  /\ \/ users[req[h].name] # 0 /\ Goto(h, "clear", req[h])
     \/ Goto(h, "fail", req[h])
  /\ UNCHANGED <<counters, accounts, history>>

\* recordFail, its two steps.
ReadFails(h) ==
  /\ pc[h] = "fail"
  /\ \E n \in GetCounter(CounterOf(h)) : Goto(h, "fail_set", [req[h] EXCEPT !.n = n])
  /\ UNCHANGED <<counters, accounts>> /\ Remember({}, {})

WriteFails(h) ==
  /\ pc[h] = "fail_set"
  /\ Finish(h)
  /\ SetCounter(h, CounterOf(h))
  /\ UNCHANGED accounts

\* The right password: the failures are forgotten, if the store takes it.
ClearFails(h) ==
  /\ pc[h] = "clear"
  /\ Finish(h)
  /\ \/ counters' = [counters EXCEPT ![CounterOf(h)] = NoCounter]
     \/ MayFail /\ UNCHANGED counters
  /\ UNCHANGED accounts /\ Remember({}, {})

----------------------------------------------------------------------------
(* The clock and the process. *)

Shorter(c) == IF c.left <= 1 THEN NoCounter ELSE [c EXCEPT !.left = @ - 1]

Tick ==
  /\ \E k \in Keys : counters[k].left > 0
  /\ counters' = [k \in Keys |-> Shorter(counters[k])]
  /\ UNCHANGED <<pc, req, accounts>> /\ Remember({}, {})

Restart ==
  /\ \E h \in Handlers : pc[h] # "idle"
  /\ DropRequests
  /\ IF backend = "redis" THEN UNCHANGED counters ELSE counters' = [k \in Keys |-> NoCounter]
  /\ UNCHANGED accounts
  /\ events' = [k \in Keys |-> IF counters'[k].n = 0 THEN 0 ELSE events[k]]
  /\ muddled' = {k \in muddled : counters'[k].n # 0}
  /\ crossed' = crossed \cup {req[h].name : h \in {g \in Handlers : pc[g] \in {"patron", "user"}}}

SessionsStep(h) ==
  \/ CheckRate(h) \/ CountRate(h)
  \/ RegisterLookup(h) \/ InsertPatron(h) \/ CreateUser(h) \/ RegisterFails(h)
  \/ LoginLocked(h) \/ LoginPassword(h) \/ ReadFails(h) \/ WriteFails(h)
  \/ ClearFails(h)

SessionsInit ==
  /\ backend \in {"redis", "memory"}
  /\ pc = [h \in Handlers |-> "idle"] /\ req = [h \in Handlers |-> NoReq]
  /\ counters = [k \in Keys |-> NoCounter]
  /\ patrons = <<>> /\ users = [n \in Names |-> 0]
  /\ events = [k \in Keys |-> 0] /\ muddled = {} /\ crossed = {}

SessionsNext ==
  /\ \/ \E h \in Handlers :
          \/ \E op \in {"login", "register"}, ip \in Ips, name \in Names : Arrive(h, op, ip, name)
          \/ SessionsStep(h)
     \/ Tick \/ Restart
  /\ UNCHANGED backend

\* Time passes, whatever the clients do.
SessionsSpec ==
  SessionsInit /\ [][SessionsNext]_sessionsVars /\ WF_sessionsVars(Tick /\ UNCHANGED backend)

----------------------------------------------------------------------------
(* What must hold. *)

\* A counter never shows more events than there were since it last was absent
\* and nothing was about to write it: nobody is locked out, and no address
\* refused, for less than the limit.  And unless an update was lost, because
\* two of them overlapped or the store failed, it shows every one of them.
CountersHonest ==
  \A k \in Keys :
    /\ counters[k].n <= events[k]
    /\ k \notin muddled /\ ~ Counting(k) => counters[k].n = events[k]

\* One reader for one account: a second row of patrons under a name, or a row
\* that no account belongs to, comes only of two registrations of the name at
\* once, of one that was cut short, or of one whose look at the taken name
\* failed and was read as a free name.
OneReaderPerAccount ==
  \A n \in Names :
    LET rows == {i \in DOMAIN patrons : patrons[i] = n}
        running == {h \in Handlers : pc[h] = "user" /\ req[h].name = n}
    IN n \notin crossed =>
         /\ Cardinality(rows) <= 1
         /\ running = {} => rows = IF users[n] = 0 THEN {} ELSE {users[n]}

\* A request goes on although the counter it asks about is full.
Slips(h, k) ==
  /\ counters[k].n >= Limit(k)
  /\ \/ pc[h] = "rate" /\ req[h].rate = k /\ pc'[h] = "rate_set"
     \/ pc[h] = "locked" /\ <<"login_fail", req[h].name>> = k /\ pc'[h] = "password"

\* A lock, or a full counter, does not last: however often the name is tried
\* or the address calls meanwhile, it opens again, because what is refused
\* renews nothing.  Only requests that slip past it, time and again, while
\* Redis fails the question (an error that every caller drops), keep it shut.
LimitsPass ==
  \A k \in Keys : \/ []<>(counters[k].n < Limit(k))
                  \/ []<><<\E h \in Handlers : Slips(h, k)>>_pc
=============================================================================
