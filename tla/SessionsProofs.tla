----------------------------- MODULE SessionsProofs -----------------------------
(***************************************************************************)
(* What the counters tell and whom the accounts belong to, for any number  *)
(* of names, addresses, requests and rows, with either session store.      *)
(***************************************************************************)
EXTENDS Sessions, FiniteSetTheorems, TLAPS

----------------------------------------------------------------------------
(* The invariant. *)

SessionsLabels == {"idle", "taken", "patron", "user", "locked", "password", "fail", "clear",
           "rate_set", "fail_set", "rate"}
Registering == {"patron", "user"}

Locals ==
  [op: {"login", "register"}, rate: RateKeys, name: Names, n: Nat, patron: 0..MaxPatronRows]

\* CounterOf, of any label and locals.
KeyOf(label, r) == IF label \in {"rate", "rate_set"} THEN r.rate ELSE <<"login_fail", r.name>>

\* Without a lost update a counter shows every event, and what a request has
\* read of one that it is about to write is never too much.
CountInv ==
  /\ \A k \in Keys : /\ counters[k].n <= events[k]
                     /\ k \notin muddled => counters[k].n = events[k]
  /\ \A g \in Handlers : pc[g] \in CountLabels => req[g].n <= events[KeyOf(pc[g], req[g])]

RowsUnder(n) == {i \in DOMAIN patrons : patrons[i] = n}

At(h, n) == pc[h] \in Registering /\ req[h].name = n

\* A name that was not registered twice at once, or cut short: one request at
\* most is past the look at the accounts, and finds what it saw.
RowInv ==
  \A n \in Names \ crossed :
    /\ \A g, h \in Handlers : At(g, n) /\ At(h, n) => g = h
    /\ \A h \in Handlers : At(h, n) => users[n] = 0
    /\ \A h \in Handlers : At(h, n) /\ pc[h] = "user" => RowsUnder(n) = {req[h].patron}
    /\ (\A h \in Handlers : At(h, n) => pc[h] # "user") =>
         RowsUnder(n) = IF users[n] = 0 THEN {} ELSE {users[n]}

SessInv ==
  /\ SessionsTypeOK
  /\ req = [h \in Handlers |-> req[h]]
  /\ CountInv
  /\ RowInv

LEMMA KeysOf ==
  /\ \A h : CounterOf(h) = KeyOf(pc[h], req[h])
  /\ \A label, r : r \in Locals => KeyOf(label, r) \in Keys
  /\ \A r \in Locals : r.rate \in Keys /\ <<"login_fail", r.name>> \in Keys
BY DEF CounterOf, KeyOf, Locals, Keys, FailKeys, RateKeys

LEMMA Typed ==
  ASSUME SessInv
  PROVE  /\ pc \in [Handlers -> SessionsLabels]
         /\ \A h \in Handlers : pc[h] # "idle" => req[h] \in Locals
         /\ \A h \in Handlers : pc[h] \in CountLabels => KeyOf(pc[h], req[h]) \in Keys /\ req[h].n \in Nat
         /\ counters \in [Keys -> Counter] /\ events \in [Keys -> Nat]
         /\ muddled \subseteq Keys /\ crossed \subseteq Names
<1>1. /\ pc \in [Handlers -> SessionsLabels]
      /\ counters \in [Keys -> Counter] /\ events \in [Keys -> Nat]
      /\ muddled \subseteq Keys /\ crossed \subseteq Names
  BY DEF SessInv, SessionsTypeOK, SessionsLabels, CountLabels
<1>2. \A h \in Handlers : pc[h] # "idle" => req[h] \in Locals
  BY DEF SessInv, SessionsTypeOK, Locals
<1>3. \A h \in Handlers : pc[h] \in CountLabels => KeyOf(pc[h], req[h]) \in Keys /\ req[h].n \in Nat
  BY <1>2, KeysOf DEF CountLabels, Locals
<1> QED  BY <1>1, <1>2, <1>3

LEMMA LimitsAre == \A k \in Keys : Limit(k) \in Nat \ {0} /\ Lifetime(k) \in Nat \ {0}
BY SessionsAssumption DEF Keys, FailKeys, RateKeys, Limit, Lifetime

LEMMA UpGrows ==
  ASSUME NEW k \in Keys, NEW m \in Nat, NEW n \in Nat, m <= n
  PROVE  /\ Up(k, n) \in Nat /\ n <= Up(k, n) /\ Up(k, m) <= Up(k, n) /\ Up(k, m) # 0
BY LimitsAre DEF Up

----------------------------------------------------------------------------
(* Counters. *)

\* K: the counters that are written; a counter that is not is as it was, or
\* gone.  Of the requests about to write, each is where it was, or has just
\* read what is there.
LEMMA Remembers ==
  ASSUME SessInv, NEW K, NEW L, L \subseteq K, K \subseteq Keys, Remember(K, L),
         counters' \in [Keys -> Counter],
         \A g \in Handlers : pc'[g] \in CountLabels =>
           \/ pc[g] = pc'[g] /\ req[g] = req'[g]
           \/ /\ KeyOf(pc'[g], req'[g]) \in Keys /\ req'[g].n \in Nat
              /\ req'[g].n <= counters[KeyOf(pc'[g], req'[g])].n,
         \A k \in Keys : k \notin K => counters'[k].n = 0 \/ counters'[k].n = counters[k].n,
         \A k \in K : /\ counters'[k].n <= Up(k, events[k])
                      /\ k \notin muddled /\ k \notin L => counters'[k].n = Up(k, events[k])
  PROVE  CountInv' /\ events' \in [Keys -> Nat] /\ muddled' \subseteq Keys /\ crossed' = crossed
<1> DEFINE Counting1(k) == \E g \in Handlers : pc'[g] \in CountLabels /\ KeyOf(pc'[g], req'[g]) = k
           Quiet(k) == counters'[k].n = 0 /\ ~ Counting1(k)
<1>1. /\ counters \in [Keys -> Counter] /\ events \in [Keys -> Nat]
      /\ muddled \subseteq Keys
      /\ \A k \in Keys : counters[k].n \in Nat /\ counters'[k].n \in Nat /\ events[k] \in Nat
  BY Typed DEF Counter
<1>2. \A k : Counting(k)' <=> Counting1(k)
  BY DEF Counting, CounterOf, KeyOf
<1>3. events' = [k \in Keys |->
                   IF Quiet(k) THEN 0 ELSE IF k \in K THEN Up(k, events[k]) ELSE events[k]]
  BY <1>2 DEF Remember
<1>4. muddled' = {k \in muddled \cup L \cup
                        {x \in Keys : counters'[x].n # counters[x].n /\ Counting1(x)} : ~ Quiet(k)}
  BY <1>2 DEF Remember
<1>5. crossed' = crossed
  BY DEF Remember
<1> HIDE DEF Counting1
<1>6. \A k \in Keys : Up(k, events[k]) \in Nat /\ events[k] <= Up(k, events[k])
  BY <1>1, UpGrows
<1>7. events' \in [Keys -> Nat]
  BY <1>1, <1>3, <1>6
<1>8. muddled' \subseteq Keys
  BY <1>1, <1>4
<1>9. ASSUME NEW k \in Keys
      PROVE  counters'[k].n <= events'[k] /\ (k \notin muddled' => counters'[k].n = events'[k])
  <2>1. counters[k].n <= events[k] /\ (k \notin muddled => counters[k].n = events[k])
    BY DEF SessInv, CountInv
  <2>2. CASE Quiet(k)
    BY <1>3, <2>2
  <2>3. CASE ~ Quiet(k) /\ k \in K
    BY <1>1, <1>3, <1>4, <2>3
  <2>4. CASE ~ Quiet(k) /\ k \notin K
    <3>1. events'[k] = events[k]
      BY <1>3, <2>4
    <3>2. k \notin muddled' => k \notin muddled /\ (counters'[k].n # counters[k].n => ~ Counting1(k))
      BY <1>4, <2>4
    <3> QED  BY <1>1, <2>1, <2>4, <3>1, <3>2
  <2> QED  BY <2>2, <2>3, <2>4
<1>10. ASSUME NEW g \in Handlers, pc'[g] \in CountLabels
       PROVE  req'[g].n <= events'[KeyOf(pc'[g], req'[g])]
  <2> DEFINE k == KeyOf(pc'[g], req'[g])
  <2>1. k \in Keys /\ req'[g].n \in Nat /\ req'[g].n <= events[k]
    <3>1. CASE pc[g] = pc'[g] /\ req[g] = req'[g]
      BY <1>10, <3>1, Typed DEF SessInv, CountInv
    <3>2. CASE k \in Keys /\ req'[g].n \in Nat /\ req'[g].n <= counters[k].n
      BY <1>1, <3>2 DEF SessInv, CountInv
    <3> QED  BY <1>10, <3>1, <3>2
  <2>2. Counting1(k)
    BY <1>10 DEF Counting1
  <2> HIDE DEF k
  <2>3. events'[k] = events[k] \/ events'[k] = Up(k, events[k])
    BY <1>3, <2>1, <2>2
  <2>4. req'[g].n <= events'[k]
    BY <1>1, <1>6, <2>1, <2>3
  <2> QED  BY <2>4 DEF k
<1> QED  BY <1>5, <1>7, <1>8, <1>9, <1>10 DEF CountInv

----------------------------------------------------------------------------
(* Steps of one request. *)

LEMMA Moved ==
  ASSUME SessInv, NEW h \in Handlers, NEW label \in SessionsLabels, NEW r, Goto(h, label, r)
  PROVE  /\ pc' \in [Handlers -> SessionsLabels] /\ req' = [g \in Handlers |-> req'[g]]
         /\ pc'[h] = label /\ req'[h] = r
         /\ \A g \in Handlers : g # h => pc'[g] = pc[g] /\ req'[g] = req[g]
<1>1. pc \in [Handlers -> SessionsLabels] /\ req = [g \in Handlers |-> req[g]]
  BY Typed DEF SessInv
<1> QED  BY <1>1 DEF Goto

LEMMA TypedStep ==
  ASSUME SessInv, NEW h \in Handlers, NEW label \in SessionsLabels, NEW r, Goto(h, label, r),
         label # "idle" => r \in Locals, UNCHANGED backend,
         counters' \in [Keys -> Counter], events' \in [Keys -> Nat], muddled' \subseteq Keys,
         crossed' \subseteq Names, patrons' \in Seq(Names), Len(patrons') <= MaxPatronRows,
         users' \in [Names -> 0..MaxPatronRows]
  PROVE  SessionsTypeOK'
<1>1. pc' \in [Handlers -> SessionsLabels]
  BY Moved
<1>2. ASSUME NEW g \in Handlers, pc'[g] # "idle"
      PROVE  req'[g] \in Locals
  <2>1. CASE g = h
    <3>1. pc'[h] = label /\ req'[h] = r
      BY Moved
    <3> QED  BY <1>2, <2>1, <3>1
  <2>2. CASE g # h
    <3>1. pc'[g] = pc[g] /\ req'[g] = req[g]
      BY <2>2, Moved
    <3>2. pc[g] # "idle" => req[g] \in Locals
      BY Typed
    <3> QED  BY <1>2, <3>1, <3>2
  <2> QED  BY <2>1, <2>2
<1>3. backend' \in {"redis", "memory"}
  BY DEF SessInv, SessionsTypeOK
<1> QED  BY <1>1, <1>2, <1>3 DEF SessionsTypeOK, SessionsLabels, Locals, CountLabels

\* A step outside the registration leaves its rows as they are.
LEMMA RowsStay ==
  ASSUME SessInv, UNCHANGED accounts, crossed \subseteq crossed',
         \A g \in Handlers : \/ pc'[g] = pc[g] /\ req'[g] = req[g]
                             \/ pc'[g] \notin Registering /\ pc[g] \notin Registering
  PROVE  RowInv'
<1>1. patrons' = patrons /\ users' = users
  BY DEF accounts
<1>2. ASSUME NEW n \in Names \ crossed'
      PROVE  /\ \A g, k \in Handlers : At(g, n)' /\ At(k, n)' => g = k
             /\ \A g \in Handlers : At(g, n)' => users'[n] = 0
             /\ \A g \in Handlers : At(g, n)' /\ pc'[g] = "user" => RowsUnder(n)' = {req'[g].patron}
             /\ (\A g \in Handlers : At(g, n)' => pc'[g] # "user") =>
                  RowsUnder(n)' = IF users'[n] = 0 THEN {} ELSE {users'[n]}
  <2>1. \A g \in Handlers :
          (At(g, n)' <=> At(g, n)) /\ (At(g, n) => pc'[g] = pc[g] /\ req'[g] = req[g])
    BY DEF At
  <2>2. RowsUnder(n)' = RowsUnder(n)
    BY <1>1 DEF RowsUnder
  <2>3. n \in Names \ crossed
    OBVIOUS
  <2>4. /\ \A g, k \in Handlers : At(g, n) /\ At(k, n) => g = k
        /\ \A g \in Handlers : At(g, n) => users[n] = 0
        /\ \A g \in Handlers : At(g, n) /\ pc[g] = "user" => RowsUnder(n) = {req[g].patron}
        /\ (\A g \in Handlers : At(g, n) => pc[g] # "user") =>
             RowsUnder(n) = IF users[n] = 0 THEN {} ELSE {users[n]}
    BY <2>3 DEF SessInv, RowInv
  <2> QED  BY <1>1, <2>1, <2>2, <2>4
<1> QED  BY <1>2 DEF RowInv, At, RowsUnder

\* Nor does a step that is not about a counter disturb what they tell.
LEMMA CountsStay ==
  ASSUME SessInv, UNCHANGED <<counters, events, muddled>>,
         \A g \in Handlers : pc'[g] \in CountLabels => pc'[g] = pc[g] /\ req'[g] = req[g]
  PROVE  CountInv'
<1>1. \A k \in Keys : counters'[k].n <= events'[k] /\ (k \notin muddled' => counters'[k].n = events'[k])
  BY DEF SessInv, CountInv
<1>2. \A g \in Handlers : pc'[g] \in CountLabels => req'[g].n <= events'[KeyOf(pc'[g], req'[g])]
  BY DEF SessInv, CountInv
<1> QED  BY <1>1, <1>2 DEF CountInv

\* What neither counts nor registers.
LEMMA Passes ==
  ASSUME SessInv, NEW h \in Handlers, NEW label \in SessionsLabels \ (CountLabels \cup Registering), NEW r,
         Goto(h, label, r), label # "idle" => r \in Locals, pc[h] \notin Registering,
         UNCHANGED <<backend, counters, accounts, history>>
  PROVE  SessInv'
<1>1. /\ pc' \in [Handlers -> SessionsLabels] /\ req' = [g \in Handlers |-> req'[g]]
      /\ pc'[h] = label /\ \A g \in Handlers : g # h => pc'[g] = pc[g] /\ req'[g] = req[g]
  BY Moved
<1>2. UNCHANGED <<patrons, users, events, muddled, crossed>>
  BY DEF accounts, history
<1>3. SessionsTypeOK'
  BY <1>2, Typed, TypedStep DEF SessInv, SessionsTypeOK
<1>4. CountInv'
  BY <1>1, <1>2, CountsStay
<1>5. RowInv'
  BY <1>1, <1>2, RowsStay
<1> QED  BY <1>1, <1>3, <1>4, <1>5 DEF SessInv

LEMMA ArriveInv ==
  ASSUME SessInv, NEW h \in Handlers, NEW op \in {"login", "register"}, NEW ip \in Ips,
         NEW name \in Names, Arrive(h, op, ip, name), UNCHANGED backend
  PROVE  SessInv'
<1>1. PICK r : r = [op |-> op, name |-> name, n |-> 0, patron |-> 0,
                    rate |-> <<IF op = "login" THEN "login_rate" ELSE "reg_rate", ip>>]
  OBVIOUS
<1>2. r \in Locals
  BY <1>1, SessionsAssumption DEF Locals, RateKeys
<1>3. Goto(h, "rate", r) /\ UNCHANGED <<counters, accounts, history>> /\ pc[h] = "idle"
  BY <1>1 DEF Arrive, Begin
<1> QED  BY <1>2, <1>3, Passes DEF SessionsLabels, CountLabels, Registering

LEMMA LoginPasswordInv ==
  ASSUME SessInv, NEW h \in Handlers, LoginPassword(h), UNCHANGED backend
  PROVE  SessInv'
<1>1. pc[h] = "password" /\ req[h] \in Locals
  BY Typed DEF LoginPassword
<1> QED  BY <1>1, Passes DEF LoginPassword, SessionsLabels, CountLabels, Registering

----------------------------------------------------------------------------
(* Counting. *)

WithN(r, n) == [r EXCEPT !.n = n]

LEMMA WithNFields ==
  ASSUME NEW r \in Locals, NEW n \in Nat, NEW e, e = WithN(r, n)
  PROVE  e \in Locals /\ e.n = n /\ e.rate = r.rate /\ e.name = r.name
BY DEF WithN, Locals

\* A step that may write the counters in K, as Remembers has it.
LEMMA Counts ==
  ASSUME SessInv, NEW h \in Handlers, NEW label \in SessionsLabels \ Registering, NEW r, Goto(h, label, r),
         label # "idle" => r \in Locals, pc[h] \notin Registering, UNCHANGED <<backend, accounts>>,
         counters' \in [Keys -> Counter], NEW K, NEW L, L \subseteq K, K \subseteq Keys, Remember(K, L),
         label \in CountLabels => r.n <= counters[KeyOf(label, r)].n,
         \A k \in Keys : k \notin K => counters'[k].n = 0 \/ counters'[k].n = counters[k].n,
         \A k \in K : /\ counters'[k].n <= Up(k, events[k])
                      /\ k \notin muddled /\ k \notin L => counters'[k].n = Up(k, events[k])
  PROVE  SessInv'
<1>1. /\ pc' \in [Handlers -> SessionsLabels] /\ req' = [g \in Handlers |-> req'[g]]
      /\ pc'[h] = label /\ req'[h] = r
      /\ \A g \in Handlers : g # h => pc'[g] = pc[g] /\ req'[g] = req[g]
  BY Moved
<1>2. label \in CountLabels => r \in Locals /\ KeyOf(label, r) \in Keys /\ r.n \in Nat
  BY KeysOf DEF CountLabels, Locals
<1>3. \A g \in Handlers : pc'[g] \in CountLabels =>
        \/ pc[g] = pc'[g] /\ req[g] = req'[g]
        \/ /\ KeyOf(pc'[g], req'[g]) \in Keys /\ req'[g].n \in Nat
           /\ req'[g].n <= counters[KeyOf(pc'[g], req'[g])].n
  BY <1>1, <1>2
<1>4. CountInv' /\ events' \in [Keys -> Nat] /\ muddled' \subseteq Keys /\ crossed' = crossed
  BY <1>3, Remembers
<1>5. patrons' = patrons /\ users' = users
  BY DEF accounts
<1>6. SessionsTypeOK'
  BY <1>4, <1>5, TypedStep DEF SessInv, SessionsTypeOK
<1>7. RowInv'
  BY <1>1, <1>4, RowsStay
<1> QED  BY <1>1, <1>4, <1>6, <1>7 DEF SessInv

\* A look at a counter, after which the request may be about to write it.
LEMMA Looks ==
  ASSUME SessInv, NEW h \in Handlers, NEW label \in SessionsLabels \ Registering, NEW r, Goto(h, label, r),
         label # "idle" => r \in Locals, pc[h] \notin Registering,
         UNCHANGED <<backend, counters, accounts>>, Remember({}, {}),
         label \in CountLabels => r.n <= counters[KeyOf(label, r)].n
  PROVE  SessInv'
<1>1. counters' \in [Keys -> Counter]
  BY Typed
<1> QED  BY <1>1, Counts

LEMMA CounterRead ==
  ASSUME SessInv, NEW k \in Keys, NEW n \in GetCounter(k)
  PROVE  n \in Nat /\ n <= counters[k].n
<1>1. counters[k].n \in Nat
  BY Typed DEF Counter
<1>2. n = counters[k].n \/ n = 0
  BY DEF GetCounter
<1> QED  BY <1>1, <1>2

LEMMA CheckRateInv ==
  ASSUME SessInv, NEW h \in Handlers, CheckRate(h), UNCHANGED backend
  PROVE  SessInv'
<1>1. pc[h] = "rate" /\ req[h] \in Locals /\ req[h].rate \in Keys
  BY Typed, KeysOf DEF CheckRate
<1>2. PICK n \in GetCounter(req[h].rate) :
        IF n >= Limit(req[h].rate) THEN Finish(h) ELSE Goto(h, "rate_set", WithN(req[h], n))
  BY DEF CheckRate, WithN
<1>3. UNCHANGED <<backend, counters, accounts>> /\ Remember({}, {})
  BY DEF CheckRate
<1>4. CASE Finish(h)
  BY <1>1, <1>3, <1>4, Looks DEF Finish, SessionsLabels, CountLabels, Registering
<1>5. CASE Goto(h, "rate_set", WithN(req[h], n))
  <2>1. PICK e : e = WithN(req[h], n)
    OBVIOUS
  <2>2. n \in Nat /\ n <= counters[req[h].rate].n
    BY <1>1, CounterRead
  <2>3. e \in Locals /\ e.n = n /\ e.rate = req[h].rate
    BY <1>1, <2>1, <2>2, WithNFields
  <2>4. e.n <= counters[KeyOf("rate_set", e)].n
    BY <2>2, <2>3 DEF KeyOf
  <2>5. Goto(h, "rate_set", e)
    BY <1>5, <2>1
  <2> QED  BY <1>1, <1>3, <2>3, <2>4, <2>5, Looks DEF SessionsLabels, Registering
<1> QED  BY <1>2, <1>4, <1>5

LEMMA LoginLockedInv ==
  ASSUME SessInv, NEW h \in Handlers, LoginLocked(h), UNCHANGED backend
  PROVE  SessInv'
<1>1. pc[h] = "locked" /\ req[h] \in Locals
  BY Typed DEF LoginLocked
<1>2. UNCHANGED <<backend, counters, accounts>> /\ Remember({}, {})
  BY DEF LoginLocked
<1>3. Goto(h, "idle", NoReq) \/ Goto(h, "password", req[h])
  BY DEF LoginLocked, Finish
<1> QED  BY <1>1, <1>2, <1>3, Looks DEF SessionsLabels, CountLabels, Registering

LEMMA ReadFailsInv ==
  ASSUME SessInv, NEW h \in Handlers, ReadFails(h), UNCHANGED backend
  PROVE  SessInv'
<1>1. pc[h] = "fail" /\ req[h] \in Locals /\ CounterOf(h) = <<"login_fail", req[h].name>>
      /\ CounterOf(h) \in Keys
  BY Typed, KeysOf DEF ReadFails, CounterOf
<1>2. PICK n \in GetCounter(CounterOf(h)) : Goto(h, "fail_set", WithN(req[h], n))
  BY DEF ReadFails, WithN
<1>3. UNCHANGED <<backend, counters, accounts>> /\ Remember({}, {})
  BY DEF ReadFails
<1>4. PICK e : e = WithN(req[h], n)
  OBVIOUS
<1>5. n \in Nat /\ n <= counters[CounterOf(h)].n
  BY <1>1, CounterRead
<1>6. e \in Locals /\ e.n = n /\ e.name = req[h].name
  BY <1>1, <1>4, <1>5, WithNFields
<1>7. e.n <= counters[KeyOf("fail_set", e)].n
  BY <1>1, <1>5, <1>6 DEF KeyOf
<1>8. Goto(h, "fail_set", e)
  BY <1>2, <1>4
<1> QED  BY <1>1, <1>3, <1>6, <1>7, <1>8, Looks DEF SessionsLabels, Registering

\* The write, and where the request goes after it.
LEMMA Sets ==
  ASSUME SessInv, NEW h \in Handlers, pc[h] \in CountLabels, SetCounter(h, CounterOf(h)),
         NEW label \in SessionsLabels \ (Registering \cup CountLabels), NEW r, Goto(h, label, r),
         label # "idle" => r \in Locals, UNCHANGED <<backend, accounts>>
  PROVE  SessInv'
<1> DEFINE k == CounterOf(h)
           n == req[h].n
<1>1. /\ k \in Keys /\ k = KeyOf(pc[h], req[h]) /\ n \in Nat /\ n <= events[k]
      /\ counters \in [Keys -> Counter] /\ events \in [Keys -> Nat]
  BY Typed, KeysOf DEF SessInv, CountInv
<1>2. events[k] \in Nat /\ counters[k].n \in Nat /\ counters[k].n <= events[k]
  BY <1>1 DEF Counter, SessInv, CountInv
<1>3. /\ Up(k, n) \in Nat /\ Up(k, n) <= Up(k, events[k])
      /\ counters[k].n <= Up(k, events[k])
  BY <1>1, <1>2, UpGrows
<1>4. pc[h] \notin Registering
  BY DEF Registering, CountLabels
<1> HIDE DEF k, n
<1>5. CASE /\ counters' = [counters EXCEPT ![k] = [n |-> Up(k, n), left |-> Lifetime(k)]]
           /\ Remember({k}, IF n = counters[k].n THEN {} ELSE {k})
  <2>1. [n |-> Up(k, n), left |-> Lifetime(k)] \in Counter
    BY <1>1, <1>3, LimitsAre DEF Counter
  <2>2. /\ counters' \in [Keys -> Counter] /\ counters'[k].n = Up(k, n)
        /\ \A x \in Keys : x # k => counters'[x].n = counters[x].n
    BY <1>1, <1>5, <2>1
  <2>3. \A x \in {k} : /\ counters'[x].n <= Up(x, events[x])
                       /\ x \notin muddled /\ x \notin (IF n = counters[k].n THEN {} ELSE {k}) =>
                            counters'[x].n = Up(x, events[x])
    BY <1>1, <1>3, <2>2 DEF SessInv, CountInv
  <2>4. PICK L : L = IF n = counters[k].n THEN {} ELSE {k}
    OBVIOUS
  <2> QED  BY <1>1, <1>4, <1>5, <2>2, <2>3, <2>4, Counts
<1>6. CASE UNCHANGED counters /\ Remember({k}, {k})
  <2>1. counters' \in [Keys -> Counter]
    BY <1>1, <1>6
  <2> QED  BY <1>1, <1>3, <1>4, <1>6, <2>1, Counts
<1>7. \/ /\ counters' = [counters EXCEPT ![k] = [n |-> Up(k, n), left |-> Lifetime(k)]]
         /\ Remember({k}, IF n = counters[k].n THEN {} ELSE {k})
      \/ UNCHANGED counters /\ Remember({k}, {k})
  BY DEF SetCounter, k, n
<1> QED  BY <1>5, <1>6, <1>7

LEMMA CountRateInv ==
  ASSUME SessInv, NEW h \in Handlers, CountRate(h), UNCHANGED backend
  PROVE  SessInv'
<1>1. /\ pc[h] = "rate_set" /\ req[h] \in Locals /\ CounterOf(h) = req[h].rate
      /\ SetCounter(h, CounterOf(h)) /\ UNCHANGED <<backend, accounts>>
  BY Typed DEF CountRate, CounterOf
<1>2. CASE Goto(h, "idle", NoReq)
  BY <1>1, <1>2, Sets DEF SessionsLabels, CountLabels, Registering
<1>3. CASE Goto(h, IF req[h].op = "login" THEN "locked" ELSE "taken", WithN(req[h], 0))
  <2>1. PICK e : e = WithN(req[h], 0)
    OBVIOUS
  <2>2. e \in Locals
    BY <1>1, <2>1, WithNFields
  <2>3. Goto(h, "locked", e) \/ Goto(h, "taken", e)
    BY <1>3, <2>1
  <2> QED  BY <1>1, <2>2, <2>3, Sets DEF SessionsLabels, CountLabels, Registering
<1> QED  BY <1>2, <1>3 DEF CountRate, Finish, WithN

LEMMA WriteFailsInv ==
  ASSUME SessInv, NEW h \in Handlers, WriteFails(h), UNCHANGED backend
  PROVE  SessInv'
<1>1. /\ pc[h] = "fail_set" /\ SetCounter(h, CounterOf(h)) /\ Goto(h, "idle", NoReq)
      /\ UNCHANGED <<backend, accounts>>
  BY DEF WriteFails, Finish
<1> QED  BY <1>1, Sets DEF SessionsLabels, CountLabels, Registering

LEMMA ClearFailsInv ==
  ASSUME SessInv, NEW h \in Handlers, ClearFails(h), UNCHANGED backend
  PROVE  SessInv'
<1>1. /\ pc[h] = "clear" /\ Goto(h, "idle", NoReq) /\ UNCHANGED <<backend, accounts>>
      /\ Remember({}, {})
  BY DEF ClearFails, Finish
<1>2. counters \in [Keys -> Counter] /\ NoCounter \in Counter /\ NoCounter.n = 0
  BY Typed DEF Counter, NoCounter
<1>3. \/ counters' = [counters EXCEPT ![CounterOf(h)] = NoCounter]
      \/ counters' = counters
  BY DEF ClearFails
<1>4. /\ counters' \in [Keys -> Counter]
      /\ \A k \in Keys : counters'[k].n = 0 \/ counters'[k].n = counters[k].n
  BY <1>2, <1>3
<1> QED  BY <1>1, <1>4, Counts DEF SessionsLabels, CountLabels, Registering

----------------------------------------------------------------------------
(* Registering. *)

\* A step that changes what is registered and counts nothing.
LEMMA Registers ==
  ASSUME SessInv, NEW h \in Handlers, NEW label \in SessionsLabels \ CountLabels, NEW r, Goto(h, label, r),
         label # "idle" => r \in Locals, UNCHANGED <<backend, counters, events, muddled>>,
         crossed' \subseteq Names, patrons' \in Seq(Names), Len(patrons') <= MaxPatronRows,
         users' \in [Names -> 0..MaxPatronRows], RowInv'
  PROVE  SessInv'
<1>1. /\ pc' \in [Handlers -> SessionsLabels] /\ req' = [g \in Handlers |-> req'[g]]
      /\ pc'[h] = label /\ \A g \in Handlers : g # h => pc'[g] = pc[g] /\ req'[g] = req[g]
  BY Moved
<1>2. SessionsTypeOK'
  BY Typed, TypedStep
<1>3. CountInv'
  BY <1>1, CountsStay
<1> QED  BY <1>1, <1>2, <1>3 DEF SessInv

LEMMA RowsTyped ==
  ASSUME SessInv
  PROVE  /\ patrons \in Seq(Names) /\ Len(patrons) <= MaxPatronRows /\ Len(patrons) \in Nat
         /\ users \in [Names -> 0..MaxPatronRows] /\ crossed \subseteq Names
         /\ MaxPatronRows \in Nat
BY SessionsAssumption DEF SessInv, SessionsTypeOK

\* The rows of RowInv for one name.
RowsOK(n) ==
  /\ \A g, h \in Handlers : At(g, n) /\ At(h, n) => g = h
  /\ \A h \in Handlers : At(h, n) => users[n] = 0
  /\ \A h \in Handlers : At(h, n) /\ pc[h] = "user" => RowsUnder(n) = {req[h].patron}
  /\ (\A h \in Handlers : At(h, n) => pc[h] # "user") =>
       RowsUnder(n) = IF users[n] = 0 THEN {} ELSE {users[n]}

LEMMA RowsOKs == RowInv <=> \A n \in Names \ crossed : RowsOK(n)
BY DEF RowInv, RowsOK

\* What one request does about its own name does not touch the other names.
LEMMA OtherNames ==
  ASSUME SessInv, NEW h \in Handlers, NEW label \in SessionsLabels, NEW r, Goto(h, label, r),
         NEW n \in Names \ crossed, RowsUnder(n)' = RowsUnder(n), users'[n] = users[n],
         ~ At(h, n), label \in Registering => r.name # n
  PROVE  RowsOK(n)'
<1>1. /\ pc'[h] = label /\ req'[h] = r
      /\ \A g \in Handlers : g # h => pc'[g] = pc[g] /\ req'[g] = req[g]
  BY Moved
<1>2. RowsOK(n)
  BY RowsOKs DEF SessInv
<1>3. \A g \in Handlers :
        (At(g, n)' <=> At(g, n)) /\ (At(g, n) => pc'[g] = pc[g] /\ req'[g] = req[g])
  BY <1>1 DEF At
<1>4. /\ \A g, k \in Handlers : At(g, n)' /\ At(k, n)' => g = k
      /\ \A g \in Handlers : At(g, n)' => users'[n] = 0
      /\ \A g \in Handlers : At(g, n)' /\ pc'[g] = "user" => RowsUnder(n)' = {req'[g].patron}
      /\ (\A g \in Handlers : At(g, n)' => pc'[g] # "user") =>
           RowsUnder(n)' = IF users'[n] = 0 THEN {} ELSE {users'[n]}
  BY <1>2, <1>3 DEF RowsOK
<1> QED  BY <1>4 DEF RowsOK

LEMMA RowsPrimed == (\A n \in Names \ crossed' : RowsOK(n)') => RowInv'
BY DEF RowInv, RowsOK, RowsUnder, At

\* So that a step of a registration has to show RowsOK of its own name alone.
LEMMA OwnName ==
  ASSUME SessInv, NEW h \in Handlers, NEW label \in SessionsLabels, NEW r, Goto(h, label, r),
         NEW m \in Names, crossed \subseteq crossed',
         \A n \in Names : n # m => RowsUnder(n)' = RowsUnder(n) /\ users'[n] = users[n],
         pc[h] \in Registering => req[h].name = m, label \in Registering => r.name = m,
         m \notin crossed' => RowsOK(m)'
  PROVE  RowInv'
<1>1. ASSUME NEW n \in Names \ crossed', n # m
      PROVE  RowsOK(n)'
  <2>1. n \in Names \ crossed /\ RowsUnder(n)' = RowsUnder(n) /\ users'[n] = users[n]
    BY <1>1
  <2>2. ~ At(h, n) /\ (label \in Registering => r.name # n)
    BY <1>1 DEF At
  <2> QED  BY <2>1, <2>2, OtherNames
<1>2. \A n \in Names \ crossed' : RowsOK(n)'
  BY <1>1
<1> QED  BY <1>2, RowsPrimed

\* RowsOK of the next state, spelled out.
LEMMA RowsNow ==
  ASSUME NEW m,
         \A g, k \in Handlers : At(g, m)' /\ At(k, m)' => g = k,
         \A g \in Handlers : At(g, m)' => users'[m] = 0,
         \A g \in Handlers : At(g, m)' /\ pc'[g] = "user" => RowsUnder(m)' = {req'[g].patron},
         (\A g \in Handlers : At(g, m)' => pc'[g] # "user") =>
           RowsUnder(m)' = IF users'[m] = 0 THEN {} ELSE {users'[m]}
  PROVE  RowsOK(m)'
BY DEF RowsOK

LEMMA RegisterLookupInv ==
  ASSUME SessInv, NEW h \in Handlers, RegisterLookup(h), UNCHANGED backend
  PROVE  SessInv'
<1>1. /\ pc[h] = "taken" /\ req[h] \in Locals /\ req[h].name \in Names
      /\ UNCHANGED <<counters, events, muddled>> /\ patrons' = patrons /\ users' = users
  BY Typed DEF RegisterLookup, accounts, Locals
<1>2. /\ patrons' \in Seq(Names) /\ Len(patrons') <= MaxPatronRows
      /\ users' \in [Names -> 0..MaxPatronRows]
      /\ crossed \subseteq crossed' /\ crossed' \subseteq Names
  BY <1>1, RowsTyped DEF RegisterLookup
<1>3. \A n : RowsUnder(n)' = RowsUnder(n)
  BY <1>1 DEF RowsUnder
<1>4. \A n : ~ At(h, n)
  BY <1>1 DEF At, Registering
<1>5. ASSUME Goto(h, "idle", NoReq)
      PROVE  SessInv'
  <2>1. \A g \in Handlers : \/ pc'[g] = pc[g] /\ req'[g] = req[g]
                            \/ pc'[g] \notin Registering /\ pc[g] \notin Registering
    BY <1>1, <1>5, Moved DEF SessionsLabels, Registering
  <2>2. RowInv'
    BY <1>1, <1>2, <2>1, RowsStay DEF accounts
  <2> QED  BY <1>1, <1>2, <1>5, <2>2, Registers DEF SessionsLabels, CountLabels
<1>6. ASSUME Goto(h, "patron", req[h]),
             req[h].name \notin crossed' =>
               /\ users[req[h].name] = 0
               /\ \A g \in Handlers \ {h} : ~ At(g, req[h].name)
      PROVE  SessInv'
  <2>1. /\ pc'[h] = "patron" /\ req'[h] = req[h]
        /\ \A g \in Handlers : g # h => pc'[g] = pc[g] /\ req'[g] = req[g]
    BY <1>6, Moved DEF SessionsLabels
  <2>2. PICK m \in Names : m = req[h].name
    BY <1>1
  <2>3. ASSUME m \notin crossed'
        PROVE  RowsOK(m)'
    <3>1. users[m] = 0 /\ \A g \in Handlers : g # h => ~ At(g, m)
      BY <1>6, <2>2, <2>3
    <3>2. m \in Names \ crossed
      BY <1>2, <2>3
    <3>3. RowsUnder(m) = {}
      BY <1>4, <2>2, <3>1, <3>2, RowsOKs DEF SessInv, RowsOK
    <3>4. \A g \in Handlers : At(g, m)' => g = h /\ pc'[g] # "user"
      BY <2>1, <3>1 DEF At
    <3>5. users'[m] = 0 /\ RowsUnder(m)' = {}
      BY <1>1, <1>3, <2>2, <3>1, <3>3
    <3> QED  BY <3>4, <3>5, RowsNow
  <2>4. RowInv'
    BY <1>1, <1>2, <1>3, <1>6, <2>2, <2>3, OwnName DEF SessionsLabels, Registering
  <2> QED  BY <1>1, <1>2, <1>6, <2>4, Registers DEF SessionsLabels, CountLabels
<1>7. \/ Goto(h, "idle", NoReq)
      \/ /\ Goto(h, "patron", req[h])
         /\ req[h].name \notin crossed' =>
              /\ users[req[h].name] = 0
              /\ \A g \in Handlers \ {h} : ~ At(g, req[h].name)
  BY DEF RegisterLookup, Finish, At, Registering
<1> QED  BY <1>5, <1>6, <1>7

WithPatron(r, p) == [r EXCEPT !.patron = p]

LEMMA WithPatronFields ==
  ASSUME NEW r \in Locals, NEW p \in 0..MaxPatronRows, NEW e, e = WithPatron(r, p)
  PROVE  e \in Locals /\ e.patron = p /\ e.rate = r.rate /\ e.name = r.name
BY DEF WithPatron, Locals

LEMMA InsertPatronInv ==
  ASSUME SessInv, NEW h \in Handlers, InsertPatron(h), UNCHANGED backend
  PROVE  SessInv'
<1>1. /\ pc[h] = "patron" /\ req[h] \in Locals /\ users' = users
      /\ UNCHANGED <<counters, events, muddled>> /\ crossed' = crossed
  BY Typed DEF InsertPatron, history
<1>2. PICK m \in Names : m = req[h].name
  BY <1>1 DEF Locals
<1>3. At(h, m)
  BY <1>1, <1>2 DEF At, Registering
<1>4. /\ patrons \in Seq(Names) /\ Len(patrons) \in Nat /\ Len(patrons) <= MaxPatronRows
      /\ users \in [Names -> 0..MaxPatronRows] /\ crossed \subseteq Names /\ MaxPatronRows \in Nat
  BY RowsTyped
\* In the right order nobody else is at the name, and there is no row of it yet.
<1>5. ASSUME m \notin crossed
      PROVE  /\ \A g \in Handlers : At(g, m) => g = h
             /\ users[m] = 0 /\ RowsUnder(m) = {}
  <2>1. RowsOK(m)
    BY <1>5, RowsOKs DEF SessInv
  <2> QED  BY <1>1, <1>3, <2>1 DEF RowsOK
<1>6. ASSUME /\ Len(patrons) < MaxPatronRows
             /\ patrons' = Append(patrons, req[h].name)
             /\ Goto(h, "user", WithPatron(req[h], Len(patrons) + 1))
      PROVE  SessInv'
  <2>1. PICK p \in 0..MaxPatronRows : p = Len(patrons) + 1
    BY <1>4, <1>6
  <2>2. PICK e : e = WithPatron(req[h], p)
    OBVIOUS
  <2>3. e \in Locals /\ e.patron = p /\ e.name = m
    BY <1>1, <1>2, <2>2, WithPatronFields
  <2>4. Goto(h, "user", e)
    BY <1>6, <2>1, <2>2
  <2>5. /\ pc'[h] = "user" /\ req'[h] = e
        /\ \A g \in Handlers : g # h => pc'[g] = pc[g] /\ req'[g] = req[g]
    BY <2>4, Moved DEF SessionsLabels
  <2>6. /\ patrons' \in Seq(Names) /\ Len(patrons') = p /\ patrons'[p] = m
        /\ \A i \in 1..Len(patrons) : patrons'[i] = patrons[i]
    BY <1>2, <1>4, <1>6, <2>1
  <2>7. DOMAIN patrons = 1..Len(patrons) /\ DOMAIN patrons' = 1..p
    BY <1>4, <2>6
  <2>8. \A n \in Names : n # m => RowsUnder(n)' = RowsUnder(n)
    BY <1>4, <2>1, <2>6, <2>7 DEF RowsUnder
  <2>9. RowsUnder(m)' = RowsUnder(m) \cup {p}
    BY <1>4, <2>1, <2>6, <2>7 DEF RowsUnder
  <2>10. ASSUME m \notin crossed'
         PROVE  RowsOK(m)'
    <3>1. /\ \A g \in Handlers : At(g, m) => g = h
          /\ users[m] = 0 /\ RowsUnder(m) = {}
      BY <1>1, <1>5, <2>10
    <3>2. \A g \in Handlers : At(g, m)' => g = h
      BY <2>5, <3>1 DEF At
    <3>3. At(h, m)' /\ pc'[h] = "user" /\ req'[h].patron = p /\ RowsUnder(m)' = {p} /\ users'[m] = 0
      BY <1>1, <2>3, <2>5, <2>9, <3>1 DEF At, Registering
    <3> QED  BY <3>2, <3>3, RowsNow
  <2>11. RowInv'
    BY <1>1, <1>2, <2>3, <2>4, <2>8, <2>10, OwnName DEF SessionsLabels
  <2> QED  BY <1>1, <1>4, <2>3, <2>4, <2>6, <2>11, Registers DEF SessionsLabels, CountLabels
<1>7. ASSUME /\ \E i \in DOMAIN patrons : patrons[i] = req[h].name
             /\ Goto(h, "idle", NoReq)
             /\ UNCHANGED patrons
      PROVE  SessInv'
  <2>1. \A n : RowsUnder(n)' = RowsUnder(n)
    BY <1>7 DEF RowsUnder
  <2>2. RowsUnder(m) # {}
    BY <1>2, <1>7 DEF RowsUnder
  <2>3. m \in crossed'
    BY <1>1, <1>5, <2>2
  <2>4. RowInv'
    BY <1>1, <1>2, <1>7, <2>1, <2>3, OwnName DEF SessionsLabels, Registering
  <2> QED  BY <1>1, <1>4, <1>7, <2>4, Registers DEF SessionsLabels, CountLabels
<1> QED  BY <1>6, <1>7 DEF InsertPatron, Finish, WithPatron

LEMMA LoginFields ==
  ASSUME NEW r \in Locals
  PROVE  AsLogin(r) \in Locals
<1>1. 0 \in 0..MaxPatronRows
  BY SessionsAssumption
<1>2. PICK k \in {"login_rate", "reg_rate"}, ip \in Ips : r.rate = <<k, ip>>
  BY DEF Locals, RateKeys
<1>3. PICK rate \in RateKeys : rate = <<"login_rate", r.rate[2]>>
  <2>1. r.rate[2] = ip
    BY <1>2
  <2>2. <<"login_rate", ip>> \in RateKeys
    BY DEF RateKeys
  <2> QED  BY <2>1, <2>2
<1>4. [r EXCEPT !.op = "login", !.rate = rate, !.patron = 0] \in Locals
  BY <1>1 DEF Locals
<1> QED  BY <1>3, <1>4 DEF AsLogin

LEMMA CreateUserInv ==
  ASSUME SessInv, NEW h \in Handlers, CreateUser(h), UNCHANGED backend
  PROVE  SessInv'
<1>1. /\ pc[h] = "user" /\ req[h] \in Locals /\ patrons' = patrons
      /\ UNCHANGED <<counters, events, muddled>> /\ crossed' = crossed
  BY Typed DEF CreateUser, history
<1>2. PICK m \in Names : m = req[h].name
  BY <1>1 DEF Locals
<1>3. At(h, m)
  BY <1>1, <1>2 DEF At, Registering
<1>4. /\ patrons \in Seq(Names) /\ Len(patrons) \in Nat /\ Len(patrons) <= MaxPatronRows
      /\ users \in [Names -> 0..MaxPatronRows] /\ crossed \subseteq Names /\ MaxPatronRows \in Nat
  BY RowsTyped
<1>5. \A n : RowsUnder(n)' = RowsUnder(n)
  BY <1>1 DEF RowsUnder
<1>6. ASSUME m \notin crossed
      PROVE  /\ \A g \in Handlers : At(g, m) => g = h
             /\ users[m] = 0 /\ RowsUnder(m) = {req[h].patron} /\ req[h].patron # 0
  <2>1. RowsOK(m)
    BY <1>6, RowsOKs DEF SessInv
  <2>2. RowsUnder(m) = {req[h].patron} /\ users[m] = 0 /\ \A g \in Handlers : At(g, m) => g = h
    BY <1>1, <1>3, <2>1 DEF RowsOK
  <2>3. req[h].patron \in DOMAIN patrons
    BY <2>2 DEF RowsUnder
  <2> QED  BY <1>4, <2>2, <2>3
<1>7. ASSUME /\ users[req[h].name] = 0
             /\ users' = [users EXCEPT ![req[h].name] = req[h].patron]
             /\ Goto(h, "locked", AsLogin(req[h])) \/ Goto(h, "idle", NoReq)
      PROVE  SessInv'
  <2>1. PICK p \in 0..MaxPatronRows : p = req[h].patron
    BY <1>1 DEF Locals
  <2>2. /\ users' \in [Names -> 0..MaxPatronRows] /\ users'[m] = p
        /\ \A n \in Names : n # m => users'[n] = users[n]
    BY <1>2, <1>4, <1>7, <2>1
  <2>3. PICK label, r :
          /\ label \in {"locked", "idle"} /\ Goto(h, label, r)
          /\ label # "idle" => r \in Locals
    <3>1. AsLogin(req[h]) \in Locals
      BY <1>1, LoginFields
    <3> QED  BY <1>7, <3>1
  <2>4. /\ pc'[h] = label
        /\ \A g \in Handlers : g # h => pc'[g] = pc[g] /\ req'[g] = req[g]
    BY <2>3, Moved DEF SessionsLabels
  <2>5. ASSUME m \notin crossed'
        PROVE  RowsOK(m)'
    <3>1. \A g \in Handlers : ~ At(g, m)'
      BY <1>1, <1>6, <2>3, <2>4, <2>5 DEF At, Registering
    <3>2. RowsUnder(m)' = {users'[m]} /\ users'[m] # 0
      BY <1>1, <1>5, <1>6, <2>1, <2>2, <2>5
    <3> QED  BY <3>1, <3>2, RowsNow
  <2>6. RowInv'
    BY <1>1, <1>2, <1>5, <2>2, <2>3, <2>5, OwnName DEF SessionsLabels, Registering
  <2> QED  BY <1>1, <1>4, <2>2, <2>3, <2>6, Registers DEF SessionsLabels, CountLabels
<1>8. ASSUME users[req[h].name] # 0, Goto(h, "idle", NoReq), UNCHANGED users
      PROVE  SessInv'
  <2>1. m \in crossed'
    BY <1>1, <1>2, <1>6, <1>8
  <2>2. RowInv'
    BY <1>1, <1>2, <1>5, <1>8, <2>1, OwnName DEF SessionsLabels, Registering
  <2> QED  BY <1>1, <1>4, <1>8, <2>2, Registers DEF SessionsLabels, CountLabels
<1> QED  BY <1>1, <1>7, <1>8 DEF CreateUser, Finish

LEMMA RegisterFailsInv ==
  ASSUME SessInv, NEW h \in Handlers, RegisterFails(h), UNCHANGED backend
  PROVE  SessInv'
<1>1. /\ pc[h] \in Registering /\ req[h] \in Locals /\ patrons' = patrons /\ users' = users
      /\ UNCHANGED <<counters, events, muddled>> /\ crossed' = crossed \cup {req[h].name}
      /\ Goto(h, "idle", NoReq)
  BY Typed DEF RegisterFails, accounts, Registering, Finish
<1>2. PICK m \in Names : m = req[h].name
  BY <1>1 DEF Locals
<1>3. \A n : RowsUnder(n)' = RowsUnder(n)
  BY <1>1 DEF RowsUnder
<1>4. RowInv'
  BY <1>1, <1>2, <1>3, OwnName DEF SessionsLabels, Registering
<1>5. /\ patrons' \in Seq(Names) /\ Len(patrons') <= MaxPatronRows
      /\ users' \in [Names -> 0..MaxPatronRows] /\ crossed' \subseteq Names
  BY <1>1, <1>2, RowsTyped
<1> QED  BY <1>1, <1>4, <1>5, Registers DEF SessionsLabels, CountLabels

----------------------------------------------------------------------------
(* The clock and the process. *)

LEMMA TickInv ==
  ASSUME SessInv, Tick, UNCHANGED backend
  PROVE  SessInv'
<1>1. /\ counters' = [k \in Keys |-> Shorter(counters[k])]
      /\ UNCHANGED <<pc, req>> /\ patrons' = patrons /\ users' = users /\ Remember({}, {})
  BY DEF Tick, accounts
<1>2. \A k \in Keys : /\ Shorter(counters[k]) \in Counter
                      /\ Shorter(counters[k]).n = 0 \/ Shorter(counters[k]).n = counters[k].n
  <2>1. TAKE k \in Keys
  <2>2. counters[k] \in Counter
    BY Typed
  <2> QED  BY <2>2 DEF Shorter, Counter, NoCounter
<1>3. /\ counters' \in [Keys -> Counter]
      /\ \A k \in Keys : counters'[k].n = 0 \/ counters'[k].n = counters[k].n
  BY <1>1, <1>2
<1>4. CountInv' /\ events' \in [Keys -> Nat] /\ muddled' \subseteq Keys /\ crossed' = crossed
  BY <1>1, <1>3, Remembers
<1>5. RowInv'
  BY <1>1, <1>4, RowsStay DEF accounts
<1>6. SessionsTypeOK'
  BY <1>1, <1>3, <1>4 DEF SessInv, SessionsTypeOK
<1>7. (req = [h \in Handlers |-> req[h]])'
  BY <1>1 DEF SessInv
<1> QED  BY <1>4, <1>5, <1>6, <1>7 DEF SessInv

LEMMA RestartInv ==
  ASSUME SessInv, Restart, UNCHANGED backend
  PROVE  SessInv'
<1>1. /\ pc' = [h \in Handlers |-> "idle"] /\ req' = [h \in Handlers |-> NoReq]
      /\ patrons' = patrons /\ users' = users
      /\ events' = [k \in Keys |-> IF counters'[k].n = 0 THEN 0 ELSE events[k]]
      /\ muddled' = {k \in muddled : counters'[k].n # 0}
      /\ crossed' = crossed \cup {req[h].name : h \in {g \in Handlers : pc[g] \in Registering}}
  BY DEF Restart, DropRequests, accounts, Registering
<1>2. /\ counters' \in [Keys -> Counter]
      /\ \A k \in Keys : counters'[k].n = 0 \/ counters'[k].n = counters[k].n
  BY Typed DEF Restart, NoCounter, Counter
<1>3. events' \in [Keys -> Nat] /\ muddled' \subseteq Keys /\ crossed' \subseteq Names
  <2>1. \A h \in Handlers : pc[h] \in Registering => req[h].name \in Names
    BY Typed DEF Registering, Locals
  <2> QED  BY <1>1, <2>1, Typed
<1>4. CountInv'
  <2>1. \A k \in Keys : counters'[k].n <= events'[k] /\ (k \notin muddled' => counters'[k].n = events'[k])
    BY <1>1, <1>2 DEF SessInv, CountInv
  <2> QED  BY <1>1, <2>1 DEF CountInv, CountLabels
<1>5. ASSUME NEW n \in Names \ crossed'
      PROVE  RowsOK(n)'
  <2>1. \A h \in Handlers : ~ At(h, n)
    BY <1>1 DEF At
  <2>2. RowsUnder(n) = IF users[n] = 0 THEN {} ELSE {users[n]}
    BY <1>1, <2>1, RowsOKs DEF SessInv, RowsOK
  <2>3. \A h \in Handlers : ~ At(h, n)'
    BY <1>1 DEF At, Registering
  <2>4. RowsUnder(n)' = IF users'[n] = 0 THEN {} ELSE {users'[n]}
    BY <1>1, <2>2 DEF RowsUnder
  <2> QED  BY <2>3, <2>4, RowsNow
<1>6. RowInv'
  BY <1>5, RowsPrimed
<1>7. SessionsTypeOK'
  BY <1>1, <1>2, <1>3 DEF SessInv, SessionsTypeOK
<1>8. (req = [h \in Handlers |-> req[h]])'
  BY <1>1
<1> QED  BY <1>4, <1>6, <1>7, <1>8 DEF SessInv

----------------------------------------------------------------------------
(* The specification keeps the invariant. *)

LEMMA SessInvInit == SessionsInit => SessInv
<1> SUFFICES ASSUME SessionsInit
             PROVE  SessInv
  OBVIOUS
<1> USE DEF SessionsInit
<1>1. SessionsTypeOK
  BY SessionsAssumption DEF SessionsTypeOK, NoCounter, Counter
<1>2. CountInv
  BY DEF CountInv, NoCounter, CountLabels
<1>3. RowInv
  BY DEF RowInv, RowsUnder, At, Registering
<1> QED  BY <1>1, <1>2, <1>3 DEF SessInv

LEMMA SessInvNext == SessInv /\ [SessionsNext]_sessionsVars => SessInv'
<1> SUFFICES ASSUME SessInv, [SessionsNext]_sessionsVars
             PROVE  SessInv'
  OBVIOUS
<1>1. ASSUME UNCHANGED sessionsVars
      PROVE  SessInv'
  <2>1. UNCHANGED <<pc, req, backend, counters, patrons, users, events, muddled, crossed>>
    BY <1>1 DEF sessionsVars, accounts, history
  <2>2. SessionsTypeOK'
    BY <2>1 DEF SessInv, SessionsTypeOK
  <2>3. CountInv'
    BY <2>1, CountsStay
  <2>4. RowInv'
    BY <2>1, RowsStay DEF accounts
  <2>5. (req = [h \in Handlers |-> req[h]])'
    BY <2>1 DEF SessInv
  <2> QED  BY <2>2, <2>3, <2>4, <2>5 DEF SessInv
<1>2. ASSUME UNCHANGED backend, NEW h \in Handlers, SessionsStep(h)
      PROVE  SessInv'
  BY <1>2, CheckRateInv, CountRateInv, RegisterLookupInv, InsertPatronInv, CreateUserInv,
     RegisterFailsInv, LoginLockedInv, LoginPasswordInv, ReadFailsInv, WriteFailsInv, ClearFailsInv
     DEF SessionsStep
<1> QED  BY <1>1, <1>2, ArriveInv, TickInv, RestartInv DEF SessionsNext

LEMMA SessInvAlways == SessionsSpec => []SessInv
BY SessInvInit, SessInvNext, PTL DEF SessionsSpec

\* The types of the sessions' state, the backend and the history among them.
THEOREM SessionsTypeCorrect == SessionsSpec => []SessionsTypeOK
<1>1. SessInv => SessionsTypeOK
  BY DEF SessInv
<1> QED  BY <1>1, SessInvAlways, PTL

\* CheckRate, recordFail and what Login clears: no counter shows more than
\* happened, and without a lost update it shows all of it.
THEOREM CountersTellTheTruth == SessionsSpec => []CountersHonest
<1>1. SessInv => CountersHonest
  BY DEF SessInv, CountInv, CountersHonest
<1> QED  BY <1>1, SessInvAlways, PTL

\* Register: a row of patrons under a name and the account of the name are
\* one, unless two registrations of it met, one was cut short, or the look at
\* the taken name failed.
THEOREM AccountsHaveOneReader == SessionsSpec => []OneReaderPerAccount
<1>1. ASSUME SessInv, NEW n \in Names, n \notin crossed
      PROVE  /\ Cardinality(RowsUnder(n)) <= 1
             /\ {h \in Handlers : pc[h] = "user" /\ req[h].name = n} = {} =>
                  RowsUnder(n) = IF users[n] = 0 THEN {} ELSE {users[n]}
  <2>1. RowsOK(n)
    BY <1>1, RowsOKs DEF SessInv
  <2>2. CASE \E h \in Handlers : At(h, n) /\ pc[h] = "user"
    <3>1. PICK h \in Handlers : At(h, n) /\ pc[h] = "user"
      BY <2>2
    <3>2. RowsUnder(n) = {req[h].patron}
      BY <2>1, <3>1 DEF RowsOK
    <3>3. Cardinality({req[h].patron}) = 1
      BY FS_Singleton
    <3>4. h \in {g \in Handlers : pc[g] = "user" /\ req[g].name = n}
      BY <3>1 DEF At
    <3> QED  BY <3>2, <3>3, <3>4
  <2>3. CASE ~ \E h \in Handlers : At(h, n) /\ pc[h] = "user"
    <3>1. RowsUnder(n) = IF users[n] = 0 THEN {} ELSE {users[n]}
      BY <2>1, <2>3 DEF RowsOK
    <3>2. Cardinality({}) = 0 /\ Cardinality({users[n]}) = 1
      BY FS_EmptySet, FS_Singleton
    <3> QED  BY <3>1, <3>2
  <2> QED  BY <2>2, <2>3
<1>2. SessInv => OneReaderPerAccount
  BY <1>1 DEF OneReaderPerAccount, RowsUnder
<1> QED  BY <1>2, SessInvAlways, PTL
=============================================================================
