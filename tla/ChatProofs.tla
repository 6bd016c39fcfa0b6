------------------------------- MODULE ChatProofs -------------------------------
(***************************************************************************)
(* What the conversations hold and what a turn gets to know of them, for   *)
(* any number of users, requests at once, conversations and messages.      *)
(***************************************************************************)
EXTENDS Chat, FiniteSetTheorems, WellFoundedInduction, TLAPS

----------------------------------------------------------------------------
(* Finite sets of numbers.  The library's induction theorems cannot be used *)
(* here, but a set of naturals has a least element, and that is enough.     *)

Below == {ss \in Nat \X Nat : ss[1] < ss[2]}

LEMMA LeastNat ==
  ASSUME NEW T, T \subseteq Nat, T # {}
  PROVE  \E x \in Nat : x \in T /\ \A y \in Nat : y \in T => x <= y
<1>1. IsWellFoundedOn(Below, Nat)
  BY NatLessThanWellFounded DEF OpToRel, Below
<1>2. \E x \in T : \A y \in T : ~ (<<y, x>> \in Below)
  BY <1>1, WFMin
<1>3. PICK x \in T : \A y \in T : ~ (<<y, x>> \in Below)
  BY <1>2
<1>4. x \in Nat
  OBVIOUS
<1>5. ASSUME NEW y \in Nat, y \in T
      PROVE  x <= y
  <2>1. ~ (<<y, x>> \in Below)
    BY <1>3, <1>5
  <2>2. <<y, x>> \in Nat \X Nat
    BY <1>4
  <2>3. ~ (y < x)
    BY <1>4, <2>1 DEF Below
  <2> QED  BY <1>4, <2>3
<1> QED  BY <1>4, <1>5

Above(S, i) == {j \in S : j > i}

\* Fewer elements lie above a greater one.
LEMMA AboveCounts ==
  ASSUME NEW S, S \subseteq Nat, IsFiniteSet(S)
  PROVE  /\ \A i \in S : IsFiniteSet(Above(S, i)) /\ Cardinality(Above(S, i)) \in Nat
         /\ \A i, j \in S : j < i => Cardinality(Above(S, j)) > Cardinality(Above(S, i))
<1>1. \A j \in S : IsFiniteSet(Above(S, j)) /\ Cardinality(Above(S, j)) \in Nat
  <2> TAKE j \in S
  <2>1. Above(S, j) \subseteq S
    BY DEF Above
  <2> QED  BY <2>1, FS_Subset, FS_CardinalityType
<1>2. ASSUME NEW i \in S, NEW j \in S, j < i
      PROVE  Cardinality(Above(S, j)) > Cardinality(Above(S, i))
  <2>0. i \in Nat /\ j \in Nat
    OBVIOUS
  <2>1. i \in Above(S, j) /\ i \notin Above(S, i)
    BY <1>2, <2>0 DEF Above
  <2>2. Above(S, i) \subseteq Above(S, j)
    <3> SUFFICES ASSUME NEW x \in Above(S, i)  PROVE x \in Above(S, j)
      OBVIOUS
    <3>1. x \in S /\ x \in Nat /\ x > i
      BY DEF Above
    <3> QED  BY <1>2, <2>0, <3>1 DEF Above
  <2>3. Cardinality(Above(S, i)) <= Cardinality(Above(S, j)) /\ Above(S, i) # Above(S, j)
    BY <1>1, <2>1, <2>2, FS_Subset
  <2>4. Cardinality(Above(S, i)) # Cardinality(Above(S, j))
    BY <1>1, <2>1, <2>2, <2>3, FS_Subset
  <2> QED  BY <1>1, <2>3, <2>4
<1> QED  BY <1>1, <1>2

LEMMA GreatestNat ==
  ASSUME NEW S, S \subseteq Nat, IsFiniteSet(S), S # {}
  PROVE  \E x \in S : \A y \in Nat : y \in S => y <= x
<1> DEFINE C == {Cardinality(Above(S, x)) : x \in S}
<1>1. C \subseteq Nat /\ C # {}
  BY AboveCounts
<1>2. PICK c \in Nat : c \in C /\ \A d \in Nat : d \in C => c <= d
  BY <1>1, LeastNat
<1>3. PICK x \in S : c = Cardinality(Above(S, x))
  BY <1>2
<1>4. ASSUME NEW y \in Nat, y \in S, ~ (y <= x)
      PROVE  FALSE
  <2>1. x \in Nat /\ x < y
    BY <1>4
  <2>2. /\ Cardinality(Above(S, y)) \in C /\ Cardinality(Above(S, y)) \in Nat
        /\ Cardinality(Above(S, x)) > Cardinality(Above(S, y))
    BY <1>4, <2>1, AboveCounts
  <2> QED  BY <1>2, <1>3, <2>2
<1> QED  BY <1>4

\* The cut takes exactly as many as it may.
LEMMA LatestCounts ==
  ASSUME NEW S, S \subseteq Nat, IsFiniteSet(S), NEW n \in Nat, n <= Cardinality(S)
  PROVE  Cardinality(Latest(S, n)) = n
<1> DEFINE Bad == {k \in Nat : k <= Cardinality(S) /\ Cardinality(Latest(S, k)) # k}
<1>1. Cardinality(S) \in Nat
  BY FS_CardinalityType
<1>2. \A k : Latest(S, k) = {i \in S : Cardinality(Above(S, i)) < k}
  BY DEF Latest, Above
<1>3. /\ \A i \in S : i \in Nat /\ Cardinality(Above(S, i)) \in Nat
      /\ \A i, j \in S : j < i => Cardinality(Above(S, j)) > Cardinality(Above(S, i))
  BY AboveCounts
<1>4. SUFFICES ASSUME Bad # {}
               PROVE  FALSE
  OBVIOUS
<1>5. PICK k \in Nat : k \in Bad /\ \A l \in Nat : l \in Bad => k <= l
  <2>1. Bad \subseteq Nat
    OBVIOUS
  <2> HIDE DEF Bad
  <2> QED  BY <1>4, <2>1, LeastNat
<1>6. k # 0
  <2>1. \A i \in S : ~ (Cardinality(Above(S, i)) < 0)
    BY <1>3
  <2>2. Latest(S, 0) = {}
    BY <1>2, <2>1
  <2>3. Cardinality(Latest(S, 0)) = 0
    BY <2>2, FS_EmptySet
  <2> QED  BY <1>5, <2>3
<1>7. PICK m \in Nat : k = m + 1
  <2>1. k - 1 \in Nat /\ k = (k - 1) + 1
    BY <1>6
  <2> QED  BY <2>1
<1>8. PICK L : L = Latest(S, m)
  OBVIOUS
<1>9. m < Cardinality(S) /\ Cardinality(L) = m
  <2>1. ~ (k <= m) /\ m <= Cardinality(S) /\ m < Cardinality(S)
    BY <1>1, <1>5, <1>7
  <2>2. m \notin Bad
    BY <1>5, <2>1
  <2> QED  BY <1>8, <2>1, <2>2
<1>10. /\ \A i : i \in L <=> i \in S /\ Cardinality(Above(S, i)) < m
       /\ L \subseteq S /\ IsFiniteSet(L)
  BY <1>2, <1>8, FS_Subset
<1>11. IsFiniteSet(S \ L) /\ S \ L \subseteq Nat /\ S \ L # {}
  <2>1. L # S
    BY <1>9, <1>1
  <2> QED  BY <1>10, <2>1, FS_Subset
<1>12. PICK x \in S \ L : \A y \in Nat : y \in S \ L => y <= x
  BY <1>11, GreatestNat
<1>13. x \in Nat /\ x \in S /\ x \notin L
  BY <1>12, <1>3
<1>14. ASSUME NEW y \in Nat, y \in L
       PROVE  x < y
  <2>1. y \in S /\ y # x /\ Cardinality(Above(S, y)) < m
    BY <1>10, <1>13, <1>14
  <2>2. y < x => Cardinality(Above(S, x)) < m
    BY <1>3, <1>13, <2>1
  <2>3. ~ (y < x)
    BY <1>10, <1>13, <2>2
  <2> QED  BY <1>13, <2>1, <2>3
<1>15. Above(S, x) = L
  <2>1. \A y \in L : y \in S /\ x < y
    BY <1>3, <1>10, <1>14
  <2>2. ASSUME NEW y \in S, x < y
        PROVE  y \in L
    BY <1>3, <1>12, <1>13, <2>2
  <2> QED  BY <1>3, <1>13, <2>1, <2>2 DEF Above
<1>16. Latest(S, k) = L \cup {x}
  <2>1. \A y \in L : y \in S /\ Cardinality(Above(S, y)) < k
    BY <1>3, <1>7, <1>10
  <2>2. Cardinality(Above(S, x)) < k
    BY <1>7, <1>9, <1>15
  <2>3. ASSUME NEW y \in S, y \notin L, y # x
        PROVE  ~ (Cardinality(Above(S, y)) < k)
    <3>1. y \in Nat /\ y < x
      BY <1>3, <1>12, <1>13, <2>3
    <3>2. Cardinality(Above(S, y)) > m
      BY <1>3, <1>9, <1>13, <1>15, <3>1
    <3> QED  BY <1>3, <1>7, <3>2
  <2> QED  BY <1>2, <1>13, <2>1, <2>2, <2>3
<1>17. Cardinality(L \cup {x}) = m + 1
  BY <1>9, <1>10, <1>13, FS_AddElement
<1> QED  BY <1>5, <1>7, <1>16, <1>17

\* What is cut off lies before all that is kept, and then nothing more fits.
LEMMA LatestIsLast ==
  ASSUME NEW S, S \subseteq Nat, IsFiniteSet(S), NEW n \in Nat
  PROVE  /\ Latest(S, n) \subseteq S
         /\ \A i \in S \ Latest(S, n) :
              Cardinality(Latest(S, n)) = n /\ \A j \in Latest(S, n) : i < j
         /\ Cardinality(Latest(S, n)) \in Nat /\ Cardinality(Latest(S, n)) <= n
<1>1. \A i : i \in Latest(S, n) <=> i \in S /\ Cardinality(Above(S, i)) < n
  BY DEF Latest, Above
<1>2. /\ \A i \in S : i \in Nat /\ Cardinality(Above(S, i)) \in Nat
      /\ \A i, j \in S : j < i => Cardinality(Above(S, j)) > Cardinality(Above(S, i))
      /\ Cardinality(S) \in Nat
  BY AboveCounts, FS_CardinalityType
<1>3. ASSUME NEW i \in S, i \notin Latest(S, n)
      PROVE  Cardinality(Latest(S, n)) = n /\ \A j \in Latest(S, n) : i < j
  <2>1. Cardinality(Above(S, i)) >= n
    BY <1>1, <1>2, <1>3
  <2>2. Cardinality(Above(S, i)) <= Cardinality(S)
    <3>1. Above(S, i) \subseteq S
      BY DEF Above
    <3> QED  BY <3>1, FS_Subset
  <2>3. n <= Cardinality(S)
    BY <1>2, <2>1, <2>2
  <2>4. ASSUME NEW j \in Latest(S, n)
        PROVE  i < j
    <3>1. j \in S /\ j # i /\ Cardinality(Above(S, j)) < n
      BY <1>1, <1>3
    <3>2. ~ (j < i)
      BY <1>2, <2>1, <3>1
    <3> QED  BY <1>2, <3>1, <3>2
  <2> QED  BY <2>3, <2>4, LatestCounts
<1>4. Cardinality(Latest(S, n)) \in Nat /\ Cardinality(Latest(S, n)) <= n
  <2>1. CASE Latest(S, n) = S
    <3>1. n <= Cardinality(S) => Cardinality(Latest(S, n)) = n
      BY LatestCounts
    <3> QED  BY <1>2, <2>1, <3>1
  <2>2. CASE Latest(S, n) # S
    <3>1. PICK i \in S : i \notin Latest(S, n)
      BY <1>1, <2>2
    <3> QED  BY <1>3, <3>1
  <2> QED  BY <2>1, <2>2
<1> QED  BY <1>1, <1>3, <1>4

----------------------------------------------------------------------------
(* The invariant. *)

Used(c) == convs[c].status # "unused"
Active(h) == pc[h] # "idle"

\* A turn that no request will store anything of any more.
Over(t) == t < nextTurn /\ \A h \in Handlers : Active(h) => req[h].turn # t

\* Messages are of conversations and turns there have been.
RowsInv ==
  \A i \in DOMAIN messages :
    /\ messages[i].turn < nextTurn
    /\ Used(messages[i].conv) /\ convs[messages[i].conv].user = messages[i].user
    /\ ~ Open(messages[i].conv) => messages[i].turn \in spanned[messages[i].conv]

\* A request knows whose conversation it is in, and has stored nothing before
\* its question; if it comes to the answer with nothing failed, the question
\* is there.
RequestsInv ==
  \A h \in Handlers : Active(h) =>
    /\ req[h].turn < nextTurn
    /\ Used(req[h].conv) /\ convs[req[h].conv].user = req[h].user
    /\ ~ Open(req[h].conv) => req[h].turn \in spanned[req[h].conv]
    /\ \A i \in DOMAIN messages :
         messages[i].turn = req[h].turn => pc[h] = "answer" /\ messages[i].role = "user"
    /\ pc[h] = "answer" /\ req[h].intact /\ Open(req[h].conv) =>
         \E i \in DOMAIN messages :
           messages[i].conv = req[h].conv /\ messages[i].turn = req[h].turn /\ messages[i].role = "user"

\* Each request has a turn of its own, and a turn that is complete is over.
TurnsInv ==
  /\ \A g, h \in Handlers : Active(g) /\ Active(h) /\ g # h => req[g].turn # req[h].turn
  /\ \A t \in Turns, c \in Convs : <<t, c>> \in complete => Over(t) /\ Used(c)
  /\ \A h \in Handlers : Active(h) => \A t \in req[h].before : Over(t)

Typed == TypeOK /\ req = [h \in Handlers |-> req[h]]

ChatInv ==
  /\ Typed
  /\ RowsInv /\ RequestsInv /\ TurnsInv
  /\ QuestionBeforeAnswer /\ CompleteTurnsStored /\ ContextFollowsOn

----------------------------------------------------------------------------
(* What a step does to the variables, place by place. *)

Row(h, role) == [conv |-> req[h].conv, turn |-> req[h].turn, role |-> role, user |-> req[h].user]

\* A handler goes on with other locals.
Moves(h, label, r) ==
  /\ pc' = [pc EXCEPT ![h] = label] /\ req' = [req EXCEPT ![h] = r]

\* No conversation that was used changes.
ConvsGrow ==
  /\ convs' \in [Convs -> Conversation]
  /\ \A c \in Convs : Used(c) => convs'[c] = convs[c]
  /\ \A c \in Convs : convs'[c] # convs[c] => convs'[c].status = "open"

LEMMA LocalsTyped ==
  ASSUME Typed, NEW h \in Handlers, Active(h)
  PROVE  /\ req[h] \in Req
         /\ req[h].user \in Users /\ req[h].conv \in Convs /\ req[h].turn \in Turns
         /\ req[h].read \in BOOLEAN /\ req[h].intact \in BOOLEAN /\ req[h].before \subseteq Turns
BY DEF Typed, TypeOK, Active, Req

LEMMA RowsTyped ==
  ASSUME Typed
  PROVE  /\ nextTurn \in Nat /\ nextMessage \in Nat
         /\ \A i \in DOMAIN messages :
              /\ i \in Nat /\ i # 0 /\ i < nextMessage
              /\ messages[i].conv \in Convs /\ messages[i].turn \in Turns
              /\ messages[i].role \in {"user", "assistant"} /\ messages[i].user \in Users
<1>1. nextMessage \in Nat /\ nextTurn \in Nat /\ DOMAIN messages \subseteq 1..(nextMessage - 1)
      /\ \A i \in DOMAIN messages : messages[i] \in Message
  BY ChatAssumption DEF Typed, TypeOK
<1>2. \A i \in DOMAIN messages : i \in 1..(nextMessage - 1)
  BY <1>1
<1>3. \A i \in 1..(nextMessage - 1) : i \in Nat /\ i # 0 /\ i < nextMessage
  BY <1>1
<1> QED  BY <1>1, <1>2, <1>3 DEF Message

LEMMA Places ==
  ASSUME Typed, NEW h \in Handlers, NEW label \in PC, NEW r, Moves(h, label, r),
         r \in IF label = "idle" THEN {<<>>} ELSE Req
  PROVE  /\ pc'[h] = label /\ req'[h] = r
         /\ \A g \in Handlers : g # h => pc'[g] = pc[g] /\ req'[g] = req[g]
         /\ pc' \in [Handlers -> PC] /\ req' = [g \in Handlers |-> req'[g]]
         /\ \A g \in Handlers : req'[g] \in IF pc'[g] = "idle" THEN {<<>>} ELSE Req
<1>1. pc \in [Handlers -> PC] /\ req = [g \in Handlers |-> req[g]]
      /\ \A g \in Handlers : req[g] \in IF pc[g] = "idle" THEN {<<>>} ELSE Req
  BY DEF Typed, TypeOK
<1>2. /\ pc' \in [Handlers -> PC] /\ pc'[h] = label
      /\ \A g \in Handlers : g # h => pc'[g] = pc[g]
  BY <1>1 DEF Moves
<1>3. /\ req' = [g \in Handlers |-> req'[g]] /\ req'[h] = r
      /\ \A g \in Handlers : g # h => req'[g] = req[g]
  BY <1>1 DEF Moves
<1>4. ASSUME NEW g \in Handlers
      PROVE  req'[g] \in IF pc'[g] = "idle" THEN {<<>>} ELSE Req
  <2>1. CASE g = h
    BY <1>2, <1>3, <2>1
  <2>2. CASE g # h
    BY <1>1, <1>2, <1>3, <2>2
  <2> QED  BY <2>1, <2>2
<1> QED  BY <1>2, <1>3, <1>4

LEMMA Stored ==
  ASSUME Typed, NEW h \in Handlers, Active(h), NEW role \in {"user", "assistant"}, Store(h, role)
  PROVE  /\ DOMAIN messages' = DOMAIN messages \cup {nextMessage} /\ nextMessage \notin DOMAIN messages
         /\ messages'[nextMessage] = Row(h, role)
         /\ \A i \in DOMAIN messages : messages'[i] = messages[i] /\ i < nextMessage /\ i \in Nat
         /\ nextMessage' \in Nat \ {0} /\ DOMAIN messages' \subseteq 1..(nextMessage' - 1)
         /\ messages' \in [DOMAIN messages' -> Message]
<1>1. nextMessage \in Nat \ {0} /\ DOMAIN messages \subseteq 1..(nextMessage - 1)
      /\ messages \in [DOMAIN messages -> Message]
  BY DEF Typed, TypeOK
<1>2. \A i \in DOMAIN messages : i \in Nat /\ i # 0 /\ i < nextMessage
  BY RowsTyped
<1>3. messages' = [i \in DOMAIN messages \cup {nextMessage} |->
                    IF i = nextMessage THEN Row(h, role) ELSE messages[i]]
  BY DEF Store, Row
<1>4. nextMessage' = nextMessage + 1
  BY DEF Store
<1>5. Row(h, role) \in Message
  BY LocalsTyped DEF Row, Message
<1>6. DOMAIN messages' = DOMAIN messages \cup {nextMessage} /\ nextMessage \notin DOMAIN messages
  BY <1>1, <1>2, <1>3
<1>7. messages'[nextMessage] = Row(h, role) /\ \A i \in DOMAIN messages : messages'[i] = messages[i]
  BY <1>2, <1>3, <1>6
<1>8. \A i \in DOMAIN messages' : messages'[i] \in Message
  BY <1>1, <1>5, <1>6, <1>7
<1>9. messages' \in [DOMAIN messages' -> Message]
  BY <1>3, <1>6, <1>8
<1>10. nextMessage' \in Nat \ {0} /\ DOMAIN messages' \subseteq 1..(nextMessage' - 1)
  BY <1>1, <1>2, <1>4, <1>6
<1> QED  BY <1>2, <1>6, <1>7, <1>9, <1>10

----------------------------------------------------------------------------
(* Steps of a request that touch no table. *)

Follows(r) ==
  \A i \in DOMAIN messages :
    messages[i].conv = r.conv /\ messages[i].turn \in r.before =>
      \/ i \in r.context
      \/ Cardinality(r.context) = MaxContext /\ \A j \in r.context : i < j

LEMMA FollowsOn ==
  ContextFollowsOn <=> \A h \in Handlers : pc[h] = "run" /\ req[h].read => Follows(req[h])
BY DEF ContextFollowsOn, Follows

\* The request goes on, or it is over.
GoesOn(h, label, r) ==
  /\ label \in PC \ {"idle"} /\ r \in Req /\ pc[h] # "answer"
  /\ r.turn = req[h].turn /\ r.conv = req[h].conv /\ r.user = req[h].user /\ r.before = req[h].before
  /\ label = "answer" => ~ r.intact
  /\ label = "run" /\ r.read => Follows(r)

LEMMA Advances ==
  ASSUME ChatInv, NEW h \in Handlers, Active(h), NEW label, NEW r, Moves(h, label, r),
         UNCHANGED <<convs, table, nextTurn, complete, spanned>>,
         (label = "idle" /\ r = <<>>) \/ GoesOn(h, label, r)
  PROVE  ChatInv'
<1>1. label \in PC /\ r \in IF label = "idle" THEN {<<>>} ELSE Req
  BY DEF GoesOn, PC
<1>2. /\ pc'[h] = label /\ req'[h] = r
      /\ \A g \in Handlers : g # h => pc'[g] = pc[g] /\ req'[g] = req[g]
      /\ pc' \in [Handlers -> PC] /\ req' = [g \in Handlers |-> req'[g]]
      /\ \A g \in Handlers : req'[g] \in IF pc'[g] = "idle" THEN {<<>>} ELSE Req
  BY <1>1, Places DEF ChatInv
<1>3. UNCHANGED <<convs, messages, nextMessage, nextTurn, complete, spanned>>
  BY DEF table
<1>4. Typed'
  BY <1>2, <1>3 DEF ChatInv, Typed, TypeOK
<1>5. RowsInv' /\ QuestionBeforeAnswer' /\ CompleteTurnsStored'
  BY <1>3 DEF ChatInv, RowsInv, Used, Open, QuestionBeforeAnswer, CompleteTurnsStored
<1>6. \A g \in Handlers : Active(g)' =>
        /\ Active(g) /\ req'[g].turn = req[g].turn /\ req'[g].conv = req[g].conv
        /\ req'[g].user = req[g].user /\ req'[g].before = req[g].before
        /\ g # h => pc'[g] = pc[g] /\ req'[g] = req[g]
        /\ g = h => GoesOn(h, label, r)
  BY <1>2 DEF Active, GoesOn
<1>7. RequestsInv'
  <2> SUFFICES ASSUME NEW g \in Handlers, Active(g)'
               PROVE  /\ req'[g].turn < nextTurn
                      /\ Used(req[g].conv) /\ convs[req[g].conv].user = req'[g].user
                      /\ ~ Open(req[g].conv) => req[g].turn \in spanned[req[g].conv]
                      /\ \A i \in DOMAIN messages :
                           messages[i].turn = req[g].turn => pc'[g] = "answer" /\ messages[i].role = "user"
                      /\ pc'[g] = "answer" /\ req'[g].intact /\ Open(req[g].conv) =>
                           \E i \in DOMAIN messages :
                             messages[i].conv = req[g].conv /\ messages[i].turn = req[g].turn
                               /\ messages[i].role = "user"
    BY <1>3, <1>6 DEF RequestsInv, Used, Open
  <2>1. CASE g # h
    BY <1>6, <2>1 DEF ChatInv, RequestsInv
  <2>2. CASE g = h
    BY <1>2, <1>6, <2>2 DEF ChatInv, RequestsInv, GoesOn
  <2> QED  BY <2>1, <2>2
<1>8. \A t : Over(t) => Over(t)'
  BY <1>3, <1>6 DEF Over
<1>9. TurnsInv'
  BY <1>3, <1>6, <1>8 DEF ChatInv, TurnsInv, Used
<1>10. \A g \in Handlers : pc'[g] = "run" /\ req'[g].read => Follows(req[g])'
  <2> TAKE g \in Handlers
  <2>1. CASE g # h
    BY <1>2, <1>3, <2>1, FollowsOn DEF ChatInv, Follows
  <2>2. CASE g = h
    BY <1>2, <1>3, <2>2 DEF GoesOn, Follows
  <2> QED  BY <2>1, <2>2
<1>11. ContextFollowsOn'
  BY <1>10 DEF ContextFollowsOn, Follows
<1> QED  BY <1>4, <1>5, <1>7, <1>9, <1>11 DEF ChatInv

----------------------------------------------------------------------------
(* A new turn. *)

LEMMA OthersKeep ==
  ASSUME ConvsGrow
  PROVE  \A c \in Convs : Used(c) =>
           convs'[c] = convs[c] /\ convs'[c].status # "unused" /\ (convs'[c].status = "open" <=> Open(c))
BY DEF ConvsGrow, Used, Open

LEMMA RowsKept ==
  ASSUME ChatInv, ConvsGrow, UNCHANGED <<table, spanned>>,
         nextTurn' \in Nat, nextTurn <= nextTurn'
  PROVE  RowsInv' /\ QuestionBeforeAnswer'
<1>1. UNCHANGED <<messages, nextMessage, spanned>>
  BY DEF table
<1>2. ASSUME NEW i \in DOMAIN messages
      PROVE  /\ messages[i].turn < nextTurn'
             /\ convs'[messages[i].conv].status # "unused" /\ convs'[messages[i].conv].user = messages[i].user
             /\ convs'[messages[i].conv].status # "open" => messages[i].turn \in spanned[messages[i].conv]
  <2>1. messages[i].conv \in Convs /\ messages[i].turn \in Nat /\ nextTurn \in Nat
    BY RowsTyped, ChatAssumption DEF ChatInv, Turns
  <2>2. /\ messages[i].turn < nextTurn
        /\ Used(messages[i].conv) /\ convs[messages[i].conv].user = messages[i].user
        /\ ~ Open(messages[i].conv) => messages[i].turn \in spanned[messages[i].conv]
    BY DEF ChatInv, RowsInv
  <2>3. /\ convs'[messages[i].conv].status # "unused" /\ convs'[messages[i].conv].user = messages[i].user
        /\ convs'[messages[i].conv].status # "open" => messages[i].turn \in spanned[messages[i].conv]
    BY <2>1, <2>2, OthersKeep
  <2> QED  BY <2>1, <2>2, <2>3
<1>3. RowsInv'
  BY <1>1, <1>2 DEF RowsInv, Used, Open
<1> QED  BY <1>1, <1>3 DEF ChatInv, QuestionBeforeAnswer

LEMMA CompleteKept ==
  ASSUME ChatInv, ConvsGrow, UNCHANGED <<table, complete>>
  PROVE  CompleteTurnsStored'
<1>1. UNCHANGED messages
  BY DEF table
<1>2. \A t \in Turns, c \in Convs : <<t, c>> \in complete /\ convs'[c].status = "open" => Open(c)
  BY OthersKeep DEF ChatInv, TurnsInv
<1> QED  BY <1>1, <1>2 DEF ChatInv, CompleteTurnsStored, Open

LEMMA Starts ==
  ASSUME ChatInv, NEW h \in Handlers, NEW u \in Users, NEW c \in Convs,
         NEW label \in {"reread", "history"}, Begin(h, u, c, label),
         ConvsGrow, convs'[c].status = "open", convs'[c].user = u,
         UNCHANGED <<table, complete, spanned>>
  PROVE  ChatInv'
<1> DEFINE r == [user |-> u, conv |-> c, turn |-> nextTurn, context |-> {}, read |-> TRUE,
                 before |-> {t \in Turns : <<t, c>> \in complete}, intact |-> TRUE]
<1>1. /\ pc[h] = "idle" /\ nextTurn <= MaxTurn /\ nextTurn' = nextTurn + 1
      /\ Moves(h, label, r)
  BY DEF Begin, Goto, Moves
<1>2. nextTurn \in Turns /\ nextTurn \in Nat /\ nextTurn' \in 1..(MaxTurn + 1)
  BY <1>1, ChatAssumption DEF ChatInv, Typed, TypeOK, Turns
<1>3. r \in Req /\ r.turn = nextTurn /\ r.conv = c /\ r.user = u
      /\ r.before = {t \in Turns : <<t, c>> \in complete}
  BY <1>2 DEF Req
<1> HIDE DEF r
<1>4. label \in PC /\ label # "idle" /\ label # "answer" /\ label # "run"
  BY DEF PC
<1>5. /\ pc'[h] = label /\ req'[h] = r
      /\ \A g \in Handlers : g # h => pc'[g] = pc[g] /\ req'[g] = req[g]
      /\ pc' \in [Handlers -> PC] /\ req' = [g \in Handlers |-> req'[g]]
      /\ \A g \in Handlers : req'[g] \in IF pc'[g] = "idle" THEN {<<>>} ELSE Req
  BY <1>1, <1>3, <1>4, Places DEF ChatInv
<1>6. UNCHANGED <<messages, nextMessage, complete, spanned>>
  BY DEF table
<1>7. Typed'
  BY <1>2, <1>5, <1>6 DEF ChatInv, Typed, TypeOK, ConvsGrow
<1>8. RowsInv' /\ QuestionBeforeAnswer' /\ CompleteTurnsStored'
  BY <1>1, <1>2, ChatAssumption, RowsKept, CompleteKept
<1>9. \A g \in Handlers : Active(g) => g # h /\ Active(g)' /\ req[g].turn \in Nat /\ req[g].turn < nextTurn
  BY <1>1, <1>5, LocalsTyped DEF ChatInv, RequestsInv, Active, Turns
<1>10. \A g \in Handlers : Active(g)' => g = h \/ (Active(g) /\ g # h)
  BY <1>5 DEF Active
<1>11. RequestsInv'
  <2>1. ASSUME NEW g \in Handlers, Active(g), g # h
        PROVE  /\ req[g].turn < nextTurn'
               /\ convs'[req[g].conv].status # "unused" /\ convs'[req[g].conv].user = req[g].user
               /\ convs'[req[g].conv].status # "open" => req[g].turn \in spanned[req[g].conv]
               /\ \A i \in DOMAIN messages :
                    messages[i].turn = req[g].turn => pc[g] = "answer" /\ messages[i].role = "user"
               /\ pc[g] = "answer" /\ req[g].intact /\ convs'[req[g].conv].status = "open" =>
                    \E i \in DOMAIN messages :
                      messages[i].conv = req[g].conv /\ messages[i].turn = req[g].turn
                        /\ messages[i].role = "user"
    <3>1. req[g].conv \in Convs /\ Used(req[g].conv)
      BY <2>1, LocalsTyped DEF ChatInv, RequestsInv
    <3>2. convs'[req[g].conv].status # "unused" /\ convs'[req[g].conv] = convs[req[g].conv]
          /\ (convs'[req[g].conv].status = "open" <=> Open(req[g].conv))
      BY <3>1, OthersKeep
    <3>3. req[g].turn < nextTurn'
      BY <1>1, <1>2, <1>9, <2>1
    <3> QED  BY <2>1, <3>2, <3>3 DEF ChatInv, RequestsInv
  <2>2. /\ nextTurn < nextTurn' /\ convs'[c].status # "unused" /\ convs'[c].status = "open"
        /\ \A i \in DOMAIN messages : messages[i].turn # nextTurn
    <3>1. \A i \in DOMAIN messages : messages[i].turn \in Nat /\ messages[i].turn < nextTurn
      BY RowsTyped DEF ChatInv, RowsInv, Turns
    <3> QED  BY <1>1, <1>2, <3>1
  <2>3. ASSUME NEW g \in Handlers, Active(g)'
        PROVE  /\ req'[g].turn < nextTurn'
               /\ convs'[req'[g].conv].status # "unused" /\ convs'[req'[g].conv].user = req'[g].user
               /\ convs'[req'[g].conv].status # "open" => req'[g].turn \in spanned[req'[g].conv]
               /\ \A i \in DOMAIN messages :
                    messages[i].turn = req'[g].turn => pc'[g] = "answer" /\ messages[i].role = "user"
               /\ pc'[g] = "answer" /\ req'[g].intact /\ convs'[req'[g].conv].status = "open" =>
                    \E i \in DOMAIN messages :
                      messages[i].conv = req'[g].conv /\ messages[i].turn = req'[g].turn
                        /\ messages[i].role = "user"
    <3>1. CASE g = h
      BY <1>3, <1>4, <1>5, <2>2, <3>1
    <3>2. CASE g # h
      <4>1. Active(g) /\ pc'[g] = pc[g] /\ req'[g] = req[g]
        BY <1>5, <1>10, <2>3, <3>2
      <4> QED  BY <2>1, <3>2, <4>1
    <3> QED  BY <3>1, <3>2
  <2> QED  BY <1>6, <2>3 DEF RequestsInv, Used, Open
<1>12. \A t \in Turns : Over(t) => Over(t)'
  <2> SUFFICES ASSUME NEW t \in Turns, Over(t)
               PROVE  Over(t)'
    OBVIOUS
  <2>1. t < nextTurn /\ t \in Nat /\ t # nextTurn /\ t < nextTurn'
    BY <1>1, <1>2 DEF Over, Turns
  <2>2. \A g \in Handlers : Active(g)' => req'[g].turn # t
    BY <1>3, <1>5, <1>10, <2>1 DEF Over
  <2> QED  BY <2>1, <2>2 DEF Over
<1>13. TurnsInv'
  <2>1. \A f, g \in Handlers : Active(f)' /\ Active(g)' /\ f # g => req'[f].turn # req'[g].turn
    <3> SUFFICES ASSUME NEW f \in Handlers, NEW g \in Handlers, Active(f)', Active(g)', f # g
                 PROVE  req'[f].turn # req'[g].turn
      OBVIOUS
    <3>1. CASE f = h
      BY <1>2, <1>3, <1>5, <1>9, <1>10, <3>1
    <3>2. CASE g = h
      BY <1>2, <1>3, <1>5, <1>9, <1>10, <3>2
    <3>3. CASE f # h /\ g # h
      BY <1>5, <1>10, <3>3 DEF ChatInv, TurnsInv
    <3> QED  BY <3>1, <3>2, <3>3
  <2>2. \A t \in Turns, d \in Convs : <<t, d>> \in complete => Over(t)' /\ convs'[d].status # "unused"
    BY <1>12, OthersKeep DEF ChatInv, TurnsInv
  <2>3. ASSUME NEW g \in Handlers, Active(g)'
        PROVE  \A t \in req'[g].before : Over(t)'
    <3>1. CASE g = h
      BY <1>3, <1>5, <1>12, <3>1 DEF ChatInv, TurnsInv
    <3>2. CASE g # h
      <4>1. Active(g) /\ req'[g] = req[g] /\ req[g].before \subseteq Turns
        BY <1>5, <1>10, <2>3, <3>2, LocalsTyped DEF ChatInv
      <4> QED  BY <1>12, <4>1 DEF ChatInv, TurnsInv
    <3> QED  BY <3>1, <3>2
  <2> QED  BY <1>6, <2>1, <2>2, <2>3 DEF TurnsInv, Used
<1>14. ContextFollowsOn'
  BY <1>4, <1>5, <1>6 DEF ChatInv, ContextFollowsOn
<1> QED  BY <1>7, <1>8, <1>11, <1>13, <1>14 DEF ChatInv
\* A conversation without a turn.
LEMMA Opens ==
  ASSUME ChatInv, ConvsGrow, UNCHANGED <<table, pc, req, nextTurn, complete, spanned>>
  PROVE  ChatInv'
<1>1. UNCHANGED <<messages, nextMessage, pc, req, nextTurn, complete, spanned>>
  BY DEF table
<1>2. nextTurn \in Nat
  BY RowsTyped DEF ChatInv
<1>3. Typed'
  BY <1>1 DEF ChatInv, Typed, TypeOK, ConvsGrow
<1>4. RowsInv' /\ QuestionBeforeAnswer' /\ CompleteTurnsStored'
  BY <1>1, <1>2, RowsKept, CompleteKept
<1>5. RequestsInv'
  <2> SUFFICES ASSUME NEW h \in Handlers, Active(h)
               PROVE  /\ req[h].turn < nextTurn
                      /\ convs'[req[h].conv].status # "unused" /\ convs'[req[h].conv].user = req[h].user
                      /\ convs'[req[h].conv].status # "open" => req[h].turn \in spanned[req[h].conv]
                      /\ \A i \in DOMAIN messages :
                           messages[i].turn = req[h].turn => pc[h] = "answer" /\ messages[i].role = "user"
                      /\ pc[h] = "answer" /\ req[h].intact /\ convs'[req[h].conv].status = "open" =>
                           \E i \in DOMAIN messages :
                             messages[i].conv = req[h].conv /\ messages[i].turn = req[h].turn
                               /\ messages[i].role = "user"
    BY <1>1 DEF RequestsInv, Active, Used, Open
  <2>1. req[h].conv \in Convs /\ Used(req[h].conv)
    BY LocalsTyped DEF ChatInv, RequestsInv
  <2>2. convs'[req[h].conv].status # "unused" /\ convs'[req[h].conv] = convs[req[h].conv]
        /\ (convs'[req[h].conv].status = "open" <=> Open(req[h].conv))
    BY <2>1, OthersKeep
  <2> QED  BY <2>2 DEF ChatInv, RequestsInv
<1>6. TurnsInv'
  <2>1. \A t \in Turns, c \in Convs : <<t, c>> \in complete => Over(t) /\ convs'[c].status # "unused"
    BY OthersKeep DEF ChatInv, TurnsInv
  <2> QED  BY <1>1, <2>1 DEF ChatInv, TurnsInv, Over, Active, Used
<1>7. ContextFollowsOn'
  BY <1>1 DEF ChatInv, ContextFollowsOn
<1> QED  BY <1>3, <1>4, <1>5, <1>6, <1>7 DEF ChatInv

----------------------------------------------------------------------------
(* A message is stored. *)

\* The question.
LEMMA Asks ==
  ASSUME ChatInv, NEW h \in Handlers, pc[h] = "question", Store(h, "user"), UNCHANGED req,
         Goto(h, "answer"), UNCHANGED <<convs, nextTurn, complete, spanned>>
  PROVE  ChatInv'
<1> DEFINE r == Row(h, "user")
<1>1. Active(h) /\ req[h] \in Req
  BY LocalsTyped DEF ChatInv, Active
<1>2. /\ DOMAIN messages' = DOMAIN messages \cup {nextMessage} /\ nextMessage \notin DOMAIN messages
      /\ messages'[nextMessage] = r
      /\ \A i \in DOMAIN messages : messages'[i] = messages[i] /\ i < nextMessage /\ i \in Nat
      /\ nextMessage' \in Nat \ {0} /\ DOMAIN messages' \subseteq 1..(nextMessage' - 1)
      /\ messages' \in [DOMAIN messages' -> Message]
  BY <1>1, Stored DEF ChatInv
<1>3. r.conv = req[h].conv /\ r.turn = req[h].turn /\ r.role = "user" /\ r.user = req[h].user
  BY DEF Row
<1> HIDE DEF r
<1>4. /\ pc'[h] = "answer" /\ req' = req
      /\ \A g \in Handlers : g # h => pc'[g] = pc[g]
      /\ pc' \in [Handlers -> PC]
      /\ \A g \in Handlers : Active(g)' <=> Active(g)
  BY <1>1 DEF ChatInv, Typed, TypeOK, PC, Goto, Active
<1>5. Typed'
  BY <1>1, <1>2, <1>4 DEF ChatInv, Typed, TypeOK, Active
<1>6. /\ req[h].turn < nextTurn /\ Used(req[h].conv) /\ convs[req[h].conv].user = req[h].user
      /\ ~ Open(req[h].conv) => req[h].turn \in spanned[req[h].conv]
      /\ \A i \in DOMAIN messages : messages[i].turn # req[h].turn
  BY <1>1 DEF ChatInv, RequestsInv
<1>7. RowsInv'
  <2> SUFFICES ASSUME NEW i \in DOMAIN messages'
               PROVE  /\ messages'[i].turn < nextTurn
                      /\ Used(messages'[i].conv) /\ convs[messages'[i].conv].user = messages'[i].user
                      /\ ~ Open(messages'[i].conv) => messages'[i].turn \in spanned[messages'[i].conv]
    BY DEF RowsInv, Used, Open
  <2>1. CASE i \in DOMAIN messages
    BY <1>2, <2>1 DEF ChatInv, RowsInv
  <2>2. CASE i = nextMessage
    BY <1>2, <1>3, <1>6, <2>2
  <2> QED  BY <1>2, <2>1, <2>2
<1>8. QuestionBeforeAnswer'
  <2> SUFFICES ASSUME NEW i \in DOMAIN messages', NEW j \in DOMAIN messages',
                      i < j, messages'[i].turn = messages'[j].turn
               PROVE  messages'[i].role = "user" /\ messages'[j].role = "assistant"
    BY DEF QuestionBeforeAnswer
  <2>1. CASE i \in DOMAIN messages /\ j \in DOMAIN messages
    BY <1>2, <2>1 DEF ChatInv, QuestionBeforeAnswer
  <2>2. CASE i = nextMessage /\ j = nextMessage
    <3>1. nextMessage \in Nat
      BY RowsTyped DEF ChatInv
    <3> QED  BY <2>2, <3>1
  <2>3. CASE i = nextMessage /\ j \in DOMAIN messages
    BY <1>2, <1>3, <1>6, <2>3
  <2>4. CASE j = nextMessage /\ i \in DOMAIN messages
    BY <1>2, <1>3, <1>6, <2>4
  <2> QED  BY <1>2, <2>1, <2>2, <2>3, <2>4
<1>9. CompleteTurnsStored'
  BY <1>2 DEF ChatInv, CompleteTurnsStored, Open
<1>10. RequestsInv'
  <2> SUFFICES ASSUME NEW g \in Handlers, Active(g)
               PROVE  /\ req[g].turn < nextTurn
                      /\ Used(req[g].conv) /\ convs[req[g].conv].user = req[g].user
                      /\ ~ Open(req[g].conv) => req[g].turn \in spanned[req[g].conv]
                      /\ \A i \in DOMAIN messages' :
                           messages'[i].turn = req[g].turn => pc'[g] = "answer" /\ messages'[i].role = "user"
                      /\ pc'[g] = "answer" /\ req[g].intact /\ Open(req[g].conv) =>
                           \E i \in DOMAIN messages' :
                             messages'[i].conv = req[g].conv /\ messages'[i].turn = req[g].turn
                               /\ messages'[i].role = "user"
    BY <1>4 DEF RequestsInv, Active, Used, Open
  <2>1. /\ req[g].turn < nextTurn
        /\ Used(req[g].conv) /\ convs[req[g].conv].user = req[g].user
        /\ ~ Open(req[g].conv) => req[g].turn \in spanned[req[g].conv]
    BY DEF ChatInv, RequestsInv
  <2>2. CASE g = h
    BY <1>2, <1>3, <1>4, <1>6, <2>1, <2>2
  <2>3. CASE g # h
    <3>1. req[g].turn # req[h].turn /\ pc'[g] = pc[g]
      BY <1>1, <1>4, <2>3 DEF ChatInv, TurnsInv
    <3>2. \A i \in DOMAIN messages' :
            messages'[i].turn = req[g].turn => pc'[g] = "answer" /\ messages'[i].role = "user"
      BY <1>2, <1>3, <3>1 DEF ChatInv, RequestsInv
    <3>3. pc[g] = "answer" /\ req[g].intact /\ Open(req[g].conv) =>
            \E i \in DOMAIN messages :
              messages[i].conv = req[g].conv /\ messages[i].turn = req[g].turn /\ messages[i].role = "user"
      BY DEF ChatInv, RequestsInv
    <3> QED  BY <1>2, <2>1, <3>1, <3>2, <3>3
  <2> QED  BY <2>2, <2>3
<1>11. TurnsInv'
  BY <1>4 DEF ChatInv, TurnsInv, Over, Used
<1>12. ContextFollowsOn'
  <2> SUFFICES ASSUME NEW g \in Handlers, pc'[g] = "run", req[g].read,
                      NEW i \in DOMAIN messages', messages'[i].conv = req[g].conv,
                      messages'[i].turn \in req[g].before
               PROVE  \/ i \in req[g].context
                      \/ Cardinality(req[g].context) = MaxContext /\ \A j \in req[g].context : i < j
    BY <1>4 DEF ContextFollowsOn
  <2>1. g # h /\ pc[g] = "run"
    BY <1>4
  <2>2. req[h].turn \notin req[g].before
    <3>1. Active(g)
      BY <2>1 DEF Active
    <3> QED  BY <1>1, <3>1 DEF ChatInv, TurnsInv, Over
  <2>3. i \in DOMAIN messages
    BY <1>2, <1>3, <2>2
  <2> QED  BY <1>2, <2>1, <2>3 DEF ChatInv, ContextFollowsOn
<1> QED  BY <1>5, <1>7, <1>8, <1>9, <1>10, <1>11, <1>12 DEF ChatInv
\* The answer, and with it the turn is over.
LEMMA AnswersIt ==
  ASSUME ChatInv, NEW h \in Handlers, pc[h] = "answer", Store(h, "assistant"), Leave(h),
         complete' = IF req[h].intact THEN complete \cup {<<req[h].turn, req[h].conv>>} ELSE complete,
         UNCHANGED <<convs, nextTurn, spanned>>
  PROVE  ChatInv'
<1> DEFINE r == Row(h, "assistant")
<1>1. Active(h) /\ req[h] \in Req /\ req[h].conv \in Convs /\ req[h].turn \in Turns
  BY LocalsTyped DEF ChatInv, Active
<1>2. /\ DOMAIN messages' = DOMAIN messages \cup {nextMessage} /\ nextMessage \notin DOMAIN messages
      /\ messages'[nextMessage] = r
      /\ \A i \in DOMAIN messages : messages'[i] = messages[i] /\ i < nextMessage /\ i \in Nat
      /\ nextMessage' \in Nat \ {0} /\ DOMAIN messages' \subseteq 1..(nextMessage' - 1)
      /\ messages' \in [DOMAIN messages' -> Message]
  BY <1>1, Stored DEF ChatInv
<1>3. r.conv = req[h].conv /\ r.turn = req[h].turn /\ r.role = "assistant" /\ r.user = req[h].user
  BY DEF Row
<1> HIDE DEF r
<1>4. /\ pc'[h] = "idle" /\ req'[h] = <<>>
      /\ \A g \in Handlers : g # h => pc'[g] = pc[g] /\ req'[g] = req[g]
      /\ pc' \in [Handlers -> PC] /\ req' = [g \in Handlers |-> req'[g]]
      /\ \A g \in Handlers : req'[g] \in IF pc'[g] = "idle" THEN {<<>>} ELSE Req
  <2>1. Moves(h, "idle", <<>>) /\ "idle" \in PC
    BY DEF Leave, Goto, Moves, PC
  <2> QED  BY <2>1, Places DEF ChatInv
<1>5. \A g \in Handlers : Active(g)' => Active(g) /\ g # h /\ pc'[g] = pc[g] /\ req'[g] = req[g]
  BY <1>4 DEF Active
<1>6. /\ req[h].turn < nextTurn /\ Used(req[h].conv) /\ convs[req[h].conv].user = req[h].user
      /\ ~ Open(req[h].conv) => req[h].turn \in spanned[req[h].conv]
      /\ \A i \in DOMAIN messages : messages[i].turn = req[h].turn => messages[i].role = "user"
      /\ req[h].intact /\ Open(req[h].conv) =>
           \E i \in DOMAIN messages :
             messages[i].conv = req[h].conv /\ messages[i].turn = req[h].turn /\ messages[i].role = "user"
  BY <1>1 DEF ChatInv, RequestsInv
<1>7. complete' \subseteq Turns \X Convs
      /\ \A t, c : <<t, c>> \in complete' =>
           <<t, c>> \in complete \/ (t = req[h].turn /\ c = req[h].conv /\ req[h].intact)
  BY <1>1 DEF ChatInv, Typed, TypeOK
<1>8. Typed'
  BY <1>2, <1>4, <1>7 DEF ChatInv, Typed, TypeOK
<1>9. RowsInv'
  <2> SUFFICES ASSUME NEW i \in DOMAIN messages'
               PROVE  /\ messages'[i].turn < nextTurn
                      /\ Used(messages'[i].conv) /\ convs[messages'[i].conv].user = messages'[i].user
                      /\ ~ Open(messages'[i].conv) => messages'[i].turn \in spanned[messages'[i].conv]
    BY DEF RowsInv, Used, Open
  <2>1. CASE i \in DOMAIN messages
    BY <1>2, <2>1 DEF ChatInv, RowsInv
  <2>2. CASE i = nextMessage
    BY <1>2, <1>3, <1>6, <2>2
  <2> QED  BY <1>2, <2>1, <2>2
<1>10. QuestionBeforeAnswer'
  <2> SUFFICES ASSUME NEW i \in DOMAIN messages', NEW j \in DOMAIN messages',
                      i < j, messages'[i].turn = messages'[j].turn
               PROVE  messages'[i].role = "user" /\ messages'[j].role = "assistant"
    BY DEF QuestionBeforeAnswer
  <2>1. CASE i \in DOMAIN messages /\ j \in DOMAIN messages
    BY <1>2, <2>1 DEF ChatInv, QuestionBeforeAnswer
  <2>2. CASE i = nextMessage
    <3>1. nextMessage \in Nat
      BY RowsTyped DEF ChatInv
    <3> QED  BY <1>2, <2>2, <3>1
  <2>3. CASE j = nextMessage /\ i \in DOMAIN messages
    BY <1>2, <1>3, <1>6, <2>3
  <2> QED  BY <1>2, <2>1, <2>2, <2>3
<1>11. CompleteTurnsStored'
  <2> SUFFICES ASSUME NEW t \in Turns, NEW c \in Convs, <<t, c>> \in complete', Open(c)
               PROVE  \A role \in {"user", "assistant"} :
                        \E i \in DOMAIN messages' :
                          messages'[i].conv = c /\ messages'[i].turn = t /\ messages'[i].role = role
    BY DEF CompleteTurnsStored, Open
  <2>1. CASE <<t, c>> \in complete
    BY <1>2, <2>1 DEF ChatInv, CompleteTurnsStored
  <2>2. CASE t = req[h].turn /\ c = req[h].conv /\ req[h].intact
    <3>1. PICK i \in DOMAIN messages :
            messages[i].conv = c /\ messages[i].turn = t /\ messages[i].role = "user"
      BY <1>6, <2>2
    <3>2. i \in DOMAIN messages' /\ messages'[i] = messages[i]
      BY <1>2
    <3>3. nextMessage \in DOMAIN messages' /\ messages'[nextMessage] = r
      BY <1>2
    <3> QED  BY <1>3, <2>2, <3>1, <3>2, <3>3
  <2> QED  BY <1>7, <2>1, <2>2
<1>12. \A g \in Handlers : Active(g)' => req[g].turn # req[h].turn
  BY <1>1, <1>5 DEF ChatInv, TurnsInv
<1>13. RequestsInv'
  <2> SUFFICES ASSUME NEW g \in Handlers, Active(g)'
               PROVE  /\ req'[g].turn < nextTurn
                      /\ convs[req'[g].conv].status # "unused" /\ convs[req'[g].conv].user = req'[g].user
                      /\ convs[req'[g].conv].status # "open" => req'[g].turn \in spanned[req'[g].conv]
                      /\ \A i \in DOMAIN messages' :
                           messages'[i].turn = req'[g].turn => pc'[g] = "answer" /\ messages'[i].role = "user"
                      /\ pc'[g] = "answer" /\ req'[g].intact /\ convs[req'[g].conv].status = "open" =>
                           \E i \in DOMAIN messages' :
                             messages'[i].conv = req'[g].conv /\ messages'[i].turn = req'[g].turn
                               /\ messages'[i].role = "user"
    BY DEF RequestsInv, Used, Open
  <2>1. Active(g) /\ pc'[g] = pc[g] /\ req'[g] = req[g] /\ req[g].turn # req[h].turn
    BY <1>5, <1>12
  <2>2. /\ req[g].turn < nextTurn
        /\ convs[req[g].conv].status # "unused" /\ convs[req[g].conv].user = req[g].user
        /\ convs[req[g].conv].status # "open" => req[g].turn \in spanned[req[g].conv]
        /\ \A i \in DOMAIN messages :
             messages[i].turn = req[g].turn => pc[g] = "answer" /\ messages[i].role = "user"
        /\ pc[g] = "answer" /\ req[g].intact /\ convs[req[g].conv].status = "open" =>
             \E i \in DOMAIN messages :
               messages[i].conv = req[g].conv /\ messages[i].turn = req[g].turn /\ messages[i].role = "user"
    BY <2>1 DEF ChatInv, RequestsInv, Used, Open
  <2>3. \A i \in DOMAIN messages' :
          messages'[i].turn = req[g].turn => pc[g] = "answer" /\ messages'[i].role = "user"
    BY <1>2, <1>3, <2>1, <2>2
  <2>4. pc[g] = "answer" /\ req[g].intact /\ convs[req[g].conv].status = "open" =>
          \E i \in DOMAIN messages' :
            messages'[i].conv = req[g].conv /\ messages'[i].turn = req[g].turn /\ messages'[i].role = "user"
    BY <1>2, <2>2
  <2> QED  BY <2>1, <2>2, <2>3, <2>4
<1>14. \A t : Over(t) \/ t = req[h].turn => Over(t)'
  <2> SUFFICES ASSUME NEW t, Over(t) \/ t = req[h].turn
               PROVE  Over(t)'
    OBVIOUS
  <2>1. t < nextTurn
    BY <1>6 DEF Over
  <2>2. \A g \in Handlers : Active(g)' => req'[g].turn # t
    BY <1>5, <1>12 DEF Over
  <2> QED  BY <2>1, <2>2 DEF Over
<1>15. TurnsInv'
  <2>1. \A f, g \in Handlers : Active(f)' /\ Active(g)' /\ f # g => req'[f].turn # req'[g].turn
    BY <1>5 DEF ChatInv, TurnsInv
  <2>2. \A t \in Turns, c \in Convs : <<t, c>> \in complete' => Over(t)' /\ Used(c)
    BY <1>6, <1>7, <1>14 DEF ChatInv, TurnsInv
  <2>3. \A g \in Handlers : Active(g)' => \A t \in req'[g].before : Over(t)'
    BY <1>5, <1>14 DEF ChatInv, TurnsInv
  <2> QED  BY <2>1, <2>2, <2>3 DEF TurnsInv, Used
<1>16. ContextFollowsOn'
  <2> SUFFICES ASSUME NEW g \in Handlers, pc'[g] = "run", req'[g].read,
                      NEW i \in DOMAIN messages', messages'[i].conv = req'[g].conv,
                      messages'[i].turn \in req'[g].before
               PROVE  \/ i \in req'[g].context
                      \/ Cardinality(req'[g].context) = MaxContext /\ \A j \in req'[g].context : i < j
    BY DEF ContextFollowsOn
  <2>1. Active(g)' /\ Active(g) /\ pc[g] = "run" /\ req'[g] = req[g]
    BY <1>5 DEF Active
  <2>2. req[h].turn \notin req[g].before
    BY <1>1, <2>1 DEF ChatInv, TurnsInv, Over
  <2>3. i \in DOMAIN messages
    BY <1>2, <1>3, <2>1, <2>2
  <2> QED  BY <1>2, <2>1, <2>3 DEF ChatInv, ContextFollowsOn
<1> QED  BY <1>8, <1>9, <1>10, <1>11, <1>13, <1>15, <1>16 DEF ChatInv

----------------------------------------------------------------------------
(* A conversation is deleted, with its messages. *)

LEMMA Deletes ==
  ASSUME ChatInv, NEW u \in Users, NEW c \in Convs, DeleteConversation(u, c)
  PROVE  ChatInv'
<1> DEFINE turns == {req[h].turn : h \in {g \in Handlers : pc[g] # "idle" /\ req[g].conv = c}}
<1>0. /\ Typed /\ Open(c)
      /\ UNCHANGED <<nextMessage, pc, req, nextTurn, complete>>
  BY DEF DeleteConversation, ChatInv
<1>1. /\ DOMAIN messages' = {i \in DOMAIN messages : messages[i].conv # c}
      /\ \A i \in DOMAIN messages' : messages'[i] = messages[i]
      /\ messages' \in [DOMAIN messages' -> Message]
  <2>1. messages' = [i \in DOMAIN messages \ MessagesOf(c) |-> messages[i]]
    BY DEF DeleteConversation, Restrict
  <2>2. DOMAIN messages' = {i \in DOMAIN messages : messages[i].conv # c}
    BY <2>1 DEF MessagesOf
  <2>3. \A i \in DOMAIN messages' : messages'[i] = messages[i] /\ messages[i] \in Message
    BY <2>1, <2>2, <1>0 DEF Typed, TypeOK
  <2> QED  BY <2>1, <2>2, <2>3
<1>2. /\ convs' \in [Convs -> Conversation]
      /\ convs'[c].status = "deleted" /\ convs'[c].user = convs[c].user
      /\ \A d \in Convs : d # c => convs'[d] = convs[d]
  <2>1. convs' = [convs EXCEPT ![c].status = "deleted"]
    BY DEF DeleteConversation
  <2> QED  BY <1>0, <2>1 DEF Typed, TypeOK, Conversation
<1>3. turns \in SUBSET Turns
  BY <1>0, LocalsTyped DEF Active
<1>4. /\ spanned' \in [Convs -> SUBSET Turns] /\ spanned'[c] = turns
      /\ \A d \in Convs : d # c => spanned'[d] = spanned[d]
  <2>1. spanned' = [spanned EXCEPT ![c] = turns] /\ spanned \in [Convs -> SUBSET Turns]
    BY <1>0 DEF DeleteConversation, Typed, TypeOK
  <2> HIDE DEF turns
  <2> QED  BY <1>3, <2>1
<1>5. \A d \in Convs :
        /\ convs'[d].user = convs[d].user
        /\ Used(d) => convs'[d].status # "unused"
        /\ convs'[d].status = "open" => Open(d) /\ d # c
        /\ d # c => (convs'[d].status = "open" <=> Open(d)) /\ spanned'[d] = spanned[d]
  BY <1>2, <1>4 DEF Used, Open
<1> HIDE DEF turns
<1>6. Typed'
  BY <1>0, <1>1, <1>2, <1>4 DEF Typed, TypeOK
<1>7. RowsInv'
  <2> SUFFICES ASSUME NEW i \in DOMAIN messages'
               PROVE  /\ messages[i].turn < nextTurn
                      /\ convs'[messages[i].conv].status # "unused"
                      /\ convs'[messages[i].conv].user = messages[i].user
                      /\ convs'[messages[i].conv].status # "open" =>
                           messages[i].turn \in spanned'[messages[i].conv]
    BY <1>0, <1>1 DEF RowsInv, Used, Open
  <2>1. i \in DOMAIN messages /\ messages[i].conv \in Convs /\ messages[i].conv # c
    BY <1>0, <1>1, RowsTyped
  <2> QED  BY <1>5, <2>1 DEF ChatInv, RowsInv
<1>8. QuestionBeforeAnswer'
  BY <1>1 DEF ChatInv, QuestionBeforeAnswer
<1>9. CompleteTurnsStored'
  <2> SUFFICES ASSUME NEW t \in Turns, NEW d \in Convs, <<t, d>> \in complete,
                      convs'[d].status = "open", NEW role \in {"user", "assistant"}
               PROVE  \E i \in DOMAIN messages' :
                        messages'[i].conv = d /\ messages'[i].turn = t /\ messages'[i].role = role
    BY <1>0 DEF CompleteTurnsStored, Open
  <2>1. Open(d) /\ d # c
    BY <1>5
  <2>2. PICK i \in DOMAIN messages :
          messages[i].conv = d /\ messages[i].turn = t /\ messages[i].role = role
    BY <2>1 DEF ChatInv, CompleteTurnsStored
  <2> QED  BY <1>1, <2>1, <2>2
<1>10. RequestsInv'
  <2> SUFFICES ASSUME NEW h \in Handlers, Active(h)
               PROVE  /\ req[h].turn < nextTurn
                      /\ convs'[req[h].conv].status # "unused" /\ convs'[req[h].conv].user = req[h].user
                      /\ convs'[req[h].conv].status # "open" => req[h].turn \in spanned'[req[h].conv]
                      /\ \A i \in DOMAIN messages' :
                           messages'[i].turn = req[h].turn => pc[h] = "answer" /\ messages'[i].role = "user"
                      /\ pc[h] = "answer" /\ req[h].intact /\ convs'[req[h].conv].status = "open" =>
                           \E i \in DOMAIN messages' :
                             messages'[i].conv = req[h].conv /\ messages'[i].turn = req[h].turn
                               /\ messages'[i].role = "user"
    BY <1>0 DEF RequestsInv, Active, Used, Open
  <2>1. req[h].conv \in Convs
    BY <1>0, LocalsTyped
  <2>2. /\ req[h].turn < nextTurn
        /\ Used(req[h].conv) /\ convs[req[h].conv].user = req[h].user
        /\ ~ Open(req[h].conv) => req[h].turn \in spanned[req[h].conv]
        /\ \A i \in DOMAIN messages :
             messages[i].turn = req[h].turn => pc[h] = "answer" /\ messages[i].role = "user"
        /\ pc[h] = "answer" /\ req[h].intact /\ Open(req[h].conv) =>
             \E i \in DOMAIN messages :
               messages[i].conv = req[h].conv /\ messages[i].turn = req[h].turn /\ messages[i].role = "user"
    BY DEF ChatInv, RequestsInv
  <2>3. convs'[req[h].conv].status # "open" => req[h].turn \in spanned'[req[h].conv]
    <3>1. CASE req[h].conv = c
      BY <1>4, <3>1 DEF turns, Active
    <3>2. CASE req[h].conv # c
      BY <1>5, <2>1, <2>2, <3>2
    <3> QED  BY <3>1, <3>2
  <2>4. \A i \in DOMAIN messages' :
          messages'[i].turn = req[h].turn => pc[h] = "answer" /\ messages'[i].role = "user"
    BY <1>1, <2>2
  <2>5. ASSUME pc[h] = "answer", req[h].intact, convs'[req[h].conv].status = "open"
        PROVE  \E i \in DOMAIN messages' :
                 messages'[i].conv = req[h].conv /\ messages'[i].turn = req[h].turn
                   /\ messages'[i].role = "user"
    <3>1. Open(req[h].conv) /\ req[h].conv # c
      BY <1>5, <2>1, <2>5
    <3>2. PICK i \in DOMAIN messages :
            messages[i].conv = req[h].conv /\ messages[i].turn = req[h].turn /\ messages[i].role = "user"
      BY <2>2, <2>5, <3>1
    <3> QED  BY <1>1, <3>1, <3>2
  <2>6. convs'[req[h].conv].status # "unused" /\ convs'[req[h].conv].user = req[h].user
    BY <1>5, <2>1, <2>2
  <2> QED  BY <2>2, <2>3, <2>4, <2>5, <2>6
<1>11. TurnsInv'
  <2>1. \A t \in Turns, d \in Convs : <<t, d>> \in complete => Over(t) /\ convs'[d].status # "unused"
    BY <1>5 DEF ChatInv, TurnsInv
  <2> QED  BY <1>0, <2>1 DEF ChatInv, TurnsInv, Over, Active, Used
<1>12. ContextFollowsOn'
  BY <1>0, <1>1 DEF ChatInv, ContextFollowsOn
<1> QED  BY <1>6, <1>7, <1>8, <1>9, <1>10, <1>11, <1>12 DEF ChatInv
----------------------------------------------------------------------------
(* What is read of the history follows on. *)

LEMMA MessagesFinite ==
  ASSUME Typed, NEW c
  PROVE  MessagesOf(c) \subseteq Nat /\ IsFiniteSet(MessagesOf(c)) /\ 0 \notin MessagesOf(c)
<1>1. nextMessage - 1 \in Nat /\ MessagesOf(c) \subseteq 1..(nextMessage - 1)
  BY DEF Typed, TypeOK, MessagesOf
<1>2. IsFiniteSet(1..(nextMessage - 1))
  BY <1>1, FS_Interval
<1>3. IsFiniteSet(MessagesOf(c))
  BY <1>1, <1>2, FS_Subset
<1>4. MessagesOf(c) \subseteq Nat /\ 0 \notin MessagesOf(c)
  BY RowsTyped DEF MessagesOf
<1> QED  BY <1>3, <1>4

\* The summary is never made, because what is summarised has been cut before.
LEMMA HistoryIsLatest ==
  ASSUME Typed, NEW c
  PROVE  Sent(History(c)) = Latest(MessagesOf(c), MaxContext) /\ Summary \notin History(c)
<1>1. MessagesOf(c) \subseteq Nat /\ IsFiniteSet(MessagesOf(c)) /\ 0 \notin MessagesOf(c)
  BY MessagesFinite
<1>2. MaxContext \in Nat
  BY ChatAssumption
<1>3. Latest(MessagesOf(c), MaxContext) \subseteq MessagesOf(c)
      /\ Cardinality(Latest(MessagesOf(c), MaxContext)) <= MaxContext
  BY <1>1, <1>2, LatestIsLast
<1>4. History(c) = Latest(MessagesOf(c), MaxContext)
  BY <1>3 DEF History, SummarizeHistory
<1> QED  BY <1>1, <1>3, <1>4 DEF Sent, Summary

LEMMA Reads ==
  ASSUME ChatInv, NEW h \in Handlers, ReadHistory(h)
  PROVE  ChatInv'
<1>1. pc[h] = "history" /\ Active(h) /\ req[h] \in Req /\ Typed
  BY LocalsTyped DEF ReadHistory, ChatInv, Active
<1>2. UNCHANGED <<convs, table, nextTurn, complete, spanned>>
  BY DEF ReadHistory
<1>3. "run" \in PC \ {"idle"} /\ "run" # "answer"
  BY DEF PC
<1>4. CASE req' = [req EXCEPT ![h].context = Sent(History(req[h].conv))]
  <2> DEFINE r == [req[h] EXCEPT !.context = Sent(History(req[h].conv))]
  <2>1. Moves(h, "run", r)
    BY <1>4 DEF ReadHistory, Moves, Goto
  <2>2. /\ r.context = Latest(MessagesOf(req[h].conv), MaxContext)
        /\ r.turn = req[h].turn /\ r.conv = req[h].conv /\ r.user = req[h].user
        /\ r.before = req[h].before
    BY <1>1, HistoryIsLatest DEF Req
  <2>3. /\ MessagesOf(req[h].conv) \subseteq Nat /\ IsFiniteSet(MessagesOf(req[h].conv))
        /\ MaxContext \in Nat
    BY <1>1, MessagesFinite, ChatAssumption
  <2>4. r.context \subseteq MessagesOf(req[h].conv)
        /\ \A i \in MessagesOf(req[h].conv) \ r.context :
             Cardinality(r.context) = MaxContext /\ \A j \in r.context : i < j
    BY <2>2, <2>3, LatestIsLast
  <2>5. r.context \in SUBSET Nat /\ r = [req[h] EXCEPT !.context = r.context]
    BY <1>1, <2>3, <2>4 DEF Req
  <2>6. r \in Req
    BY <1>1, <2>5 DEF Req
  <2>7. Follows(r)
    <3> HIDE DEF r
    <3>1. \A i \in DOMAIN messages : messages[i].conv = r.conv => i \in MessagesOf(req[h].conv)
      BY <2>2 DEF MessagesOf
    <3> QED  BY <2>4, <3>1 DEF Follows
  <2> HIDE DEF r
  <2>8. GoesOn(h, "run", r)
    BY <1>1, <1>3, <2>2, <2>6, <2>7 DEF GoesOn
  <2> QED  BY <1>1, <1>2, <2>1, <2>8, Advances
<1>5. CASE req' = [req EXCEPT ![h].read = FALSE]
  <2> DEFINE r == [req[h] EXCEPT !.read = FALSE]
  <2>1. Moves(h, "run", r)
    BY <1>5 DEF ReadHistory, Moves, Goto
  <2>2. /\ r \in Req /\ r.read = FALSE
        /\ r.turn = req[h].turn /\ r.conv = req[h].conv /\ r.user = req[h].user
        /\ r.before = req[h].before
    BY <1>1 DEF Req
  <2> HIDE DEF r
  <2>3. GoesOn(h, "run", r)
    BY <1>1, <1>3, <2>2 DEF GoesOn
  <2> QED  BY <1>1, <1>2, <2>1, <2>3, Advances
<1> QED  BY <1>4, <1>5 DEF ReadHistory

----------------------------------------------------------------------------
(* Every step. *)

LEMMA Leaves ==
  ASSUME ChatInv, NEW h \in Handlers, Active(h), Leave(h),
         UNCHANGED <<convs, table, nextTurn, complete, spanned>>
  PROVE  ChatInv'
<1>1. Moves(h, "idle", <<>>)
  BY DEF Leave, Goto, Moves
<1> QED  BY <1>1, Advances

LEMMA Passes ==
  ASSUME ChatInv, NEW h \in Handlers, Active(h), NEW label \in PC \ {"idle", "answer", "run"},
         pc[h] # "answer", Goto(h, label),
         UNCHANGED <<convs, table, req, nextTurn, complete, spanned>>
  PROVE  ChatInv'
<1>1. req[h] \in Req
  BY LocalsTyped DEF ChatInv
<1>2. Moves(h, label, req[h])
  BY DEF Goto, Moves, ChatInv, Typed
<1>3. GoesOn(h, label, req[h])
  BY <1>1 DEF GoesOn
<1> QED  BY <1>2, <1>3, Advances

LEMMA Misses ==
  ASSUME ChatInv, NEW h \in Handlers, pc[h] = "question", Goto(h, "answer"),
         req' = [req EXCEPT ![h].intact = FALSE],
         UNCHANGED <<convs, table, nextTurn, complete, spanned>>
  PROVE  ChatInv'
<1> DEFINE r == [req[h] EXCEPT !.intact = FALSE]
<1>1. Active(h) /\ req[h] \in Req
  BY LocalsTyped DEF ChatInv, Active
<1>2. Moves(h, "answer", r)
  BY DEF Goto, Moves
<1>3. /\ r \in Req /\ r.intact = FALSE
      /\ r.turn = req[h].turn /\ r.conv = req[h].conv /\ r.user = req[h].user
      /\ r.before = req[h].before
  BY <1>1 DEF Req
<1> HIDE DEF r
<1>4. GoesOn(h, "answer", r)
  BY <1>3 DEF GoesOn, PC
<1> QED  BY <1>1, <1>2, <1>4, Advances

\* A row is inserted in a place nobody has used.
LEMMA Inserts ==
  ASSUME ChatInv, NEW u \in Users, NEW c \in NextConv, Insert(c, u)
  PROVE  /\ c \in Convs /\ ConvsGrow
         /\ convs'[c].status = "open" /\ convs'[c].user = u
<1>1. c \in Convs /\ ~ Used(c) /\ convs \in [Convs -> Conversation]
  BY DEF NextConv, Used, ChatInv, Typed, TypeOK
<1>2. [status |-> "open", user |-> u] \in Conversation
  BY DEF Conversation
<1>3. /\ convs' \in [Convs -> Conversation] /\ convs'[c] = [status |-> "open", user |-> u]
      /\ \A d \in Convs : d # c => convs'[d] = convs[d]
  BY <1>1, <1>2 DEF Insert
<1> QED  BY <1>1, <1>3 DEF ConvsGrow

LEMMA ChatInvInit == Init => ChatInv
<1> SUFFICES ASSUME Init
             PROVE  ChatInv
  OBVIOUS
<1>1. DOMAIN messages = {} /\ nextMessage = 1 /\ nextTurn = 1 /\ complete = {}
      /\ \A h \in Handlers : pc[h] = "idle" /\ req[h] = <<>>
  BY DEF Init
<1>2. Typed
  <2>1. convs \in [Convs -> Conversation]
    BY DEF Init, Conversation
  <2>2. pc \in [Handlers -> PC]
    BY DEF Init, PC
  <2>3. spanned \in [Convs -> SUBSET Turns]
    BY DEF Init
  <2>4. nextTurn \in 1..(MaxTurn + 1)
    BY <1>1, ChatAssumption
  <2>5. messages \in [DOMAIN messages -> Message] /\ DOMAIN messages \subseteq 1..(nextMessage - 1)
    BY <1>1 DEF Init
  <2>6. req = [h \in Handlers |-> req[h]]
    BY DEF Init
  <2> QED  BY <1>1, <2>1, <2>2, <2>3, <2>4, <2>5, <2>6 DEF Typed, TypeOK
<1> QED
  BY <1>1, <1>2
     DEF ChatInv, RowsInv, RequestsInv, TurnsInv, Active, QuestionBeforeAnswer,
         CompleteTurnsStored, ContextFollowsOn

LEMMA ChatInvNext == ChatInv /\ [Next]_vars => ChatInv'
<1> SUFFICES ASSUME ChatInv, [Next]_vars
             PROVE  ChatInv'
  OBVIOUS
<1>1. CASE UNCHANGED vars
  BY <1>1 DEF vars, table, ChatInv, Typed, TypeOK, RowsInv, RequestsInv, TurnsInv, Active, Over, Used,
       Open, QuestionBeforeAnswer, CompleteTurnsStored, ContextFollowsOn
<1>2. ASSUME NEW h \in Handlers, Reread(h)
      PROVE  ChatInv'
  <2>1. Active(h) /\ pc[h] # "answer" /\ "history" \in PC \ {"idle", "answer", "run"}
    BY <1>2 DEF Reread, Active, PC
  <2> QED  BY <1>2, <2>1, Leaves, Passes DEF Reread
<1>3. ASSUME NEW h \in Handlers, ReadHistory(h)
      PROVE  ChatInv'
  BY <1>3, Reads
<1>4. ASSUME NEW h \in Handlers, RunTurn(h)
      PROVE  ChatInv'
  <2>1. Active(h) /\ pc[h] # "answer" /\ "question" \in PC \ {"idle", "answer", "run"}
    BY <1>4 DEF RunTurn, Active, PC
  <2> QED  BY <1>4, <2>1, Passes DEF RunTurn
<1>5. ASSUME NEW h \in Handlers, StoreQuestion(h)
      PROVE  ChatInv'
  BY <1>5, Asks, Misses DEF StoreQuestion, AddQuestion
<1>6. ASSUME NEW h \in Handlers, StoreAnswer(h)
      PROVE  ChatInv'
  <2>1. Active(h)
    BY <1>6 DEF StoreAnswer, Active
  <2> QED  BY <1>6, <2>1, AnswersIt, Leaves DEF StoreAnswer
<1>7. ASSUME NEW h \in Handlers, Die(h)
      PROVE  ChatInv'
  <2>1. Active(h)
    BY <1>7 DEF Die, Active
  <2> QED  BY <1>7, <2>1, Leaves DEF Die
<1>8. ASSUME NEW h \in Handlers, NEW u \in Users, NewChat(h, u)
      PROVE  ChatInv'
  <2>1. PICK c \in NextConv : Insert(c, u) /\ Begin(h, u, c, "reread")
    BY <1>8 DEF NewChat
  <2>2. UNCHANGED <<table, complete, spanned>>
    BY <1>8 DEF NewChat
  <2> QED  BY <2>1, <2>2, Inserts, Starts
<1>9. ASSUME NEW h \in Handlers, NEW u \in Users, NEW c \in Convs, Chat(h, u, c)
      PROVE  ChatInv'
  <2>1. ConvsGrow /\ convs'[c].status = "open" /\ convs'[c].user = u
    BY <1>9 DEF Chat, ConvsGrow, Open, ChatInv, Typed, TypeOK
  <2>2. Begin(h, u, c, "history") /\ UNCHANGED <<table, complete, spanned>>
    BY <1>9 DEF Chat
  <2> QED  BY <2>1, <2>2, Starts
<1>10. ASSUME NEW u \in Users, CreateConversation(u)
       PROVE  ChatInv'
  <2>1. PICK c \in NextConv : Insert(c, u)
    BY <1>10 DEF CreateConversation
  <2> QED  BY <1>10, <2>1, Inserts, Opens DEF CreateConversation
<1>11. ASSUME NEW u \in Users, NEW c \in Convs, DeleteConversation(u, c)
       PROVE  ChatInv'
  BY <1>11, Deletes
<1> QED
  BY <1>1, <1>2, <1>3, <1>4, <1>5, <1>6, <1>7, <1>8, <1>9, <1>10, <1>11 DEF Next, Continue

----------------------------------------------------------------------------
(* The theorems. *)

\* ChatInv holds in every state, whatever the requests of the readers.
THEOREM ChatInvariant == Spec => []ChatInv
BY ChatInvInit, ChatInvNext, PTL DEF Spec

\* The tables and the locals of the handlers keep their types; a message has an
\* id below the next one.
THEOREM ChatTypeCorrect == Spec => []TypeOK
<1>1. ChatInv => TypeOK
  BY DEF ChatInv, Typed
<1> QED  BY <1>1, ChatInvariant, PTL

\* However the requests of two pages interleave, fail and die: no turn has its
\* answer before its question, or either of them twice.
THEOREM QuestionsBeforeAnswers == Spec => []QuestionBeforeAnswer
<1>1. ChatInv => QuestionBeforeAnswer
  BY DEF ChatInv
<1> QED  BY <1>1, ChatInvariant, PTL

\* A turn none of whose statements failed has its question and its answer in its
\* conversation until that is deleted.
THEOREM CompleteTurnsAreStored == Spec => []CompleteTurnsStored
<1>1. ChatInv => CompleteTurnsStored
  BY DEF ChatInv
<1> QED  BY <1>1, ChatInvariant, PTL

\* The model is told every message of the turns that were complete when the
\* request came, except those that MaxContext later ones have pushed out.
THEOREM ContextsFollowOn == Spec => []ContextFollowsOn
<1>1. ChatInv => ContextFollowsOn
  BY DEF ChatInv
<1> QED  BY <1>1, ChatInvariant, PTL

\* What a request stores after its conversation was deleted shows up in no other
\* one, and comes from a request that was under way at the deletion.
THEOREM MessagesStayWithTheirs == Spec => []MessagesKeepTheirConversation
<1>1. ChatInv => MessagesKeepTheirConversation
  BY DEF ChatInv, RowsInv, MessagesKeepTheirConversation, OwnMessages, OrphansFromRunningTurns
<1> QED  BY <1>1, ChatInvariant, PTL

\* In no state would reading a history make a summary, however many messages the
\* conversation has: what is summarised has been cut to MaxContext before.
THEOREM NoSummaryIsMade == Spec => [](\A c \in Convs : Summary \notin History(c))
<1>1. ChatInv => \A c \in Convs : Summary \notin History(c)
  BY HistoryIsLatest DEF ChatInv
<1> QED  BY <1>1, ChatInvariant, PTL
=============================================================================
