----------------------------- MODULE FrontDeskProofs -----------------------------
(***************************************************************************)
(* Look first, write afterwards: what it does guarantee, for any number of *)
(* readers, loans, requests and rows.                                      *)
(***************************************************************************)
EXTENDS FrontDesk, FiniteSetTheorems, TLAPS

----------------------------------------------------------------------------
(* The invariant. *)

DeskLabels == {"idle", "passage", "toggle", "remind", "notify"}
Due == [loan: DueLoanIds, type: {"due", "overdue"}]
Reminding ==
  [op: {"remind"}, list: SUBSET Due, todo: SUBSET Due, lost: SUBSET Due, loan: DueLoanIds \cup {Nobody},
   type: {"due", "overdue"}, seen: Nat]

\* The newest row of a reader.
IsLast(log, p, i) == i \in RowsOf(log, p) /\ \A k \in RowsOf(log, p) : k <= i

\* What a request is about to write alternates with the rows it has seen.
Alternates(log, r, first) ==
  /\ r.who \in Readers /\ r.seen \in 0..Len(log)
  /\ \/ r.what = first /\ \A i \in RowsOf(log, r.who) : i > r.seen
     \/ \E i \in RowsOf(log, r.who) :
          /\ i <= r.seen /\ log[i].what # r.what
          /\ \A k \in RowsOf(log, r.who) : k <= i \/ k > r.seen

\* No loan of the list is left out.
Accounted(r, label) ==
  \A d \in r.list \ (r.todo \cup r.lost) : Reminded(d) \/ (label = "notify" /\ d = InHand(r))

\* Nor has it seen the reminder it is about to write.
Unseen(r) ==
  /\ r.loan \in DueLoanIds /\ r.seen \in 0..Len(notices)
  /\ \A i \in DOMAIN notices : notices[i].loan = r.loan /\ notices[i].type = r.type => i > r.seen

LocalOK(h) ==
  /\ pc[h] = "passage" => Alternates(gateLog, req[h], "in") /\ req[h].what \in {"in", "out"}
  /\ pc[h] = "toggle" => Alternates(toggles, req[h], "add") /\ req[h].what \in {"add", "remove"}
  /\ pc[h] \in {"remind", "notify"} =>
       req[h] \in Reminding /\ Accounted(req[h], pc[h])
  /\ pc[h] = "notify" => Unseen(req[h])

\* Every reader has a newest row, or none; of the favourites it says whether
\* the book is among them.
LastRows ==
  /\ \A p \in Readers : RowsOf(gateLog, p) = {} \/ \E i \in Nat : IsLast(gateLog, p, i)
  /\ \A p \in Readers :
       \/ RowsOf(toggles, p) = {} /\ p \notin favorites
       \/ \E i \in Nat : IsLast(toggles, p, i) /\ (p \in favorites <=> toggles[i].what = "add")

DeskInv ==
  /\ FrontDeskTypeOK
  /\ req = [h \in Handlers |-> req[h]]
  /\ \A h \in Handlers : LocalOK(h)
  /\ LastRows
  /\ NoRepeatWithoutOverlap

----------------------------------------------------------------------------
(* Rows. *)

LEMMA Appended ==
  ASSUME NEW S, NEW log \in Seq(S), NEW row \in S
  PROVE  /\ Append(log, row) \in Seq(S) /\ Len(Append(log, row)) = Len(log) + 1
         /\ Append(log, row)[Len(log) + 1] = row
         /\ \A i \in 1..Len(log) : Append(log, row)[i] = log[i]
         /\ DOMAIN log = 1..Len(log) /\ DOMAIN Append(log, row) = 1..(Len(log) + 1)
         /\ Len(log) \in Nat
OBVIOUS

\* The rows of the reader get one more, those of the others stay.
LEMMA RowsAppended ==
  ASSUME NEW S, NEW log \in Seq(S), NEW row \in S
  PROVE  LET new == Append(log, row) IN
         /\ RowsOf(new, row.who) = RowsOf(log, row.who) \cup {Len(log) + 1}
         /\ \A p : p # row.who => RowsOf(new, p) = RowsOf(log, p)
         /\ \A p : RowsOf(log, p) \subseteq 1..Len(log)
BY Appended DEF RowsOf

LEMMA LastAppended ==
  ASSUME NEW S, NEW log \in Seq(S), NEW row \in S
  PROVE  LET new == Append(log, row) IN
         /\ IsLast(new, row.who, Len(log) + 1)
         /\ \A p, i : p # row.who /\ IsLast(log, p, i) => IsLast(new, p, i) /\ new[i] = log[i]
<1> DEFINE new == Append(log, row)
<1>1. IsLast(new, row.who, Len(log) + 1)
  <2>1. RowsOf(new, row.who) = RowsOf(log, row.who) \cup {Len(log) + 1}
    BY RowsAppended
  <2>2. Len(log) \in Nat /\ \A k \in RowsOf(log, row.who) : k \in 1..Len(log)
    BY RowsAppended, Appended
  <2> QED  BY <2>1, <2>2 DEF IsLast
<1>2. ASSUME NEW p, NEW i, p # row.who, IsLast(log, p, i)
      PROVE  IsLast(new, p, i) /\ new[i] = log[i]
  <2>1. RowsOf(new, p) = RowsOf(log, p) /\ RowsOf(log, p) \subseteq 1..Len(log)
    BY <1>2, RowsAppended
  <2> QED  BY <1>2, <2>1, Appended DEF IsLast
<1> QED  BY <1>1, <1>2

\* What a request has seen stays seen.
LEMMA AlternatesStays ==
  ASSUME NEW S, NEW log \in Seq(S), NEW row \in S, NEW r, NEW first, Alternates(log, r, first)
  PROVE  Alternates(Append(log, row), r, first)
<1> DEFINE new == Append(log, row)
<1>1. /\ Len(new) = Len(log) + 1 /\ Len(log) \in Nat
      /\ r.who \in Readers /\ r.seen \in 0..Len(log) /\ r.seen \in 0..Len(new)
  BY Appended DEF Alternates
<1>2. \A k \in RowsOf(new, r.who) : k \in RowsOf(log, r.who) \/ k = Len(log) + 1
  BY RowsAppended
<1>3. \A k \in RowsOf(log, r.who) : k \in RowsOf(new, r.who) /\ k \in 1..Len(log) /\ new[k] = log[k]
  BY RowsAppended, Appended
<1>4. Len(log) + 1 > r.seen
  BY <1>1
<1>5. CASE r.what = first /\ \A i \in RowsOf(log, r.who) : i > r.seen
  BY <1>1, <1>2, <1>4, <1>5 DEF Alternates
<1>6. CASE \E i \in RowsOf(log, r.who) :
             /\ i <= r.seen /\ log[i].what # r.what
             /\ \A k \in RowsOf(log, r.who) : k <= i \/ k > r.seen
  <2>1. PICK i \in RowsOf(log, r.who) :
               /\ i <= r.seen /\ log[i].what # r.what
               /\ \A k \in RowsOf(log, r.who) : k <= i \/ k > r.seen
    BY <1>6
  <2>2. i \in RowsOf(new, r.who) /\ new[i].what # r.what
    BY <1>3, <2>1
  <2>3. \A k \in RowsOf(new, r.who) : k <= i \/ k > r.seen
    BY <1>2, <1>4, <2>1
  <2> QED  BY <1>1, <2>1, <2>2, <2>3 DEF Alternates
<1> QED  BY <1>5, <1>6 DEF Alternates

LEMMA AlternateGrows ==
  ASSUME NEW S, NEW log \in Seq(S), NEW row \in S, NEW first, Alternate(log, first),
         Alternates(log, row, first),
         RowsOf(log, row.who) = {} \/ \E i \in Nat : IsLast(log, row.who, i)
  PROVE  Alternate(Append(log, row), first)
<1> DEFINE new == Append(log, row)
           n == Len(log)
           Earlier(l, j) == {i \in RowsOf(l, l[j].who) : i < j}
<1>1. /\ n \in Nat /\ DOMAIN new = 1..(n + 1) /\ new[n + 1] = row
      /\ \A i \in 1..n : new[i] = log[i]
      /\ DOMAIN log = 1..n
  BY Appended
<1>2. /\ \A p, k : k \in RowsOf(log, p) => k \in RowsOf(new, p) /\ k \in 1..n
      /\ \A p, k : k \in RowsOf(new, p) => k \in RowsOf(log, p) \/ k = n + 1
  <2>1. \A p : RowsOf(new, p) \subseteq RowsOf(log, p) \cup {n + 1} /\ RowsOf(log, p) \subseteq RowsOf(new, p)
               /\ RowsOf(log, p) \subseteq 1..n
    <3>1. ASSUME NEW p
          PROVE  /\ RowsOf(new, p) \subseteq RowsOf(log, p) \cup {n + 1}
                 /\ RowsOf(log, p) \subseteq RowsOf(new, p)
                 /\ RowsOf(log, p) \subseteq 1..n
      <4>1. /\ RowsOf(new, row.who) = RowsOf(log, row.who) \cup {n + 1}
            /\ p # row.who => RowsOf(new, p) = RowsOf(log, p)
            /\ RowsOf(log, p) \subseteq 1..n
        BY RowsAppended
      <4> HIDE DEF new, n
      <4> QED  BY <4>1
    <3> QED  BY <3>1
  <2> QED  BY <2>1
<1>3. ASSUME NEW j \in 1..n
      PROVE  \/ Earlier(new, j) = {} /\ new[j].what = first
             \/ \E i \in Earlier(new, j) :
                  /\ \A k \in Earlier(new, j) : k <= i
                  /\ new[i].what # new[j].what \/ new[j].seen < i
  <2>1. Earlier(new, j) = Earlier(log, j)
    BY <1>1, <1>2
  <2>2. \/ Earlier(log, j) = {} /\ log[j].what = first
        \/ \E i \in Earlier(log, j) :
             /\ \A k \in Earlier(log, j) : k <= i
             /\ log[i].what # log[j].what \/ log[j].seen < i
    BY <1>1 DEF Alternate
  <2>3. \A i \in Earlier(log, j) : new[i] = log[i]
    BY <1>1, <1>2
  <2> HIDE DEF Earlier
  <2> QED  BY <1>1, <2>1, <2>2, <2>3
<1>4. \/ Earlier(new, n + 1) = {} /\ new[n + 1].what = first
      \/ \E i \in Earlier(new, n + 1) :
           /\ \A k \in Earlier(new, n + 1) : k <= i
           /\ new[i].what # new[n + 1].what \/ new[n + 1].seen < i
  <2>1. Earlier(new, n + 1) = RowsOf(log, row.who)
    BY <1>1, <1>2
  <2>2. row.seen \in 0..n
    BY DEF Alternates
  <2>3. CASE RowsOf(log, row.who) = {}
    <3>1. row.what = first
      BY <2>3 DEF Alternates
    <3> QED  BY <1>1, <2>1, <2>3, <3>1
  <2>4. CASE \E i \in Nat : IsLast(log, row.who, i)
    <3>1. PICK i \in Nat : IsLast(log, row.who, i)
      BY <2>4
    <3>2. i \in RowsOf(log, row.who) /\ (\A k \in RowsOf(log, row.who) : k <= i) /\ i \in 1..n
      BY <1>2, <3>1 DEF IsLast
    <3>3. log[i].what # row.what \/ row.seen < i
      <4>1. CASE i <= row.seen
        <5>1. PICK m \in RowsOf(log, row.who) :
                     /\ m <= row.seen /\ log[m].what # row.what
                     /\ \A k \in RowsOf(log, row.who) : k <= m \/ k > row.seen
          BY <2>2, <3>2, <4>1 DEF Alternates
        <5>2. m \in 1..n /\ i = m
          BY <1>2, <2>2, <3>2, <4>1, <5>1
        <5> QED  BY <5>1, <5>2
      <4> QED  BY <2>2, <3>2, <4>1
    <3> HIDE DEF Earlier
    <3> QED  BY <1>1, <2>1, <3>2, <3>3
  <2> QED  BY <2>3, <2>4
<1> HIDE DEF Earlier
<1>5. \A j \in DOMAIN new : j \in 1..n \/ j = n + 1
  BY <1>1
<1>6. \A j \in DOMAIN new :
        \/ Earlier(new, j) = {} /\ new[j].what = first
        \/ \E i \in Earlier(new, j) :
             /\ \A k \in Earlier(new, j) : k <= i
             /\ new[i].what # new[j].what \/ new[j].seen < i
  BY <1>3, <1>4, <1>5
<1> QED  BY <1>6 DEF Alternate, Earlier

----------------------------------------------------------------------------
(* Requests. *)

Grown(log, new, S) == new = log \/ \E row \in S : new = Append(log, row)

LEMMA GrownAlternates ==
  ASSUME NEW S, NEW log \in Seq(S), NEW new, Grown(log, new, S), NEW r, NEW first,
         Alternates(log, r, first)
  PROVE  Alternates(new, r, first)
BY AlternatesStays DEF Grown

LEMMA GrownTyped ==
  ASSUME NEW S, NEW log \in Seq(S), NEW new, Grown(log, new, S)
  PROVE  new \in Seq(S)
BY Appended DEF Grown

LEMMA GrownNotices ==
  ASSUME FrontDeskTypeOK, Grown(notices, notices', Notice)
  PROVE  /\ \A d : Reminded(d) => Reminded(d)'
         /\ \A r : Unseen(r) => Unseen(r)'
<1>1. CASE notices' = notices
  BY <1>1 DEF Reminded, Unseen
<1>2. ASSUME NEW row \in Notice, notices' = Append(notices, row)
      PROVE  /\ \A d : Reminded(d) => Reminded(d)'
             /\ \A r : Unseen(r) => Unseen(r)'
  <2>1. notices \in Seq(Notice)
    BY DEF FrontDeskTypeOK
  <2>2. /\ Len(notices) \in Nat /\ DOMAIN notices = 1..Len(notices)
        /\ Len(notices') = Len(notices) + 1 /\ DOMAIN notices' = 1..(Len(notices) + 1)
        /\ \A i \in 1..Len(notices) : notices'[i] = notices[i]
    BY <1>2, <2>1, Appended
  <2>3. \A i \in DOMAIN notices' : i \in DOMAIN notices \/ i = Len(notices) + 1
    BY <2>2
  <2>4. \A d : Reminded(d) => Reminded(d)'
    BY <2>2 DEF Reminded
  <2>5. \A r : Unseen(r) => Unseen(r)'
    BY <2>2, <2>3 DEF Unseen
  <2> QED  BY <2>4, <2>5
<1> QED  BY <1>1, <1>2 DEF Grown

LEMMA LocalStays ==
  ASSUME DeskInv, NEW g \in Handlers, pc'[g] = pc[g], req'[g] = req[g],
         Grown(gateLog, gateLog', Passage), Grown(toggles, toggles', Toggle),
         Grown(notices, notices', Notice)
  PROVE  LocalOK(g)'
<1>1. gateLog \in Seq(Passage) /\ toggles \in Seq(Toggle) /\ FrontDeskTypeOK /\ LocalOK(g)
  BY DEF DeskInv, FrontDeskTypeOK
<1>2. pc[g] = "passage" => Alternates(gateLog', req[g], "in")
  BY <1>1, GrownAlternates DEF LocalOK
<1>3. pc[g] = "toggle" => Alternates(toggles', req[g], "add")
  BY <1>1, GrownAlternates DEF LocalOK
<1>4. pc[g] \in {"remind", "notify"} =>
        \A d \in req[g].list \ (req[g].todo \cup req[g].lost) :
          Reminded(d)' \/ (pc[g] = "notify" /\ d = InHand(req[g]))
  BY <1>1, GrownNotices DEF LocalOK, Accounted
<1>5. pc[g] = "notify" => Unseen(req[g])
  BY <1>1 DEF LocalOK
<1>6. pc[g] = "notify" =>
        /\ req[g].loan \in DueLoanIds /\ req[g].seen \in 0..Len(notices')
        /\ \A i \in DOMAIN notices' :
             notices'[i].loan = req[g].loan /\ notices'[i].type = req[g].type => i > req[g].seen
  BY <1>1, <1>5, GrownNotices DEF Unseen
<1>7. /\ pc'[g] = "passage" => Alternates(gateLog', req'[g], "in") /\ req'[g].what \in {"in", "out"}
      /\ pc'[g] = "toggle" => Alternates(toggles', req'[g], "add") /\ req'[g].what \in {"add", "remove"}
  BY <1>1, <1>2, <1>3 DEF LocalOK
<1>8. pc'[g] \in {"remind", "notify"} =>
        /\ req'[g] \in Reminding
        /\ \A d \in req'[g].list \ (req'[g].todo \cup req'[g].lost) :
             Reminded(d)' \/ (pc'[g] = "notify" /\ d = InHand(req'[g]))
  BY <1>1, <1>4 DEF LocalOK
<1>9. pc'[g] = "notify" =>
        /\ req'[g].loan \in DueLoanIds /\ req'[g].seen \in 0..Len(notices')
        /\ \A i \in DOMAIN notices' :
             notices'[i].loan = req'[g].loan /\ notices'[i].type = req'[g].type => i > req'[g].seen
  BY <1>6
<1> QED  BY <1>7, <1>8, <1>9 DEF LocalOK, Unseen, Accounted, InHand

\* A step of one handler, which may append rows.
LEMMA OneMoves ==
  ASSUME DeskInv, NEW h \in Handlers, NEW label \in DeskLabels, NEW r, Goto(h, label, r),
         Grown(gateLog, gateLog', Passage), Grown(toggles, toggles', Toggle),
         Grown(notices, notices', Notice), favorites' \subseteq Readers, UNCHANGED dueState,
         pc'[h] = label /\ req'[h] = r => LocalOK(h)'
  PROVE  /\ FrontDeskTypeOK' /\ req' = [g \in Handlers |-> req'[g]]
         /\ \A g \in Handlers : LocalOK(g)'
<1>1. pc \in [Handlers -> DeskLabels] /\ req = [g \in Handlers |-> req[g]]
  BY DEF DeskInv, FrontDeskTypeOK, DeskLabels
<1>2. pc' \in [Handlers -> DeskLabels] /\ pc'[h] = label /\ \A g \in Handlers : g # h => pc'[g] = pc[g]
  BY <1>1 DEF Goto
<1>3. req' = [g \in Handlers |-> req'[g]] /\ req'[h] = r /\ \A g \in Handlers : g # h => req'[g] = req[g]
  BY <1>1 DEF Goto
<1>4. gateLog' \in Seq(Passage) /\ toggles' \in Seq(Toggle) /\ notices' \in Seq(Notice)
  BY GrownTyped DEF DeskInv, FrontDeskTypeOK
<1>5. FrontDeskTypeOK'
  BY <1>2, <1>4 DEF DeskInv, FrontDeskTypeOK, DeskLabels
<1>6. ASSUME NEW g \in Handlers
      PROVE  LocalOK(g)'
  <2>1. CASE g = h
    BY <1>2, <1>3, <2>1
  <2>2. CASE g # h
    <3>1. pc'[g] = pc[g] /\ req'[g] = req[g]
      BY <1>2, <1>3, <2>2
    <3> QED  BY <3>1, LocalStays
  <2> QED  BY <2>1, <2>2
<1> QED  BY <1>3, <1>5, <1>6

\* A step that writes no row.
LEMMA NothingWritten ==
  ASSUME DeskInv, NEW h \in Handlers, NEW label \in DeskLabels, NEW r, Goto(h, label, r),
         UNCHANGED <<gateLog, favorites, toggles, dueState, notices>>,
         pc'[h] = label /\ req'[h] = r => LocalOK(h)'
  PROVE  DeskInv'
<1>1. /\ Grown(gateLog, gateLog', Passage) /\ Grown(toggles, toggles', Toggle)
      /\ Grown(notices, notices', Notice) /\ favorites' \subseteq Readers /\ UNCHANGED dueState
  BY DEF Grown, DeskInv, FrontDeskTypeOK
<1>2. /\ FrontDeskTypeOK' /\ req' = [g \in Handlers |-> req'[g]]
      /\ \A g \in Handlers : LocalOK(g)'
  BY <1>1, OneMoves
<1>3. LastRows'
  BY DEF DeskInv, LastRows
<1>4. NoRepeatWithoutOverlap'
  BY DEF DeskInv, NoRepeatWithoutOverlap, InLibraryCount, LastGateDirection
<1> QED  BY <1>2, <1>3, <1>4 DEF DeskInv

LEMMA Finishes ==
  ASSUME DeskInv, NEW h \in Handlers, Finish(h),
         UNCHANGED <<gateLog, favorites, toggles, dueState, notices>>
  PROVE  DeskInv'
<1>1. Goto(h, "idle", NoReq)
  BY DEF Finish
<1>2. pc'[h] = "idle" /\ req'[h] = NoReq => LocalOK(h)'
  BY DEF LocalOK
<1> QED  BY <1>1, <1>2, NothingWritten DEF DeskLabels

----------------------------------------------------------------------------
(* The gate. *)

\* LastGateDirection, of any log.
LastDirection(log, p) ==
  IF RowsOf(log, p) = {} THEN Nobody
  ELSE log[CHOOSE i \in RowsOf(log, p) : \A j \in RowsOf(log, p) : j <= i].what

Inside(log) == {p \in Readers : LastDirection(log, p) = "in"}

LEMMA LastDirectionIs ==
  ASSUME NEW log \in Seq(Passage), NEW p
  PROVE  /\ RowsOf(log, p) = {} => LastDirection(log, p) = Nobody
         /\ \A i \in Nat : IsLast(log, p, i) =>
              LastDirection(log, p) = log[i].what /\ log[i].what \in {"in", "out"} /\ i <= Len(log)
<1>1. ASSUME NEW i \in Nat, IsLast(log, p, i)
      PROVE  LastDirection(log, p) = log[i].what /\ log[i].what \in {"in", "out"} /\ i <= Len(log)
  <2>1. i \in RowsOf(log, p) /\ \A j \in RowsOf(log, p) : j <= i /\ j \in 1..Len(log)
    BY <1>1 DEF IsLast, RowsOf
  <2>2. PICK m : m = CHOOSE k \in RowsOf(log, p) : \A j \in RowsOf(log, p) : j <= k
    OBVIOUS
  <2>3. m \in RowsOf(log, p) /\ \A j \in RowsOf(log, p) : j <= m
    BY <2>1, <2>2
  <2>4. m = i
    BY <2>1, <2>3
  <2>5. log[i] \in Passage
    BY <2>1
  <2>6. LastDirection(log, p) = log[m].what
    BY <2>1, <2>2 DEF LastDirection
  <2> QED  BY <2>1, <2>4, <2>5, <2>6 DEF Passage
<1> QED  BY <1>1 DEF LastDirection

LEMMA LookAtGate ==
  ASSUME DeskInv, NEW p \in Readers, NEW direction \in {"in", "out"}, NEW op,
         direction = "in" <=> LastDirection(gateLog, p) # "in"
  PROVE  Alternates(gateLog, [op |-> op, who |-> p, what |-> direction, seen |-> Len(gateLog)], "in")
<1> DEFINE r == [op |-> op, who |-> p, what |-> direction, seen |-> Len(gateLog)]
<1>1. gateLog \in Seq(Passage) /\ Len(gateLog) \in Nat
  BY DEF DeskInv, FrontDeskTypeOK
<1>2. r.who = p /\ r.what = direction /\ r.seen = Len(gateLog)
  OBVIOUS
<1>3. \A i \in RowsOf(gateLog, p) : i \in 1..Len(gateLog)
  BY <1>1 DEF RowsOf
<1> HIDE DEF r
<1>4. ASSUME RowsOf(gateLog, p) = {}
      PROVE  Alternates(gateLog, r, "in")
  <2>1. direction = "in"
    BY <1>1, <1>4, LastDirectionIs, FrontDeskAssumption
  <2> QED  BY <1>1, <1>2, <1>4, <2>1 DEF Alternates
<1>5. ASSUME NEW i \in Nat, IsLast(gateLog, p, i)
      PROVE  Alternates(gateLog, r, "in")
  <2>1. gateLog[i].what # direction
    BY <1>1, <1>5, LastDirectionIs
  <2>2. i \in RowsOf(gateLog, p) /\ \A k \in RowsOf(gateLog, p) : k <= i
    BY <1>5 DEF IsLast
  <2>3. /\ r.who \in Readers /\ r.seen \in 0..Len(gateLog)
        /\ i \in RowsOf(gateLog, r.who) /\ i <= r.seen /\ gateLog[i].what # r.what
        /\ \A k \in RowsOf(gateLog, r.who) : k <= i \/ k > r.seen
    BY <1>1, <1>2, <1>3, <2>1, <2>2
  <2> QED  BY <2>3 DEF Alternates
<1>6. RowsOf(gateLog, p) = {} \/ \E i \in Nat : IsLast(gateLog, p, i)
  BY DEF DeskInv, LastRows
<1>7. Alternates(gateLog, r, "in")
  BY <1>4, <1>5, <1>6
<1> QED  BY <1>7 DEF r

LEMMA GateScanInv ==
  ASSUME DeskInv, NEW h \in Handlers, NEW p \in Readers, NEW d \in {"in", "out"}, GateScan(h, p, d)
  PROVE  DeskInv'
<1> DEFINE r == [op |-> "gate", who |-> p, what |-> d, seen |-> Len(gateLog)]
<1>1. Goto(h, "passage", r) /\ UNCHANGED <<gateLog, favorites, toggles, dueState, notices>>
  BY DEF GateScan, Begin
<1>2. d = "in" <=> LastDirection(gateLog, p) # "in"
  BY DEF GateScan, LastGateDirection, LastDirection
<1>3. Alternates(gateLog, r, "in") /\ r.what = d
  BY <1>2, LookAtGate
<1> HIDE DEF r
<1>4. pc'[h] = "passage" /\ req'[h] = r => LocalOK(h)'
  BY <1>1, <1>3 DEF LocalOK
<1> QED  BY <1>1, <1>4, NothingWritten DEF DeskLabels

LEMMA InsideGrows ==
  ASSUME NEW log \in Seq(Passage), NEW row \in Passage, Alternates(log, row, "in"),
         row.seen = Len(log),
         \A p \in Readers : RowsOf(log, p) = {} \/ \E i \in Nat : IsLast(log, p, i)
  PROVE  LET new == Append(log, row) IN
         /\ row.what = "in" => row.who \notin Inside(log) /\ Inside(new) = Inside(log) \cup {row.who}
         /\ row.what = "out" => row.who \in Inside(log) /\ Inside(new) = Inside(log) \ {row.who}
<1> DEFINE new == Append(log, row)
<1>1. new \in Seq(Passage) /\ row.who \in Readers /\ row.what \in {"in", "out"} /\ Len(log) \in Nat
      /\ new[Len(log) + 1] = row /\ Len(log) + 1 \in Nat
  BY Appended DEF Passage
<1>2. LastDirection(new, row.who) = row.what
  <2>1. IsLast(new, row.who, Len(log) + 1)
    BY LastAppended
  <2> HIDE DEF new
  <2> QED  BY <1>1, <2>1, LastDirectionIs
<1>3. ASSUME NEW p \in Readers, p # row.who
      PROVE  LastDirection(new, p) = LastDirection(log, p)
  <2>1. CASE RowsOf(log, p) = {}
    <3>1. RowsOf(new, p) = {}
      BY <1>3, <2>1, RowsAppended
    <3> QED  BY <2>1, <3>1 DEF LastDirection
  <2>2. ASSUME NEW i \in Nat, IsLast(log, p, i)
        PROVE  LastDirection(new, p) = LastDirection(log, p)
    <3>1. IsLast(new, p, i) /\ new[i] = log[i]
      BY <1>3, <2>2, LastAppended
    <3> HIDE DEF new
    <3> QED  BY <1>1, <2>2, <3>1, LastDirectionIs
  <2> QED  BY <2>1, <2>2
<1>4. LastDirection(log, row.who) = "in" <=> row.what = "out"
  <2>1. CASE RowsOf(log, row.who) = {}
    <3>1. row.what = "in"
      BY <2>1 DEF Alternates
    <3> QED  BY <2>1, <3>1, LastDirectionIs, FrontDeskAssumption
  <2>2. ASSUME NEW i \in Nat, IsLast(log, row.who, i)
        PROVE  LastDirection(log, row.who) = "in" <=> row.what = "out"
    <3>1. /\ LastDirection(log, row.who) = log[i].what /\ log[i].what \in {"in", "out"} /\ i <= Len(log)
          /\ i \in RowsOf(log, row.who) /\ \A k \in RowsOf(log, row.who) : k <= i
      BY <2>2, LastDirectionIs DEF IsLast
    <3>2. PICK m \in RowsOf(log, row.who) :
                 /\ m <= row.seen /\ log[m].what # row.what
                 /\ \A k \in RowsOf(log, row.who) : k <= m \/ k > row.seen
      BY <1>1, <3>1 DEF Alternates
    <3>3. m \in Nat
      BY RowsAppended, <3>2
    <3>4. m = i
      BY <1>1, <3>1, <3>2, <3>3
    <3> QED  BY <1>1, <3>1, <3>2, <3>4
  <2> QED  BY <1>1, <2>1, <2>2
<1> HIDE DEF new
<1>5. \A p \in Readers : p \in Inside(new) <=> IF p = row.who THEN row.what = "in" ELSE p \in Inside(log)
  BY <1>2, <1>3 DEF Inside
<1>6. row.who \in Inside(log) <=> row.what = "out"
  BY <1>1, <1>4 DEF Inside
<1>7. Inside(new) \subseteq Readers /\ Inside(log) \subseteq Readers
  BY DEF Inside
<1>8. row.what = "in" => Inside(new) = Inside(log) \cup {row.who}
  BY <1>1, <1>5, <1>7
<1>9. row.what = "out" => Inside(new) = Inside(log) \ {row.who}
  BY <1>1, <1>5, <1>7
<1> QED  BY <1>6, <1>8, <1>9 DEF new

\* The rows that say one thing.
Saying(log, what) == {j \in DOMAIN log : log[j].what = what}

AllSeen(log) == \A j \in DOMAIN log : log[j].seen = j - 1

Balanced(log) ==
  AllSeen(log) =>
    Cardinality(Inside(log)) = Cardinality(Saying(log, "in")) - Cardinality(Saying(log, "out"))

LEMMA SayingGrows ==
  ASSUME NEW log \in Seq(Passage), NEW row \in Passage, NEW what
  PROVE  LET new == Append(log, row) IN
         /\ IsFiniteSet(Saying(log, what)) /\ Cardinality(Saying(log, what)) \in Nat
         /\ row.what = what => Cardinality(Saying(new, what)) = Cardinality(Saying(log, what)) + 1
         /\ row.what # what => Saying(new, what) = Saying(log, what)
<1> DEFINE new == Append(log, row)
           n == Len(log) + 1
<1>1. /\ DOMAIN log = 1..Len(log) /\ Len(log) \in Nat /\ DOMAIN new = 1..n
      /\ new[n] = row /\ \A i \in 1..Len(log) : new[i] = log[i]
  BY Appended
<1>2. IsFiniteSet(1..Len(log))
  BY <1>1, FS_Interval
<1>3. Saying(log, what) \subseteq 1..Len(log)
  BY <1>1 DEF Saying
<1>4. IsFiniteSet(Saying(log, what)) /\ Cardinality(Saying(log, what)) \in Nat
  BY <1>2, <1>3, FS_Subset, FS_CardinalityType
<1>5. n \notin Saying(log, what)
  BY <1>1, <1>3
<1> HIDE DEF new
<1>6. \A j : j \in Saying(new, what) <=> j \in Saying(log, what) \/ (j = n /\ row.what = what)
  BY <1>1 DEF Saying
<1>7. row.what = what => Saying(new, what) = Saying(log, what) \cup {n}
  BY <1>6
<1>8. row.what # what => Saying(new, what) = Saying(log, what)
  BY <1>6
<1> QED  BY <1>4, <1>5, <1>7, <1>8, FS_AddElement DEF new

LEMMA BalanceKept ==
  ASSUME NEW log \in Seq(Passage), NEW row \in Passage, Alternates(log, row, "in"), Balanced(log),
         \A p \in Readers : RowsOf(log, p) = {} \/ \E i \in Nat : IsLast(log, p, i)
  PROVE  Balanced(Append(log, row))
<1> DEFINE new == Append(log, row)
<1> SUFFICES ASSUME AllSeen(new)
             PROVE  Cardinality(Inside(new)) =
                      Cardinality(Saying(new, "in")) - Cardinality(Saying(new, "out"))
  BY DEF Balanced
<1>1. AllSeen(log) /\ row.seen = Len(log)
  BY Appended DEF AllSeen
<1>2. row.what \in {"in", "out"} /\ row.who \in Readers
  BY DEF Passage
<1>3. IsFiniteSet(Inside(log)) /\ Cardinality(Inside(log)) \in Nat
  BY FrontDeskAssumption, FS_Subset, FS_CardinalityType DEF Inside
<1>4. Cardinality(Inside(log)) = Cardinality(Saying(log, "in")) - Cardinality(Saying(log, "out"))
  BY <1>1 DEF Balanced
<1>5. /\ Cardinality(Saying(log, "in")) \in Nat /\ Cardinality(Saying(log, "out")) \in Nat
  BY SayingGrows
<1>6. CASE row.what = "in"
  <2>1. row.who \notin Inside(log) /\ Inside(new) = Inside(log) \cup {row.who}
    BY <1>1, <1>6, InsideGrows
  <2>2. Cardinality(Saying(new, "in")) = Cardinality(Saying(log, "in")) + 1
    BY <1>6, SayingGrows
  <2>3. Saying(new, "out") = Saying(log, "out")
    BY <1>6, SayingGrows
  <2> HIDE DEF new
  <2>4. Cardinality(Inside(new)) = Cardinality(Inside(log)) + 1
    BY <1>3, <2>1, FS_AddElement
  <2> QED  BY <1>3, <1>4, <1>5, <2>2, <2>3, <2>4
<1>7. CASE row.what = "out"
  <2>1. row.who \in Inside(log) /\ Inside(new) = Inside(log) \ {row.who}
    BY <1>1, <1>7, InsideGrows
  <2>2. Cardinality(Saying(new, "out")) = Cardinality(Saying(log, "out")) + 1
    BY <1>7, SayingGrows
  <2>3. Saying(new, "in") = Saying(log, "in")
    BY <1>7, SayingGrows
  <2> HIDE DEF new
  <2>4. Cardinality(Inside(new)) = Cardinality(Inside(log)) - 1
    BY <1>3, <2>1, FS_RemoveElement
  <2> QED  BY <1>3, <1>4, <1>5, <2>2, <2>3, <2>4
<1> QED  BY <1>2, <1>6, <1>7

LEMMA InsertGateLogInv ==
  ASSUME DeskInv, NEW h \in Handlers, InsertGateLog(h)
  PROVE  DeskInv'
<1> DEFINE row == [who |-> req[h].who, what |-> req[h].what, seen |-> req[h].seen]
<1>1. /\ Alternates(gateLog, req[h], "in") /\ req[h].what \in {"in", "out"}
      /\ gateLog \in Seq(Passage) /\ toggles \in Seq(Toggle) /\ notices \in Seq(Notice)
      /\ favorites \subseteq Readers
  BY DEF InsertGateLog, DeskInv, LocalOK, FrontDeskTypeOK
<1>2. /\ gateLog' = Append(gateLog, row) /\ Goto(h, "idle", NoReq)
      /\ UNCHANGED <<favorites, toggles, dueState, notices>>
  BY DEF InsertGateLog, Finish
<1>3. row \in Passage /\ Alternates(gateLog, row, "in")
  BY <1>1 DEF Alternates, Passage
<1>4. row.who \in Readers
  BY <1>3 DEF Alternates
<1> HIDE DEF row
<1>5. pc'[h] = "idle" /\ req'[h] = NoReq => LocalOK(h)'
  BY DEF LocalOK
<1>6. /\ Grown(gateLog, gateLog', Passage) /\ Grown(toggles, toggles', Toggle)
      /\ Grown(notices, notices', Notice) /\ favorites' \subseteq Readers /\ UNCHANGED dueState
  BY <1>1, <1>2, <1>3 DEF Grown
<1>7. /\ FrontDeskTypeOK' /\ req' = [g \in Handlers |-> req'[g]]
      /\ \A g \in Handlers : LocalOK(g)'
  BY <1>2, <1>5, <1>6, OneMoves DEF DeskLabels
<1>8. \A p \in Readers : RowsOf(gateLog, p) = {} \/ \E i \in Nat : IsLast(gateLog, p, i)
  BY DEF DeskInv, LastRows
<1>9. \A p \in Readers : RowsOf(gateLog', p) = {} \/ \E i \in Nat : IsLast(gateLog', p, i)
  <2>1. IsLast(gateLog', row.who, Len(gateLog) + 1) /\ Len(gateLog) + 1 \in Nat
    BY <1>1, <1>2, <1>3, LastAppended
  <2>2. ASSUME NEW p \in Readers, p # row.who
        PROVE  RowsOf(gateLog', p) = {} \/ \E i \in Nat : IsLast(gateLog', p, i)
    <3>1. CASE RowsOf(gateLog, p) = {}
      BY <1>1, <1>2, <1>3, <2>2, <3>1, RowsAppended
    <3>2. CASE \E i \in Nat : IsLast(gateLog, p, i)
      BY <1>1, <1>2, <1>3, <2>2, <3>2, LastAppended
    <3> QED  BY <1>8, <3>1, <3>2
  <2> QED  BY <2>1, <2>2
<1>10. LastRows'
  <2>1. LastRows /\ UNCHANGED <<favorites, toggles>>
    BY <1>2 DEF DeskInv
  <2> QED  BY <1>9, <2>1 DEF LastRows
<1>11. Alternate(gateLog', "in")
  <2>1. Alternate(gateLog, "in")
    BY DEF DeskInv, NoRepeatWithoutOverlap
  <2> QED  BY <1>1, <1>2, <1>3, <1>4, <1>8, <2>1, AlternateGrows
<1>12. Balanced(gateLog')
  <2>1. Balanced(gateLog)
    BY DEF DeskInv, NoRepeatWithoutOverlap, InLibraryCount, LastGateDirection, LastDirection,
           Inside, Saying, Balanced, AllSeen
  <2> QED  BY <1>1, <1>2, <1>3, <1>8, <2>1, BalanceKept
<1>13. NoRepeatWithoutOverlap'
  <2>1. /\ Alternate(toggles', "add")
        /\ \A i, j \in DOMAIN notices' :
             i < j /\ notices'[i].loan = notices'[j].loan /\ notices'[i].type = notices'[j].type
               => notices'[j].seen < i
    BY <1>2 DEF DeskInv, NoRepeatWithoutOverlap
  <2>2. (\A j \in DOMAIN gateLog' : gateLog'[j].seen = j - 1) =>
          InLibraryCount' = Cardinality({j \in DOMAIN gateLog' : gateLog'[j].what = "in"})
                            - Cardinality({j \in DOMAIN gateLog' : gateLog'[j].what = "out"})
    BY <1>12 DEF InLibraryCount, LastGateDirection, LastDirection, Inside, Saying, Balanced, AllSeen
  <2> QED  BY <1>11, <2>1, <2>2 DEF NoRepeatWithoutOverlap
<1> QED  BY <1>7, <1>10, <1>13 DEF DeskInv

----------------------------------------------------------------------------
(* Favourites. *)

LEMMA ToggleFavoriteInv ==
  ASSUME DeskInv, NEW h \in Handlers, NEW p \in Readers, ToggleFavorite(h, p)
  PROVE  DeskInv'
<1>1. PICK failed \in BOOLEAN :
        Goto(h, "toggle", [op |-> "favorite", who |-> p, seen |-> IF failed THEN 0 ELSE Len(toggles),
                           what |-> IF p \in favorites /\ ~ failed THEN "remove" ELSE "add"])
  BY DEF ToggleFavorite, Begin
<1>2. PICK r : r = [op |-> "favorite", who |-> p, seen |-> IF failed THEN 0 ELSE Len(toggles),
                    what |-> IF p \in favorites /\ ~ failed THEN "remove" ELSE "add"]
  OBVIOUS
<1>3. /\ r.who = p /\ r.seen = (IF failed THEN 0 ELSE Len(toggles))
      /\ r.what = (IF p \in favorites /\ ~ failed THEN "remove" ELSE "add")
  BY <1>2
<1>4. toggles \in Seq(Toggle) /\ Len(toggles) \in Nat /\ \A i \in RowsOf(toggles, p) : i \in 1..Len(toggles)
  BY DEF DeskInv, FrontDeskTypeOK, RowsOf
<1>5. /\ r.who \in Readers /\ r.seen \in 0..Len(toggles) /\ r.what \in {"add", "remove"}
  BY <1>3, <1>4
<1>6. \/ RowsOf(toggles, p) = {} /\ p \notin favorites
      \/ \E i \in Nat : IsLast(toggles, p, i) /\ (p \in favorites <=> toggles[i].what = "add")
  BY DEF DeskInv, LastRows
<1>7. Alternates(toggles, r, "add")
  <2>1. CASE failed
    BY <1>3, <1>4, <1>5, <2>1 DEF Alternates
  <2>2. CASE ~ failed /\ RowsOf(toggles, p) = {} /\ p \notin favorites
    BY <1>3, <1>5, <2>2 DEF Alternates
  <2>3. CASE ~ failed /\ \E i \in Nat : IsLast(toggles, p, i) /\ (p \in favorites <=> toggles[i].what = "add")
    <3>1. PICK i \in Nat : IsLast(toggles, p, i) /\ (p \in favorites <=> toggles[i].what = "add")
      BY <2>3
    <3>2. toggles[i].what # r.what
      BY <1>3, <2>3, <3>1
    <3>3. /\ i \in RowsOf(toggles, r.who) /\ i <= r.seen
          /\ \A k \in RowsOf(toggles, r.who) : k <= i \/ k > r.seen
      BY <1>3, <1>4, <2>3, <3>1 DEF IsLast
    <3> QED  BY <1>5, <3>2, <3>3 DEF Alternates
  <2> QED  BY <1>6, <2>1, <2>2, <2>3
<1>8. Goto(h, "toggle", r) /\ UNCHANGED <<gateLog, favorites, toggles, dueState, notices>>
  BY <1>1, <1>2 DEF ToggleFavorite
<1>9. pc'[h] = "toggle" /\ req'[h] = r => LocalOK(h)'
  BY <1>5, <1>7, <1>8 DEF LocalOK
<1> QED  BY <1>8, <1>9, NothingWritten DEF DeskLabels

LEMMA WriteFavoriteInv ==
  ASSUME DeskInv, NEW h \in Handlers, WriteFavorite(h)
  PROVE  DeskInv'
<1> DEFINE row == [who |-> req[h].who, what |-> req[h].what, seen |-> req[h].seen]
<1>1. /\ Alternates(toggles, req[h], "add") /\ req[h].what \in {"add", "remove"}
      /\ gateLog \in Seq(Passage) /\ toggles \in Seq(Toggle) /\ notices \in Seq(Notice)
      /\ favorites \subseteq Readers
  BY DEF WriteFavorite, DeskInv, LocalOK, FrontDeskTypeOK
<1>2. /\ toggles' = Append(toggles, row) /\ Goto(h, "idle", NoReq)
      /\ UNCHANGED <<gateLog, dueState, notices>>
  BY DEF WriteFavorite, Finish
<1>3. row \in Toggle /\ Alternates(toggles, row, "add")
  BY <1>1 DEF Alternates, Toggle
<1>4. row.who \in Readers /\ row.what \in {"add", "remove"}
  BY <1>1, <1>3 DEF Alternates
<1>5. favorites' = IF row.what = "add" THEN favorites \cup {row.who} ELSE favorites \ {row.who}
  BY DEF WriteFavorite
<1> HIDE DEF row
<1>6. pc'[h] = "idle" /\ req'[h] = NoReq => LocalOK(h)'
  BY DEF LocalOK
<1>7. /\ Grown(gateLog, gateLog', Passage) /\ Grown(toggles, toggles', Toggle)
      /\ Grown(notices, notices', Notice) /\ favorites' \subseteq Readers /\ UNCHANGED dueState
  BY <1>1, <1>2, <1>3, <1>4, <1>5 DEF Grown
<1>8. /\ FrontDeskTypeOK' /\ req' = [g \in Handlers |-> req'[g]]
      /\ \A g \in Handlers : LocalOK(g)'
  BY <1>2, <1>6, <1>7, OneMoves DEF DeskLabels
<1>9. \A p \in Readers :
        \/ RowsOf(toggles, p) = {} /\ p \notin favorites
        \/ \E i \in Nat : IsLast(toggles, p, i) /\ (p \in favorites <=> toggles[i].what = "add")
  BY DEF DeskInv, LastRows
<1>10. \A p \in Readers :
         \/ RowsOf(toggles', p) = {} /\ p \notin favorites'
         \/ \E i \in Nat : IsLast(toggles', p, i) /\ (p \in favorites' <=> toggles'[i].what = "add")
  <2>1. /\ IsLast(toggles', row.who, Len(toggles) + 1) /\ Len(toggles) + 1 \in Nat
        /\ toggles'[Len(toggles) + 1] = row
    BY <1>1, <1>2, <1>3, LastAppended, Appended
  <2>2. row.who \in favorites' <=> row.what = "add"
    BY <1>4, <1>5
  <2>3. ASSUME NEW p \in Readers, p # row.who
        PROVE  \/ RowsOf(toggles', p) = {} /\ p \notin favorites'
               \/ \E i \in Nat : IsLast(toggles', p, i) /\ (p \in favorites' <=> toggles'[i].what = "add")
    <3>1. p \in favorites' <=> p \in favorites
      BY <1>5, <2>3
    <3>2. CASE RowsOf(toggles, p) = {} /\ p \notin favorites
      BY <1>1, <1>2, <1>3, <2>3, <3>1, <3>2, RowsAppended
    <3>3. CASE \E i \in Nat : IsLast(toggles, p, i) /\ (p \in favorites <=> toggles[i].what = "add")
      <4>1. PICK i \in Nat : IsLast(toggles, p, i) /\ (p \in favorites <=> toggles[i].what = "add")
        BY <3>3
      <4>2. IsLast(Append(toggles, row), p, i) /\ Append(toggles, row)[i] = toggles[i]
        <5>1. toggles \in Seq(Toggle) /\ row \in Toggle
          BY <1>1, <1>3
        <5>2. \A q, k : q # row.who /\ IsLast(toggles, q, k) =>
                 IsLast(Append(toggles, row), q, k) /\ Append(toggles, row)[k] = toggles[k]
          BY <5>1, LastAppended
        <5> QED  BY <2>3, <4>1, <5>2
      <4>3. IsLast(toggles', p, i) /\ toggles'[i] = toggles[i]
        BY <1>2, <4>2
      <4> QED  BY <3>1, <4>1, <4>3
    <3> QED  BY <1>9, <3>2, <3>3
  <2> QED  BY <2>1, <2>2, <2>3
<1>11. LastRows'
  <2>1. LastRows /\ UNCHANGED gateLog
    BY <1>2 DEF DeskInv
  <2> QED  BY <1>10, <2>1 DEF LastRows
<1>12. Alternate(toggles', "add")
  <2>1. Alternate(toggles, "add")
    BY DEF DeskInv, NoRepeatWithoutOverlap
  <2>2. RowsOf(toggles, row.who) = {} \/ \E i \in Nat : IsLast(toggles, row.who, i)
    BY <1>4, <1>9
  <2> QED  BY <1>1, <1>2, <1>3, <2>1, <2>2, AlternateGrows
<1>13. NoRepeatWithoutOverlap'
  BY <1>2, <1>12 DEF DeskInv, NoRepeatWithoutOverlap, InLibraryCount, LastGateDirection
<1> QED  BY <1>8, <1>11, <1>13 DEF DeskInv

----------------------------------------------------------------------------
(* Reminders. *)

\* Where a run of the reminders may go without writing anything.
LEMMA ReminderMoves ==
  ASSUME DeskInv, NEW h \in Handlers, NEW label \in {"remind", "notify"}, NEW r, Goto(h, label, r),
         UNCHANGED <<gateLog, favorites, toggles, dueState, notices>>,
         r \in Reminding, Accounted(r, label), label = "notify" => Unseen(r)
  PROVE  DeskInv'
<1>1. /\ \A d \in r.list \ (r.todo \cup r.lost) :
           Reminded(d)' \/ (label = "notify" /\ d = InHand(r))
      /\ label = "notify" =>
           /\ r.loan \in DueLoanIds /\ r.seen \in 0..Len(notices')
           /\ \A i \in DOMAIN notices' :
                notices'[i].loan = r.loan /\ notices'[i].type = r.type => i > r.seen
  BY DEF Reminded, Unseen, Accounted
<1>2. pc'[h] = label /\ req'[h] = r => LocalOK(h)'
  BY <1>1 DEF LocalOK, Unseen, Accounted, InHand
<1> QED  BY <1>2, NothingWritten DEF DeskLabels

LEMMA DueTyped == dueState \in [DueLoanIds -> DueStates] => DueLoans \subseteq Due
BY DEF DueLoans, Due, DueStates

LEMMA CheckDueLoansNowInv ==
  ASSUME DeskInv, NEW h \in Handlers, CheckDueLoansNow(h)
  PROVE  DeskInv'
<1>1. PICK r : r = [op |-> "remind", list |-> DueLoans, todo |-> DueLoans, lost |-> {},
                    loan |-> Nobody, type |-> "due", seen |-> 0]
  OBVIOUS
<1>2. r \in Reminding /\ Accounted(r, "remind")
  BY <1>1, DueTyped DEF DeskInv, FrontDeskTypeOK, Reminding, Accounted
<1>3. Goto(h, "remind", r) /\ UNCHANGED <<gateLog, favorites, toggles, dueState, notices>>
  BY <1>1 DEF CheckDueLoansNow, Begin
<1> QED  BY <1>2, <1>3, ReminderMoves

\* The loan has its reminder.
Got(r, d) == [r EXCEPT !.todo = @ \ {d}]

\* The loan is next to be reminded of.
Chosen(r, d, seen) == [r EXCEPT !.todo = @ \ {d}, !.loan = d.loan, !.type = d.type, !.seen = seen]

LEMMA GotFields ==
  ASSUME NEW r \in Reminding, NEW d \in Due, NEW e, e = Got(r, d)
  PROVE  /\ e \in Reminding /\ e.list = r.list /\ e.todo = r.todo \ {d} /\ e.lost = r.lost
BY DEF Got, Reminding

LEMMA ChosenFields ==
  ASSUME NEW r \in Reminding, NEW d \in Due, NEW seen \in Nat, NEW e, e = Chosen(r, d, seen)
  PROVE  /\ e \in Reminding /\ e.list = r.list /\ e.todo = r.todo \ {d} /\ e.lost = r.lost
         /\ e.loan = d.loan /\ e.type = d.type /\ e.seen = seen
<1>1. d.loan \in DueLoanIds \cup {Nobody} /\ d.type \in {"due", "overdue"} /\ r.todo \ {d} \in SUBSET Due
  BY DEF Due, Reminding
<1> DEFINE With(t, l, y, n) ==
             [op |-> r.op, list |-> r.list, todo |-> t, lost |-> r.lost, loan |-> l, type |-> y, seen |-> n]
           t == r.todo \ {d}
<1>2. r = With(r.todo, r.loan, r.type, r.seen)
  BY DEF Reminding
<1>3. Chosen(r, d, seen) =
        [[[[r EXCEPT !.todo = t] EXCEPT !.loan = d.loan] EXCEPT !.type = d.type] EXCEPT !.seen = seen]
  BY DEF Chosen
<1> HIDE DEF t
<1>4. [r EXCEPT !.todo = t] = With(t, r.loan, r.type, r.seen)
  BY <1>2
<1>5. [With(t, r.loan, r.type, r.seen) EXCEPT !.loan = d.loan] = With(t, d.loan, r.type, r.seen)
  OBVIOUS
<1>6. [With(t, d.loan, r.type, r.seen) EXCEPT !.type = d.type] = With(t, d.loan, d.type, r.seen)
  OBVIOUS
<1>7. [With(t, d.loan, d.type, r.seen) EXCEPT !.seen = seen] = With(t, d.loan, d.type, seen)
  OBVIOUS
<1>8. e = With(t, d.loan, d.type, seen)
  BY <1>3, <1>4, <1>5, <1>6, <1>7
<1>9. t \in SUBSET Due /\ r.op \in {"remind"} /\ r.list \in SUBSET Due /\ r.lost \in SUBSET Due
  BY <1>1 DEF t, Reminding
<1> QED  BY <1>1, <1>8, <1>9 DEF Reminding, t

LEMMA RemindInv ==
  ASSUME DeskInv, NEW h \in Handlers, Remind(h)
  PROVE  DeskInv'
<1>1. /\ req[h] \in Reminding /\ Accounted(req[h], "remind")
      /\ UNCHANGED <<gateLog, favorites, toggles, dueState, notices>>
      /\ notices \in Seq(Notice) /\ Len(notices) \in Nat
  BY DEF DeskInv, LocalOK, FrontDeskTypeOK, Remind
<1>2. PICK d \in req[h].todo, failed \in BOOLEAN :
        IF NotificationExistsByRef(d) /\ ~ failed
        THEN Goto(h, "remind", Got(req[h], d))
        ELSE Goto(h, "notify", Chosen(req[h], d, IF failed THEN 0 ELSE Len(notices)))
  BY DEF Remind, Got, Chosen
<1>3. d \in Due
  BY <1>1 DEF Reminding
<1>4. CASE NotificationExistsByRef(d) /\ ~ failed
  <2>1. PICK e : e = Got(req[h], d)
    OBVIOUS
  <2>2. /\ e \in Reminding /\ e.list = req[h].list /\ e.todo = req[h].todo \ {d}
        /\ e.lost = req[h].lost
    BY <1>1, <1>3, <2>1, GotFields
  <2>3. Accounted(e, "remind")
    <3> SUFFICES ASSUME NEW x \in e.list \ (e.todo \cup e.lost)
                 PROVE  Reminded(x)
      BY DEF Accounted
    <3>1. x = d \/ x \in req[h].list \ (req[h].todo \cup req[h].lost)
      BY <2>2
    <3>2. x = d => Reminded(x)
      BY <1>4 DEF NotificationExistsByRef
    <3> QED  BY <1>1, <3>1, <3>2 DEF Accounted
  <2>4. Goto(h, "remind", e)
    BY <1>2, <1>4, <2>1
  <2> QED  BY <1>1, <2>2, <2>3, <2>4, ReminderMoves
<1>5. CASE ~ (NotificationExistsByRef(d) /\ ~ failed)
  <2>1. PICK n : n = IF failed THEN 0 ELSE Len(notices)
    OBVIOUS
  <2>2. PICK e : e = Chosen(req[h], d, n)
    OBVIOUS
  <2>3. n \in 0..Len(notices) /\ n \in Nat
    BY <1>1, <2>1
  <2>4. /\ e \in Reminding /\ e.list = req[h].list /\ e.todo = req[h].todo \ {d}
        /\ e.lost = req[h].lost /\ e.loan = d.loan /\ e.type = d.type /\ e.seen = n
    BY <1>1, <1>3, <2>2, <2>3, ChosenFields
  <2>5. Unseen(e)
    <3>1. d.loan \in DueLoanIds
      BY <1>3 DEF Due
    <3>2. DOMAIN notices = 1..Len(notices)
      BY <1>1
    <3>3. CASE failed
      BY <2>1, <2>3, <2>4, <3>1, <3>2, <3>3 DEF Unseen
    <3>4. CASE ~ failed
      BY <1>5, <2>3, <2>4, <3>1, <3>4 DEF Unseen, NotificationExistsByRef, Reminded
    <3> QED  BY <3>3, <3>4
  <2>6. Goto(h, "notify", e)
    BY <1>2, <1>5, <2>1, <2>2
  <2>7. Accounted(e, "notify")
    <3>1. InHand(e) = d
      BY <1>3, <2>4 DEF InHand, Due
    <3>2. \A x \in e.list \ (e.todo \cup e.lost) :
            x = d \/ x \in req[h].list \ (req[h].todo \cup req[h].lost)
      BY <2>4
    <3> QED  BY <1>1, <3>1, <3>2 DEF Accounted
  <2> QED  BY <1>1, <2>4, <2>5, <2>6, <2>7, ReminderMoves
<1> QED  BY <1>4, <1>5

\* The INSERT has failed.
Lost(r) == [r EXCEPT !.lost = @ \cup {InHand(r)}]

LEMMA LostFields ==
  ASSUME NEW r \in Reminding, r.loan \in DueLoanIds, NEW e, e = Lost(r)
  PROVE  /\ e \in Reminding /\ e.list = r.list /\ e.todo = r.todo
         /\ e.lost = r.lost \cup {InHand(r)}
<1>1. InHand(r) \in Due
  BY DEF Due, Reminding, InHand
<1> QED  BY <1>1 DEF Lost, Reminding

LEMMA CreateReminderInv ==
  ASSUME DeskInv, NEW h \in Handlers, CreateReminder(h)
  PROVE  DeskInv'
<1>1. /\ req[h] \in Reminding /\ Accounted(req[h], "notify") /\ Unseen(req[h])
      /\ UNCHANGED <<gateLog, favorites, toggles, dueState>>
      /\ gateLog \in Seq(Passage) /\ toggles \in Seq(Toggle) /\ notices \in Seq(Notice)
      /\ favorites \subseteq Readers
  BY DEF DeskInv, LocalOK, FrontDeskTypeOK, CreateReminder
<1>2. CASE UNCHANGED notices /\ Goto(h, "remind", Lost(req[h]))
  <2>1. PICK e : e = Lost(req[h])
    OBVIOUS
  <2>2. /\ e \in Reminding /\ e.list = req[h].list /\ e.todo = req[h].todo
        /\ e.lost = req[h].lost \cup {InHand(req[h])}
    BY <1>1, <2>1, LostFields DEF Unseen
  <2>3. Accounted(e, "remind")
    BY <1>1, <2>2 DEF Accounted
  <2> QED  BY <1>1, <1>2, <2>1, <2>2, <2>3, ReminderMoves
<1>3. CASE /\ notices' = Append(notices, [loan |-> req[h].loan, type |-> req[h].type,
                                          seen |-> req[h].seen])
           /\ Goto(h, "remind", req[h])
  <2>1. PICK row : row = [loan |-> req[h].loan, type |-> req[h].type, seen |-> req[h].seen]
    OBVIOUS
  <2>2. /\ row \in Notice /\ row.loan = req[h].loan /\ row.type = req[h].type
        /\ row.seen = req[h].seen /\ notices' = Append(notices, row)
    BY <1>1, <1>3, <2>1 DEF Notice, Unseen, Reminding
  <2>3. /\ Len(notices) \in Nat /\ DOMAIN notices = 1..Len(notices)
        /\ DOMAIN notices' = 1..(Len(notices) + 1)
        /\ notices'[Len(notices) + 1] = row
        /\ \A i \in 1..Len(notices) : notices'[i] = notices[i]
    BY <1>1, <2>2, Appended
  <2>6. /\ Grown(gateLog, gateLog', Passage) /\ Grown(toggles, toggles', Toggle)
        /\ Grown(notices, notices', Notice) /\ favorites' \subseteq Readers /\ UNCHANGED dueState
    BY <1>1, <2>2 DEF Grown
  <2>7. \A d \in req[h].list \ (req[h].todo \cup req[h].lost) : Reminded(d)'
    <3> SUFFICES ASSUME NEW d \in req[h].list \ (req[h].todo \cup req[h].lost)
                 PROVE  Reminded(d)'
      OBVIOUS
    <3>1. Reminded(d) => Reminded(d)'
      BY <1>1, <2>6, GrownNotices DEF DeskInv
    <3>2. d = InHand(req[h]) => Reminded(d)'
      BY <2>2, <2>3 DEF Reminded, InHand
    <3> QED  BY <1>1, <3>1, <3>2 DEF Accounted
  <2>8. pc'[h] = "remind" /\ req'[h] = req[h] => LocalOK(h)'
    BY <1>1, <2>7 DEF LocalOK, Accounted
  <2>10. /\ FrontDeskTypeOK' /\ req' = [g \in Handlers |-> req'[g]]
         /\ \A g \in Handlers : LocalOK(g)'
    BY <1>3, <2>6, <2>8, OneMoves DEF DeskLabels
  <2>11. LastRows'
    BY <1>1 DEF DeskInv, LastRows
  <2>12. ASSUME NEW i \in DOMAIN notices', NEW j \in DOMAIN notices',
                i < j, notices'[i].loan = notices'[j].loan, notices'[i].type = notices'[j].type
         PROVE  notices'[j].seen < i
    <3>1. CASE j \in 1..Len(notices)
      BY <2>3, <2>12, <3>1 DEF DeskInv, NoRepeatWithoutOverlap
    <3>2. CASE j = Len(notices) + 1
      <4>1. i \in 1..Len(notices) /\ notices'[i] = notices[i] /\ notices'[j] = row
        BY <2>3, <2>12, <3>2
      <4>2. i > req[h].seen
        BY <1>1, <2>2, <2>3, <2>12, <4>1 DEF Unseen
      <4> QED  BY <2>2, <2>3, <4>1, <4>2, <1>1 DEF Unseen
    <3> QED  BY <2>3, <3>1, <3>2
  <2>13. NoRepeatWithoutOverlap'
    BY <1>1, <2>12 DEF DeskInv, NoRepeatWithoutOverlap, InLibraryCount, LastGateDirection
  <2> QED  BY <2>10, <2>11, <2>13 DEF DeskInv
<1> QED  BY <1>2, <1>3 DEF CreateReminder, Lost

LEMMA LoanMovesInv ==
  ASSUME DeskInv, NEW l \in DueLoanIds, LoanMoves(l)
  PROVE  DeskInv'
<1>1. dueState \in [DueLoanIds -> DueStates]
  BY DEF DeskInv, FrontDeskTypeOK
<1>2. dueState' \in [DueLoanIds -> DueStates]
  BY <1>1 DEF LoanMoves, DueStates
<1>3. UNCHANGED <<pc, req, gateLog, favorites, toggles, notices>>
  BY DEF LoanMoves
<1>4. FrontDeskTypeOK'
  BY <1>2, <1>3 DEF DeskInv, FrontDeskTypeOK
<1>5. ASSUME NEW g \in Handlers
      PROVE  LocalOK(g)'
  <2>1. /\ Grown(gateLog, gateLog', Passage) /\ Grown(toggles, toggles', Toggle)
        /\ Grown(notices, notices', Notice)
    BY <1>3 DEF Grown
  <2> QED  BY <1>3, <2>1, LocalStays
<1>6. LastRows' /\ NoRepeatWithoutOverlap'
  BY <1>3 DEF DeskInv, LastRows, NoRepeatWithoutOverlap, InLibraryCount, LastGateDirection
<1>7. req' = [g \in Handlers |-> req'[g]]
  BY <1>3 DEF DeskInv
<1> QED  BY <1>4, <1>5, <1>6, <1>7 DEF DeskInv

----------------------------------------------------------------------------
(* The theorems. *)

LEMMA DeskInvInit == FrontDeskInit => DeskInv
<1> SUFFICES ASSUME FrontDeskInit
             PROVE  DeskInv
  OBVIOUS
<1>1. /\ gateLog = <<>> /\ toggles = <<>> /\ notices = <<>> /\ favorites = {}
      /\ pc = [h \in Handlers |-> "idle"] /\ req = [h \in Handlers |-> NoReq]
      /\ dueState = [l \in DueLoanIds |-> "later"]
  BY DEF FrontDeskInit
<1>2. FrontDeskTypeOK
  BY <1>1 DEF FrontDeskTypeOK, DueStates
<1>3. \A h \in Handlers : LocalOK(h)
  BY <1>1 DEF LocalOK
<1>4. \A p : RowsOf(gateLog, p) = {} /\ RowsOf(toggles, p) = {}
  BY <1>1 DEF RowsOf
<1>5. LastRows
  BY <1>1, <1>4 DEF LastRows
<1>6. Alternate(gateLog, "in") /\ Alternate(toggles, "add")
  BY <1>1 DEF Alternate
<1>7. InLibraryCount = 0
  <2>1. \A p \in Readers : LastGateDirection(p) = Nobody
    BY <1>4 DEF LastGateDirection
  <2>2. {p \in Readers : LastGateDirection(p) = "in"} = {}
    BY <2>1, FrontDeskAssumption
  <2> QED  BY <2>2, FS_EmptySet DEF InLibraryCount
<1>8. \A what : {j \in DOMAIN gateLog : gateLog[j].what = what} = {}
  BY <1>1
<1>9. NoRepeatWithoutOverlap
  <2>1. Cardinality({}) = 0
    BY FS_EmptySet
  <2> QED  BY <1>1, <1>6, <1>7, <1>8, <2>1 DEF NoRepeatWithoutOverlap
<1>10. req = [h \in Handlers |-> req[h]]
  BY <1>1
<1> QED  BY <1>2, <1>3, <1>5, <1>9, <1>10 DEF DeskInv

LEMMA DeskInvNext == DeskInv /\ [FrontDeskNext]_frontDeskVars => DeskInv'
<1> SUFFICES ASSUME DeskInv, [FrontDeskNext]_frontDeskVars
             PROVE  DeskInv'
  OBVIOUS
<1>1. ASSUME NEW h \in Handlers, Drop(h)
      PROVE  DeskInv'
  BY <1>1, Finishes DEF Drop
<1>2. CASE GateNext
  BY <1>1, <1>2, GateScanInv, InsertGateLogInv DEF GateNext
<1>3. CASE FavoritesNext
  BY <1>1, <1>3, ToggleFavoriteInv, WriteFavoriteInv DEF FavoritesNext
<1>4. CASE RemindersNext
  <2>1. ASSUME NEW h \in Handlers, RemindersDone(h)
        PROVE  DeskInv'
    BY <2>1, Finishes DEF RemindersDone
  <2> QED  BY <1>1, <1>4, <2>1, CheckDueLoansNowInv, RemindInv, CreateReminderInv, LoanMovesInv
           DEF RemindersNext
<1>5. CASE UNCHANGED frontDeskVars
  <2>1. UNCHANGED <<pc, req, gateLog, favorites, toggles, dueState, notices>>
    BY <1>5 DEF frontDeskVars
  <2>2. FrontDeskTypeOK'
    BY <2>1 DEF DeskInv, FrontDeskTypeOK
  <2>3. ASSUME NEW g \in Handlers
        PROVE  LocalOK(g)'
    <3>1. /\ Grown(gateLog, gateLog', Passage) /\ Grown(toggles, toggles', Toggle)
          /\ Grown(notices, notices', Notice)
      BY <2>1 DEF Grown
    <3> QED  BY <2>1, <3>1, LocalStays
  <2>4. LastRows' /\ NoRepeatWithoutOverlap'
    BY <2>1 DEF DeskInv, LastRows, NoRepeatWithoutOverlap, InLibraryCount, LastGateDirection
  <2>5. req' = [g \in Handlers |-> req'[g]]
    BY <2>1 DEF DeskInv
  <2> QED  BY <2>2, <2>3, <2>4, <2>5 DEF DeskInv
<1> QED  BY <1>2, <1>3, <1>4, <1>5 DEF FrontDeskNext

LEMMA DeskInvariant == FrontDeskSpec => []DeskInv
BY DeskInvInit, DeskInvNext, PTL DEF FrontDeskSpec

\* Whoever scans, toggles or reminds at the same time, and whatever is cut
\* short: what is written twice is written by requests that overlapped, and
\* without such the count of the readers inside is right.
THEOREM RepeatsComeOfOverlap == FrontDeskSpec => []NoRepeatWithoutOverlap
<1>1. DeskInv => NoRepeatWithoutOverlap
  BY DEF DeskInv
<1> QED  BY <1>1, DeskInvariant, PTL

\* Whatever overlaps and whatever fails, no loan drops out of a run of the
\* reminders: it is before the run, in hand, reminded, or its INSERT failed.
THEOREM NoLoanForgotten == FrontDeskSpec => []DueLoansReminded
<1>1. DeskInv => DueLoansReminded
  BY DEF DeskInv, LocalOK, DueLoansReminded, Accounted
<1> QED  BY <1>1, DeskInvariant, PTL
=============================================================================
