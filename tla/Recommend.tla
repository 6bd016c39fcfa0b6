------------------------------- MODULE Recommend -------------------------------
(***************************************************************************)
(* RecommendForPatron (service/recommend.go): five queries in a row, of    *)
(* which three (the history, the other readers, the hot list) may fail     *)
(* without the request failing, while readers go on borrowing and          *)
(* returning between them.                                                 *)
(*                                                                         *)
(* Every book has one copy, so that what is on the shelf is a set of       *)
(* books.  A book is borrowed at most once by each reader.                 *)
(***************************************************************************)
EXTENDS Integers, FiniteSets, Sequences, Requests

CONSTANTS
  Questioners, \* the handlers that recommend; each works for itself alone
  Patrons,    \* the readers; the requests are those of one of them
  Reader,     \* that one
  Biblios,    \* the books, 1..n
  Subjects,   \* the keywords of each book
  Author,     \* its author, "" for none
  Tastes,     \* what may be asked for: sets of keywords
  Limits,     \* how many books may be asked for
  MaxLends    \* bound: loans ever made

ASSUME RecommendAssumption ==
  /\ Questioners \subseteq Handlers
  /\ Reader \in Patrons /\ IsFiniteSet(Patrons)
  /\ IsFiniteSet(Biblios) /\ Biblios = 1..Cardinality(Biblios)
  /\ \A b \in Biblios : IsFiniteSet(Subjects[b])
  /\ DOMAIN Subjects = Biblios /\ DOMAIN Author = Biblios
  /\ Limits \subseteq Int /\ MaxLends \in Nat

VARIABLES
  reading,   \* who ever borrowed which book, as pairs
  shelf      \* the books that can be borrowed now

recommendVars == <<pc, req, reading, shelf>>

ReadBy(p) == {b \in Biblios : <<p, b>> \in reading}

RecommendTypeOK ==
  /\ pc \in [Handlers -> {"idle", "history", "signals", "books", "counts", "hot", "recommended"}]
  /\ reading \subseteq Patrons \X Biblios /\ Cardinality(reading) <= MaxLends
  /\ shelf \subseteq Biblios

----------------------------------------------------------------------------
(* The scores.  mine: what the reader has borrowed; all: who has borrowed   *)
(* what, as far as the request knows.                                       *)

Clamp(limit) == IF limit <= 0 THEN 5 ELSE IF limit > 20 THEN 20 ELSE limit

\* The sum of the values of a function.
Total(f) == Cardinality(UNION {{x} \X (1..f[x]) : x \in DOMAIN f})

\* The weight of a keyword or an author: one for every book of the history,
\* three for the taste.
Interest(k, mine, taste) ==
  Cardinality({b \in mine : k \in Subjects[b]})
    + Cardinality({b \in mine : k = Author[b] /\ k # ""})
    + IF k \in taste THEN 3 ELSE 0

\* What one reader with some of the same books adds to the others of his
\* books: 20 times the Jaccard similarity, rounded down.  (Less than 0.05
\* would add nothing.)
Similarity(mine, theirs) ==
  (20 * Cardinality(mine \cap theirs)) \div Cardinality(mine \cup theirs)

Peers(b, mine, all) ==
  {p \in Patrons \ {Reader} :
     /\ <<p, b>> \in all
     /\ \E c \in mine : <<p, c>> \in all}

simScore(b, mine, all) ==
  Total([p \in Peers(b, mine, all) |-> Similarity(mine, {c \in Biblios : <<p, c>> \in all})])

coScore(b, mine, all) == Cardinality(Peers(b, mine, all))

Score(b, r, available) ==
  Total([k \in Subjects[b] |-> Interest(k, r.mine, r.taste)])
    + (IF Author[b] = "" THEN 0 ELSE 2 * Interest(Author[b], r.mine, r.taste))
    + 2 * simScore(b, r.mine, r.all) + coScore(b, r.mine, r.all)
    + IF b \in available THEN 2 ELSE 0

\* Books with the same points keep the order of their ids.
Before(b, c, points) == points[b] > points[c] \/ (points[b] = points[c] /\ b < c)

Place(b, books, points) == Cardinality({c \in books : Before(c, b, points)}) + 1

\* A list of all the books, in descending order of their points.
InOrder(books, points, hot) ==
  [i \in 1..Cardinality(books) |->
     LET b == CHOOSE c \in books : Place(c, books, points) = i
     IN [book |-> b, score |-> points[b], hot |-> hot]]

\* The candidates in the order of their scores.
Ranked(r, available) ==
  LET S == [b \in Biblios |-> Score(b, r, available)]
  IN InOrder({b \in Biblios \ r.mine : S[b] > 0}, S, FALSE)

BorrowCount == [b \in Biblios |-> Cardinality({p \in Patrons : <<p, b>> \in reading})]

\* The most borrowed books, as many as n.
TopBorrowed(n) ==
  LET borrowed == {b \in Biblios : BorrowCount[b] > 0}
  IN {b \in borrowed : Place(b, borrowed, BorrowCount) <= n}

BooksOf(list) == {list[i].book : i \in DOMAIN list}

\* The first n of a list behind another one.
Behind(list, n, more) == list \o SubSeq(more, 1, IF n < Len(more) THEN n ELSE Len(more))

\* Filling up without looking at what the reader knows.
FillUpAnyway(list, hot, r) ==
  Behind(list, r.limit - Len(list), InOrder(hot \ BooksOf(list), BorrowCount, TRUE))

\* Filling up with the hot books that are neither known to the reader nor
\* listed already, up to the limit.
FillUp(list, hot, r) ==
  Behind(list, r.limit - Len(list), InOrder(hot \ (r.mine \cup BooksOf(list)), BorrowCount, TRUE))

----------------------------------------------------------------------------
(* The request. *)

\* handleRecommend, recommend_books, mockRecommend.
Recommend(h, taste, limit) ==
  /\ Begin(h, "history", [op |-> "recommend", taste |-> taste, limit |-> Clamp(limit),
                          had |-> ReadBy(Reader), blind |-> FALSE, mine |-> {}, all |-> {},
                          list |-> <<>>])
  /\ UNCHANGED <<reading, shelf>>

\* BorrowedBiblios; an error leaves the history empty.
ReadHistory(h) ==
  /\ pc[h] = "history"
  /\ \E failed \in BOOLEAN :
       Goto(h, "signals", [req[h] EXCEPT !.mine = IF failed THEN {} ELSE ReadBy(Reader),
                                         !.blind = failed])
  /\ UNCHANGED <<reading, shelf>>

\* AllReading; an error leaves the readers alike out.
ReadSignals(h) ==
  /\ pc[h] = "signals"
  /\ \E all \in {reading, {}} : Goto(h, "books", [req[h] EXCEPT !.all = all])
  /\ UNCHANGED <<reading, shelf>>

\* SearchBooks and AllItemCounts, either of which may end the request; then
\* the ranking, and whether it has to be filled up.
Rank(h) ==
  /\ pc[h] = "books"
  /\ \/ Finish(h)
     \/ LET list == Ranked(req[h], shelf)
        IN IF Len(list) < req[h].limit
           THEN Goto(h, "hot", [req[h] EXCEPT !.list = list])
           ELSE Goto(h, "recommended", [req[h] EXCEPT !.list = SubSeq(list, 1, req[h].limit)])
  /\ UNCHANGED <<reading, shelf>>

\* TopBorrowed, or nothing when it fails.
AddHot(h) ==
  /\ pc[h] = "hot"
  /\ \E hot \in {TopBorrowed(2 * req[h].limit), {}} :
       Goto(h, "recommended", [req[h] EXCEPT !.list = FillUp(@, hot, req[h])])
  /\ UNCHANGED <<reading, shelf>>

Recommended(h) ==
  /\ pc[h] = "recommended"
  /\ Finish(h)
  /\ UNCHANGED <<reading, shelf>>

\* Meanwhile, books are lent and come back.
Lend(p, b) ==
  /\ b \in shelf /\ <<p, b>> \notin reading /\ Cardinality(reading) < MaxLends   \* bound
  /\ reading' = reading \cup {<<p, b>>} /\ shelf' = shelf \ {b}
  /\ UNCHANGED <<pc, req>>

BringBack(b) ==
  /\ b \notin shelf
  /\ shelf' = shelf \cup {b}
  /\ UNCHANGED <<pc, req, reading>>

RecommendInit ==
  /\ pc = [h \in Handlers |-> "idle"] /\ req = [h \in Handlers |-> NoReq]
  /\ reading = {} /\ shelf = Biblios

RecommendNext ==
  \/ \E h \in Questioners :
       \/ \E taste \in Tastes, limit \in Limits : Recommend(h, taste, limit)
       \/ ReadHistory(h) \/ ReadSignals(h) \/ Rank(h) \/ AddHot(h) \/ Recommended(h)
  \/ \E b \in Biblios : BringBack(b) \/ \E p \in Patrons : Lend(p, b)

RecommendSpec == RecommendInit /\ [][RecommendNext]_recommendVars

----------------------------------------------------------------------------
\* "候选排除读者已借过的书": whatever was borrowed, and whichever query failed,
\* between the five queries, the list has no book twice, none the reader had
\* borrowed before the question (unless the history could not be read), no
\* more than were asked for; what suits the reader comes before what is
\* merely borrowed much, each in descending order.
FreshRecommendations ==
  \A h \in Handlers : pc[h] = "recommended" =>
    LET r == req[h]  list == r.list IN
    /\ Len(list) <= r.limit
    /\ ~ r.blind => BooksOf(list) \cap r.had = {}
    /\ \A i, j \in DOMAIN list : i < j =>
         /\ list[i].book # list[j].book
         /\ list[i].hot => list[j].hot
         /\ list[i].hot = list[j].hot => list[i].score >= list[j].score
=============================================================================
