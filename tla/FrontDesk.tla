------------------------------ MODULE FrontDesk ------------------------------
(***************************************************************************)
(* Three small services that look first and write afterwards, in a         *)
(* statement of its own: the gate (service/gate.go), the favourites        *)
(* (service/social.go) and the reminders of due loans (service/tasks.go).  *)
(*                                                                         *)
(* Nothing but the look keeps them from writing the same thing twice, so   *)
(* every row written keeps, as history, how many rows its request had      *)
(* seen (none, when its look had failed): what two requests that do not    *)
(* overlap write is then told from what two overlapping ones may.          *)
(***************************************************************************)
EXTENDS Integers, FiniteSets, Sequences, Requests

CONSTANTS
  Readers,   \* the readers at the gate
  DueLoanIds, \* the loans that may become due
  MaxRows    \* bound: rows of all three services together

ASSUME FrontDeskAssumption == Nobody \notin {"in", "out"} /\ IsFiniteSet(Readers)

VARIABLES
  gateLog,     \* the gate_logs table
  favorites,   \* the readers who have the book among their favourites
  toggles,     \* history: the INSERTs and DELETEs on favorites
  dueState,    \* what today's date says of each loan
  notices      \* the reminders among the notifications

frontDeskVars == <<pc, req, gateLog, favorites, toggles, dueState, notices>>

DueStates == {"later", "due", "overdue", "returned"}

Passage == [who: Readers, what: {"in", "out"}, seen: Nat]
Toggle == [who: Readers, what: {"add", "remove"}, seen: Nat]
Notice == [loan: DueLoanIds, type: {"due", "overdue"}, seen: Nat]

Rows == Len(gateLog) + Len(toggles) + Len(notices)

FrontDeskTypeOK ==
  /\ pc \in [Handlers -> {"idle", "passage", "toggle", "remind", "notify"}]
  /\ gateLog \in Seq(Passage) /\ toggles \in Seq(Toggle) /\ notices \in Seq(Notice)
  /\ favorites \subseteq Readers /\ dueState \in [DueLoanIds -> DueStates]

----------------------------------------------------------------------------
(* The gate. *)

RowsOf(log, who) == {i \in DOMAIN log : log[i].who = who}

\* LastGateDirection: the newest row of the reader, none without one.
LastGateDirection(p) ==
  IF RowsOf(gateLog, p) = {} THEN Nobody
  ELSE gateLog[CHOOSE i \in RowsOf(gateLog, p) : \A j \in RowsOf(gateLog, p) : j <= i].what

\* Counting the rows that let somebody in.
InLibraryEver == Cardinality({p \in Readers : \E i \in RowsOf(gateLog, p) : gateLog[i].what = "in"})

\* InLibraryCount: the readers whose newest row let them in.
InLibraryCount == Cardinality({p \in Readers : LastGateDirection(p) = "in"})

\* Leaving is never refused.
GateScanOut(h, p, direction) ==
  /\ direction = "in" => LastGateDirection(p) # "in"
  /\ Begin(h, "passage", [op |-> "gate", who |-> p, what |-> direction, seen |-> Len(gateLog)])
  /\ UNCHANGED <<gateLog, favorites, toggles, dueState, notices>>

\* GateScan: only those outside may enter, only those inside may leave.
GateScan(h, p, direction) ==
  /\ direction = "in" <=> LastGateDirection(p) # "in"
  /\ Begin(h, "passage", [op |-> "gate", who |-> p, what |-> direction, seen |-> Len(gateLog)])
  /\ UNCHANGED <<gateLog, favorites, toggles, dueState, notices>>

\* InsertGateLog.  (The warnings and the number of readers inside are read
\* afterwards; they change nothing.)
InsertGateLog(h) ==
  /\ pc[h] = "passage" /\ Rows < MaxRows   \* bound
  /\ gateLog' = Append(gateLog, [who |-> req[h].who, what |-> req[h].what, seen |-> req[h].seen])
  /\ Finish(h)
  /\ UNCHANGED <<favorites, toggles, dueState, notices>>

----------------------------------------------------------------------------
(* Favourites. *)

\* ToggleFavorite: IsFavorite decides what the second statement will be; when
\* it fails the answer is no.
ToggleFavorite(h, p) ==
  /\ \E failed \in BOOLEAN :
       Begin(h, "toggle", [op |-> "favorite", who |-> p, seen |-> IF failed THEN 0 ELSE Len(toggles),
                           what |-> IF p \in favorites /\ ~ failed THEN "remove" ELSE "add"])
  /\ UNCHANGED <<gateLog, favorites, toggles, dueState, notices>>

\* AddFavorite (INSERT OR IGNORE) or RemoveFavorite, whatever is there by now.
WriteFavorite(h) ==
  /\ pc[h] = "toggle" /\ Rows < MaxRows   \* bound
  /\ favorites' = IF req[h].what = "add" THEN favorites \cup {req[h].who}
                  ELSE favorites \ {req[h].who}
  /\ toggles' = Append(toggles, [who |-> req[h].who, what |-> req[h].what, seen |-> req[h].seen])
  /\ Finish(h)
  /\ UNCHANGED <<gateLog, dueState, notices>>

----------------------------------------------------------------------------
(* Reminders. *)

\* DueLoans: the loans not returned whose day has come, with what they are told.
DueLoans == {[loan |-> l, type |-> dueState[l]] : l \in {k \in DueLoanIds : dueState[k] \in {"due", "overdue"}}}

Reminded(d) == \E i \in DOMAIN notices : notices[i].loan = d.loan /\ notices[i].type = d.type

\* Looking for a reminder of the loan, of whichever kind.
ExistsByLoan(d) == \E i \in DOMAIN notices : notices[i].loan = d.loan

\* NotificationExistsByRef: a reminder of this kind, for this loan.
NotificationExistsByRef(d) == Reminded(d)

\* CheckDueLoansNow: the list it works through, in whatever order.  (list and
\* lost are history: what it found, and the loans whose INSERT failed.)
CheckDueLoansNow(h) ==
  /\ Begin(h, "remind", [op |-> "remind", list |-> DueLoans, todo |-> DueLoans, lost |-> {},
                         loan |-> Nobody, type |-> "due", seen |-> 0])
  /\ UNCHANGED <<gateLog, favorites, toggles, dueState, notices>>

\* The next loan of the list: skipped when a reminder of its kind is there.
\* When the query fails the answer is no.
Remind(h) ==
  /\ pc[h] = "remind"
  /\ \E d \in req[h].todo, failed \in BOOLEAN :
       IF NotificationExistsByRef(d) /\ ~ failed
       THEN Goto(h, "remind", [req[h] EXCEPT !.todo = @ \ {d}])
       ELSE Goto(h, "notify", [req[h] EXCEPT !.todo = @ \ {d}, !.loan = d.loan, !.type = d.type,
                                             !.seen = IF failed THEN 0 ELSE Len(notices)])
  /\ UNCHANGED <<gateLog, favorites, toggles, dueState, notices>>

InHand(r) == [loan |-> r.loan, type |-> r.type]

\* CreateNotification.  When it fails there is a line in the log, and the run
\* goes on with the next loan all the same.
CreateReminder(h) ==
  /\ pc[h] = "notify"
  /\ \/ /\ Rows < MaxRows   \* bound
        /\ notices' = Append(notices, [loan |-> req[h].loan, type |-> req[h].type,
                                       seen |-> req[h].seen])
        /\ Goto(h, "remind", req[h])
     \/ /\ UNCHANGED notices
        /\ Goto(h, "remind", [req[h] EXCEPT !.lost = @ \cup {InHand(req[h])}])
  /\ UNCHANGED <<gateLog, favorites, toggles, dueState>>

RemindersDone(h) ==
  /\ pc[h] = "remind" /\ req[h].todo = {}
  /\ Finish(h)
  /\ UNCHANGED <<gateLog, favorites, toggles, dueState, notices>>

----------------------------------------------------------------------------
(* The days, the desk and the process. *)

\* A loan gets due, or late, or is returned.
LoanMoves(l) ==
  /\ \/ dueState[l] = "later" /\ dueState' = [dueState EXCEPT ![l] = "due"]
     \/ dueState[l] = "due" /\ dueState' = [dueState EXCEPT ![l] = "overdue"]
     \/ dueState[l] # "returned" /\ dueState' = [dueState EXCEPT ![l] = "returned"]
  /\ UNCHANGED <<pc, req, gateLog, favorites, toggles, notices>>

\* The process stops, or a statement fails, before the row is written.
Drop(h) ==
  /\ pc[h] # "idle"
  /\ Finish(h)
  /\ UNCHANGED <<gateLog, favorites, toggles, dueState, notices>>

FrontDeskInit ==
  /\ pc = [h \in Handlers |-> "idle"] /\ req = [h \in Handlers |-> NoReq]
  /\ gateLog = <<>> /\ favorites = {} /\ toggles = <<>>
  /\ dueState = [l \in DueLoanIds |-> "later"] /\ notices = <<>>

GateNext ==
  \E h \in Handlers :
    \/ \E p \in Readers, d \in {"in", "out"} : GateScan(h, p, d)
    \/ InsertGateLog(h) \/ Drop(h)

FavoritesNext ==
  \E h \in Handlers :
    \/ \E p \in Readers : ToggleFavorite(h, p)
    \/ WriteFavorite(h) \/ Drop(h)

RemindersNext ==
  \/ \E h \in Handlers :
       CheckDueLoansNow(h) \/ Remind(h) \/ CreateReminder(h) \/ RemindersDone(h) \/ Drop(h)
  \/ \E l \in DueLoanIds : LoanMoves(l)

FrontDeskNext == GateNext \/ FavoritesNext \/ RemindersNext

FrontDeskSpec == FrontDeskInit /\ [][FrontDeskNext]_frontDeskVars

----------------------------------------------------------------------------
(* What must hold. *)

\* The rows of one reader alternate, starting with the first of the two,
\* unless the later request had not seen the earlier row.
Alternate(log, first) ==
  \A j \in DOMAIN log :
    LET earlier == {i \in RowsOf(log, log[j].who) : i < j}
    IN \/ earlier = {} /\ log[j].what = first
       \/ \E i \in earlier :
            /\ \A k \in earlier : k <= i
            /\ log[i].what # log[j].what \/ log[j].seen < i

\* Nothing is written twice by requests that follow one another: a reader
\* enters, then leaves; a book gets a favourite, then is none; a loan is
\* reminded of once when it is due and once when it is late.  The number of
\* readers inside is then those who entered less those who left.
NoRepeatWithoutOverlap ==
  /\ Alternate(gateLog, "in")
  /\ Alternate(toggles, "add")
  /\ \A i, j \in DOMAIN notices :
       i < j /\ notices[i].loan = notices[j].loan /\ notices[i].type = notices[j].type
         => notices[j].seen < i
  /\ (\A j \in DOMAIN gateLog : gateLog[j].seen = j - 1) =>
       InLibraryCount = Cardinality({j \in DOMAIN gateLog : gateLog[j].what = "in"})
                        - Cardinality({j \in DOMAIN gateLog : gateLog[j].what = "out"})

\* A run of the reminders leaves out no loan that was due when it began, what
\* was notified before and whoever else reminds meanwhile: each one has the
\* reminder of its kind, is still before the run, or met an INSERT that
\* failed.  (Those are not tried again: the run of an hour later finds them.)
DueLoansReminded ==
  \A h \in Handlers : pc[h] \in {"remind", "notify"} =>
    \A d \in req[h].list \ (req[h].todo \cup req[h].lost) :
      Reminded(d) \/ (pc[h] = "notify" /\ d = InHand(req[h]))
=============================================================================
