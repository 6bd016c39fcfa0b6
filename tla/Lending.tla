------------------------------- MODULE Lending -------------------------------
(***************************************************************************)
(* What circulation promises its readers, with no tables, statements or    *)
(* handlers: every copy of the library is with at most one borrower, only  *)
(* a copy in stock is lent, no borrower holds more copies than allowed,    *)
(* and a copy reaches its next borrower only by way of the shelf.          *)
(* Circulation over SQLite implements this specification.                  *)
(***************************************************************************)
EXTENDS Integers, FiniteSets

CONSTANTS Patrons, Copies, Nobody, InitialCopies, MaxActiveLoans

VARIABLES
  stock,       \* "new", "held" or "gone": is the copy in the library's books?
  borrower,    \* who has each copy, or Nobody
  privileged   \* the patrons who have been VIP

vars == <<stock, borrower, privileged>>

LentTo(p) == {c \in Copies : borrower[c] = p}

Allowance(p) == IF p \in privileged THEN MaxActiveLoans * 2 ELSE MaxActiveLoans

Init ==
  /\ stock = [c \in Copies |-> IF c \in InitialCopies THEN "held" ELSE "new"]
  /\ borrower = [c \in Copies |-> Nobody]
  /\ privileged = {}

Lend(c, p) ==
  /\ stock[c] = "held" /\ borrower[c] = Nobody
  /\ Cardinality(LentTo(p)) < Allowance(p)
  /\ borrower' = [borrower EXCEPT ![c] = p]
  /\ UNCHANGED <<stock, privileged>>

TakeBack(c) ==
  /\ borrower[c] # Nobody
  /\ borrower' = [borrower EXCEPT ![c] = Nobody]
  /\ UNCHANGED <<stock, privileged>>

Acquire(c) ==
  /\ stock[c] = "new"
  /\ stock' = [stock EXCEPT ![c] = "held"]
  /\ UNCHANGED <<borrower, privileged>>

\* Deleting a book strikes all its copies off at once.
StrikeOff(S) ==
  /\ \A c \in S : stock[c] = "held"
  /\ stock' = [c \in Copies |-> IF c \in S THEN "gone" ELSE stock[c]]
  /\ UNCHANGED <<borrower, privileged>>

Privilege(p) ==
  /\ privileged' = privileged \cup {p}
  /\ UNCHANGED <<stock, borrower>>

Next ==
  \/ \E c \in Copies : TakeBack(c) \/ Acquire(c) \/ \E p \in Patrons : Lend(c, p)
  \/ \E S \in SUBSET Copies : StrikeOff(S)
  \/ \E p \in Patrons : Privilege(p)

Spec == Init /\ [][Next]_vars
=============================================================================
