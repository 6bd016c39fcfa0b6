---------------------------- MODULE MCCirculation ----------------------------
(* Small instances of Circulation for TLC. *)
EXTENDS Circulation, TLC

CONSTANTS p1, p2, b1, c1, c2, h1, h2

\* One book with two copies; the second copy takes the default loan period.
OneBook == [c \in Copies |-> b1]
Durations == [c \in Copies |-> IF c = c1 THEN 1 ELSE 0]

\* Two copies alike, so that they can be permuted as well.
SameDurations == [c \in Copies |-> 0]

\* The copies of a book bear the same barcode number: on SQLite a copy is
\* added under the number of one that was deleted.  (No other run adds
\* copies.)
SameNumber == [c \in Copies |-> 1]

Symmetry == Permutations(Patrons) \cup Permutations(Handlers)
CopySymmetry == Symmetry \cup Permutations(Copies)
==============================================================================
