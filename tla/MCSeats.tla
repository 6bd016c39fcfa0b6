------------------------------- MODULE MCSeats -------------------------------
(* Small instances of Seats for TLC. *)
EXTENDS Seats, TLC

CONSTANTS p1, p2, s1, s2, h1, h2

Symmetry == Permutations(Patrons) \cup Permutations(SeatNos) \cup Permutations(Handlers)
=============================================================================
