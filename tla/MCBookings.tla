----------------------------- MODULE MCBookings -----------------------------
(***************************************************************************)
(* Instances of Bookings for TLC: a listing l1 that already has bookings   *)
(* and a listing l2 that has none, two handlers, and up to three days, so  *)
(* that two bookings can be disjoint, adjacent (the last day of one is the *)
(* first of the other), nested or equal.                                   *)
(***************************************************************************)
EXTENDS Bookings, TLC

CONSTANTS l1, l2, owner, hirer, h1, h2

MCOwnerOf == [l \in Listings |-> owner]
MCSymmetry == Permutations(Handlers)

Rejected == [listing |-> l1, hirer |-> hirer, start |-> 1, end |-> 2,
             status |-> "rejected"]

\* Legacy rows that are already rejected: they block no day, but give every
\* create of their listing a row to lock.  With two of them, two creates can
\* each lock one and wait for the other.
MCSeed == [b \in {1} |-> Rejected]
MCTwoSeeds == [b \in {1, 2} |-> Rejected]
MCNoSeed == [b \in {} |-> Rejected]

=============================================================================
