------------------------------ MODULE MCChats ------------------------------
(***************************************************************************)
(* Instances of Chats for TLC: an owner with two listings, so that a chat  *)
(* can change its subject while a listing is destroyed, a hirer, and two   *)
(* handlers.                                                               *)
(***************************************************************************)
EXTENDS Chats, TLC

CONSTANTS l1, l2, owner, hirer, h1, h2

MCOwnerOf == [l \in Listings |-> owner]
MCSymmetry == Permutations(Handlers)
MCListingSymmetry == Permutations(Handlers) \cup Permutations(Listings)

MCNoSeed == [c \in {} |-> 0]

\* A chat about a booking, as Rails opens them.
MCSeed == [c \in {1} |->
    [hirer |-> hirer, owner |-> owner, listing |-> l1, booked |-> TRUE,
     lastAt |-> 0, last |-> 0]]

=============================================================================
