----------------------------- MODULE MCListings -----------------------------
(***************************************************************************)
(* Instances of Listings for TLC: a town of one of two regions and a town  *)
(* outside both, two handlers, and beside the manifest with these regions  *)
(* two that Parse refuses, for a town in both and for one listed twice.    *)
(* Overlapping updates are told apart by the town; the other columns have  *)
(* one value there, and two where Destroy is followed.                     *)
(***************************************************************************)
EXTENDS Listings, TLC

CONSTANTS l1, l2, h1, h2, coast, bush, r1, r2

MCSymmetry == Permutations(Handlers)

MCRegion(slug, towns) == [slug |-> slug, towns |-> towns]

MCManifests == {
    <<MCRegion(r1, <<>>), MCRegion(r2, <<coast>>)>>,
    <<MCRegion(r1, <<coast>>), MCRegion(r2, <<coast>>)>>,
    <<MCRegion(r1, <<coast, coast>>), MCRegion(r2, <<bush>>)>>}

=============================================================================
