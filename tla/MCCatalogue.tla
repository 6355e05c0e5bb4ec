---------------------------- MODULE MCCatalogue ----------------------------
(***************************************************************************)
(* An instance of Catalogue for TLC: three listings at two distances for a *)
(* search of the nearest two, and one photo whose address expires after    *)
(* one tick of three.                                                      *)
(***************************************************************************)
EXTENDS Catalogue, TLC

CONSTANTS l1, l2, l3, i1

MCSymmetry == Permutations(Ids)

=============================================================================
