------------------------------ MODULE Regions ------------------------------
(***************************************************************************)
(* The region vocabulary (package region): a manifest is a sequence of     *)
(* regions, each with a slug and a sequence of town names.  Parse refuses  *)
(* a manifest that names a town twice, and Resolve takes the first region, *)
(* in file order, that has the town.                                       *)
(***************************************************************************)
EXTENDS Naturals, Functions

CONSTANT NoRegion   \* the empty slug: a town outside every region

Positions(m) == UNION {{i} \X DOMAIN m[i].towns : i \in DOMAIN m}
TownAt(m, p) == m[p[1]].towns[p[2]]
Having(m, town) == {i \in DOMAIN m : \E j \in DOMAIN m[i].towns : m[i].towns[j] = town}

\* Mutant: looks for a duplicate only inside one region.
uniqueWithinRegions(m) == \A p, q \in Positions(m) :
    p[1] = q[1] /\ TownAt(m, p) = TownAt(m, q) => p = q

\* ensureUniqueTowns counts every occurrence of a town, two in one region too.
ensureUniqueTowns(m) == \A p, q \in Positions(m) :
    TownAt(m, p) = TownAt(m, q) => p = q

\* Parse returns an error for any other manifest, and MustLoad then panics.
Parses(m) == ensureUniqueTowns(m)

Resolve(m, town) ==
    IF Having(m, town) = {} THEN NoRegion
    ELSE m[CHOOSE i \in Having(m, town) : \A j \in Having(m, town) : i <= j].slug

\* The manifests that list the regions of m in any order.
Reorderings(m) == {[i \in DOMAIN m |-> m[p[i]]] : p \in Bijection(DOMAIN m, DOMAIN m)}

=============================================================================
