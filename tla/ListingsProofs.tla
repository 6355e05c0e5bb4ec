--------------------------- MODULE ListingsProofs ---------------------------
(***************************************************************************)
(* Proofs about Listings, for any number of listings, photos and handlers  *)
(* and any file the manifest may be.                                       *)
(***************************************************************************)
EXTENDS Listings, TLAPS

-----------------------------------------------------------------------------
(***************************************************************************)
(* Regions.  In a manifest that Parse accepts at most one region has a     *)
(* town, so that Resolve's choice by file order is no choice.              *)
(***************************************************************************)
\* Resolve gives a town the region that has it, whichever the file names first.
LEMMA ResolvesToItsRegion ==
    ASSUME NEW m, DOMAIN m \subseteq Nat, Parses(m), NEW town, NEW i \in Having(m, town)
    PROVE  Resolve(m, town) = m[i].slug
<1>1. ASSUME NEW k \in Having(m, town) PROVE k = i
  <2>1. PICK j \in DOMAIN m[i].towns : m[i].towns[j] = town
    BY DEF Having
  <2>2. PICK n \in DOMAIN m[k].towns : m[k].towns[n] = town
    BY DEF Having
  <2>3. <<i, j>> \in Positions(m) /\ <<k, n>> \in Positions(m)
    BY DEF Positions, Having
  <2>4. TownAt(m, <<i, j>>) = TownAt(m, <<k, n>>)
    BY <2>1, <2>2 DEF TownAt
  <2> QED BY <2>3, <2>4 DEF Parses, ensureUniqueTowns
<1>2. i \in Nat /\ Having(m, town) = {i}
  BY <1>1 DEF Having
<1> QED BY <1>2 DEF Resolve

\* What Resolve gives is a region of the manifest, or none.
LEMMA ResolvesToARegion ==
    ASSUME manifest \in Manifests, Parses(manifest), NEW town
    PROVE  Resolve(manifest, town) \in Slugs \cup {None}
<1>1. CASE Having(manifest, town) = {}
  BY <1>1 DEF Resolve
<1>2. ASSUME NEW i \in Having(manifest, town) PROVE Resolve(manifest, town) \in Slugs
  <2>1. Resolve(manifest, town) = manifest[i].slug
    BY ResolvesToItsRegion, ManifestsAssumption
  <2>2. i \in DOMAIN manifest
    BY DEF Having
  <2>3. manifest[i].slug \in {manifest[k].slug : k \in DOMAIN manifest}
    BY <2>2
  <2> QED BY <2>1, <2>3 DEF Slugs
<1> QED BY <1>1, <1>2

\* assignRegion keeps the columns it is given and sets the region of the town.
LEMMA AssignRegionRow ==
    ASSUME manifest \in Manifests, Parses(manifest),
           NEW row \in [town : Towns, rest : Rests, region : Slugs \cup {None}]
    PROVE  /\ assignRegion(row) \in Row
           /\ assignRegion(row).region = Resolve(manifest, assignRegion(row).town)
BY ResolvesToARegion DEF assignRegion, Row

\* Parse refuses a manifest "so a duplicate town can never resolve silently by file
\* order": of two that it accepts and that list the same regions, each in its own
\* order, Resolve gives a town the same region, or none in either.
THEOREM ResolvesInAnyOrder ==
    ASSUME NEW m, DOMAIN m \subseteq Nat, Parses(m),
           NEW n, DOMAIN n \subseteq Nat, Parses(n),
           {m[i] : i \in DOMAIN m} = {n[i] : i \in DOMAIN n},
           NEW town
    PROVE  Resolve(m, town) = Resolve(n, town)
<1>1. \A i \in Having(m, town) : \E k \in Having(n, town) : n[k] = m[i]
  BY DEF Having
<1>2. \A k \in Having(n, town) : \E i \in Having(m, town) : m[i] = n[k]
  BY DEF Having
<1>3. CASE Having(m, town) = {}
  BY <1>2, <1>3 DEF Resolve
<1>4. ASSUME NEW i \in Having(m, town) PROVE Resolve(m, town) = Resolve(n, town)
  <2>1. PICK k \in Having(n, town) : n[k] = m[i]
    BY <1>1
  <2>2. Resolve(m, town) = m[i].slug
    BY ResolvesToItsRegion
  <2>3. Resolve(n, town) = n[k].slug
    BY ResolvesToItsRegion
  <2> QED BY <2>1, <2>2, <2>3
<1> QED BY <1>3, <1>4

\* Parse does not look at the order of the regions.
LEMMA ReorderingsParse ==
    ASSUME NEW m, Parses(m), NEW n \in Reorderings(m) PROVE Parses(n)
<1>1. PICK p \in Bijection(DOMAIN m, DOMAIN m) : n = [i \in DOMAIN m |-> m[p[i]]]
  BY DEF Reorderings
<1>2. p \in [DOMAIN m -> DOMAIN m] /\ \A i, k \in DOMAIN m : p[i] = p[k] => i = k
  BY DEF Bijection, Injection, IsInjective
<1>3. DOMAIN n = DOMAIN m /\ \A i \in DOMAIN m : n[i] = m[p[i]]
  BY <1>1
<1>4. ASSUME NEW i \in DOMAIN n, NEW j \in DOMAIN n[i].towns,
             NEW k \in DOMAIN n, NEW l \in DOMAIN n[k].towns,
             n[i].towns[j] = n[k].towns[l]
      PROVE  i = k /\ j = l
  <2>1. <<p[i], j>> \in Positions(m) /\ <<p[k], l>> \in Positions(m)
    BY <1>2, <1>3 DEF Positions
  <2>2. TownAt(m, <<p[i], j>>) = TownAt(m, <<p[k], l>>)
    BY <1>3, <1>4 DEF TownAt
  <2>3. p[i] = p[k] /\ j = l
    BY <2>1, <2>2 DEF Parses, ensureUniqueTowns
  <2> QED BY <1>2, <1>3, <2>3
<1>5. ASSUME NEW q \in Positions(n)
      PROVE  \E i \in DOMAIN n : \E j \in DOMAIN n[i].towns : q = <<i, j>>
  BY DEF Positions
<1>6. ASSUME NEW q \in Positions(n), NEW r \in Positions(n), TownAt(n, q) = TownAt(n, r)
      PROVE  q = r
  <2>1. PICK i \in DOMAIN n : \E j \in DOMAIN n[i].towns : q = <<i, j>>
    BY <1>5
  <2>2. PICK j \in DOMAIN n[i].towns : q = <<i, j>>
    BY <2>1
  <2>3. PICK k \in DOMAIN n : \E l \in DOMAIN n[k].towns : r = <<k, l>>
    BY <1>5
  <2>4. PICK l \in DOMAIN n[k].towns : r = <<k, l>>
    BY <2>3
  <2>5. n[i].towns[j] = n[k].towns[l]
    BY <1>6, <2>2, <2>4 DEF TownAt
  <2> QED BY <1>4, <2>2, <2>4, <2>5
<1> QED BY <1>6 DEF Parses, ensureUniqueTowns

\* Nor does Resolve, in a manifest that Parse accepts.
LEMMA ReorderingsResolve ==
    ASSUME NEW m, DOMAIN m \subseteq Nat, Parses(m), NEW n \in Reorderings(m), NEW town
    PROVE  Resolve(n, town) = Resolve(m, town)
<1>1. PICK p \in Bijection(DOMAIN m, DOMAIN m) : n = [i \in DOMAIN m |-> m[p[i]]]
  BY DEF Reorderings
<1>2. /\ p \in [DOMAIN m -> DOMAIN m]
      /\ \A k \in DOMAIN m : \E i \in DOMAIN m : p[i] = k
  BY DEF Bijection, Surjection
<1>3. {n[i] : i \in DOMAIN n} = {m[i] : i \in DOMAIN m} /\ DOMAIN n = DOMAIN m
  BY <1>1, <1>2
<1> QED BY <1>3, ReorderingsParse, ResolvesInAnyOrder

-----------------------------------------------------------------------------
\* What a handler's transaction has put on disk or into the tables, or deleted.
Holds(h) == loc[h].done \cup ({loc[h].key} \ {0})

Uploading(h) == pc[h] \in {"write", "insert"}
Purging(h) == pc[h] \in {"purge", "unlink"}

\* A request is about a listing that was created, and holds photos only in a
\* transaction that inserts or deletes them.
PhasesOK == \A h \in Handlers :
    /\ pc[h] # "idle" => loc[h].listing \in created
    /\ loc[h].done # {} => Uploading(h) \/ Purging(h)
    /\ loc[h].key # 0 <=> pc[h] \in {"insert", "unlink"}
    /\ pc[h] = "unlink" => loc[h].key \in loc[h].done

\* An upload's files are there, and no committed row names or ever named them.
UploadsFresh == \A h \in Handlers :
    Uploading(h) => Holds(h) \subseteq files \ (DOMAIN photos \cup gone)

\* What a purge has deleted is still there for the others; what it has read and
\* not deleted is there or was deleted by another, and is its listing's.
PurgesKnown == \A h \in Handlers : Purging(h) =>
    /\ loc[h].done \subseteq DOMAIN photos
    /\ loc[h].todo \subseteq DOMAIN photos \cup gone
    /\ \A i \in (loc[h].todo \cup loc[h].done) \cap DOMAIN photos :
          photos[i] = loc[h].listing

HoldsDisjoint == \A g, h \in Handlers : g # h => Holds(g) \cap Holds(h) = {}

GoneForGood == gone \subseteq (1 .. uploaded) \ DOMAIN photos

Bookkeeping ==
    /\ TypeOK
    /\ created \subseteq Ids
    /\ uploaded \in 0 .. MaxPhotos
    /\ PhasesOK
    /\ UploadsFresh
    /\ PurgesKnown
    /\ HoldsDisjoint
    /\ GoneForGood

\* A file that a purge has not removed yet, or failed to remove.
PurgedFiles == \A h \in Handlers : Purging(h) =>
    loc[h].done \cap files \subseteq leaked \cup {loc[h].key}

\* Destroy has found every photo of its listing, but those of later uploads.
DestroySeesAll == \A h \in Handlers : Purging(h) /\ loc[h].whole =>
    PhotosOf(loc[h].listing) \ late \subseteq loc[h].todo \cup loc[h].done

\* The rows that handlers are about to write have the region of their town.
PendingRegions == \A h \in Handlers :
    loc[h].row # None => loc[h].row.region = Resolve(manifest, loc[h].row.town)

\* The row that an update is about to save has the columns it was not given as they
\* were read.
PendingUpdates == \A h \in Handlers : pc[h] = "save" =>
    \A f \in {"town", "rest"} \ loc[h].given : loc[h].row[f] = loc[h].read[f]

-----------------------------------------------------------------------------
\* The server starts with no request under way.
LEMMA BookkeepingInit == Init => Bookkeeping
BY PhotosAssumption DEF Init, Bookkeeping, TypeOK, PhasesOK, UploadsFresh, PurgesKnown,
   HoldsDisjoint, GoneForGood, Holds, NoLocals, Locals, Steps

\* The row that an update request is about to save is a listing's.
LEMMA UpdatedRow ==
    ASSUME manifest \in Manifests, listingService, NEW row \in Row, NEW p \in Params
    PROVE  assignRegion(applyUpdate(row, p)) \in Row
<1>1. applyUpdate(row, p) \in Row
  BY DEF applyUpdate, Row, Params
<1> QED BY <1>1, AssignRegionRow DEF Row, listingService

\* The locals a request starts with.
LEMMA NoLocalsTyped == NoLocals \in Locals
BY DEF NoLocals, Locals

\* Setting one local keeps the others.
LEMMA FieldTyped ==
    ASSUME NEW v \in Locals
    PROVE  /\ \A l \in Ids : [v EXCEPT !.listing = l] \in Locals
           /\ \A n \in 0 .. 2 : [v EXCEPT !.left = n] \in Locals
           /\ \A r \in Row : [v EXCEPT !.row = r] \in Locals
           /\ \A r \in Row : [v EXCEPT !.read = r] \in Locals
           /\ \A f \in SUBSET {"town", "rest"} : [v EXCEPT !.given = f] \in Locals
           /\ \A t \in SUBSET Photos : [v EXCEPT !.todo = t] \in Locals
           /\ [v EXCEPT !.whole = TRUE] \in Locals
<1>1. \A l \in Ids : [v EXCEPT !.listing = l] \in Locals
  BY DEF Locals
<1>2. \A n \in 0 .. 2 : [v EXCEPT !.left = n] \in Locals
  BY DEF Locals
<1>3. \A r \in Row : [v EXCEPT !.row = r] \in Locals
  BY DEF Locals
<1>4. \A r \in Row : [v EXCEPT !.read = r] \in Locals
  BY DEF Locals
<1>5. \A f \in SUBSET {"town", "rest"} : [v EXCEPT !.given = f] \in Locals
  BY DEF Locals
<1>6. \A t \in SUBSET Photos : [v EXCEPT !.todo = t] \in Locals
  BY DEF Locals
<1>7. [v EXCEPT !.whole = TRUE] \in Locals
  BY DEF Locals
<1> QED BY <1>1, <1>2, <1>3, <1>4, <1>5, <1>6, <1>7

\* Each step keeps the bookkeeping of every handler.
LEMMA BookkeepingStep == Bookkeeping /\ [Next]_vars => Bookkeeping'
<1> SUFFICES ASSUME Bookkeeping, [Next]_vars PROVE Bookkeeping'
  OBVIOUS
<1>0. manifest' = manifest
  BY DEF Next, vars
<1> USE <1>0, PhotosAssumption DEF Bookkeeping, Done, Goto, db, history
<1>1. ASSUME NEW h \in Handlers, NEW l \in Ids, NEW town \in Towns,
             NEW rest \in Rests, NEW n \in 1 .. 2, ListingsCreate(h, l, town, rest, n)
      PROVE  Bookkeeping'
  <2>1. \A g \in Handlers \ {h} : pc'[g] = pc[g] /\ loc'[g] = loc[g]
    BY <1>1 DEF ListingsCreate
  <2>2. assignRegion([town |-> town, rest |-> rest, region |-> None]) \in Row
    BY <1>1, AssignRegionRow DEF ListingsCreate, listingService, TypeOK
  <2>3. pc' \in [Handlers -> Steps] /\ loc' \in [Handlers -> Locals]
    <3> DEFINE a == [NoLocals EXCEPT !.listing = l]
               b == [a EXCEPT !.left = n]
               c == [b EXCEPT !.row =
                        assignRegion([town |-> town, rest |-> rest, region |-> None])]
    <3>1. a \in Locals
      BY NoLocalsTyped, FieldTyped
    <3>2. b \in Locals
      BY <3>1, FieldTyped, n \in 0 .. 2
    <3>3. c \in Locals
      BY <3>2, FieldTyped, <2>2
    <3>4. loc' = [loc EXCEPT ![h] = c]
      BY <1>1 DEF ListingsCreate
    <3> QED BY <1>1, <3>3 DEF ListingsCreate, TypeOK, Steps
  <2>4. \A g \in Handlers \ {h} : Holds(g)' = Holds(g)
    BY <2>1 DEF Holds
  <2>5. Holds(h)' \subseteq Holds(h)
    BY <1>1 DEF ListingsCreate, Holds, NoLocals
  <2>6. HoldsDisjoint'
    BY <2>4, <2>5 DEF HoldsDisjoint
  <2>7. TypeOK'
    BY <1>1, <2>3, <2>6 DEF ListingsCreate, TypeOK, HoldsDisjoint, Holds
  <2>8. created' \subseteq Ids /\ uploaded' \in 0 .. MaxPhotos /\ GoneForGood'
    BY <1>1 DEF ListingsCreate, GoneForGood
  <2>9. PhasesOK'
    BY <1>1, <2>3 DEF ListingsCreate, PhasesOK, Uploading, Purging, NoLocals
  <2>10. UploadsFresh'
    BY <1>1 DEF ListingsCreate, UploadsFresh, Holds, Uploading, TypeOK, NoLocals
  <2>11. PurgesKnown'
    BY <1>1 DEF ListingsCreate, PurgesKnown, Purging
  <2> QED BY <2>6, <2>7, <2>8, <2>9, <2>10, <2>11
<1>2. ASSUME NEW h \in Handlers, NEW l \in Ids, NEW n \in 1 .. 2, ImagesCreate(h, l, n)
      PROVE  Bookkeeping'
  <2>1. \A g \in Handlers \ {h} : pc'[g] = pc[g] /\ loc'[g] = loc[g]
    BY <1>2 DEF ImagesCreate
  <2>2. pc' \in [Handlers -> Steps] /\ loc' \in [Handlers -> Locals]
    <3> DEFINE a == [NoLocals EXCEPT !.listing = l]
               b == [a EXCEPT !.left = n]
    <3>1. a \in Locals
      BY NoLocalsTyped, FieldTyped
    <3>2. b \in Locals
      BY <3>1, FieldTyped, n \in 0 .. 2
    <3>3. loc' = [loc EXCEPT ![h] = b]
      BY <1>2 DEF ImagesCreate
    <3> QED BY <1>2, <3>2 DEF ImagesCreate, TypeOK, Steps
  <2>3. \A g \in Handlers \ {h} : Holds(g)' = Holds(g)
    BY <2>1 DEF Holds
  <2>4. Holds(h)' \subseteq Holds(h)
    BY <1>2 DEF ImagesCreate, Holds, NoLocals
  <2>5. HoldsDisjoint'
    BY <2>3, <2>4 DEF HoldsDisjoint
  <2>6. TypeOK'
    BY <1>2, <2>2, <2>5 DEF ImagesCreate, TypeOK, HoldsDisjoint, Holds
  <2>7. created' \subseteq Ids /\ uploaded' \in 0 .. MaxPhotos /\ GoneForGood'
    BY <1>2 DEF ImagesCreate, GoneForGood
  <2>8. PhasesOK'
    BY <1>2 DEF ImagesCreate, PhasesOK, Uploading, Purging, TypeOK, NoLocals
  <2>9. UploadsFresh'
    BY <1>2, <2>4 DEF ImagesCreate, UploadsFresh, Holds, Uploading, Purging, PhasesOK
  <2>10. PurgesKnown'
    BY <1>2 DEF ImagesCreate, PurgesKnown, Purging
  <2> QED BY <2>5, <2>6, <2>7, <2>8, <2>9, <2>10
<1>3. ASSUME NEW h \in Handlers, NEW l \in Ids, NEW p \in Params,
             ListingsUpdate(h, l, p)
      PROVE  Bookkeeping'
  <2>1. \A g \in Handlers \ {h} : pc'[g] = pc[g] /\ loc'[g] = loc[g]
    BY <1>3 DEF ListingsUpdate
  <2>2. assignRegion(applyUpdate(rows[l], p)) \in Row
    BY <1>3, UpdatedRow DEF ListingsUpdate, TypeOK
  <2>3. pc' \in [Handlers -> Steps] /\ loc' \in [Handlers -> Locals]
    <3> DEFINE a == [NoLocals EXCEPT !.listing = l]
               b == [a EXCEPT !.read = rows[l]]
               c == [b EXCEPT !.given = Given(p)]
               d == [c EXCEPT !.row = assignRegion(applyUpdate(rows[l], p))]
    <3>0. rows[l] \in Row /\ Given(p) \in SUBSET {"town", "rest"}
      BY <1>3 DEF ListingsUpdate, TypeOK, Given
    <3>1. a \in Locals
      BY NoLocalsTyped, FieldTyped
    <3>2. b \in Locals
      BY <3>1, FieldTyped, <3>0
    <3>3. c \in Locals
      BY <3>2, FieldTyped, <3>0
    <3>4. d \in Locals
      BY <3>3, FieldTyped, <2>2
    <3>5. loc' = [loc EXCEPT ![h] = d]
      BY <1>3 DEF ListingsUpdate
    <3> QED BY <1>3, <3>4 DEF ListingsUpdate, TypeOK, Steps
  <2>4. \A g \in Handlers \ {h} : Holds(g)' = Holds(g)
    BY <2>1 DEF Holds
  <2>5. Holds(h)' \subseteq Holds(h)
    BY <1>3 DEF ListingsUpdate, Holds, NoLocals
  <2>6. HoldsDisjoint'
    BY <2>4, <2>5 DEF HoldsDisjoint
  <2>7. TypeOK'
    BY <1>3, <2>2, <2>3, <2>6, RowAssumption DEF ListingsUpdate, TypeOK, HoldsDisjoint,
       Holds
  <2>8. created' \subseteq Ids /\ uploaded' \in 0 .. MaxPhotos /\ GoneForGood'
    BY <1>3 DEF ListingsUpdate, GoneForGood
  <2>9. PhasesOK'
    BY <1>3 DEF ListingsUpdate, PhasesOK, Uploading, Purging, TypeOK, NoLocals
  <2>10. UploadsFresh'
    BY <1>3 DEF ListingsUpdate, UploadsFresh, Holds, Uploading
  <2>11. PurgesKnown'
    BY <1>3 DEF ListingsUpdate, PurgesKnown, Purging
  <2> QED BY <2>6, <2>7, <2>8, <2>9, <2>10, <2>11
<1>4. ASSUME NEW h \in Handlers, NEW l \in Ids, TransitionBooking(h, l)
      PROVE  Bookkeeping'
  <2>1. \A g \in Handlers \ {h} : pc'[g] = pc[g] /\ loc'[g] = loc[g]
    BY <1>4 DEF TransitionBooking
  <2>2. pc' \in [Handlers -> Steps] /\ loc' \in [Handlers -> Locals]
    <3> DEFINE a == [NoLocals EXCEPT !.listing = l]
               b == [a EXCEPT !.row = rows[l]]
    <3>0. rows[l] \in Row
      BY <1>4 DEF TransitionBooking, TypeOK
    <3>1. a \in Locals
      BY NoLocalsTyped, FieldTyped
    <3>2. b \in Locals
      BY <3>1, FieldTyped, <3>0
    <3>3. loc' = [loc EXCEPT ![h] = b]
      BY <1>4 DEF TransitionBooking
    <3> QED BY <1>4, <3>2 DEF TransitionBooking, TypeOK, Steps
  <2>3. \A g \in Handlers \ {h} : Holds(g)' = Holds(g)
    BY <2>1 DEF Holds
  <2>4. Holds(h)' \subseteq Holds(h)
    BY <1>4 DEF TransitionBooking, Holds, NoLocals
  <2>5. HoldsDisjoint'
    BY <2>3, <2>4 DEF HoldsDisjoint
  <2>6. TypeOK'
    BY <1>4, <2>2, <2>5 DEF TransitionBooking, TypeOK, HoldsDisjoint, Holds
  <2>7. created' \subseteq Ids /\ uploaded' \in 0 .. MaxPhotos /\ GoneForGood'
    BY <1>4 DEF TransitionBooking, GoneForGood
  <2>8. PhasesOK'
    BY <1>4 DEF TransitionBooking, PhasesOK, Uploading, Purging, TypeOK, NoLocals
  <2>9. UploadsFresh'
    BY <1>4 DEF TransitionBooking, UploadsFresh, Holds, Uploading
  <2>10. PurgesKnown'
    BY <1>4 DEF TransitionBooking, PurgesKnown, Purging
  <2> QED BY <2>5, <2>6, <2>7, <2>8, <2>9, <2>10
<1>5. ASSUME NEW h \in Handlers, NEW l \in Ids, ListingsDestroy(h, l) PROVE Bookkeeping'
  <2>1. \A g \in Handlers \ {h} : pc'[g] = pc[g] /\ loc'[g] = loc[g]
    BY <1>5 DEF ListingsDestroy
  <2>2. pc' \in [Handlers -> Steps] /\ loc' \in [Handlers -> Locals]
    <3> DEFINE a == [NoLocals EXCEPT !.listing = l]
               b == [a EXCEPT !.todo = PhotosOf(l)]
               c == [b EXCEPT !.whole = TRUE]
    <3>0. PhotosOf(l) \in SUBSET Photos
      BY DEF PhotosOf, TypeOK, Photos
    <3>1. a \in Locals
      BY NoLocalsTyped, FieldTyped
    <3>2. b \in Locals
      BY <3>1, FieldTyped, <3>0
    <3>3. c \in Locals
      BY <3>2, FieldTyped
    <3>4. loc' = [loc EXCEPT ![h] = c]
      BY <1>5 DEF ListingsDestroy
    <3> QED BY <1>5, <3>3 DEF ListingsDestroy, TypeOK, Steps
  <2>3. \A g \in Handlers \ {h} : Holds(g)' = Holds(g)
    BY <2>1 DEF Holds
  <2>4. Holds(h)' \subseteq Holds(h)
    BY <1>5 DEF ListingsDestroy, Holds, NoLocals
  <2>5. HoldsDisjoint'
    BY <2>3, <2>4 DEF HoldsDisjoint
  <2>6. TypeOK'
    BY <1>5, <2>2, <2>5 DEF ListingsDestroy, TypeOK, HoldsDisjoint, Holds
  <2>7. created' \subseteq Ids /\ uploaded' \in 0 .. MaxPhotos /\ GoneForGood'
    BY <1>5 DEF ListingsDestroy, GoneForGood
  <2>8. PhasesOK'
    BY <1>5 DEF ListingsDestroy, PhasesOK, Uploading, Purging, TypeOK, NoLocals
  <2>9. UploadsFresh'
    BY <1>5 DEF ListingsDestroy, UploadsFresh, Holds, Uploading
  <2>10. PurgesKnown'
    BY <1>5, <2>4 DEF ListingsDestroy, PurgesKnown, Holds, Uploading, Purging, TypeOK,
       PhasesOK, PhotosOf
  <2> QED BY <2>5, <2>6, <2>7, <2>8, <2>9, <2>10
<1>6. ASSUME NEW h \in Handlers, NEW l \in Ids, NEW i \in Photos, ImagesDestroy(h, l, i)
      PROVE  Bookkeeping'
  <2>1. \A g \in Handlers \ {h} : pc'[g] = pc[g] /\ loc'[g] = loc[g]
    BY <1>6 DEF ImagesDestroy
  <2>2. pc' \in [Handlers -> Steps] /\ loc' \in [Handlers -> Locals]
    <3> DEFINE a == [NoLocals EXCEPT !.listing = l]
               b == [a EXCEPT !.todo = {i}]
    <3>1. a \in Locals
      BY NoLocalsTyped, FieldTyped
    <3>2. b \in Locals
      BY <3>1, FieldTyped
    <3>3. loc' = [loc EXCEPT ![h] = b]
      BY <1>6 DEF ImagesDestroy
    <3> QED BY <1>6, <3>2 DEF ImagesDestroy, TypeOK, Steps
  <2>3. \A g \in Handlers \ {h} : Holds(g)' = Holds(g)
    BY <2>1 DEF Holds
  <2>4. Holds(h)' \subseteq Holds(h)
    BY <1>6 DEF ImagesDestroy, Holds, NoLocals
  <2>5. HoldsDisjoint'
    BY <2>3, <2>4 DEF HoldsDisjoint
  <2>6. TypeOK'
    BY <1>6, <2>2, <2>5 DEF ImagesDestroy, TypeOK, HoldsDisjoint, Holds
  <2>7. created' \subseteq Ids /\ uploaded' \in 0 .. MaxPhotos /\ GoneForGood'
    BY <1>6 DEF ImagesDestroy, GoneForGood
  <2>8. PhasesOK'
    BY <1>6 DEF ImagesDestroy, PhasesOK, Uploading, Purging, TypeOK, NoLocals
  <2>9. UploadsFresh'
    BY <1>6 DEF ImagesDestroy, UploadsFresh, Holds, Uploading
  <2>10. PurgesKnown'
    BY <1>6, <2>4 DEF ImagesDestroy, PurgesKnown, Holds, Uploading, Purging, TypeOK,
       PhasesOK, PhotosOf
  <2> QED BY <2>5, <2>6, <2>7, <2>8, <2>9, <2>10
<1>7. ASSUME NEW h \in Handlers, WriteBlob(h) PROVE Bookkeeping'
  <2>1. \A g \in Handlers \ {h} : pc'[g] = pc[g] /\ loc'[g] = loc[g]
    BY <1>7 DEF WriteBlob, TypeOK
  <2>2. pc' \in [Handlers -> Steps] /\ loc' \in [Handlers -> Locals]
    BY <1>7 DEF WriteBlob, TypeOK, Locals
  <2>3. \A g \in Handlers \ {h} : Holds(g)' = Holds(g)
    BY <2>1 DEF Holds
  <2>4. Holds(h)' \subseteq Holds(h) \cup {uploaded + 1}
    BY <1>7 DEF WriteBlob, Holds, TypeOK
  <2>5. \A g \in Handlers \ {h} : uploaded + 1 \notin Holds(g)
    BY DEF Holds, PhasesOK, UploadsFresh, PurgesKnown, Uploading, TypeOK
  <2>6. HoldsDisjoint'
    BY <2>3, <2>4, <2>5 DEF HoldsDisjoint
  <2>7. TypeOK'
    BY <1>7, <2>2 DEF WriteBlob, TypeOK
  <2>8. created' \subseteq Ids /\ uploaded' \in 0 .. MaxPhotos /\ GoneForGood'
    BY <1>7 DEF WriteBlob, GoneForGood
  <2>9. PhasesOK'
    BY <1>7, <2>2 DEF WriteBlob, PhasesOK, Uploading, Purging
  <2>10. UploadsFresh'
    BY <1>7 DEF WriteBlob, UploadsFresh, GoneForGood, Holds, Uploading, TypeOK
  <2>11. PurgesKnown'
    BY <1>7 DEF WriteBlob, PurgesKnown, Purging, TypeOK
  <2> QED BY <2>6, <2>7, <2>8, <2>9, <2>10, <2>11
<1>8. ASSUME NEW h \in Handlers, InsertPhoto(h) PROVE Bookkeeping'
  <2>1. \A g \in Handlers \ {h} : pc'[g] = pc[g] /\ loc'[g] = loc[g]
    BY <1>8 DEF InsertPhoto, TypeOK
  <2>2. pc' \in [Handlers -> Steps] /\ loc' \in [Handlers -> Locals]
    BY <1>8 DEF InsertPhoto, TypeOK, PhasesOK, Locals
  <2>3. \A g \in Handlers \ {h} : Holds(g)' = Holds(g)
    BY <2>1 DEF Holds
  <2>4. Holds(h)' \subseteq Holds(h)
    BY <1>8 DEF InsertPhoto, Holds, PhasesOK, TypeOK
  <2>5. HoldsDisjoint'
    BY <2>3, <2>4 DEF HoldsDisjoint
  <2>6. TypeOK'
    BY <1>8, <2>2, <2>5 DEF InsertPhoto, TypeOK, HoldsDisjoint, Holds
  <2>7. created' \subseteq Ids /\ uploaded' \in 0 .. MaxPhotos /\ GoneForGood'
    BY <1>8 DEF InsertPhoto, GoneForGood
  <2>8. PhasesOK'
    BY <1>8, <2>2 DEF InsertPhoto, PhasesOK, Uploading, Purging
  <2>9. UploadsFresh'
    BY <1>8, <2>4 DEF InsertPhoto, UploadsFresh, Holds, Uploading, TypeOK
  <2>10. PurgesKnown'
    BY <1>8 DEF InsertPhoto, PurgesKnown, Purging, TypeOK
  <2> QED BY <2>5, <2>6, <2>7, <2>8, <2>9, <2>10
<1>9. ASSUME NEW h \in Handlers, CommitUpload(h) PROVE Bookkeeping'
  <2>1. \A g \in Handlers \ {h} : pc'[g] = pc[g] /\ loc'[g] = loc[g]
    BY <1>9 DEF CommitUpload
  <2>2. pc' \in [Handlers -> Steps] /\ loc' \in [Handlers -> Locals]
    BY <1>9 DEF CommitUpload, TypeOK, Locals, Steps, NoLocals
  <2>3. \A g \in Handlers \ {h} : Holds(g)' = Holds(g)
    BY <2>1 DEF Holds
  <2>4. Holds(h)' \subseteq Holds(h)
    BY <1>9 DEF CommitUpload, Holds, NoLocals
  <2>5. HoldsDisjoint'
    BY <2>3, <2>4 DEF HoldsDisjoint
  <2>6. TypeOK'
    BY <1>9, <2>2, <2>5 DEF CommitUpload, TypeOK, HoldsDisjoint, Holds, PhasesOK,
       UploadsFresh, Uploading, Locals
  <2>7. created' \subseteq Ids /\ uploaded' \in 0 .. MaxPhotos /\ GoneForGood'
    <3>1. DOMAIN photos' = DOMAIN photos \cup loc[h].done
      BY <1>9 DEF CommitUpload
    <3>2. loc[h].done \cap gone = {}
      BY <1>9 DEF CommitUpload, UploadsFresh, Uploading, Holds
    <3> QED BY <1>9, <3>2 DEF CommitUpload, GoneForGood
  <2>8. PhasesOK'
    BY <1>9, <2>2 DEF CommitUpload, PhasesOK, Uploading, Purging, NoLocals
  <2>9. UploadsFresh'
    BY <1>9 DEF CommitUpload, UploadsFresh, HoldsDisjoint, Holds, Uploading, TypeOK
  <2>10. PurgesKnown'
    BY <1>9 DEF CommitUpload, UploadsFresh, PurgesKnown, Holds, Uploading, Purging
  <2> QED BY <2>5, <2>6, <2>7, <2>8, <2>9, <2>10
<1>10. ASSUME NEW h \in Handlers, Save(h) PROVE Bookkeeping'
  <2>1. \A g \in Handlers \ {h} : pc'[g] = pc[g] /\ loc'[g] = loc[g]
    BY <1>10 DEF Save
  <2>2. pc' \in [Handlers -> Steps] /\ loc' \in [Handlers -> Locals]
    BY <1>10 DEF Save, TypeOK, Locals, Steps, NoLocals
  <2>3. \A g \in Handlers \ {h} : Holds(g)' = Holds(g)
    BY <2>1 DEF Holds
  <2>4. Holds(h)' \subseteq Holds(h)
    BY <1>10 DEF Save, Holds, NoLocals
  <2>5. HoldsDisjoint'
    BY <2>3, <2>4 DEF HoldsDisjoint
  <2>6. TypeOK'
    BY <1>10, <2>2, <2>5 DEF Save, TypeOK, HoldsDisjoint, Holds, PhasesOK, Locals
  <2>7. created' \subseteq Ids /\ uploaded' \in 0 .. MaxPhotos /\ GoneForGood'
    BY <1>10 DEF Save, GoneForGood
  <2>8. PhasesOK'
    BY <1>10, <2>2 DEF Save, PhasesOK, Uploading, Purging, NoLocals
  <2>9. UploadsFresh'
    BY <1>10 DEF Save, UploadsFresh, Holds, Uploading
  <2>10. PurgesKnown'
    BY <1>10 DEF Save, PurgesKnown, Purging
  <2> QED BY <2>5, <2>6, <2>7, <2>8, <2>9, <2>10
<1>11. ASSUME NEW h \in Handlers, SetStatus(h) PROVE Bookkeeping'
  <2>1. \A g \in Handlers \ {h} : pc'[g] = pc[g] /\ loc'[g] = loc[g]
    BY <1>11 DEF SetStatus
  <2>2. pc' \in [Handlers -> Steps] /\ loc' \in [Handlers -> Locals]
    BY <1>11 DEF SetStatus, TypeOK, Locals, Steps, NoLocals
  <2>3. \A g \in Handlers \ {h} : Holds(g)' = Holds(g)
    BY <2>1 DEF Holds
  <2>4. Holds(h)' \subseteq Holds(h)
    BY <1>11 DEF SetStatus, Holds, NoLocals
  <2>5. HoldsDisjoint'
    BY <2>3, <2>4 DEF HoldsDisjoint
  <2>6. TypeOK'
    BY <1>11, <2>2, <2>5 DEF SetStatus, TypeOK, HoldsDisjoint, Holds, PhasesOK, Locals
  <2>7. created' \subseteq Ids /\ uploaded' \in 0 .. MaxPhotos /\ GoneForGood'
    BY <1>11 DEF SetStatus, GoneForGood
  <2>8. PhasesOK'
    BY <1>11, <2>2 DEF SetStatus, PhasesOK, Uploading, Purging, NoLocals
  <2>9. UploadsFresh'
    BY <1>11 DEF SetStatus, UploadsFresh, Holds, Uploading
  <2>10. PurgesKnown'
    BY <1>11 DEF SetStatus, PurgesKnown, Purging
  <2> QED BY <2>5, <2>6, <2>7, <2>8, <2>9, <2>10
<1>12. ASSUME NEW h \in Handlers, NEW i \in Photos, PurgeRows(h, i) PROVE Bookkeeping'
  <2>1. \A g \in Handlers \ {h} : pc'[g] = pc[g] /\ loc'[g] = loc[g]
    BY <1>12 DEF PurgeRows, TypeOK
  <2>2. pc' \in [Handlers -> Steps] /\ loc' \in [Handlers -> Locals]
    <3>1. CASE i \in DOMAIN photos
      <4> DEFINE a == [loc EXCEPT ![h].todo = @ \ {i}]
                 b == [a EXCEPT ![h].done = @ \cup {i}]
                 c == [b EXCEPT ![h].key = i]
      <4>0. loc' = [loc EXCEPT ![h].todo = @ \ {i}, ![h].done = @ \cup {i}, ![h].key = i]
        BY <1>12, <3>1 DEF PurgeRows
      <4>1. loc' = c
        BY <4>0, Zenon
      <4>2. a \in [Handlers -> Locals]
        BY DEF TypeOK, Locals
      <4> HIDE DEF a
      <4>3. b \in [Handlers -> Locals]
        BY <4>2 DEF Locals
      <4> HIDE DEF b
      <4>4. c \in [Handlers -> Locals]
        BY <4>3 DEF Locals
      <4> HIDE DEF c
      <4> QED BY <1>12, <4>1, <4>4 DEF PurgeRows, TypeOK, Steps
    <3>2. CASE i \notin DOMAIN photos
      BY <1>12 DEF PurgeRows, TypeOK, Locals, Steps
    <3> QED BY <3>1, <3>2
  <2>3. \A g \in Handlers \ {h} : Holds(g)' = Holds(g)
    BY <2>1 DEF Holds
  <2>4. Holds(h)' \subseteq Holds(h) \cup ({i} \cap DOMAIN photos)
    BY <1>12 DEF PurgeRows, Holds, TypeOK, Locals
  <2>5. \A g \in Handlers \ {h} : i \notin Holds(g) \/ i \notin DOMAIN photos
    BY <1>12 DEF PurgeRows, Holds, Locked, PhasesOK, UploadsFresh, Uploading, Purging
  <2>6. HoldsDisjoint'
    BY <2>3, <2>4, <2>5 DEF HoldsDisjoint
  <2>7. TypeOK'
    BY <1>12, <2>2, <2>6 DEF PurgeRows, TypeOK, HoldsDisjoint, Holds
  <2>8. created' \subseteq Ids /\ uploaded' \in 0 .. MaxPhotos /\ GoneForGood'
    BY <1>12 DEF PurgeRows, GoneForGood
  <2>9. PhasesOK'
    <3>1. CASE i \in DOMAIN photos
      BY <1>12, <3>1 DEF PurgeRows, PhasesOK, TypeOK, Locals
    <3>2. CASE i \notin DOMAIN photos
      BY <1>12, <2>2, <3>2 DEF PurgeRows, PhasesOK, Uploading, Purging, Locals
    <3> QED BY <3>1, <3>2
  <2>10. UploadsFresh'
    BY <1>12 DEF PurgeRows, UploadsFresh, Holds, Uploading, TypeOK
  <2>11. PurgesKnown'
    BY <1>12 DEF PurgeRows, PurgesKnown, Purging, TypeOK, PhasesOK, Locals
  <2> QED BY <2>6, <2>7, <2>8, <2>9, <2>10, <2>11
<1>13. ASSUME NEW h \in Handlers, Unlink(h) PROVE Bookkeeping'
  <2>1. \A g \in Handlers \ {h} : pc'[g] = pc[g] /\ loc'[g] = loc[g]
    BY <1>13 DEF Unlink
  <2>2. pc' \in [Handlers -> Steps] /\ loc' \in [Handlers -> Locals]
    BY <1>13, RowAssumption DEF Unlink, TypeOK, PhasesOK, Locals, Steps, NoLocals, Given,
       PhotosOf, Photos
  <2>3. \A g \in Handlers \ {h} : Holds(g)' = Holds(g)
    BY <2>1 DEF Holds
  <2>4. Holds(h)' \subseteq Holds(h)
    BY <1>13 DEF Unlink, Holds
  <2>5. HoldsDisjoint'
    BY <2>3, <2>4 DEF HoldsDisjoint
  <2>6. TypeOK'
    <3>1. files' \subseteq 1 .. uploaded
      BY <1>13 DEF Unlink, TypeOK
    <3>2. \A k \in Handlers : pc'[k] \in {"save", "status"} => loc'[k].row # None
      BY <1>13 DEF Unlink, TypeOK
    <3> QED BY <1>13, <2>2 DEF Unlink, TypeOK
  <2>7. created' \subseteq Ids /\ uploaded' \in 0 .. MaxPhotos /\ GoneForGood'
    BY <1>13 DEF Unlink, GoneForGood
  <2>8. PhasesOK'
    BY <1>13, <2>2 DEF Unlink, PhasesOK, Uploading, Purging
  <2>9. UploadsFresh'
    BY <1>13 DEF Unlink, UploadsFresh, HoldsDisjoint, Holds, Uploading, TypeOK
  <2>10. PurgesKnown'
    BY <1>13 DEF Unlink, PurgesKnown, Purging
  <2> QED BY <2>5, <2>6, <2>7, <2>8, <2>9, <2>10
<1>14. ASSUME NEW h \in Handlers, CommitPurge(h) PROVE Bookkeeping'
  <2>1. \A g \in Handlers \ {h} : pc'[g] = pc[g] /\ loc'[g] = loc[g]
    BY <1>14 DEF CommitPurge
  <2>2. pc' \in [Handlers -> Steps] /\ loc' \in [Handlers -> Locals]
    BY <1>14 DEF CommitPurge, TypeOK, Locals, Steps, NoLocals
  <2>3. \A g \in Handlers \ {h} : Holds(g)' = Holds(g)
    BY <2>1 DEF Holds
  <2>4. Holds(h)' \subseteq Holds(h)
    BY <1>14 DEF CommitPurge, Holds, NoLocals
  <2>5. HoldsDisjoint'
    BY <2>3, <2>4 DEF HoldsDisjoint
  <2>6. TypeOK'
    BY <1>14, <2>2, <2>5 DEF CommitPurge, TypeOK, HoldsDisjoint, Holds, PhasesOK
  <2>7. created' \subseteq Ids /\ uploaded' \in 0 .. MaxPhotos /\ GoneForGood'
    BY <1>14 DEF CommitPurge, GoneForGood, TypeOK, PurgesKnown, Purging
  <2>8. PhasesOK'
    BY <1>14, <2>2 DEF CommitPurge, PhasesOK, Uploading, Purging, NoLocals
  <2>9. UploadsFresh'
    BY <1>14 DEF CommitPurge, UploadsFresh, HoldsDisjoint, Holds, Uploading
  <2>10. PurgesKnown'
    BY <1>14 DEF CommitPurge, PurgesKnown, Purging, TypeOK
  <2> QED BY <2>5, <2>6, <2>7, <2>8, <2>9, <2>10
<1>15. ASSUME NEW h \in Handlers, Fail(h) PROVE Bookkeeping'
  <2>1. \A g \in Handlers \ {h} : pc'[g] = pc[g] /\ loc'[g] = loc[g]
    BY <1>15 DEF Fail
  <2>2. pc' \in [Handlers -> Steps] /\ loc' \in [Handlers -> Locals]
    BY <1>15 DEF Fail, TypeOK, Locals, Steps, NoLocals
  <2>3. \A g \in Handlers \ {h} : Holds(g)' = Holds(g)
    BY <2>1 DEF Holds
  <2>4. Holds(h)' \subseteq Holds(h)
    BY <1>15 DEF Fail, Holds, NoLocals
  <2>5. HoldsDisjoint'
    BY <2>3, <2>4 DEF HoldsDisjoint
  <2>6. TypeOK'
    BY <1>15, <2>2, <2>5 DEF Fail, TypeOK, HoldsDisjoint, Holds
  <2>7. created' \subseteq Ids /\ uploaded' \in 0 .. MaxPhotos /\ GoneForGood'
    BY <1>15 DEF Fail, GoneForGood
  <2>8. PhasesOK'
    BY <1>15, <2>2 DEF Fail, PhasesOK, Uploading, Purging, NoLocals
  <2>9. UploadsFresh'
    BY <1>15, <2>4 DEF Fail, UploadsFresh, Holds, Uploading
  <2>10. PurgesKnown'
    BY <1>15 DEF Fail, PurgesKnown, Purging, TypeOK
  <2> QED BY <2>5, <2>6, <2>7, <2>8, <2>9, <2>10
<1>16. CASE UNCHANGED vars
  BY <1>16 DEF vars, TypeOK, PhasesOK, UploadsFresh, PurgesKnown, HoldsDisjoint,
     GoneForGood, Holds, Uploading, Purging
<1> QED BY <1>1, <1>2, <1>3, <1>4, <1>5, <1>6, <1>7, <1>8, <1>9, <1>10, <1>11, <1>12,
  <1>13, <1>14, <1>15, <1>16 DEF Next

\* Only the file a purge is about to remove outlives the deletion of its rows.
LEMMA PurgedFilesStep ==
    Bookkeeping /\ PurgedFiles /\ [Next]_vars => PurgedFiles'
<1> SUFFICES ASSUME Bookkeeping, PurgedFiles, [Next]_vars
             PROVE  PurgedFiles'
  OBVIOUS
<1> USE DEF Bookkeeping, Done, Goto, db, history
<1>1. ASSUME NEW h \in Handlers, NEW l \in Ids, NEW town \in Towns,
             NEW rest \in Rests, NEW n \in 1 .. 2, ListingsCreate(h, l, town, rest, n)
      PROVE  PurgedFiles'
  BY <1>1 DEF ListingsCreate, PurgedFiles, Purging
<1>2. ASSUME NEW h \in Handlers, NEW l \in Ids, NEW n \in 1 .. 2, ImagesCreate(h, l, n)
      PROVE  PurgedFiles'
  BY <1>2 DEF ImagesCreate, PurgedFiles, Purging
<1>3. ASSUME NEW h \in Handlers, NEW l \in Ids, NEW p \in Params,
             ListingsUpdate(h, l, p)
      PROVE  PurgedFiles'
  BY <1>3 DEF ListingsUpdate, PurgedFiles, Purging
<1>4. ASSUME NEW h \in Handlers, NEW l \in Ids, TransitionBooking(h, l)
      PROVE  PurgedFiles'
  BY <1>4 DEF TransitionBooking, PurgedFiles, Purging
<1>5. ASSUME NEW h \in Handlers, NEW l \in Ids, ListingsDestroy(h, l) PROVE PurgedFiles'
  BY <1>5 DEF ListingsDestroy, PurgedFiles, TypeOK, NoLocals, Purging
<1>6. ASSUME NEW h \in Handlers, NEW l \in Ids, NEW i \in Photos, ImagesDestroy(h, l, i)
      PROVE  PurgedFiles'
  BY <1>6 DEF ImagesDestroy, PurgedFiles, TypeOK, NoLocals, Purging
<1>7. ASSUME NEW h \in Handlers, WriteBlob(h) PROVE PurgedFiles'
  BY <1>7 DEF WriteBlob, PurgedFiles, PurgesKnown, TypeOK, Purging
<1>8. ASSUME NEW h \in Handlers, InsertPhoto(h) PROVE PurgedFiles'
  BY <1>8 DEF InsertPhoto, PurgedFiles, TypeOK, Uploading, Purging, PhasesOK
<1>9. ASSUME NEW h \in Handlers, CommitUpload(h) PROVE PurgedFiles'
  BY <1>9 DEF CommitUpload, PurgedFiles, Purging
<1>10. ASSUME NEW h \in Handlers, Save(h) PROVE PurgedFiles'
  BY <1>10 DEF Save, PurgedFiles, Purging
<1>11. ASSUME NEW h \in Handlers, SetStatus(h) PROVE PurgedFiles'
  BY <1>11 DEF SetStatus, PurgedFiles, Purging
<1>12. ASSUME NEW h \in Handlers, NEW i \in Photos, PurgeRows(h, i) PROVE PurgedFiles'
  BY <1>12 DEF PurgeRows, PurgedFiles, HoldsDisjoint, TypeOK, Locals, Uploading, Purging
<1>13. ASSUME NEW h \in Handlers, Unlink(h) PROVE PurgedFiles'
  BY <1>13 DEF Unlink, PurgedFiles, Purging
<1>14. ASSUME NEW h \in Handlers, CommitPurge(h) PROVE PurgedFiles'
  BY <1>14 DEF CommitPurge, PurgedFiles, TypeOK, Purging
<1>15. ASSUME NEW h \in Handlers, Fail(h) PROVE PurgedFiles'
  BY <1>15 DEF Fail, PurgedFiles, TypeOK, Purging
<1>16. CASE UNCHANGED vars
  BY <1>16 DEF vars, PurgedFiles, Purging
<1> QED BY <1>1, <1>2, <1>3, <1>4, <1>5, <1>6, <1>7, <1>8, <1>9, <1>10, <1>11, <1>12,
  <1>13, <1>14, <1>15, <1>16 DEF Next

\* A file loses its row or its transaction only to become leaked.
LEMMA AccountedStep ==
    Bookkeeping /\ PurgedFiles /\ FilesAccountedFor /\ [Next]_vars => FilesAccountedFor'
<1> SUFFICES ASSUME Bookkeeping, PurgedFiles, FilesAccountedFor, [Next]_vars
             PROVE  FilesAccountedFor'
  OBVIOUS
<1> USE DEF Bookkeeping, Done, Goto, db, history
<1>1. ASSUME NEW h \in Handlers, NEW l \in Ids, NEW town \in Towns,
             NEW rest \in Rests, NEW n \in 1 .. 2, ListingsCreate(h, l, town, rest, n)
      PROVE  FilesAccountedFor'
  BY <1>1 DEF ListingsCreate, FilesAccountedFor, InFlight, PurgedFiles, TypeOK, Uploading,
     PhasesOK
<1>2. ASSUME NEW h \in Handlers, NEW l \in Ids, NEW n \in 1 .. 2, ImagesCreate(h, l, n)
      PROVE  FilesAccountedFor'
  BY <1>2 DEF ImagesCreate, FilesAccountedFor, InFlight, PurgedFiles, TypeOK, Uploading,
     PhasesOK
<1>3. ASSUME NEW h \in Handlers, NEW l \in Ids, NEW p \in Params,
             ListingsUpdate(h, l, p)
      PROVE  FilesAccountedFor'
  BY <1>3 DEF ListingsUpdate, FilesAccountedFor, InFlight, PurgedFiles, TypeOK, Uploading,
     PhasesOK
<1>4. ASSUME NEW h \in Handlers, NEW l \in Ids, TransitionBooking(h, l)
      PROVE  FilesAccountedFor'
  BY <1>4 DEF TransitionBooking, FilesAccountedFor, InFlight, PurgedFiles, TypeOK,
     Uploading, PhasesOK
<1>5. ASSUME NEW h \in Handlers, NEW l \in Ids, ListingsDestroy(h, l)
      PROVE  FilesAccountedFor'
  BY <1>5 DEF ListingsDestroy, FilesAccountedFor, InFlight, PurgedFiles, TypeOK, Uploading,
     PhasesOK
<1>6. ASSUME NEW h \in Handlers, NEW l \in Ids, NEW i \in Photos, ImagesDestroy(h, l, i)
      PROVE  FilesAccountedFor'
  BY <1>6 DEF ImagesDestroy, FilesAccountedFor, InFlight, PurgedFiles, TypeOK, Uploading,
     PhasesOK
<1>7. ASSUME NEW h \in Handlers, WriteBlob(h) PROVE FilesAccountedFor'
  BY <1>7 DEF WriteBlob, Holds, TypeOK, Locals
<1>8. ASSUME NEW h \in Handlers, InsertPhoto(h) PROVE FilesAccountedFor'
  BY <1>8 DEF InsertPhoto, FilesAccountedFor, InFlight, TypeOK
<1>9. ASSUME NEW h \in Handlers, CommitUpload(h) PROVE FilesAccountedFor'
  BY <1>9 DEF CommitUpload, FilesAccountedFor, InFlight, TypeOK, PhasesOK
<1>10. ASSUME NEW h \in Handlers, Save(h) PROVE FilesAccountedFor'
  BY <1>10 DEF Save, FilesAccountedFor, InFlight, PurgedFiles, TypeOK, Uploading, PhasesOK
<1>11. ASSUME NEW h \in Handlers, SetStatus(h) PROVE FilesAccountedFor'
  BY <1>11 DEF SetStatus, FilesAccountedFor, InFlight, PurgedFiles, TypeOK, Uploading,
     PhasesOK
<1>12. ASSUME NEW h \in Handlers, NEW i \in Photos, PurgeRows(h, i)
       PROVE  FilesAccountedFor'
  BY <1>12 DEF PurgeRows, FilesAccountedFor, InFlight, TypeOK, Locals
<1>13. ASSUME NEW h \in Handlers, Unlink(h) PROVE FilesAccountedFor'
  BY <1>13 DEF Unlink, FilesAccountedFor, InFlight
<1>14. ASSUME NEW h \in Handlers, CommitPurge(h) PROVE FilesAccountedFor'
  BY <1>14 DEF CommitPurge, FilesAccountedFor, InFlight, PurgedFiles, TypeOK, Uploading,
     PhasesOK
<1>15. ASSUME NEW h \in Handlers, Fail(h) PROVE FilesAccountedFor'
  BY <1>15 DEF Fail, FilesAccountedFor, InFlight, PurgesKnown, TypeOK, Uploading, PhasesOK
<1>16. CASE UNCHANGED vars
  BY <1>16 DEF vars, FilesAccountedFor, InFlight
<1> QED BY <1>1, <1>2, <1>3, <1>4, <1>5, <1>6, <1>7, <1>8, <1>9, <1>10, <1>11, <1>12,
  <1>13, <1>14, <1>15, <1>16 DEF Next

\* A row appears with its file, and the file goes under a transaction that holds
\* the row, or leaves the photo torn.
LEMMA ServableStep ==
    Bookkeeping /\ Bookkeeping' /\ PhotosServable /\ [Next]_vars => PhotosServable'
<1> SUFFICES ASSUME Bookkeeping, Bookkeeping', PhotosServable, [Next]_vars
             PROVE  PhotosServable'
  OBVIOUS
<1> USE DEF Bookkeeping, Done, Goto, db, history
<1>1. ASSUME NEW h \in Handlers, NEW l \in Ids, NEW town \in Towns,
             NEW rest \in Rests, NEW n \in 1 .. 2, ListingsCreate(h, l, town, rest, n)
      PROVE  PhotosServable'
  BY <1>1 DEF ListingsCreate, PhotosServable, InFlight, UploadsFresh, Holds, Purging,
     PhasesOK
<1>2. ASSUME NEW h \in Handlers, NEW l \in Ids, NEW n \in 1 .. 2, ImagesCreate(h, l, n)
      PROVE  PhotosServable'
  BY <1>2 DEF ImagesCreate, PhotosServable, InFlight, UploadsFresh, Holds, Purging, PhasesOK
<1>3. ASSUME NEW h \in Handlers, NEW l \in Ids, NEW p \in Params,
             ListingsUpdate(h, l, p)
      PROVE  PhotosServable'
  BY <1>3 DEF ListingsUpdate, PhotosServable, InFlight, UploadsFresh, Holds, Purging,
     PhasesOK
<1>4. ASSUME NEW h \in Handlers, NEW l \in Ids, TransitionBooking(h, l)
      PROVE  PhotosServable'
  BY <1>4 DEF TransitionBooking, PhotosServable, InFlight, UploadsFresh, Holds, Purging,
     PhasesOK
<1>5. ASSUME NEW h \in Handlers, NEW l \in Ids, ListingsDestroy(h, l)
      PROVE  PhotosServable'
  BY <1>5 DEF ListingsDestroy, PhotosServable, InFlight, UploadsFresh, Holds, Purging,
     PhasesOK
<1>6. ASSUME NEW h \in Handlers, NEW l \in Ids, NEW i \in Photos, ImagesDestroy(h, l, i)
      PROVE  PhotosServable'
  BY <1>6 DEF ImagesDestroy, PhotosServable, InFlight, UploadsFresh, Holds, Purging,
     PhasesOK
<1>7. ASSUME NEW h \in Handlers, WriteBlob(h) PROVE PhotosServable'
  BY <1>7 DEF WriteBlob, InFlight, Holds, TypeOK, Locals, Uploading, PhasesOK
<1>8. ASSUME NEW h \in Handlers, InsertPhoto(h) PROVE PhotosServable'
  BY <1>8, SMTT(30) DEF InsertPhoto, PhotosServable, InFlight, UploadsFresh, PurgesKnown,
     HoldsDisjoint, Holds, TypeOK, NoLocals, Locals, Uploading, Purging, PhasesOK
<1>9. ASSUME NEW h \in Handlers, CommitUpload(h) PROVE PhotosServable'
  BY <1>9 DEF CommitUpload, PhotosServable, InFlight, UploadsFresh, Holds, TypeOK, Uploading
<1>10. ASSUME NEW h \in Handlers, Save(h) PROVE PhotosServable'
  BY <1>10 DEF Save, PhotosServable, InFlight, UploadsFresh, Holds, Purging, PhasesOK
<1>11. ASSUME NEW h \in Handlers, SetStatus(h) PROVE PhotosServable'
  BY <1>11 DEF SetStatus, PhotosServable, InFlight, UploadsFresh, Holds, Purging, PhasesOK
<1>12. ASSUME NEW h \in Handlers, NEW i \in Photos, PurgeRows(h, i)
       PROVE  PhotosServable'
  BY <1>12 DEF PurgeRows, PhotosServable, InFlight, TypeOK, Locals
<1>13. ASSUME NEW h \in Handlers, Unlink(h) PROVE PhotosServable'
  BY <1>13 DEF Unlink, PhotosServable, InFlight, PhasesOK
<1>14. ASSUME NEW h \in Handlers, CommitPurge(h) PROVE PhotosServable'
  BY <1>14 DEF CommitPurge, PhotosServable, InFlight, PhasesOK
<1>15. ASSUME NEW h \in Handlers, Fail(h) PROVE PhotosServable'
  BY <1>15 DEF Fail, PhotosServable, InFlight, UploadsFresh, Holds, Uploading, PhasesOK
<1>16. CASE UNCHANGED vars
  BY <1>16 DEF vars, PhotosServable, InFlight
<1> QED BY <1>1, <1>2, <1>3, <1>4, <1>5, <1>6, <1>7, <1>8, <1>9, <1>10, <1>11, <1>12,
  <1>13, <1>14, <1>15, <1>16 DEF Next

\* A photo that Destroy has not read was inserted after it had read them.
LEMMA DestroySeesStep ==
    Bookkeeping /\ DestroySeesAll /\ [Next]_vars => DestroySeesAll'
<1> SUFFICES ASSUME Bookkeeping, DestroySeesAll, [Next]_vars
             PROVE  DestroySeesAll'
  OBVIOUS
<1> USE DEF Bookkeeping, Done, Goto, db, history
<1>1. ASSUME NEW h \in Handlers, NEW l \in Ids, NEW town \in Towns,
             NEW rest \in Rests, NEW n \in 1 .. 2, ListingsCreate(h, l, town, rest, n)
      PROVE  DestroySeesAll'
  BY <1>1 DEF ListingsCreate, DestroySeesAll, PhotosOf, Purging
<1>2. ASSUME NEW h \in Handlers, NEW l \in Ids, NEW n \in 1 .. 2, ImagesCreate(h, l, n)
      PROVE  DestroySeesAll'
  BY <1>2 DEF ImagesCreate, DestroySeesAll, PhotosOf, Purging
<1>3. ASSUME NEW h \in Handlers, NEW l \in Ids, NEW p \in Params,
             ListingsUpdate(h, l, p)
      PROVE  DestroySeesAll'
  BY <1>3 DEF ListingsUpdate, DestroySeesAll, PhotosOf, Purging
<1>4. ASSUME NEW h \in Handlers, NEW l \in Ids, TransitionBooking(h, l)
      PROVE  DestroySeesAll'
  BY <1>4 DEF TransitionBooking, DestroySeesAll, PhotosOf, Purging
<1>5. ASSUME NEW h \in Handlers, NEW l \in Ids, ListingsDestroy(h, l)
      PROVE  DestroySeesAll'
  <2>1. loc'[h].listing = l /\ loc'[h].todo = PhotosOf(l)
    BY <1>5 DEF ListingsDestroy, TypeOK
  <2>2. \A g \in Handlers \ {h} : pc'[g] = pc[g] /\ loc'[g] = loc[g]
    BY <1>5 DEF ListingsDestroy
  <2>3. photos' = photos /\ late' = late
    BY <1>5 DEF ListingsDestroy
  <2> QED BY <2>1, <2>2, <2>3 DEF DestroySeesAll, PhotosOf, Purging
<1>6. ASSUME NEW h \in Handlers, NEW l \in Ids, NEW i \in Photos, ImagesDestroy(h, l, i)
      PROVE  DestroySeesAll'
  BY <1>6 DEF ImagesDestroy, DestroySeesAll, PhotosOf, TypeOK, NoLocals, Purging
<1>7. ASSUME NEW h \in Handlers, WriteBlob(h) PROVE DestroySeesAll'
  BY <1>7 DEF WriteBlob, DestroySeesAll, PhotosOf, TypeOK, Purging
<1>8. ASSUME NEW h \in Handlers, InsertPhoto(h) PROVE DestroySeesAll'
  BY <1>8 DEF InsertPhoto, DestroySeesAll, Destroying, PhotosOf, PurgesKnown, UploadsFresh,
     GoneForGood, HoldsDisjoint, Holds, TypeOK, NoLocals, Locals, Uploading, Purging,
     PhasesOK
<1>9. ASSUME NEW h \in Handlers, CommitUpload(h) PROVE DestroySeesAll'
  BY <1>9 DEF CommitUpload, DestroySeesAll, Destroying, PhotosOf, Purging
<1>10. ASSUME NEW h \in Handlers, Save(h) PROVE DestroySeesAll'
  BY <1>10 DEF Save, DestroySeesAll, PhotosOf, Purging
<1>11. ASSUME NEW h \in Handlers, SetStatus(h) PROVE DestroySeesAll'
  BY <1>11 DEF SetStatus, DestroySeesAll, PhotosOf, Purging
<1>12. ASSUME NEW h \in Handlers, NEW i \in Photos, PurgeRows(h, i)
       PROVE  DestroySeesAll'
  BY <1>12 DEF PurgeRows, DestroySeesAll, PhotosOf, TypeOK, Locals, Purging
<1>13. ASSUME NEW h \in Handlers, Unlink(h) PROVE DestroySeesAll'
  BY <1>13 DEF Unlink, DestroySeesAll, PhotosOf, Purging
<1>14. ASSUME NEW h \in Handlers, CommitPurge(h) PROVE DestroySeesAll'
  BY <1>14 DEF CommitPurge, DestroySeesAll, PhotosOf, TypeOK, Purging
<1>15. ASSUME NEW h \in Handlers, Fail(h) PROVE DestroySeesAll'
  BY <1>15 DEF Fail, DestroySeesAll, PhotosOf, TypeOK, Purging
<1>16. CASE UNCHANGED vars
  BY <1>16 DEF vars, DestroySeesAll, PhotosOf, Purging
<1> QED BY <1>1, <1>2, <1>3, <1>4, <1>5, <1>6, <1>7, <1>8, <1>9, <1>10, <1>11, <1>12,
  <1>13, <1>14, <1>15, <1>16 DEF Next

\* A listing's row goes with the photos its Destroy has read.
LEMMA OrphansStep ==
    Bookkeeping /\ DestroySeesAll /\ OrphansOnlyFromRaces /\ [Next]_vars =>
        OrphansOnlyFromRaces'
<1> SUFFICES ASSUME Bookkeeping, DestroySeesAll, OrphansOnlyFromRaces, [Next]_vars
             PROVE  OrphansOnlyFromRaces'
  OBVIOUS
<1> USE DEF Bookkeeping, Done, Goto, db, history
<1>1. ASSUME NEW h \in Handlers, NEW l \in Ids, NEW town \in Towns,
             NEW rest \in Rests, NEW n \in 1 .. 2, ListingsCreate(h, l, town, rest, n)
      PROVE  OrphansOnlyFromRaces'
  BY <1>1 DEF ListingsCreate, OrphansOnlyFromRaces
<1>2. ASSUME NEW h \in Handlers, NEW l \in Ids, NEW n \in 1 .. 2, ImagesCreate(h, l, n)
      PROVE  OrphansOnlyFromRaces'
  BY <1>2 DEF ImagesCreate, OrphansOnlyFromRaces
<1>3. ASSUME NEW h \in Handlers, NEW l \in Ids, NEW p \in Params,
             ListingsUpdate(h, l, p)
      PROVE  OrphansOnlyFromRaces'
  BY <1>3 DEF ListingsUpdate, OrphansOnlyFromRaces
<1>4. ASSUME NEW h \in Handlers, NEW l \in Ids, TransitionBooking(h, l)
      PROVE  OrphansOnlyFromRaces'
  BY <1>4 DEF TransitionBooking, OrphansOnlyFromRaces
<1>5. ASSUME NEW h \in Handlers, NEW l \in Ids, ListingsDestroy(h, l)
      PROVE  OrphansOnlyFromRaces'
  BY <1>5 DEF ListingsDestroy, OrphansOnlyFromRaces
<1>6. ASSUME NEW h \in Handlers, NEW l \in Ids, NEW i \in Photos, ImagesDestroy(h, l, i)
      PROVE  OrphansOnlyFromRaces'
  BY <1>6 DEF ImagesDestroy, OrphansOnlyFromRaces
<1>7. ASSUME NEW h \in Handlers, WriteBlob(h) PROVE OrphansOnlyFromRaces'
  BY <1>7 DEF WriteBlob, OrphansOnlyFromRaces
<1>8. ASSUME NEW h \in Handlers, InsertPhoto(h) PROVE OrphansOnlyFromRaces'
  BY <1>8 DEF InsertPhoto, OrphansOnlyFromRaces
<1>9. ASSUME NEW h \in Handlers, CommitUpload(h) PROVE OrphansOnlyFromRaces'
  BY <1>9 DEF CommitUpload, OrphansOnlyFromRaces
<1>10. ASSUME NEW h \in Handlers, Save(h) PROVE OrphansOnlyFromRaces'
  BY <1>10 DEF Save, OrphansOnlyFromRaces, TypeOK
<1>11. ASSUME NEW h \in Handlers, SetStatus(h) PROVE OrphansOnlyFromRaces'
  BY <1>11 DEF SetStatus, OrphansOnlyFromRaces
<1>12. ASSUME NEW h \in Handlers, NEW i \in Photos, PurgeRows(h, i)
       PROVE  OrphansOnlyFromRaces'
  BY <1>12 DEF PurgeRows, OrphansOnlyFromRaces
<1>13. ASSUME NEW h \in Handlers, Unlink(h) PROVE OrphansOnlyFromRaces'
  BY <1>13 DEF Unlink, OrphansOnlyFromRaces
<1>14. ASSUME NEW h \in Handlers, CommitPurge(h) PROVE OrphansOnlyFromRaces'
  BY <1>14 DEF CommitPurge, OrphansOnlyFromRaces, DestroySeesAll, PhotosOf, Purging
<1>15. ASSUME NEW h \in Handlers, Fail(h) PROVE OrphansOnlyFromRaces'
  BY <1>15 DEF Fail, OrphansOnlyFromRaces
<1>16. CASE UNCHANGED vars
  BY <1>16 DEF vars, OrphansOnlyFromRaces
<1> QED BY <1>1, <1>2, <1>3, <1>4, <1>5, <1>6, <1>7, <1>8, <1>9, <1>10, <1>11, <1>12,
  <1>13, <1>14, <1>15, <1>16 DEF Next

\* Columns and region are written together, from a row that matched or from a town.
LEMMA RegionsStep ==
    Bookkeeping /\ RegionMatchesTown /\ PendingRegions /\ [Next]_vars =>
        RegionMatchesTown' /\ PendingRegions'
<1> SUFFICES ASSUME Bookkeeping, RegionMatchesTown, PendingRegions, [Next]_vars
             PROVE  RegionMatchesTown' /\ PendingRegions'
  OBVIOUS
<1>0. manifest' = manifest
  BY DEF Next, vars
<1> USE <1>0 DEF Bookkeeping, Done, Goto, db, history
<1>1. ASSUME NEW h \in Handlers, NEW l \in Ids, NEW town \in Towns,
             NEW rest \in Rests, NEW n \in 1 .. 2, ListingsCreate(h, l, town, rest, n)
      PROVE  RegionMatchesTown' /\ PendingRegions'
  <2> DEFINE r == assignRegion([town |-> town, rest |-> rest, region |-> None])
  <2>1. r.region = Resolve(manifest, r.town)
    BY <1>1, AssignRegionRow DEF ListingsCreate, listingService, TypeOK
  <2> HIDE DEF r
  <2>2. loc'[h].row = r /\ UNCHANGED rows
    BY <1>1 DEF ListingsCreate, TypeOK, r
  <2>3. \A g \in Handlers \ {h} : loc'[g] = loc[g]
    BY <1>1 DEF ListingsCreate
  <2> QED BY <2>1, <2>2, <2>3 DEF RegionMatchesTown, PendingRegions
<1>2. ASSUME NEW h \in Handlers, NEW l \in Ids, NEW n \in 1 .. 2, ImagesCreate(h, l, n)
      PROVE  RegionMatchesTown' /\ PendingRegions'
  BY <1>2 DEF ImagesCreate, RegionMatchesTown, PendingRegions, NoLocals
<1>3. ASSUME NEW h \in Handlers, NEW l \in Ids, NEW p \in Params,
             ListingsUpdate(h, l, p)
      PROVE  RegionMatchesTown' /\ PendingRegions'
  <2> DEFINE r == assignRegion(applyUpdate(rows[l], p))
  <2>1. r.region = Resolve(manifest, r.town)
    <3>1. applyUpdate(rows[l], p) \in Row
      BY <1>3 DEF ListingsUpdate, TypeOK, applyUpdate, Row, Params
    <3> QED BY <1>3, <3>1, AssignRegionRow DEF ListingsUpdate, listingService, TypeOK, Row
  <2> HIDE DEF r
  <2>2. loc'[h].row = r /\ UNCHANGED rows
    BY <1>3 DEF ListingsUpdate, TypeOK, r
  <2>3. \A g \in Handlers \ {h} : loc'[g] = loc[g]
    BY <1>3 DEF ListingsUpdate
  <2> QED BY <2>1, <2>2, <2>3 DEF RegionMatchesTown, PendingRegions
<1>4. ASSUME NEW h \in Handlers, NEW l \in Ids, TransitionBooking(h, l)
      PROVE  RegionMatchesTown' /\ PendingRegions'
  BY <1>4 DEF TransitionBooking, RegionMatchesTown, PendingRegions
<1>5. ASSUME NEW h \in Handlers, NEW l \in Ids, ListingsDestroy(h, l)
      PROVE  RegionMatchesTown' /\ PendingRegions'
  BY <1>5 DEF ListingsDestroy, RegionMatchesTown, PendingRegions, NoLocals
<1>6. ASSUME NEW h \in Handlers, NEW l \in Ids, NEW i \in Photos, ImagesDestroy(h, l, i)
      PROVE  RegionMatchesTown' /\ PendingRegions'
  BY <1>6 DEF ImagesDestroy, RegionMatchesTown, PendingRegions, NoLocals
<1>7. ASSUME NEW h \in Handlers, WriteBlob(h)
      PROVE  RegionMatchesTown' /\ PendingRegions'
  BY <1>7 DEF WriteBlob, RegionMatchesTown, PendingRegions, TypeOK
<1>8. ASSUME NEW h \in Handlers, InsertPhoto(h)
      PROVE  RegionMatchesTown' /\ PendingRegions'
  BY <1>8 DEF InsertPhoto, RegionMatchesTown, PendingRegions, TypeOK
<1>9. ASSUME NEW h \in Handlers, CommitUpload(h)
      PROVE  RegionMatchesTown' /\ PendingRegions'
  BY <1>9 DEF CommitUpload, RegionMatchesTown, PendingRegions, NoLocals
<1>10. ASSUME NEW h \in Handlers, Save(h) PROVE RegionMatchesTown' /\ PendingRegions'
  BY <1>10 DEF Save, RegionMatchesTown, PendingRegions, NoLocals
<1>11. ASSUME NEW h \in Handlers, SetStatus(h)
       PROVE  RegionMatchesTown' /\ PendingRegions'
  BY <1>11 DEF SetStatus, RegionMatchesTown, PendingRegions, NoLocals
<1>12. ASSUME NEW h \in Handlers, NEW i \in Photos, PurgeRows(h, i)
       PROVE  RegionMatchesTown' /\ PendingRegions'
  BY <1>12 DEF PurgeRows, RegionMatchesTown, PendingRegions, TypeOK, Locals
<1>13. ASSUME NEW h \in Handlers, Unlink(h) PROVE RegionMatchesTown' /\ PendingRegions'
  BY <1>13 DEF Unlink, RegionMatchesTown, PendingRegions
<1>14. ASSUME NEW h \in Handlers, CommitPurge(h)
       PROVE  RegionMatchesTown' /\ PendingRegions'
  BY <1>14 DEF CommitPurge, RegionMatchesTown, PendingRegions, NoLocals
<1>15. ASSUME NEW h \in Handlers, Fail(h) PROVE RegionMatchesTown' /\ PendingRegions'
  BY <1>15 DEF Fail, RegionMatchesTown, PendingRegions, NoLocals
<1>16. CASE UNCHANGED vars
  BY <1>16 DEF vars, RegionMatchesTown, PendingRegions
<1> QED BY <1>1, <1>2, <1>3, <1>4, <1>5, <1>6, <1>7, <1>8, <1>9, <1>10, <1>11, <1>12,
  <1>13, <1>14, <1>15, <1>16 DEF Next

\* applyUpdate and assignRegion leave the columns whose parameters were not given.
LEMMA UpdateKeepsOthers ==
    ASSUME NEW row \in Row, NEW p \in Params, NEW f \in {"town", "rest"} \ Given(p)
    PROVE  assignRegion(applyUpdate(row, p))[f] = row[f]
<1>1. CASE f = "town"
  BY <1>1 DEF Given, applyUpdate, assignRegion, Row, Params
<1>2. CASE f = "rest"
  BY <1>2 DEF Given, applyUpdate, assignRegion, Row, Params
<1> QED BY <1>1, <1>2

\* The handler keeps what it read, and what it will write, until it saves.
LEMMA PendingUpdatesStep ==
    Bookkeeping /\ PendingUpdates /\ [Next]_vars => PendingUpdates'
<1> SUFFICES ASSUME Bookkeeping, PendingUpdates, [Next]_vars PROVE PendingUpdates'
  OBVIOUS
<1> USE DEF Bookkeeping, Done, Goto, db, history
<1>1. ASSUME NEW h \in Handlers, NEW l \in Ids, NEW town \in Towns,
             NEW rest \in Rests, NEW n \in 1 .. 2, ListingsCreate(h, l, town, rest, n)
      PROVE  PendingUpdates'
  BY <1>1 DEF ListingsCreate, PendingUpdates, TypeOK
<1>2. ASSUME NEW h \in Handlers, NEW l \in Ids, NEW n \in 1 .. 2, ImagesCreate(h, l, n)
      PROVE  PendingUpdates'
  BY <1>2 DEF ImagesCreate, PendingUpdates, TypeOK
<1>3. ASSUME NEW h \in Handlers, NEW l \in Ids, NEW p \in Params,
             ListingsUpdate(h, l, p)
      PROVE  PendingUpdates'
  <2> DEFINE r == assignRegion(applyUpdate(rows[l], p))
  <2>1. rows[l] \in Row
    BY <1>3 DEF ListingsUpdate, TypeOK
  <2>2. \A f \in {"town", "rest"} \ Given(p) : r[f] = rows[l][f]
    BY <2>1, UpdateKeepsOthers
  <2> HIDE DEF r
  <2>3. loc'[h].row = r /\ loc'[h].read = rows[l] /\ loc'[h].given = Given(p)
    BY <1>3 DEF ListingsUpdate, TypeOK, r, NoLocals
  <2>4. \A g \in Handlers \ {h} : pc'[g] = pc[g] /\ loc'[g] = loc[g]
    BY <1>3 DEF ListingsUpdate
  <2> QED BY <2>2, <2>3, <2>4 DEF PendingUpdates
<1>4. ASSUME NEW h \in Handlers, NEW l \in Ids, TransitionBooking(h, l)
      PROVE  PendingUpdates'
  BY <1>4 DEF TransitionBooking, PendingUpdates, TypeOK
<1>5. ASSUME NEW h \in Handlers, NEW l \in Ids, ListingsDestroy(h, l)
      PROVE  PendingUpdates'
  BY <1>5 DEF ListingsDestroy, PendingUpdates, TypeOK
<1>6. ASSUME NEW h \in Handlers, NEW l \in Ids, NEW i \in Photos, ImagesDestroy(h, l, i)
      PROVE  PendingUpdates'
  BY <1>6 DEF ImagesDestroy, PendingUpdates, TypeOK
<1>7. ASSUME NEW h \in Handlers, WriteBlob(h) PROVE PendingUpdates'
  BY <1>7 DEF WriteBlob, PendingUpdates, TypeOK
<1>8. ASSUME NEW h \in Handlers, InsertPhoto(h) PROVE PendingUpdates'
  BY <1>8 DEF InsertPhoto, PendingUpdates, TypeOK
<1>9. ASSUME NEW h \in Handlers, CommitUpload(h) PROVE PendingUpdates'
  BY <1>9 DEF CommitUpload, PendingUpdates, TypeOK
<1>10. ASSUME NEW h \in Handlers, Save(h) PROVE PendingUpdates'
  BY <1>10 DEF Save, PendingUpdates, TypeOK
<1>11. ASSUME NEW h \in Handlers, SetStatus(h) PROVE PendingUpdates'
  BY <1>11 DEF SetStatus, PendingUpdates, TypeOK
<1>12. ASSUME NEW h \in Handlers, NEW i \in Photos, PurgeRows(h, i)
       PROVE  PendingUpdates'
  BY <1>12 DEF PurgeRows, PendingUpdates, TypeOK
<1>13. ASSUME NEW h \in Handlers, Unlink(h) PROVE PendingUpdates'
  BY <1>13 DEF Unlink, PendingUpdates, TypeOK
<1>14. ASSUME NEW h \in Handlers, CommitPurge(h) PROVE PendingUpdates'
  BY <1>14 DEF CommitPurge, PendingUpdates, TypeOK
<1>15. ASSUME NEW h \in Handlers, Fail(h) PROVE PendingUpdates'
  BY <1>15 DEF Fail, PendingUpdates, TypeOK
<1>16. CASE UNCHANGED vars
  BY <1>16 DEF vars, PendingUpdates
<1> QED BY <1>1, <1>2, <1>3, <1>4, <1>5, <1>6, <1>7, <1>8, <1>9, <1>10, <1>11, <1>12,
  <1>13, <1>14, <1>15, <1>16 DEF Next

\* A handler leaves its Save by writing its row, or by failing with the rows as
\* they were.
LEMMA UpdateEnds ==
    ASSUME Bookkeeping, Next, NEW h \in Handlers, pc[h] = "save", pc'[h] = "idle"
    PROVE  Save(h) \/ UNCHANGED rows
<1> USE DEF Bookkeeping, Done, Goto, db, history
<1>1. PICK g \in Handlers :
        \/ \E l \in Ids :
            \/ \E town \in Towns, rest \in Rests, n \in 1 .. 2 :
                ListingsCreate(g, l, town, rest, n)
            \/ \E n \in 1 .. 2 : ImagesCreate(g, l, n)
            \/ \E p \in Params : ListingsUpdate(g, l, p)
            \/ TransitionBooking(g, l)
            \/ ListingsDestroy(g, l)
            \/ \E i \in Photos : ImagesDestroy(g, l, i)
        \/ WriteBlob(g) \/ InsertPhoto(g) \/ CommitUpload(g)
        \/ Save(g) \/ SetStatus(g)
        \/ \E i \in Photos : PurgeRows(g, i)
        \/ Unlink(g) \/ CommitPurge(g) \/ Fail(g)
  BY DEF Next
<1>2. CASE Save(g)
  BY <1>2 DEF Save, TypeOK
<1>3. CASE SetStatus(g)
  BY <1>3 DEF SetStatus, TypeOK
<1>4. CASE CommitUpload(g)
  BY <1>4 DEF CommitUpload, TypeOK
<1>5. CASE CommitPurge(g)
  BY <1>5 DEF CommitPurge, TypeOK
<1> QED BY <1>1, <1>2, <1>3, <1>4, <1>5 DEF ListingsCreate, ImagesCreate, ListingsUpdate,
  TransitionBooking, ListingsDestroy, ImagesDestroy, WriteBlob, InsertPhoto, PurgeRows,
  Unlink, Fail

-----------------------------------------------------------------------------
\* The inductive invariant: handlers hold disjoint photos, uploads hold files no
\* row names, purges hold rows of their listing.
THEOREM BookkeepingHolds == Spec => []Bookkeeping
BY BookkeepingInit, BookkeepingStep, PTL DEF Spec

\* Rows, photos, files and every handler's locals keep their types.
THEOREM TypeCorrect == Spec => []TypeOK
<1>1. Bookkeeping => TypeOK
  BY DEF Bookkeeping
<1> QED BY <1>1, BookkeepingHolds, PTL

\* The storage keeps the file of every photo that a listing shows, whichever
\* uploads, purges, failures and restarts come in between.
THEOREM PhotosStayServable == Spec => []PhotosServable
<1>1. Init => PhotosServable
  BY DEF Init, PhotosServable
<1> QED BY <1>1, ServableStep, BookkeepingHolds, PTL DEF Spec

\* UploadPhotos and purgeAttachment leave no file behind, but when a transaction
\* is rolled back or os.Remove fails.
THEOREM FilesStayAccountedFor == Spec => []FilesAccountedFor
<1>1. Init => PurgedFiles /\ FilesAccountedFor
  BY DEF Init, PurgedFiles, FilesAccountedFor
<1> QED BY <1>1, PurgedFilesStep, AccountedStep, BookkeepingHolds, PTL DEF Spec

\* A photo outlives its listing only when its upload was under way while Destroy
\* ran.
THEOREM NoOrphans == Spec => []OrphansOnlyFromRaces
<1>1. Init => DestroySeesAll /\ OrphansOnlyFromRaces
  BY DEF Init, DestroySeesAll, Purging, OrphansOnlyFromRaces
<1> QED BY <1>1, DestroySeesStep, OrphansStep, BookkeepingHolds, PTL DEF Spec

\* Every stored listing has the region that the manifest gives its town.
THEOREM RegionsMatch == Spec => []RegionMatchesTown
<1>1. Init => RegionMatchesTown /\ PendingRegions
  BY DEF Init, RegionMatchesTown, PendingRegions, NoLocals
<1> QED BY <1>1, RegionsStep, BookkeepingHolds, PTL DEF Spec

\* No listing is created before regionsOnce has accepted the manifest.
LoadedOnce == created # {} => Parses(manifest)

\* Create is behind listingService, and the manifest stays what it is.
LEMMA LoadedStep == Bookkeeping /\ LoadedOnce /\ [Next]_vars => LoadedOnce'
<1> SUFFICES ASSUME Bookkeeping, LoadedOnce, [Next]_vars PROVE LoadedOnce'
  OBVIOUS
<1>1. manifest' = manifest
  BY DEF Next, vars
<1>2. ASSUME NEW h \in Handlers, NEW l \in Ids, NEW town \in Towns,
             NEW rest \in Rests, NEW n \in 1 .. 2, ListingsCreate(h, l, town, rest, n)
      PROVE  Parses(manifest)
  BY <1>2 DEF ListingsCreate, listingService
<1>3. CASE created' # created
  <2>1. PICK h \in Handlers :
          \/ \E l \in Ids :
              \/ \E town \in Towns, rest \in Rests, n \in 1 .. 2 :
                  ListingsCreate(h, l, town, rest, n)
              \/ \E n \in 1 .. 2 : ImagesCreate(h, l, n)
              \/ \E p \in Params : ListingsUpdate(h, l, p)
              \/ TransitionBooking(h, l)
              \/ ListingsDestroy(h, l)
              \/ \E i \in Photos : ImagesDestroy(h, l, i)
          \/ WriteBlob(h) \/ InsertPhoto(h) \/ CommitUpload(h)
          \/ Save(h) \/ SetStatus(h)
          \/ \E i \in Photos : PurgeRows(h, i)
          \/ Unlink(h) \/ CommitPurge(h) \/ Fail(h)
    BY <1>3 DEF Next, vars
  <2>2. \A l \in Ids :
          /\ \A n \in 1 .. 2 : ~ImagesCreate(h, l, n)
          /\ \A p \in Params : ~ListingsUpdate(h, l, p)
          /\ ~TransitionBooking(h, l) /\ ~ListingsDestroy(h, l)
          /\ \A i \in Photos : ~ImagesDestroy(h, l, i)
    BY <1>3 DEF ImagesCreate, ListingsUpdate, TransitionBooking, ListingsDestroy,
       ImagesDestroy, db
  <2>3. /\ ~WriteBlob(h) /\ ~InsertPhoto(h) /\ ~CommitUpload(h) /\ ~Save(h)
        /\ ~SetStatus(h) /\ ~Unlink(h) /\ ~CommitPurge(h) /\ ~Fail(h)
        /\ \A i \in Photos : ~PurgeRows(h, i)
    BY <1>3 DEF WriteBlob, InsertPhoto, CommitUpload, Save, SetStatus, Unlink,
       CommitPurge, Fail, PurgeRows, db
  <2>4. PICK l \in Ids, town \in Towns, rest \in Rests, n \in 1 .. 2 :
          ListingsCreate(h, l, town, rest, n)
    BY <2>1, <2>2, <2>3
  <2> QED BY <1>1, <1>2, <2>4 DEF LoadedOnce
<1>4. CASE created' = created
  BY <1>1, <1>4 DEF LoadedOnce
<1> QED BY <1>3, <1>4

\* A stored listing's region does not depend on the order in which regions.yml lists
\* the regions: Create and Update run only with a manifest without duplicate towns.
THEOREM RegionsIgnoreFileOrder == Spec => []ResolvesByTownOnly
<1>1. Init => LoadedOnce
  BY DEF Init, LoadedOnce
<1>2. Bookkeeping /\ LoadedOnce /\ RegionMatchesTown => ResolvesByTownOnly
  <2> SUFFICES ASSUME Bookkeeping, LoadedOnce, RegionMatchesTown,
                      NEW l \in Ids, rows[l] # None, NEW m \in Reorderings(manifest)
               PROVE  rows[l].region = Resolve(m, rows[l].town)
    BY DEF ResolvesByTownOnly
  <2>1. Parses(manifest) /\ DOMAIN manifest \subseteq Nat
    BY ManifestsAssumption DEF Bookkeeping, TypeOK, LoadedOnce
  <2> QED BY <2>1, ReorderingsResolve DEF RegionMatchesTown
<1> QED BY <1>1, <1>2, LoadedStep, BookkeepingHolds, RegionsMatch, PTL DEF Spec

\* Update changes the columns whose parameters it was given, and another only when
\* the listing was written between its read and its Save.
THEOREM UpdatesAreLostOnlyInRaces == Spec => UpdatesLostOnlyInRaces
<1>1. Init => PendingUpdates
  BY DEF Init, PendingUpdates
<1>2. ASSUME Bookkeeping, PendingUpdates, [Next]_vars, NEW h \in Handlers,
             NEW l, l = loc[h].listing, pc[h] = "save", rows[l] = loc[h].read,
             rows'[l] # rows[l], pc'[h] = "idle",
             NEW f \in {"town", "rest"} \ loc[h].given
      PROVE  rows'[l][f] = rows[l][f]
  <2>1. Next
    BY <1>2 DEF vars
  <2>2. Save(h)
    BY <1>2, <2>1, UpdateEnds
  <2>3. l \in Ids
    BY <1>2 DEF Bookkeeping, PhasesOK
  <2>4. rows'[l] = loc[h].row
    BY <1>2, <2>2, <2>3 DEF Save, Bookkeeping, TypeOK
  <2>5. loc[h].row[f] = loc[h].read[f]
    BY <1>2 DEF PendingUpdates
  <2> QED BY <1>2, <2>4, <2>5
<1>3. Bookkeeping /\ PendingUpdates /\ [Next]_vars =>
        [\A h \in Handlers :
            LET l == loc[h].listing IN
            pc[h] = "save" /\ rows[l] = loc[h].read /\ rows'[l] # rows[l]
                /\ pc'[h] = "idle" =>
              \A f \in {"town", "rest"} \ loc[h].given : rows'[l][f] = rows[l][f]]_vars
  BY <1>2
<1> QED BY <1>1, <1>3, PendingUpdatesStep, BookkeepingHolds, PTL
  DEF Spec, UpdatesLostOnlyInRaces

\* Both begin with no listing, no photo and no file.
LEMMA StoreStarts == Init => Store!StoreInit
BY DEF Init, Store!StoreInit

\* Each step of a handler is one of the store or leaves it alone: only WriteBlob,
\* Unlink and the commits touch what the store has.
LEMMA StoreStep == Bookkeeping /\ [Next]_vars => [Store!StoreNext]_(Store!store)
<1> SUFFICES ASSUME Bookkeeping, [Next]_vars PROVE [Store!StoreNext]_(Store!store)
  OBVIOUS
<1> USE DEF Bookkeeping, Done, Goto, db, history
<1>1. ASSUME NEW h \in Handlers, NEW l \in Ids, NEW town \in Towns,
             NEW rest \in Rests, NEW n \in 1 .. 2, ListingsCreate(h, l, town, rest, n)
      PROVE  [Store!StoreNext]_(Store!store)
  BY <1>1 DEF ListingsCreate, Store!store
<1>2. ASSUME NEW h \in Handlers, NEW l \in Ids, NEW n \in 1 .. 2, ImagesCreate(h, l, n)
      PROVE  [Store!StoreNext]_(Store!store)
  BY <1>2 DEF ImagesCreate, Store!store
<1>3. ASSUME NEW h \in Handlers, NEW l \in Ids, NEW p \in Params,
             ListingsUpdate(h, l, p)
      PROVE  [Store!StoreNext]_(Store!store)
  BY <1>3 DEF ListingsUpdate, Store!store
<1>4. ASSUME NEW h \in Handlers, NEW l \in Ids, TransitionBooking(h, l)
      PROVE  [Store!StoreNext]_(Store!store)
  BY <1>4 DEF TransitionBooking, Store!store
<1>5. ASSUME NEW h \in Handlers, NEW l \in Ids, ListingsDestroy(h, l)
      PROVE  [Store!StoreNext]_(Store!store)
  BY <1>5 DEF ListingsDestroy, Store!store
<1>6. ASSUME NEW h \in Handlers, NEW l \in Ids, NEW i \in Photos, ImagesDestroy(h, l, i)
      PROVE  [Store!StoreNext]_(Store!store)
  BY <1>6 DEF ImagesDestroy, Store!store
<1>7. ASSUME NEW h \in Handlers, WriteBlob(h) PROVE [Store!StoreNext]_(Store!store)
  <2>1. Store!WriteBlob(uploaded + 1) /\ uploaded + 1 \in Photos
    BY <1>7, PhotosAssumption DEF WriteBlob, Store!WriteBlob, Photos
  <2> QED BY <2>1, Zenon DEF Store!StoreNext
<1>8. ASSUME NEW h \in Handlers, InsertPhoto(h) PROVE [Store!StoreNext]_(Store!store)
  BY <1>8 DEF InsertPhoto, Store!store
<1>9. ASSUME NEW h \in Handlers, CommitUpload(h) PROVE [Store!StoreNext]_(Store!store)
  <2>1. PICK l \in Ids : l = loc[h].listing
    BY <1>9 DEF CommitUpload, PhasesOK
  <2>2. PICK uploads \in SUBSET Photos : uploads = loc[h].done
    BY DEF TypeOK, Locals
  <2>3. Store!Publish(l, uploads)
    BY <1>9, <2>1, <2>2 DEF CommitUpload, Store!Publish, UploadsFresh, Holds, Uploading
  <2> QED BY <2>3 DEF Store!StoreNext
<1>10. ASSUME NEW h \in Handlers, Save(h) PROVE [Store!StoreNext]_(Store!store)
  <2>1. PICK l \in Ids : l = loc[h].listing
    BY <1>10 DEF Save, PhasesOK
  <2>2. Store!Relist(l)
    BY <1>10, <2>1 DEF Save, Store!Relist, TypeOK
  <2> QED BY <2>2 DEF Store!StoreNext
<1>11. ASSUME NEW h \in Handlers, SetStatus(h) PROVE [Store!StoreNext]_(Store!store)
  <2>1. PICK l \in Ids : l = loc[h].listing
    BY <1>11 DEF SetStatus, PhasesOK
  <2>2. Store!Relist(l)
    BY <1>11, <2>1 DEF SetStatus, Store!Relist, TypeOK
  <2> QED BY <2>2 DEF Store!StoreNext
<1>12. ASSUME NEW h \in Handlers, NEW i \in Photos, PurgeRows(h, i)
       PROVE  [Store!StoreNext]_(Store!store)
  BY <1>12 DEF PurgeRows, Store!store
<1>13. ASSUME NEW h \in Handlers, Unlink(h) PROVE [Store!StoreNext]_(Store!store)
  <2>1. CASE UNCHANGED files
    BY <1>13, <2>1 DEF Unlink, Store!store
  <2>2. CASE files' = files \ {loc[h].key}
    <3>1. loc[h].key \in DOMAIN photos /\ loc[h].key \in Photos
      BY <1>13 DEF Unlink, PhasesOK, PurgesKnown, Purging, TypeOK, Locals
    <3>2. Store!RemoveFile(loc[h].key)
      BY <1>13, <2>2, <3>1 DEF Unlink, Store!RemoveFile
    <3> QED BY <3>1, <3>2, Zenon DEF Store!StoreNext
  <2> QED BY <1>13, <2>1, <2>2 DEF Unlink
<1>14. ASSUME NEW h \in Handlers, CommitPurge(h) PROVE [Store!StoreNext]_(Store!store)
  <2>1. PICK l \in Ids : l = loc[h].listing
    BY <1>14 DEF CommitPurge, PhasesOK
  <2>2. PICK purged \in SUBSET Photos : purged = loc[h].done
    BY DEF TypeOK, Locals
  <2>3. Store!Withdraw(l, purged)
    BY <1>14, <2>1, <2>2 DEF CommitPurge, Store!Withdraw, PurgesKnown, Purging
  <2> QED BY <2>3 DEF Store!StoreNext
<1>15. ASSUME NEW h \in Handlers, Fail(h) PROVE [Store!StoreNext]_(Store!store)
  BY <1>15 DEF Fail, Store!store
<1>16. CASE UNCHANGED vars
  BY <1>16 DEF vars, Store!store
<1> QED BY <1>1, <1>2, <1>3, <1>4, <1>5, <1>6, <1>7, <1>8, <1>9, <1>10, <1>11, <1>12,
  <1>13, <1>14, <1>15, <1>16 DEF Next

\* The handlers of internal/httpapi and internal/services implement the store that
\* publishes files it has and withdraws what it published.
THEOREM PhotoStoreImplemented == Spec => ImplementsPhotoStore
BY StoreStarts, StoreStep, BookkeepingHolds, PTL DEF Spec, ImplementsPhotoStore,
   Store!StoreSpec

=============================================================================
