------------------------------ MODULE Listings ------------------------------
(***************************************************************************)
(* Listings and their photos: ListingService and the handlers that call    *)
(* it.  A listing row holds the columns its owner edits and the region     *)
(* that follows from the town; a photo is an attachment row with its blob  *)
(* row, and a file on disk named by the blob's key.  The rows change when  *)
(* their transaction commits, files at once, and nothing locks a listing   *)
(* between a handler's read of it and its write.                           *)
(*                                                                         *)
(* A photo is represented by a number that stands for its attachment id,   *)
(* its blob id and its key, and of the columns the model keeps the town    *)
(* and one other, rest.  Destroy's deletions from other tables are in      *)
(* Bookings, Chats and Embedding, each with its table, and the enqueueing  *)
(* after Create and Update is in Embedding.  Which of the files it might   *)
(* have been built with the server carries is chosen in the initial state. *)
(***************************************************************************)
EXTENDS Naturals, FiniteSets, Sequences

CONSTANTS
    Ids,        \* listing ids the sequence can issue (a bound in TLC)
    Towns,
    Rests,      \* values of the other columns
    None,       \* no row, no region; a blank or absent parameter
    Manifests,  \* what knowledge/regions.yml may contain when the server is built
    Planned,    \* listings with a booking that has a trip plan
    Handlers,   \* request handlers in flight at once (a bound in TLC)
    MaxPhotos   \* bound on the photos ever uploaded

INSTANCE Regions WITH NoRegion <- None

ASSUME NoneAssumption == None \notin Towns \cup Rests
ASSUME ManifestsAssumption == \A m \in Manifests : DOMAIN m \subseteq Nat
ASSUME PlannedAssumption == Planned \subseteq Ids
ASSUME PhotosAssumption == MaxPhotos \in Nat

VARIABLES
    manifest,   \* the regions.yml embedded in the server
    rows,       \* the rv_listings table
    created,    \* ids the sequence has given out
    photos,     \* committed attachments, with the listing of each
    uploaded,   \* how many keys have been generated
    files,      \* photos whose file is on disk
    pc,         \* the next step of each handler
    loc,        \* its local variables and the writes of its open transaction
    torn,       \* history: photos whose file went in a purge that was rolled back
    leaked,     \* history: files no row was ever to name, or whose removal failed
    late,       \* history: photos uploaded while their listing was destroyed
    gone        \* history: photos whose rows were deleted

vars == <<manifest, rows, created, photos, uploaded, files, pc, loc, torn, leaked, late, gone>>
db == <<rows, created, photos>>
history == <<torn, leaked, late, gone>>

Slugs == UNION {{m[i].slug : i \in DOMAIN m} : m \in Manifests}
Row == [town : Towns, rest : Rests, region : Slugs \cup {None}]
ASSUME RowAssumption == None \notin Row
Photos == 1 .. MaxPhotos
Params == [town : Towns \cup {None}, rest : Rests \cup {None}]
NoLocals == [listing |-> None, row |-> None, read |-> None, given |-> {}, left |-> 0,
             todo |-> {}, key |-> 0, done |-> {}, whole |-> FALSE]

PhotosOf(l) == {i \in DOMAIN photos : photos[i] = l}

\* Mutant: a listing keeps the region it had.
assignRegionOnce(row) ==
    [row EXCEPT !.region = IF @ = None THEN Resolve(manifest, row.town) ELSE @]

assignRegion(row) == [row EXCEPT !.region = Resolve(manifest, row.town)]

\* listingService(), where every handler that writes listings or photos begins:
\* regionsOnce panics, each time, when the manifest was refused.
listingService == Parses(manifest)

Given(p) == {f \in {"town", "rest"} : p[f] # None}

\* Mutant: an absent parameter clears its field.
applyUpdateAll(row, p) == [row EXCEPT !.town = p.town, !.rest = p.rest]

\* A field is replaced when its parameter is given.  (One given blank is
\* refused after that, and nothing is saved.)
applyUpdate(row, p) ==
    [row EXCEPT !.town = IF p.town # None THEN p.town ELSE @,
                !.rest = IF p.rest # None THEN p.rest ELSE @]

Goto(h, step) == pc' = [pc EXCEPT ![h] = step]
Done(h) == Goto(h, "idle") /\ loc' = [loc EXCEPT ![h] = NoLocals]

\* Photos whose rows an open transaction has deleted; another waits for them.
Locked(h) == UNION {loc[g].done : g \in {k \in Handlers \ {h} :
                                    pc[k] \in {"purge", "unlink"}}}

-----------------------------------------------------------------------------
Init ==
    /\ manifest \in Manifests
    /\ rows = [l \in Ids |-> None]
    /\ created = {}
    /\ photos = [i \in {} |-> 0]
    /\ uploaded = 0
    /\ files = {}
    /\ pc = [h \in Handlers |-> "idle"]
    /\ loc = [h \in Handlers |-> NoLocals]
    /\ torn = {}
    /\ leaked = {}
    /\ late = {}
    /\ gone = {}

\* Create, up to attachImages.  Blank columns and no image at all are refused.
ListingsCreate(h, l, town, rest, n) ==
    /\ pc[h] = "idle"
    /\ listingService
    /\ l \notin created
    /\ created' = created \cup {l}
    /\ Goto(h, "write")
    /\ loc' = [loc EXCEPT ![h] = [NoLocals EXCEPT
            !.listing = l, !.left = n,
            !.row = assignRegion([town |-> town, rest |-> rest, region |-> None])]]
    /\ UNCHANGED <<rows, photos, uploaded, files, history>>

\* AttachImages, of a listing the handler has found; its row is not locked and
\* attachments have no foreign key to it.
ImagesCreate(h, l, n) ==
    /\ pc[h] = "idle"
    /\ rows[l] # None
    /\ listingService
    /\ Goto(h, "write")
    /\ loc' = [loc EXCEPT ![h] = [NoLocals EXCEPT !.listing = l, !.left = n]]
    /\ UNCHANGED <<db, uploaded, files, history>>

WriteBlob(h) ==
    /\ pc[h] = "write"
    /\ loc[h].left > 0
    /\ uploaded < MaxPhotos
    /\ uploaded' = uploaded + 1
    /\ files' = files \cup {uploaded'}
    /\ Goto(h, "insert")
    /\ loc' = [loc EXCEPT ![h].key = uploaded', ![h].left = @ - 1]
    /\ UNCHANGED <<db, history>>

\* The blob's and the attachment's INSERT.
InsertPhoto(h) ==
    /\ pc[h] = "insert"
    /\ Goto(h, "write")
    /\ loc' = [loc EXCEPT ![h].done = @ \cup {loc[h].key}, ![h].key = 0]
    /\ UNCHANGED <<db, uploaded, files, history>>

Destroying(l) == \E h \in Handlers :
    pc[h] \in {"purge", "unlink"} /\ loc[h].whole /\ loc[h].listing = l

CommitUpload(h) ==
    LET l == loc[h].listing IN
    /\ pc[h] = "write"
    /\ loc[h].left = 0
    /\ rows' = IF loc[h].row # None THEN [rows EXCEPT ![l] = loc[h].row] ELSE rows
    /\ photos' = [i \in DOMAIN photos \cup loc[h].done |->
                    IF i \in loc[h].done THEN l ELSE photos[i]]
    /\ late' = IF rows'[l] = None \/ Destroying(l) THEN late \cup loc[h].done ELSE late
    /\ Done(h)
    /\ UNCHANGED <<created, uploaded, files, torn, leaked, gone>>

\* findOwnedListing for listingsUpdate, and the parameters of the request.
ListingsUpdate(h, l, p) ==
    /\ pc[h] = "idle"
    /\ rows[l] # None
    /\ listingService
    /\ Goto(h, "save")
    /\ loc' = [loc EXCEPT ![h] = [NoLocals EXCEPT
            !.listing = l, !.read = rows[l], !.given = Given(p),
            !.row = assignRegion(applyUpdate(rows[l], p))]]
    /\ UNCHANGED <<db, uploaded, files, history>>

\* Save writes every column, as the handler read or changed it; when it updates
\* no row, it inserts one.
Save(h) ==
    /\ pc[h] = "save"
    /\ rows' = [rows EXCEPT ![loc[h].listing] = loc[h].row]
    /\ Done(h)
    /\ UNCHANGED <<created, photos, uploaded, files, history>>

\* transitionBooking loads the listing with its booking.
TransitionBooking(h, l) ==
    /\ pc[h] = "idle"
    /\ rows[l] # None
    /\ Goto(h, "status")
    /\ loc' = [loc EXCEPT ![h] = [NoLocals EXCEPT !.listing = l, !.row = rows[l]]]
    /\ UNCHANGED <<db, uploaded, files, history>>

\* With the status, gorm saves the listing as loaded, ON CONFLICT DO NOTHING.
SetStatus(h) ==
    /\ pc[h] = "status"
    /\ rows' = [rows EXCEPT ![loc[h].listing] = IF @ = None THEN loc[h].row ELSE @]
    /\ Done(h)
    /\ UNCHANGED <<created, photos, uploaded, files, history>>

\* Mutant: the attachments are forgotten.
DestroyRowOnly(h, l) ==
    /\ pc[h] = "idle"
    /\ rows[l] # None
    /\ listingService
    /\ Goto(h, "purge")
    /\ loc' = [loc EXCEPT ![h] = [NoLocals EXCEPT !.listing = l, !.whole = TRUE]]
    /\ UNCHANGED <<db, uploaded, files, history>>

\* Destroy's transaction starts with purgeImages' read of the attachments.
ListingsDestroy(h, l) ==
    /\ pc[h] = "idle"
    /\ rows[l] # None
    /\ listingService
    /\ Goto(h, "purge")
    /\ loc' = [loc EXCEPT ![h] = [NoLocals EXCEPT
            !.listing = l, !.todo = PhotosOf(l), !.whole = TRUE]]
    /\ UNCHANGED <<db, uploaded, files, history>>

\* DeleteImage, of an attachment that belongs to the listing.
ImagesDestroy(h, l, i) ==
    /\ pc[h] = "idle"
    /\ rows[l] # None
    /\ listingService
    /\ i \in PhotosOf(l)
    /\ Goto(h, "purge")
    /\ loc' = [loc EXCEPT ![h] = [NoLocals EXCEPT !.listing = l, !.todo = {i}]]
    /\ UNCHANGED <<db, uploaded, files, history>>

\* Mutant: the file is never removed.
PurgeRowsOnly(h, i) ==
    /\ pc[h] = "purge"
    /\ i \in loc[h].todo
    /\ i \notin Locked(h)
    /\ loc' = [loc EXCEPT ![h].todo = @ \ {i}, ![h].done = @ \cup ({i} \cap DOMAIN photos)]
    /\ UNCHANGED <<db, uploaded, files, pc, history>>

\* Mutant: a purge that finds no row removes the file all the same.
PurgeAnyway(h, i) ==
    /\ pc[h] = "purge"
    /\ i \in loc[h].todo
    /\ i \notin Locked(h)
    /\ Goto(h, "unlink")
    /\ loc' = [loc EXCEPT ![h].todo = @ \ {i}, ![h].done = @ \cup {i}, ![h].key = i]
    /\ UNCHANGED <<db, uploaded, files, history>>

\* purgeAttachment's two DELETEs.  When another purge has committed them first,
\* it finds no blob and goes on without touching the file.
PurgeRows(h, i) ==
    /\ pc[h] = "purge"
    /\ i \in loc[h].todo
    /\ i \notin Locked(h)
    /\ \/ /\ i \in DOMAIN photos
          /\ Goto(h, "unlink")
          /\ loc' = [loc EXCEPT ![h].todo = @ \ {i}, ![h].done = @ \cup {i}, ![h].key = i]
       \/ /\ i \notin DOMAIN photos
          /\ loc' = [loc EXCEPT ![h].todo = @ \ {i}]
          /\ UNCHANGED pc
    /\ UNCHANGED <<db, uploaded, files, history>>

\* os.Remove, whose error is ignored.
Unlink(h) ==
    /\ pc[h] = "unlink"
    /\ \/ files' = files \ {loc[h].key} /\ UNCHANGED leaked
       \/ leaked' = leaked \cup {loc[h].key} /\ UNCHANGED files
    /\ Goto(h, "purge")
    /\ loc' = [loc EXCEPT ![h].key = 0]
    /\ UNCHANGED <<db, uploaded, torn, late, gone>>

\* Mutant: the rows stay.
CommitPurgeNothing(h) ==
    /\ pc[h] = "purge"
    /\ loc[h].todo = {}
    /\ rows' = IF loc[h].whole THEN [rows EXCEPT ![loc[h].listing] = None] ELSE rows
    /\ Done(h)
    /\ UNCHANGED <<created, photos, uploaded, files, history>>

\* Destroy goes on to delete the rows of other tables and the listing.  A trip
\* plan of one of its bookings refuses that: its foreign key has no cascade.
CommitPurge(h) ==
    LET l == loc[h].listing IN
    /\ pc[h] = "purge"
    /\ loc[h].todo = {}
    /\ loc[h].whole => l \notin Planned
    /\ photos' = [i \in DOMAIN photos \ loc[h].done |-> photos[i]]
    /\ rows' = IF loc[h].whole THEN [rows EXCEPT ![l] = None] ELSE rows
    /\ gone' = gone \cup loc[h].done
    /\ Done(h)
    /\ UNCHANGED <<created, uploaded, files, torn, leaked, late>>

\* A statement fails or the server stops: the transaction is rolled back, what
\* happened to files is not.
Fail(h) ==
    LET upload == pc[h] \in {"write", "insert"}
        removed == loc[h].done \ files IN
    /\ pc[h] # "idle"
    /\ leaked' = IF upload THEN leaked \cup ((loc[h].done \cup {loc[h].key}) \cap files)
                 ELSE leaked
    /\ torn' = IF upload THEN torn ELSE torn \cup removed
    /\ Done(h)
    /\ UNCHANGED <<db, uploaded, files, late, gone>>

\* The manifest is a part of the program.
Next ==
    /\ UNCHANGED manifest
    /\ \E h \in Handlers :
        \/ \E l \in Ids :
            \/ \E town \in Towns, rest \in Rests, n \in 1 .. 2 :
                ListingsCreate(h, l, town, rest, n)
            \/ \E n \in 1 .. 2 : ImagesCreate(h, l, n)
            \/ \E p \in Params : ListingsUpdate(h, l, p)
            \/ TransitionBooking(h, l)
            \/ ListingsDestroy(h, l)
            \/ \E i \in Photos : ImagesDestroy(h, l, i)
        \/ WriteBlob(h)
        \/ InsertPhoto(h)
        \/ CommitUpload(h)
        \/ Save(h)
        \/ SetStatus(h)
        \/ \E i \in Photos : PurgeRows(h, i)
        \/ Unlink(h)
        \/ CommitPurge(h)
        \/ Fail(h)

Spec == Init /\ [][Next]_vars

-----------------------------------------------------------------------------
Steps == {"idle", "write", "insert", "save", "status", "purge", "unlink"}
Locals == [listing : Ids \cup {None}, row : Row \cup {None}, read : Row \cup {None},
           given : SUBSET {"town", "rest"}, left : 0 .. 2, todo : SUBSET Photos,
           key : Photos \cup {0}, done : SUBSET Photos, whole : BOOLEAN]

\* Rows, files and locals are of their types; what two open transactions insert
\* or delete is disjoint; only keys that were generated name anything.
TypeOK ==
    /\ manifest \in Manifests
    /\ rows \in [Ids -> Row \cup {None}]
    /\ \A l \in Ids : rows[l] # None => l \in created
    /\ DOMAIN photos \subseteq 1 .. uploaded
    /\ photos \in [DOMAIN photos -> created]
    /\ files \subseteq 1 .. uploaded
    /\ pc \in [Handlers -> Steps]
    /\ loc \in [Handlers -> Locals]
    /\ \A h \in Handlers : pc[h] \in {"save", "status"} => loc[h].row # None
    /\ \A g, h \in Handlers : g # h => loc[g].done \cap loc[h].done = {}

\* A transaction that has not ended has inserted or deleted the rows of photo i.
InFlight(i) == \E h \in Handlers : i = loc[h].key \/ i \in loc[h].done

\* Every photo a listing shows can be served: its file is there, but while a
\* purge of it is under way and after one that was rolled back.
PhotosServable == \A i \in DOMAIN photos : i \in files \/ i \in torn \/ InFlight(i)

\* Every file on disk belongs to a photo or to an upload that has not ended, but
\* for those of a failed upload or a failed removal.  Two deletions of a photo
\* that meet do not leave its file behind.
FilesAccountedFor == \A i \in files \ leaked : i \in DOMAIN photos \/ InFlight(i)

\* Destroy leaves no photos behind, however it meets other deletions, failed
\* ones included, and updates; only an upload under way at the time can.
OrphansOnlyFromRaces == \A i \in DOMAIN photos \ late : rows[photos[i]] # None

\* What readers see of listings and photos: handlers' statements, transactions
\* and failures implement the commits and file operations of PhotoStore.
Store == INSTANCE PhotoStore WITH
    listed <- {l \in Ids : rows[l] # None}, keys <- 1 .. uploaded

ImplementsPhotoStore == Store!StoreSpec

\* A listing's region is that of its town, whatever updates overwrite each other.
RegionMatchesTown == \A l \in Ids :
    rows[l] # None => rows[l].region = Resolve(manifest, rows[l].town)

\* Parse refuses a manifest "so a duplicate town can never resolve silently by file
\* order": whatever file the server carries, the region of a stored listing is the one
\* that its town has in every order of the regions.
ResolvesByTownOnly == \A l \in Ids : rows[l] # None =>
    \A m \in Reorderings(manifest) : rows[l].region = Resolve(m, rows[l].town)

\* Update "applies a partial change" (its comment) as long as nobody else writes
\* the listing between its read and its Save: only then can a column change whose
\* parameter was not given, and undo what another update has just been answered for.
UpdatesLostOnlyInRaces == [][\A h \in Handlers :
    LET l == loc[h].listing IN
    pc[h] = "save" /\ rows[l] = loc[h].read /\ rows'[l] # rows[l] /\ pc'[h] = "idle" =>
        \A f \in {"town", "rest"} \ loc[h].given : rows'[l][f] = rows[l][f]]_vars

\* Destroy's comment, "Done in one transaction, in foreign-key-safe order, so a
\* listing with existing Rails-created bookings/chats can be removed": a purge
\* that did not come to an end has not taken the files of photos that stay.
DoneInOneTransaction == \A i \in DOMAIN photos : i \in files \/ InFlight(i)

=============================================================================
