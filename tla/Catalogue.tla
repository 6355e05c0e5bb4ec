----------------------------- MODULE Catalogue -----------------------------
(***************************************************************************)
(* The public reads: the list of all listings, semantic search, and the    *)
(* photos' bytes.  Each is a chain of queries, every one on a snapshot of  *)
(* its own, over the rows and files that PhotoStore describes and the      *)
(* embeddings, while all of them change.  A photo is reached by a signed   *)
(* id, which does not expire, and a redirect to a key that does; the last  *)
(* step asks no database.                                                  *)
(*                                                                         *)
(* Readers change nothing that others see, so one of each kind is enough.  *)
(* An embedding is represented by its distance from the reader's query,    *)
(* and a token by what is signed.                                          *)
(***************************************************************************)
EXTENDS PhotoStore, FiniteSets, Sequences, Functions

CONSTANTS
    Scores,      \* cosine distances
    None,        \* no embedding, no expiry
    searchLimit,
    ServiceURLExpiry,   \* in ticks of the clock
    MaxTime      \* bound on the clock

ASSUME ScoresAssumption == Scores \subseteq Nat /\ None \notin Nat
ASSUME LimitAssumption == searchLimit \in Nat /\ ServiceURLExpiry \in Nat
ASSUME BoundsAssumption == IsFiniteSet(Ids) /\ MaxTime \in Nat \ {0}

VARIABLES
    distance,    \* the embeddings: the distance of each listing's vector
    clock,
    reader,      \* a request for listings and its handler's locals
    browser,     \* a client that follows a photo's address, and its handlers
    steady,      \* history: listings whose row and embedding the reader's queries met
    goneAt       \* history: when the rows of each photo were deleted

vars == <<store, distance, clock, reader, browser, steady, goneAt>>
catalogue == <<distance, clock, reader, browser>>

\* Nearest's rows, the scored listings it returns, the listings to serialize, and
\* the answer.
NoRequest == [step |-> "idle", search |-> FALSE, rows |-> <<>>, scored |-> <<>>,
              listings |-> <<>>, out |-> <<>>]
NoPage == [step |-> "idle", photo |-> None, key |-> None, overtaken |-> FALSE]

PhotosOf(l) == {i \in DOMAIN photos : photos[i] = l}
Hits == {l \in Ids : distance[l] # None}

Entry(l, score) == [listing |-> l, score |-> score]

\* Listings in the order of a query of searchLimit rows.
Rankings ==
    LET n == IF Cardinality(Hits) < searchLimit THEN Cardinality(Hits) ELSE searchLimit
    IN Injection(1 .. n, Hits)

WithScores(q) == [i \in DOMAIN q |-> Entry(q[i], distance[q[i]])]

\* Mutant: rows are limited before they are ordered.
Unordered == {WithScores(q) : q \in Rankings}

\* What SELECT ... ORDER BY score LIMIT searchLimit may return.
NearestRows == {WithScores(q) : q \in {r \in Rankings :
    /\ \A i, j \in DOMAIN r : i < j => distance[r[i]] <= distance[r[j]]
    /\ \A i \in DOMAIN r, l \in Hits :
        (\A j \in DOMAIN r : r[j] # l) => distance[r[i]] <= distance[l]}}

\* The positions in rows of the listings that are still there.
Kept(rows) == {i \in DOMAIN rows : rows[i].listing \in listed}

InOrder(positions) == {p \in Bijection(1 .. Cardinality(positions), positions) :
    \A i, j \in DOMAIN p : i < j => p[i] < p[j]}

\* What the loop over the rows collects: the rows whose listing is still there,
\* in their order.
Preserved(rows) == {[i \in DOMAIN p |-> rows[p[i]]] : p \in InOrder(Kept(rows))}

ListingsOf(scored) == [i \in DOMAIN scored |-> scored[i].listing]

\* Each listing with its photos, at its position.
Serialize(listings) == [i \in DOMAIN listings |->
    [listing |-> listings[i], images |-> PhotosOf(listings[i]), score |-> None]]

\* Mutant: the score at a position is that of the row there, kept or not.
PairRows(serialized, scored) == [i \in DOMAIN serialized |->
    [serialized[i] EXCEPT !.score = reader.rows[i].score]]

\* The scores are put back by position.
PairScores(serialized, scored) == [i \in DOMAIN serialized |->
    [serialized[i] EXCEPT !.score = scored[i].score]]

SignedID(i) == [purpose |-> "blob_id", data |-> i, exp |-> None]
BlobKey(i) == [purpose |-> "blob_key", data |-> i, exp |-> clock + ServiceURLExpiry]

\* Mutant: a token's expiry is not looked at.
verifyPurpose(token, purpose) == token.purpose = purpose

\* A token is still good at the time it expires.
verify(token, purpose) ==
    /\ token.purpose = purpose
    /\ token.exp # None => clock <= token.exp

-----------------------------------------------------------------------------
Init ==
    /\ StoreInit
    /\ distance = [l \in Ids |-> None]
    /\ clock = 1
    /\ reader = NoRequest
    /\ browser = NoPage
    /\ steady = {}
    /\ goneAt = [i \in {} |-> 0]

\* Mutant: Destroy leaves the embedding.
KeepEmbeddings == distance

\* Destroy deletes the embedding in its transaction.
DeleteEmbeddings == [l \in Ids |-> IF l \in listed \ listed' THEN None ELSE distance[l]]

\* A commit or a file operation; the rest is history.
StoreStep ==
    /\ StoreNext
    /\ distance' = DeleteEmbeddings
    /\ steady' = steady \cap listed'
    /\ goneAt' = [i \in gone' |-> IF i \in gone THEN goneAt[i] ELSE clock]
    /\ browser' = [browser EXCEPT !.overtaken =
            @ \/ (browser.step = "found" /\ browser.photo \in gone' \ gone)]
    /\ UNCHANGED <<clock, reader>>

\* The worker saves an embedding, of a listing that is there.
SaveEmbedding(l, score) ==
    /\ l \in listed
    /\ distance' = [distance EXCEPT ![l] = score]
    /\ steady' = steady \ {l}
    /\ UNCHANGED <<store, clock, reader, browser, goneAt>>

Tick ==
    /\ clock < MaxTime
    /\ clock' = clock + 1
    /\ UNCHANGED <<store, distance, reader, browser, steady, goneAt>>

\* listingsIndex reads all listings.
ListingsIndex ==
    /\ reader.step = "idle"
    /\ \E all \in Injection(1 .. Cardinality(listed), listed) :
        reader' = [NoRequest EXCEPT !.step = "images", !.listings = all]
    /\ steady' = {}
    /\ UNCHANGED <<store, distance, clock, browser, goneAt>>

\* listingsShow, of a listing that is there.
ListingsShow(l) ==
    /\ reader.step = "idle"
    /\ l \in listed
    /\ reader' = [NoRequest EXCEPT !.step = "images", !.listings = <<l>>]
    /\ steady' = {}
    /\ UNCHANGED <<store, distance, clock, browser, goneAt>>

\* listingsSearch once the query is embedded: Nearest's first query.  (When
\* Ollama fails nothing is read.)
ListingsSearch ==
    /\ reader.step = "idle"
    /\ \E rows \in NearestRows : reader' =
        [NoRequest EXCEPT !.step = "load", !.search = TRUE, !.rows = rows]
    /\ steady' = Hits
    /\ UNCHANGED <<store, distance, clock, browser, goneAt>>

\* Its second query and the loop after it; the handler takes the scores off again.
LoadListings ==
    /\ reader.step = "load"
    /\ \E scored \in Preserved(reader.rows) : reader' =
        [reader EXCEPT !.step = "images", !.scored = scored, !.listings = ListingsOf(scored)]
    /\ UNCHANGED <<store, distance, clock, browser, steady, goneAt>>

\* serializeListings, with the query for the photos.
LoadImages ==
    /\ reader.step = "images"
    /\ reader' = [reader EXCEPT !.step = "serialized", !.out = Serialize(reader.listings)]
    /\ UNCHANGED <<store, distance, clock, browser, steady, goneAt>>

\* The answer to a search.  (Index and show answer what is serialized.)
AnswerSearch ==
    /\ reader.step = "serialized" /\ reader.search
    /\ reader' = [reader EXCEPT !.step = "answered",
                                !.out = PairScores(reader.out, reader.scored)]
    /\ UNCHANGED <<store, distance, clock, browser, steady, goneAt>>

\* The request ends, answered or because a query failed.
EndRequest ==
    /\ reader.step # "idle"
    /\ reader' = NoRequest
    /\ steady' = {}
    /\ UNCHANGED <<store, distance, clock, browser, goneAt>>

\* blobRedirect finds the blob of a signed id a client has kept from any listing.
BlobRedirect(i) ==
    /\ browser.step = "idle"
    /\ verify(SignedID(i), "blob_id")
    /\ i \in DOMAIN photos
    /\ browser' = [NoPage EXCEPT !.step = "found", !.photo = i]
    /\ UNCHANGED <<store, distance, clock, reader, steady, goneAt>>

\* It signs the key, with the time of now.
GenerateBlobKey ==
    /\ browser.step = "found"
    /\ browser' = [browser EXCEPT !.step = "redirected", !.key = BlobKey(browser.photo)]
    /\ UNCHANGED <<store, distance, clock, reader, steady, goneAt>>

\* diskShow, asked at once or again later: no database, the file only.
DiskShow ==
    /\ browser.step = "redirected"
    /\ verify(browser.key, "blob_key")
    /\ browser.key.data \in files
    /\ browser' = [browser EXCEPT !.step = "served"]
    /\ UNCHANGED <<store, distance, clock, reader, steady, goneAt>>

\* The bytes have been sent.
Sent ==
    /\ browser.step = "served"
    /\ browser' = [browser EXCEPT !.step = "redirected"]
    /\ UNCHANGED <<store, distance, clock, reader, steady, goneAt>>

Leave ==
    /\ browser.step # "idle"
    /\ browser' = NoPage
    /\ UNCHANGED <<store, distance, clock, reader, steady, goneAt>>

Next ==
    \/ StoreStep
    \/ \E l \in Ids : ListingsShow(l) \/ \E score \in Scores : SaveEmbedding(l, score)
    \/ ListingsIndex
    \/ ListingsSearch
    \/ LoadListings
    \/ LoadImages
    \/ AnswerSearch
    \/ EndRequest
    \/ \E i \in Photos : BlobRedirect(i)
    \/ GenerateBlobKey
    \/ DiskShow
    \/ Sent
    \/ Leave
    \/ Tick

Spec == Init /\ [][Next]_vars

-----------------------------------------------------------------------------
Entries == [listing : Ids, score : Scores \cup {None}]
Answers == [listing : Ids, images : SUBSET Photos, score : Scores \cup {None}]

\* Rows, files and requests are of their types; photos are files that were
\* written and not deleted, and every embedding is that of a listing.
TypeOK ==
    /\ listed \subseteq Ids /\ Hits \subseteq listed
    /\ photos \in [DOMAIN photos -> Ids]
    /\ keys \subseteq Photos /\ files \subseteq keys
    /\ DOMAIN photos \subseteq keys \ gone /\ gone \subseteq keys
    /\ distance \in [Ids -> Scores \cup {None}]
    /\ clock \in 1 .. MaxTime
    /\ reader.step \in {"idle", "load", "images", "serialized", "answered"}
    /\ \A q \in {reader.rows, reader.scored} : q \in [1 .. Len(q) -> Entries]
    /\ reader.listings \in [1 .. Len(reader.listings) -> Ids]
    /\ reader.out \in [1 .. Len(reader.out) -> Answers]
    /\ \A i \in DOMAIN reader.out : reader.out[i].images \subseteq keys
    /\ browser.step \in {"idle", "found", "redirected", "served"}
    /\ browser.step # "idle" => browser.photo \in DOMAIN photos \cup gone
    /\ browser.step \in {"redirected", "served"} =>
        browser.key.data = browser.photo /\ browser.key.exp \in Nat
    /\ steady \subseteq Hits
    /\ goneAt \in [gone -> 1 .. MaxTime]

\* A search's answer is ranked: scores do not decrease, no listing comes twice,
\* and each is answered with the distance it had when the rows were read, although
\* listings were destroyed, saved or embedded between the queries and the scores
\* were put back by position.
SearchRanked == reader.step = "answered" => \A i, j \in DOMAIN reader.out :
    /\ \E k \in DOMAIN reader.rows :
        reader.rows[k] = Entry(reader.out[i].listing, reader.out[i].score)
    /\ i < j => /\ reader.out[i].score <= reader.out[j].score
                /\ reader.out[i].listing # reader.out[j].listing

\* A search leaves out a listing whose row and embedding stay as they were only
\* for searchLimit others that were as near.
SearchComplete == reader.step = "answered" => \A l \in steady :
    \/ \E i \in DOMAIN reader.out : reader.out[i].listing = l
    \/ /\ Len(reader.rows) = searchLimit
       /\ \A i \in DOMAIN reader.rows : reader.rows[i].score <= distance[l]

\* Deleting a photo ends its serving although serving asks no database and the
\* file may still be there, because its removal failed: ServiceURLExpiry after
\* the deletion no address serves it, but for a redirect the deletion overtook.
ServedInTime == [][
    browser.step # "served" /\ browser'.step = "served" /\ browser.photo \in gone =>
        browser.overtaken \/ clock <= goneAt[browser.photo] + ServiceURLExpiry]_vars

=============================================================================
