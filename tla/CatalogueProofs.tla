--------------------------- MODULE CatalogueProofs ---------------------------
(***************************************************************************)
(* Proofs about Catalogue, for any listings, photos, distances, search     *)
(* limit and expiry.                                                       *)
(***************************************************************************)
EXTENDS Catalogue, FiniteSetTheorems, SequenceTheorems, TLAPS

Requests == [step : {"idle", "load", "images", "serialized", "answered"}, search : BOOLEAN,
             rows : Seq(Entries), scored : Seq(Entries), listings : Seq(Ids),
             out : Seq(Answers)]
Tokens == [purpose : {"blob_id", "blob_key"}, data : Photos, exp : Nat \cup {None}]
Pages == [step : {"idle", "found", "redirected", "served"}, photo : Photos \cup {None},
          key : Tokens \cup {None}, overtaken : BOOLEAN]

\* The parts of TypeOK: the rows and files,
StoreOK ==
    /\ listed \subseteq Ids
    /\ photos \in [DOMAIN photos -> Ids]
    /\ keys \subseteq Photos /\ files \subseteq keys
    /\ DOMAIN photos \subseteq keys \ gone /\ gone \subseteq keys

\* the embeddings,
EmbeddingsOK ==
    /\ distance \in [Ids -> Scores \cup {None}]
    /\ Hits \subseteq listed
    /\ steady \subseteq Hits

\* the clock,
ClockOK ==
    /\ clock \in 1 .. MaxTime
    /\ goneAt \in [gone -> 1 .. MaxTime]

\* the request for listings, with a search's locals at the same positions until the
\* scores are put back,
InStep ==
    /\ reader.step = "images" /\ reader.search =>
        reader.listings = ListingsOf(reader.scored)
    /\ reader.step = "serialized" /\ reader.search =>
        /\ DOMAIN reader.out = DOMAIN reader.scored
        /\ \A i \in DOMAIN reader.out : reader.out[i].listing = reader.scored[i].listing
    /\ reader.step = "answered" =>
        /\ reader.search /\ DOMAIN reader.out = DOMAIN reader.scored
        /\ \A i \in DOMAIN reader.out :
              reader.scored[i] = Entry(reader.out[i].listing, reader.out[i].score)

ReaderOK ==
    /\ reader \in Requests
    /\ \A i \in DOMAIN reader.out : reader.out[i].images \subseteq keys
    /\ InStep

\* and the request for a photo.
BrowserOK ==
    /\ browser \in Pages
    /\ browser.step # "idle" => browser.photo \in DOMAIN photos \cup gone
    /\ browser.step \in {"redirected", "served"} =>
        browser.key.data = browser.photo /\ browser.key.exp \in Nat

RowsOK == StoreOK /\ EmbeddingsOK /\ ClockOK /\ ReaderOK /\ BrowserOK

\* What a commit or a file operation keeps.
LEMMA StoreKept ==
    ASSUME StoreOK, StoreNext \/ UNCHANGED store
    PROVE  /\ StoreOK'
           /\ keys \subseteq keys' /\ gone \subseteq gone'
           /\ DOMAIN photos \subseteq DOMAIN photos' \cup gone'
<1> USE DEF StoreOK
<1>1. ASSUME NEW i \in Photos, WriteBlob(i) \/ RemoveFile(i)
      PROVE  StoreOK' /\ keys \subseteq keys' /\ gone = gone' /\ photos' = photos
  BY <1>1 DEF WriteBlob, RemoveFile
<1>2. ASSUME NEW l \in Ids, NEW uploads \in SUBSET Photos, Publish(l, uploads)
      PROVE  /\ StoreOK' /\ keys = keys' /\ gone = gone'
             /\ DOMAIN photos \subseteq DOMAIN photos'
  BY <1>2 DEF Publish
<1>3. ASSUME NEW l \in Ids, Relist(l)
      PROVE  StoreOK' /\ keys = keys' /\ gone = gone' /\ photos' = photos
  BY <1>3 DEF Relist
<1>4. ASSUME NEW l \in Ids, NEW purged \in SUBSET Photos, Withdraw(l, purged)
      PROVE  /\ StoreOK' /\ keys = keys' /\ gone \subseteq gone'
             /\ DOMAIN photos \subseteq DOMAIN photos' \cup gone'
  <2>1. /\ DOMAIN photos' = DOMAIN photos \ purged /\ gone' = gone \cup purged
        /\ purged \subseteq DOMAIN photos
        /\ \A i \in DOMAIN photos' : photos'[i] = photos[i]
        /\ photos' \in [DOMAIN photos' -> Ids]
        /\ listed' \subseteq listed /\ UNCHANGED <<files, keys>>
    BY <1>4 DEF Withdraw
  <2> QED BY <2>1
<1>5. CASE UNCHANGED store
  BY <1>5 DEF store
<1> QED BY <1>1, <1>2, <1>3, <1>4, <1>5 DEF StoreNext

\* What a handler holds is its own; photos keep the keys they had.
LEMMA ReaderKept ==
    ASSUME ReaderOK, UNCHANGED reader, keys \subseteq keys'
    PROVE  ReaderOK'
<1>1. InStep'
  BY DEF ReaderOK, InStep
<1> QED BY <1>1 DEF ReaderOK

\* A function on 1 .. n is a sequence of n elements.
LEMMA FunctionSeq ==
    ASSUME NEW S, NEW n \in Nat, NEW f \in [1 .. n -> S]
    PROVE  f \in Seq(S) /\ Len(f) = n /\ DOMAIN f = 1 .. n
BY SeqDef, LenProperties

\* The locals a request starts with.
LEMMA NoRequestOK ==
    ASSUME NEW r, r = NoRequest
    PROVE  r \in Requests /\ r.step = "idle" /\ DOMAIN r.out = {}
<1>1. <<>> \in Seq(Entries) /\ <<>> \in Seq(Ids) /\ <<>> \in Seq(Answers)
  BY EmptySeq
<1> QED BY <1>1 DEF Requests, NoRequest

\* The server starts without rows and requests.
LEMMA RowsInit == Init => RowsOK
<1> SUFFICES ASSUME Init PROVE RowsOK
    OBVIOUS
<1> USE DEF Init
<1>1. StoreOK
  BY DEF StoreInit, StoreOK
<1>2. EmbeddingsOK
  BY DEF StoreInit, EmbeddingsOK, Hits
<1>3. ClockOK
  BY BoundsAssumption DEF StoreInit, ClockOK
<1>4. ReaderOK
  BY NoRequestOK DEF ReaderOK, InStep
<1>5. BrowserOK
  BY DEF BrowserOK, Pages, NoPage
<1> QED BY <1>1, <1>2, <1>3, <1>4, <1>5 DEF RowsOK

\* The nearest listings with their distances: each once, nearest first, and all of
\* them, or the searchLimit nearest.
LEMMA NearestRanked ==
    ASSUME RowsOK, NEW rows \in NearestRows
    PROVE  /\ rows \in Seq(Entries)
           /\ \A i \in DOMAIN rows : rows[i].score \in Scores
           /\ \A i, j \in DOMAIN rows : i < j => rows[i].score <= rows[j].score
           /\ \A i, j \in DOMAIN rows : i # j => rows[i].listing # rows[j].listing
           /\ \A l \in Hits :
                \/ \E i \in DOMAIN rows : rows[i].listing = l
                \/ /\ Len(rows) = searchLimit
                   /\ \A i \in DOMAIN rows : rows[i].score <= distance[l]
<1> DEFINE n == IF Cardinality(Hits) < searchLimit THEN Cardinality(Hits) ELSE searchLimit
<1>1. PICK r \in Rankings :
          /\ rows = WithScores(r)
          /\ \A i, j \in DOMAIN r : i < j => distance[r[i]] <= distance[r[j]]
          /\ \A i \in DOMAIN r, l \in Hits :
                (\A j \in DOMAIN r : r[j] # l) => distance[r[i]] <= distance[l]
  BY DEF NearestRows
<1>2. IsFiniteSet(Hits) /\ Cardinality(Hits) \in Nat
  BY BoundsAssumption, FS_Subset, FS_CardinalityType DEF RowsOK, StoreOK, EmbeddingsOK
<1>3. n \in Nat
  BY <1>2, LimitAssumption
<1>4. r \in Injection(1 .. n, Hits)
  BY <1>1 DEF Rankings
<1> HIDE DEF n
<1>5. /\ r \in [1 .. n -> Hits] /\ DOMAIN r = 1 .. n
      /\ \A i, j \in 1 .. n : i # j => r[i] # r[j]
  BY <1>4 DEF Injection, IsInjective
<1>6. \A l \in Hits : l \in Ids /\ distance[l] \in Scores
  BY DEF Hits, RowsOK, EmbeddingsOK
<1>7. /\ DOMAIN rows = 1 .. n
      /\ \A i \in 1 .. n : /\ rows[i] \in Entries /\ rows[i].listing = r[i]
                           /\ rows[i].score = distance[r[i]] /\ rows[i].score \in Scores
  BY <1>1, <1>5, <1>6 DEF WithScores, Entry, Entries
<1>8. rows = [i \in 1 .. n |-> rows[i]]
  BY <1>1, <1>5 DEF WithScores
<1>9. rows \in [1 .. n -> Entries]
  BY <1>7, <1>8
<1>10. rows \in Seq(Entries) /\ Len(rows) = n
  BY <1>3, <1>9, FunctionSeq
<1>11. ASSUME NEW l \in Hits, \A i \in DOMAIN rows : rows[i].listing # l
       PROVE  /\ Len(rows) = searchLimit
              /\ \A i \in DOMAIN rows : rows[i].score <= distance[l]
  <2>1. \A i \in 1 .. n : r[i] # l
    BY <1>7, <1>11
  <2>2. r \notin Surjection(1 .. n, Hits)
    BY <2>1 DEF Surjection
  <2>3. Cardinality(1 .. n) = n
    BY <1>3, FS_Interval
  <2>4. n # Cardinality(Hits)
    BY <1>2, <1>4, <2>2, <2>3, FS_Injection
  <2>5. n = searchLimit
    BY <2>4 DEF n
  <2> QED BY <1>1, <1>5, <1>7, <1>10, <2>1, <2>5
<1> QED BY <1>1, <1>5, <1>7, <1>10, <1>11

\* What the loop of Nearest keeps of its rows: in order, and all whose listing it
\* loaded.
LEMMA PreservedInOrder ==
    ASSUME NEW rows \in Seq(Entries), NEW out \in Preserved(rows)
    PROVE  /\ out \in Seq(Entries)
           /\ \E p \in [DOMAIN out -> DOMAIN rows] :
                \A i, j \in DOMAIN out :
                    out[i] = rows[p[i]] /\ (i < j => p[i] < p[j])
           /\ \A k \in DOMAIN rows : rows[k].listing \in listed =>
                \E i \in DOMAIN out : out[i] = rows[k]
<1> DEFINE n == Cardinality(Kept(rows))
<1>1. PICK p \in InOrder(Kept(rows)) : out = [i \in DOMAIN p |-> rows[p[i]]]
  BY DEF Preserved
<1>2. Len(rows) \in Nat /\ rows \in [1 .. Len(rows) -> Entries] /\ DOMAIN rows = 1 .. Len(rows)
  BY LenProperties
<1>3. IsFiniteSet(Kept(rows)) /\ n \in Nat
  <2>1. IsFiniteSet(DOMAIN rows)
    BY <1>2, FS_Interval
  <2> QED BY <2>1, FS_Subset, FS_CardinalityType DEF Kept
<1>4. /\ p \in [1 .. n -> Kept(rows)] /\ DOMAIN p = 1 .. n
      /\ \A i, j \in 1 .. n : i < j => p[i] < p[j]
      /\ \A k \in Kept(rows) : \E i \in 1 .. n : p[i] = k
  BY DEF InOrder, Bijection, Surjection
<1> HIDE DEF n
<1>5. \A i \in 1 .. n : p[i] \in DOMAIN rows /\ rows[p[i]] \in Entries
  BY <1>2, <1>4 DEF Kept
<1>6. out \in [1 .. n -> Entries] /\ DOMAIN out = 1 .. n
      /\ \A i \in 1 .. n : out[i] = rows[p[i]]
  BY <1>1, <1>4, <1>5
<1>7. out \in Seq(Entries)
  BY <1>3, <1>6, FunctionSeq
<1>8. p \in [DOMAIN out -> DOMAIN rows]
  BY <1>4, <1>5, <1>6
<1>9. \A k \in DOMAIN rows : rows[k].listing \in listed => \E i \in DOMAIN out : out[i] = rows[k]
  BY <1>4, <1>6 DEF Kept
<1> QED BY <1>4, <1>6, <1>7, <1>8, <1>9

-----------------------------------------------------------------------------
LEMMA RowsStep == RowsOK /\ [Next]_vars => RowsOK'
<1> SUFFICES ASSUME RowsOK, [Next]_vars PROVE RowsOK'
    OBVIOUS
<1> USE DEF RowsOK
<1>1. CASE StoreStep
  <2>1. /\ StoreOK' /\ keys \subseteq keys' /\ gone \subseteq gone'
        /\ DOMAIN photos \subseteq DOMAIN photos' \cup gone'
    BY <1>1, StoreKept DEF StoreStep
  <2>2. EmbeddingsOK'
    <3>1. /\ distance' = [l \in Ids |-> IF l \in listed \ listed' THEN None ELSE distance[l]]
          /\ steady' = steady \cap listed'
      BY <1>1 DEF StoreStep, DeleteEmbeddings
    <3>2. distance' \in [Ids -> Scores \cup {None}]
      BY <3>1 DEF EmbeddingsOK
    <3>3. Hits' = Hits \ (listed \ listed')
      BY <3>1 DEF EmbeddingsOK, Hits
    <3> QED BY <3>1, <3>2, <3>3 DEF EmbeddingsOK
  <2>3. ClockOK'
    <3>1. clock' = clock /\ goneAt' = [i \in gone' |-> IF i \in gone THEN goneAt[i] ELSE clock]
      BY <1>1 DEF StoreStep
    <3> QED BY <3>1 DEF ClockOK
  <2>4. ReaderOK'
    BY <1>1, <2>1, ReaderKept DEF StoreStep
  <2>5. BrowserOK'
    <3> DEFINE o == browser.overtaken
                     \/ (browser.step = "found" /\ browser.photo \in gone' \ gone)
    <3>1. o \in BOOLEAN
      BY DEF BrowserOK, Pages
    <3>2. browser' = [browser EXCEPT !.overtaken = o]
      BY <1>1 DEF StoreStep
    <3> HIDE DEF o
    <3>3. browser' \in Pages /\ browser'.step = browser.step /\ browser'.photo = browser.photo
          /\ browser'.key = browser.key
      BY <3>1, <3>2 DEF BrowserOK, Pages
    <3> QED BY <2>1, <3>3 DEF BrowserOK
  <2> QED BY <2>1, <2>2, <2>3, <2>4, <2>5
<1>2. ASSUME NEW l \in Ids, NEW score \in Scores, SaveEmbedding(l, score) PROVE RowsOK'
  <2>1. score # None
    BY ScoresAssumption
  <2>2. EmbeddingsOK'
    BY <1>2, <2>1 DEF SaveEmbedding, store, EmbeddingsOK, Hits
  <2> QED BY <1>2, <2>2, ReaderKept DEF SaveEmbedding, store, StoreOK, ClockOK, BrowserOK
<1>3. CASE Tick
  <2>1. ClockOK'
    BY <1>3, BoundsAssumption DEF Tick, store, ClockOK
  <2> QED BY <1>3, <2>1, ReaderKept DEF Tick, store, StoreOK, EmbeddingsOK, Hits, BrowserOK
\* Requests for listings.
<1>4. ASSUME UNCHANGED <<store, distance, clock, browser, goneAt>>, steady' \in {steady, Hits, {}},
             ReaderOK'
      PROVE  RowsOK'
  BY <1>4 DEF store, StoreOK, EmbeddingsOK, Hits, ClockOK, BrowserOK
<1>5. ASSUME NEW q \in Seq(Ids),
             reader' = [NoRequest EXCEPT !.step = "images", !.listings = q],
             UNCHANGED <<store, distance, clock, browser, goneAt>>, steady' = {}
      PROVE  RowsOK'
  <2>1. <<>> \in Seq(Entries) /\ <<>> \in Seq(Answers)
    BY EmptySeq
  <2>2. reader' \in Requests /\ reader'.step = "images" /\ ~reader'.search /\ reader'.out = <<>>
    BY <1>5, <2>1 DEF Requests, NoRequest
  <2>3. ReaderOK'
    BY <2>2 DEF ReaderOK, InStep
  <2> QED BY <1>4, <1>5, <2>3
<1>6. CASE ListingsIndex
  <2>1. PICK all \in Injection(1 .. Cardinality(listed), listed) :
            reader' = [NoRequest EXCEPT !.step = "images", !.listings = all]
    BY <1>6 DEF ListingsIndex
  <2>2. Cardinality(listed) \in Nat
    BY BoundsAssumption, FS_Subset, FS_CardinalityType DEF StoreOK
  <2>3. all \in [1 .. Cardinality(listed) -> Ids]
    BY DEF Injection, StoreOK
  <2>4. all \in Seq(Ids)
    BY <2>2, <2>3, FunctionSeq
  <2> QED BY <1>5, <1>6, <2>1, <2>4 DEF ListingsIndex
<1>7. ASSUME NEW l \in Ids, ListingsShow(l) PROVE RowsOK'
  <2>1. <<l>> \in Seq(Ids)
    OBVIOUS
  <2> QED BY <1>5, <1>7, <2>1 DEF ListingsShow
<1>8. CASE ListingsSearch
  <2>1. PICK rows \in NearestRows :
            reader' = [NoRequest EXCEPT !.step = "load", !.search = TRUE, !.rows = rows]
    BY <1>8 DEF ListingsSearch
  <2>2. rows \in Seq(Entries)
    BY NearestRanked
  <2>3. <<>> \in Seq(Entries) /\ <<>> \in Seq(Ids) /\ <<>> \in Seq(Answers)
    BY EmptySeq
  <2>4. reader' \in Requests /\ reader'.step = "load" /\ reader'.out = <<>>
    BY <2>1, <2>2, <2>3 DEF Requests, NoRequest
  <2>5. ReaderOK'
    BY <2>4 DEF ReaderOK, InStep
  <2> QED BY <1>4, <1>8, <2>5 DEF ListingsSearch
<1>9. CASE LoadListings
  <2>1. PICK scored \in Preserved(reader.rows) : reader' =
            [reader EXCEPT !.step = "images", !.scored = scored, !.listings = ListingsOf(scored)]
    BY <1>9 DEF LoadListings
  <2> DEFINE q == ListingsOf(scored)
  <2>2. scored \in Seq(Entries)
    BY PreservedInOrder DEF ReaderOK, Requests
  <2>3. q \in [1 .. Len(scored) -> Ids]
    <3>1. DOMAIN scored = 1 .. Len(scored) /\ \A i \in DOMAIN scored : scored[i] \in Entries
      BY <2>2
    <3> QED BY <3>1 DEF ListingsOf, Entries
  <2>4. q \in Seq(Ids)
    BY <2>2, <2>3, FunctionSeq
  <2>5. reader' = [reader EXCEPT !.step = "images", !.scored = scored, !.listings = q]
    BY <2>1
  <2>6. q = ListingsOf(scored)
    OBVIOUS
  <2> HIDE DEF q
  <2>7. /\ reader' \in Requests /\ reader'.step = "images" /\ reader'.out = reader.out
        /\ reader'.scored = scored /\ reader'.listings = q
    BY <2>2, <2>4, <2>5 DEF ReaderOK, Requests
  <2>8. keys' = keys
    BY <1>9 DEF LoadListings, store
  <2>9. ReaderOK'
    BY <2>6, <2>7, <2>8 DEF ReaderOK, InStep
  <2> QED BY <1>4, <1>9, <2>9 DEF LoadListings
<1>10. CASE LoadImages
  <2> DEFINE out == Serialize(reader.listings)
  <2>1. reader \in Requests /\ reader.listings \in Seq(Ids)
    BY DEF ReaderOK, Requests
  <2>2. /\ DOMAIN out = DOMAIN reader.listings
        /\ \A i \in DOMAIN out : out[i].listing = reader.listings[i] /\ out[i].images \subseteq keys
    BY DEF Serialize, PhotosOf, StoreOK
  <2>3. out \in [1 .. Len(reader.listings) -> Answers]
    BY <2>1 DEF Serialize, PhotosOf, StoreOK, Answers
  <2>4. out \in Seq(Answers)
    BY <2>1, <2>3, FunctionSeq
  <2>5. reader' = [reader EXCEPT !.step = "serialized", !.out = out] /\ keys' = keys
        /\ reader.step = "images"
    BY <1>10 DEF LoadImages, store
  <2> HIDE DEF out
  <2>6. /\ reader' \in Requests /\ reader'.step = "serialized" /\ reader'.out = out
        /\ reader'.scored = reader.scored /\ reader'.search = reader.search
    BY <2>1, <2>4, <2>5 DEF Requests
  <2>7. ASSUME reader.search
        PROVE  /\ DOMAIN out = DOMAIN reader.scored
               /\ \A i \in DOMAIN out : out[i].listing = reader.scored[i].listing
    BY <2>2, <2>5, <2>7 DEF ReaderOK, InStep, ListingsOf
  <2>8. InStep'
    BY <2>6, <2>7 DEF InStep
  <2>9. ReaderOK'
    BY <2>2, <2>5, <2>6, <2>8 DEF ReaderOK
  <2> QED BY <1>4, <1>10, <2>9 DEF LoadImages
<1>11. CASE AnswerSearch
  <2> DEFINE out == PairScores(reader.out, reader.scored)
  <2>1. /\ reader \in Requests /\ reader.search
        /\ DOMAIN reader.out = DOMAIN reader.scored
        /\ \A i \in DOMAIN reader.out : reader.out[i].listing = reader.scored[i].listing
    BY <1>11 DEF AnswerSearch, ReaderOK, InStep
  <2>2. \A i \in DOMAIN reader.out : reader.out[i] \in Answers /\ reader.scored[i] \in Entries
    BY <2>1 DEF Requests
  <2>3. DOMAIN out = DOMAIN reader.out
    BY DEF PairScores
  <2>4. ASSUME NEW i \in DOMAIN reader.out
        PROVE  /\ out[i] \in Answers /\ out[i].images = reader.out[i].images
               /\ Entry(out[i].listing, out[i].score) = reader.scored[i]
    <3>1. out[i] = [reader.out[i] EXCEPT !.score = reader.scored[i].score]
      BY DEF PairScores
    <3>2. out[i] \in Answers /\ out[i].images = reader.out[i].images
          /\ out[i].listing = reader.scored[i].listing /\ out[i].score = reader.scored[i].score
      BY <2>1, <2>2, <3>1 DEF Answers, Entries
    <3>3. reader.scored[i] \in Entries
      BY <2>2
    <3> QED BY <3>2, <3>3 DEF Entry, Entries
  <2>5. out = [i \in 1 .. Len(reader.out) |-> out[i]] /\ DOMAIN reader.out = 1 .. Len(reader.out)
    BY <2>1 DEF PairScores, Requests
  <2>6. reader' = [reader EXCEPT !.step = "answered", !.out = out] /\ keys' = keys
    BY <1>11 DEF AnswerSearch, store
  <2> HIDE DEF out
  <2>7. out \in [1 .. Len(reader.out) -> Answers]
    BY <2>4, <2>5
  <2>8. out \in Seq(Answers)
    BY <2>1, <2>7, FunctionSeq, LenProperties DEF Requests
  <2>9. /\ reader' \in Requests /\ reader'.step = "answered" /\ reader'.out = out
        /\ reader'.scored = reader.scored /\ reader'.search = reader.search
    BY <2>1, <2>6, <2>8 DEF Requests
  <2>10. InStep'
    BY <2>1, <2>3, <2>4, <2>9 DEF InStep
  <2>11. ReaderOK'
    BY <2>3, <2>4, <2>6, <2>9, <2>10 DEF ReaderOK
  <2> QED BY <1>4, <1>11, <2>11 DEF AnswerSearch
<1>12. CASE EndRequest
  <2>1. reader' = NoRequest
    BY <1>12 DEF EndRequest
  <2>2. ReaderOK'
    BY <2>1, NoRequestOK DEF ReaderOK, InStep
  <2> QED BY <1>4, <1>12, <2>2 DEF EndRequest
\* Requests for a photo.
<1>13. ASSUME UNCHANGED <<store, distance, clock, reader, steady, goneAt>>, BrowserOK'
       PROVE  RowsOK'
  BY <1>13, ReaderKept DEF store, StoreOK, EmbeddingsOK, Hits, ClockOK
<1>14. ASSUME NEW i \in Photos, BlobRedirect(i) PROVE RowsOK'
  <2>1. browser' = [NoPage EXCEPT !.step = "found", !.photo = i] /\ i \in DOMAIN photos'
    BY <1>14 DEF BlobRedirect, store
  <2>2. BrowserOK'
    BY <2>1 DEF BrowserOK, Pages, NoPage
  <2> QED BY <1>13, <1>14, <2>2 DEF BlobRedirect
<1>15. CASE GenerateBlobKey
  <2> DEFINE key == BlobKey(browser.photo)
  <2>1. browser.photo \in DOMAIN photos \cup gone /\ browser.photo \in Photos
    BY <1>15 DEF GenerateBlobKey, BrowserOK, StoreOK
  <2>2. key \in Tokens /\ key.data = browser.photo /\ key.exp \in Nat
    BY <2>1, LimitAssumption DEF BlobKey, Tokens, ClockOK
  <2>3. browser' = [browser EXCEPT !.step = "redirected", !.key = key]
    BY <1>15 DEF GenerateBlobKey
  <2> HIDE DEF key
  <2>4. BrowserOK'
    BY <1>15, <2>1, <2>2, <2>3 DEF GenerateBlobKey, BrowserOK, Pages, store
  <2> QED BY <1>13, <1>15, <2>4 DEF GenerateBlobKey
<1>16. CASE DiskShow
  <2>1. BrowserOK'
    BY <1>16 DEF DiskShow, BrowserOK, Pages, store
  <2> QED BY <1>13, <1>16, <2>1 DEF DiskShow
<1>17. CASE Sent
  <2>1. BrowserOK'
    BY <1>17 DEF Sent, BrowserOK, Pages, store
  <2> QED BY <1>13, <1>17, <2>1 DEF Sent
<1>18. CASE Leave
  <2>1. BrowserOK'
    BY <1>18 DEF Leave, BrowserOK, Pages, NoPage
  <2> QED BY <1>13, <1>18, <2>1 DEF Leave
<1>19. CASE UNCHANGED vars
  BY <1>19, ReaderKept DEF vars, store, StoreOK, EmbeddingsOK, Hits, ClockOK, BrowserOK
<1> HIDE DEF RowsOK
<1> QED
  BY <1>1, <1>2, <1>3, <1>6, <1>7, <1>8, <1>9, <1>10, <1>11, <1>14, <1>15, <1>16, <1>17,
     <1>18, <1>19, <1>12 DEF Next

\* Reads see whole rows: embeddings, photos and answers are of listings and files
\* that were there.
THEOREM TypeCorrect == Spec => []TypeOK
<1>1. ASSUME RowsOK PROVE TypeOK
  <2>1. \A q \in {reader.rows, reader.scored} : q \in [1 .. Len(q) -> Entries]
    BY <1>1, LenProperties DEF RowsOK, ReaderOK, Requests
  <2>2. /\ reader.listings \in [1 .. Len(reader.listings) -> Ids]
        /\ reader.out \in [1 .. Len(reader.out) -> Answers]
    BY <1>1, LenProperties DEF RowsOK, ReaderOK, Requests
  <2> QED BY <1>1, <2>1, <2>2
          DEF RowsOK, StoreOK, EmbeddingsOK, ClockOK, ReaderOK, Requests, BrowserOK, Pages,
              TypeOK
<1> QED BY <1>1, RowsInit, RowsStep, PTL DEF Spec

-----------------------------------------------------------------------------
(***************************************************************************)
(* Search.                                                                 *)
(***************************************************************************)
\* The rows of the first query are ranked.
RowsRanked == \A i, j \in DOMAIN reader.rows :
    /\ reader.rows[i].score \in Scores
    /\ i < j => reader.rows[i].score <= reader.rows[j].score
    /\ i # j => reader.rows[i].listing # reader.rows[j].listing

\* They have every listing that stays as it was, or are searchLimit nearer ones.
RowsComplete == \A l \in steady :
    \/ \E i \in DOMAIN reader.rows : reader.rows[i].listing = l
    \/ /\ Len(reader.rows) = searchLimit
       /\ \A i \in DOMAIN reader.rows : reader.rows[i].score <= distance[l]

\* The loop keeps their order, and those whose listing stays.
ScoredInOrder == reader.search =>
    /\ \E p \in [DOMAIN reader.scored -> DOMAIN reader.rows] :
        \A i, j \in DOMAIN reader.scored :
            reader.scored[i] = reader.rows[p[i]] /\ (i < j => p[i] < p[j])
    /\ reader.step # "load" => \A k \in DOMAIN reader.rows :
        reader.rows[k].listing \in steady => \E i \in DOMAIN reader.scored :
            reader.scored[i] = reader.rows[k]

SearchInv == RowsRanked /\ RowsComplete /\ ScoredInOrder

\* Before a search there is no ranking to keep.
LEMMA NoRowsInv ==
    ASSUME reader.rows = <<>>, steady = {}, ~reader.search
    PROVE  SearchInv
BY DEF SearchInv, RowsRanked, RowsComplete, ScoredInOrder

\* While the reader does not move, fewer listings are steady, and those keep
\* their distances.
LEMMA SearchKept ==
    ASSUME SearchInv, UNCHANGED <<reader>>, steady' \subseteq steady,
           \A l \in steady' : distance'[l] = distance[l]
    PROVE  SearchInv'
BY DEF SearchInv, RowsRanked, RowsComplete, ScoredInOrder

LEMMA SearchStep == RowsOK /\ SearchInv /\ [Next]_vars => SearchInv'
<1> SUFFICES ASSUME RowsOK, SearchInv, [Next]_vars PROVE SearchInv'
    OBVIOUS
<1>0. reader \in Requests /\ reader.rows \in Seq(Entries) /\ reader.scored \in Seq(Entries)
  BY DEF RowsOK, ReaderOK, Requests
<1>1. CASE StoreStep
  <2>1. /\ UNCHANGED <<reader>> /\ steady' \subseteq steady
        /\ \A l \in steady' : distance'[l] = distance[l]
    BY <1>1 DEF StoreStep, DeleteEmbeddings, RowsOK, EmbeddingsOK, Hits
  <2> QED BY <2>1, SearchKept
<1>2. ASSUME NEW l \in Ids, NEW score \in Scores, SaveEmbedding(l, score) PROVE SearchInv'
  <2>1. /\ UNCHANGED <<reader>> /\ steady' \subseteq steady
        /\ \A k \in steady' : distance'[k] = distance[k]
    BY <1>2 DEF SaveEmbedding, RowsOK, EmbeddingsOK, Hits
  <2> QED BY <2>1, SearchKept
<1>3. ASSUME Tick \/ (\E i \in Photos : BlobRedirect(i)) \/ GenerateBlobKey \/ DiskShow \/ Sent
             \/ Leave \/ UNCHANGED vars
      PROVE  SearchInv'
  <2>1. UNCHANGED <<reader, steady, distance>>
    BY <1>3 DEF Tick, BlobRedirect, GenerateBlobKey, DiskShow, Sent, Leave, vars
  <2> QED BY <2>1, SearchKept
<1>4. ASSUME ListingsIndex \/ (\E l \in Ids : ListingsShow(l)) \/ EndRequest PROVE SearchInv'
  <2>1. ASSUME ListingsIndex
        PROVE  reader'.rows = <<>> /\ ~reader'.search /\ steady' = {}
    BY <2>1 DEF ListingsIndex, NoRequest
  <2>2. ASSUME NEW l \in Ids, ListingsShow(l)
        PROVE  reader'.rows = <<>> /\ ~reader'.search /\ steady' = {}
    BY <2>2 DEF ListingsShow, NoRequest
  <2>3. ASSUME EndRequest
        PROVE  reader'.rows = <<>> /\ ~reader'.search /\ steady' = {}
    BY <2>3 DEF EndRequest, NoRequest
  <2> QED BY <1>4, <2>1, <2>2, <2>3 DEF SearchInv, RowsRanked, RowsComplete, ScoredInOrder
<1>5. CASE ListingsSearch
  <2>1. PICK rows \in NearestRows :
            reader' = [NoRequest EXCEPT !.step = "load", !.search = TRUE, !.rows = rows]
    BY <1>5 DEF ListingsSearch
  <2>2. /\ reader'.rows = rows /\ reader'.scored = <<>> /\ reader'.step = "load"
        /\ steady' = Hits /\ UNCHANGED distance
    BY <1>5, <2>1 DEF ListingsSearch, NoRequest
  <2>3. RowsRanked' /\ RowsComplete'
    BY <2>2, NearestRanked DEF RowsRanked, RowsComplete
  <2>4. ScoredInOrder'
    <3>1. [x \in {} |-> 0] \in [DOMAIN reader'.scored -> DOMAIN reader'.rows]
      BY <2>2
    <3> QED BY <2>2, <3>1 DEF ScoredInOrder
  <2> QED BY <2>3, <2>4 DEF SearchInv
<1>6. CASE LoadListings
  <2>1. PICK scored \in Preserved(reader.rows) : reader' =
            [reader EXCEPT !.step = "images", !.scored = scored, !.listings = ListingsOf(scored)]
    BY <1>6 DEF LoadListings
  <2>2. /\ reader'.rows = reader.rows /\ reader'.scored = scored /\ reader'.step = "images"
        /\ UNCHANGED <<distance, steady>>
    BY <1>0, <1>6, <2>1 DEF LoadListings, Requests
  <2>3. RowsRanked' /\ RowsComplete'
    BY <2>2 DEF SearchInv, RowsRanked, RowsComplete
  <2>4. steady \subseteq listed
    BY DEF RowsOK, EmbeddingsOK
  <2>5. ScoredInOrder'
    <3>1. \E p \in [DOMAIN scored -> DOMAIN reader.rows] : \A i, j \in DOMAIN scored :
              scored[i] = reader.rows[p[i]] /\ (i < j => p[i] < p[j])
      BY <1>0, PreservedInOrder
    <3>2. \A k \in DOMAIN reader.rows : reader.rows[k].listing \in listed =>
              \E i \in DOMAIN scored : scored[i] = reader.rows[k]
      BY <1>0, PreservedInOrder
    <3> QED BY <2>2, <2>4, <3>1, <3>2 DEF ScoredInOrder
  <2> QED BY <2>3, <2>5 DEF SearchInv
<1>7. ASSUME LoadImages \/ AnswerSearch PROVE SearchInv'
  <2>1. /\ reader'.rows = reader.rows /\ reader'.scored = reader.scored
        /\ reader'.search = reader.search
        /\ reader.step # "load" /\ reader'.step # "load"
        /\ UNCHANGED <<distance, steady>>
    BY <1>0, <1>7 DEF LoadImages, AnswerSearch, Requests
  <2> QED BY <2>1 DEF SearchInv, RowsRanked, RowsComplete, ScoredInOrder
<1> QED BY <1>1, <1>2, <1>3, <1>4, <1>5, <1>6, <1>7 DEF Next

LEMMA SearchInit == Init => SearchInv
<1> SUFFICES ASSUME Init PROVE SearchInv
    OBVIOUS
<1>1. reader.rows = <<>> /\ ~reader.search /\ steady = {}
  BY DEF Init, NoRequest
<1> QED BY <1>1, NoRowsInv

\* A search's answer is in the order of its first query and has the distances
\* that query read: byID and the loop after it, and the loop that puts the scores
\* back by position, pair listings with scores.
THEOREM SearchIsRanked == Spec => []SearchRanked
<1>1. ASSUME RowsOK, SearchInv PROVE SearchRanked
  <2> SUFFICES ASSUME reader.step = "answered", NEW i \in DOMAIN reader.out,
                      NEW j \in DOMAIN reader.out
               PROVE  /\ \E k \in DOMAIN reader.rows :
                            reader.rows[k] = Entry(reader.out[i].listing, reader.out[i].score)
                      /\ i < j => /\ reader.out[i].score <= reader.out[j].score
                                  /\ reader.out[i].listing # reader.out[j].listing
      BY DEF SearchRanked
  <2>1. /\ reader.search /\ DOMAIN reader.out = DOMAIN reader.scored
        /\ \A a \in DOMAIN reader.out :
              reader.scored[a] = Entry(reader.out[a].listing, reader.out[a].score)
    BY <1>1 DEF RowsOK, ReaderOK, InStep
  <2>2. PICK p \in [DOMAIN reader.scored -> DOMAIN reader.rows] :
            \A a, b \in DOMAIN reader.scored :
                reader.scored[a] = reader.rows[p[a]] /\ (a < b => p[a] < p[b])
    BY <1>1, <2>1 DEF SearchInv, ScoredInOrder
  <2>3. DOMAIN reader.rows \subseteq Nat
    BY <1>1, LenProperties DEF RowsOK, ReaderOK, Requests
  <2>4. p[i] \in DOMAIN reader.rows /\ p[j] \in DOMAIN reader.rows /\ p[i] \in Nat /\ p[j] \in Nat
    BY <2>1, <2>2, <2>3
  <2>5. i < j => p[i] < p[j] /\ p[i] # p[j]
    BY <2>1, <2>2, <2>4
  <2>6. /\ reader.rows[p[i]] = Entry(reader.out[i].listing, reader.out[i].score)
        /\ reader.rows[p[j]] = Entry(reader.out[j].listing, reader.out[j].score)
    BY <2>1, <2>2
  <2>7. /\ reader.rows[p[i]].listing = reader.out[i].listing
        /\ reader.rows[p[i]].score = reader.out[i].score
        /\ reader.rows[p[j]].listing = reader.out[j].listing
        /\ reader.rows[p[j]].score = reader.out[j].score
    BY <2>6 DEF Entry
  <2> QED BY <1>1, <2>4, <2>5, <2>6, <2>7 DEF SearchInv, RowsRanked
<1> QED BY <1>1, RowsInit, RowsStep, SearchInit, SearchStep, PTL DEF Spec

\* A search leaves out no listing that stays as it was, but for searchLimit others
\* as near.
THEOREM SearchIsComplete == Spec => []SearchComplete
<1>1. ASSUME RowsOK, SearchInv PROVE SearchComplete
  <2> SUFFICES ASSUME reader.step = "answered", NEW l \in steady,
                      \A i \in DOMAIN reader.out : reader.out[i].listing # l
               PROVE  /\ Len(reader.rows) = searchLimit
                      /\ \A i \in DOMAIN reader.rows : reader.rows[i].score <= distance[l]
      BY DEF SearchComplete
  <2>1. /\ reader.search /\ DOMAIN reader.out = DOMAIN reader.scored
        /\ \A i \in DOMAIN reader.out :
              reader.scored[i] = Entry(reader.out[i].listing, reader.out[i].score)
    BY <1>1 DEF RowsOK, ReaderOK, InStep
  <2>2. \A i \in DOMAIN reader.scored : reader.scored[i].listing # l
    <3>1. \A k, score : Entry(k, score).listing = k
      BY DEF Entry
    <3> QED BY <2>1, <3>1
  <2>3. \A k \in DOMAIN reader.rows : reader.rows[k].listing # l
    BY <1>1, <2>1, <2>2 DEF SearchInv, ScoredInOrder
  <2> QED BY <1>1, <2>3 DEF SearchInv, RowsComplete
<1> QED BY <1>1, RowsInit, RowsStep, SearchInit, SearchStep, PTL DEF Spec

-----------------------------------------------------------------------------
(***************************************************************************)
(* Photos.                                                                 *)
(***************************************************************************)
\* A redirect to a photo whose rows are gone was overtaken, or its key expires in
\* time.
KeysExpire ==
    /\ browser.step = "found" /\ browser.photo \in gone => browser.overtaken
    /\ browser.step \in {"redirected", "served"} =>
        /\ browser.key.exp <= clock + ServiceURLExpiry
        /\ browser.photo \in gone =>
            browser.overtaken \/ browser.key.exp <= goneAt[browser.photo] + ServiceURLExpiry

LEMMA KeysExpireStep == RowsOK /\ KeysExpire /\ [Next]_vars => KeysExpire'
<1> SUFFICES ASSUME RowsOK, KeysExpire, [Next]_vars PROVE KeysExpire'
    OBVIOUS
<1>0. /\ browser \in Pages /\ clock \in Nat /\ ServiceURLExpiry \in Nat
      /\ \A i \in gone : goneAt[i] \in Nat
      /\ browser.step \in {"redirected", "served"} => browser.key.exp \in Nat
      /\ DOMAIN photos \cap gone = {}
  BY LimitAssumption DEF RowsOK, BrowserOK, ClockOK, StoreOK
<1>1. CASE StoreStep
  <2> DEFINE o == browser.overtaken
                   \/ (browser.step = "found" /\ browser.photo \in gone' \ gone)
  <2>1. /\ browser' = [browser EXCEPT !.overtaken = o] /\ clock' = clock
        /\ goneAt' = [i \in gone' |-> IF i \in gone THEN goneAt[i] ELSE clock]
    BY <1>1 DEF StoreStep
  <2>2. /\ browser'.step = browser.step /\ browser'.photo = browser.photo
        /\ browser'.key = browser.key /\ browser'.overtaken = o
    BY <1>0, <2>1 DEF Pages
  <2>3. browser.overtaken => o
    OBVIOUS
  <2>4. browser.step = "found" /\ browser.photo \in gone' => o
    BY DEF KeysExpire
  <2>5. ASSUME browser.step \in {"redirected", "served"}, browser.photo \in gone'
        PROVE  o \/ browser.key.exp <= goneAt'[browser.photo] + ServiceURLExpiry
    <3>1. CASE browser.photo \in gone
      <4>1. goneAt'[browser.photo] = goneAt[browser.photo]
        BY <2>1, <2>5, <3>1
      <4> QED BY <2>3, <2>5, <3>1, <4>1 DEF KeysExpire
    <3>2. CASE browser.photo \notin gone
      <4>1. goneAt'[browser.photo] = clock
        BY <2>1, <2>5, <3>2
      <4> QED BY <2>5, <4>1 DEF KeysExpire
    <3> QED BY <3>1, <3>2
  <2> HIDE DEF o
  <2> QED BY <2>1, <2>2, <2>4, <2>5 DEF KeysExpire
<1>2. ASSUME UNCHANGED <<browser, gone, goneAt>>, clock' \in Nat, clock <= clock'
      PROVE  KeysExpire'
  BY <1>0, <1>2 DEF KeysExpire
<1>3. ASSUME \/ \E l \in Ids : ListingsShow(l) \/ \E score \in Scores : SaveEmbedding(l, score)
             \/ ListingsIndex \/ ListingsSearch \/ LoadListings \/ LoadImages \/ AnswerSearch
             \/ EndRequest
             \/ UNCHANGED vars
      PROVE  UNCHANGED <<browser, gone, goneAt, clock>>
  BY <1>3 DEF ListingsShow, SaveEmbedding, ListingsIndex, ListingsSearch, LoadListings,
              LoadImages, AnswerSearch, EndRequest, vars, store
<1>4. CASE Tick
  BY <1>0, <1>2, <1>4 DEF Tick, store
<1>5. ASSUME NEW i \in Photos, BlobRedirect(i) PROVE KeysExpire'
  <2>1. browser'.step = "found" /\ browser'.photo = i /\ i \in DOMAIN photos /\ gone' = gone
    BY <1>5 DEF BlobRedirect, NoPage, store
  <2> QED BY <1>0, <2>1 DEF KeysExpire
<1>6. CASE GenerateBlobKey
  <2>1. /\ browser.step = "found" /\ browser'.step = "redirected"
        /\ browser'.photo = browser.photo /\ browser'.overtaken = browser.overtaken
        /\ browser'.key.exp = clock + ServiceURLExpiry
        /\ UNCHANGED <<clock, gone, goneAt>>
    BY <1>0, <1>6 DEF GenerateBlobKey, BlobKey, Pages, store
  <2> QED BY <1>0, <2>1 DEF KeysExpire
<1>7. ASSUME DiskShow \/ Sent PROVE KeysExpire'
  <2>1. /\ browser.step \in {"redirected", "served"} /\ browser'.step \in {"redirected", "served"}
        /\ browser'.photo = browser.photo /\ browser'.overtaken = browser.overtaken
        /\ browser'.key = browser.key
        /\ UNCHANGED <<clock, gone, goneAt>>
    BY <1>0, <1>7 DEF DiskShow, Sent, Pages, store
  <2> QED BY <2>1 DEF KeysExpire
<1>8. CASE Leave
  BY <1>8 DEF Leave, NoPage, KeysExpire
<1>9. UNCHANGED <<browser, gone, goneAt, clock>> => KeysExpire'
  BY <1>0, <1>2
<1> QED BY <1>1, <1>3, <1>4, <1>5, <1>6, <1>7, <1>8, <1>9 DEF Next

\* A deleted photo is served no longer than ServiceURLExpiry after its deletion,
\* but for a redirect that the deletion overtook: diskShow asks no database, and
\* the key's expiry is what ends the serving.
THEOREM ServingEnds == Spec => ServedInTime
<1> DEFINE InTime ==
        browser.step # "served" /\ browser'.step = "served" /\ browser.photo \in gone =>
            browser.overtaken \/ clock <= goneAt[browser.photo] + ServiceURLExpiry
<1>1. ASSUME RowsOK, KeysExpire, [Next]_vars PROVE InTime
  <2> SUFFICES ASSUME browser.step # "served", browser'.step = "served",
                      browser.photo \in gone, ~browser.overtaken
               PROVE  clock <= goneAt[browser.photo] + ServiceURLExpiry
      OBVIOUS
  <2>1. DiskShow
    <3>1. CASE StoreStep
      <4>1. browser'.step = browser.step
        BY <1>1, <3>1 DEF StoreStep, RowsOK, BrowserOK, Pages
      <4> QED BY <4>1
    <3>2. ASSUME \/ \E l \in Ids : ListingsShow(l) \/ \E score \in Scores : SaveEmbedding(l, score)
                 \/ ListingsIndex \/ ListingsSearch \/ LoadListings \/ LoadImages \/ AnswerSearch
                 \/ EndRequest
                 \/ Tick \/ UNCHANGED vars
          PROVE  browser' = browser
      BY <3>2 DEF ListingsShow, SaveEmbedding, ListingsIndex, ListingsSearch, LoadListings,
                  LoadImages, AnswerSearch, EndRequest, Tick, vars
    <3>3. ASSUME NEW i \in Photos, BlobRedirect(i) PROVE browser'.step = "found"
      BY <3>3 DEF BlobRedirect, NoPage
    <3>4. ASSUME GenerateBlobKey \/ Sent PROVE browser'.step = "redirected"
      BY <1>1, <3>4 DEF GenerateBlobKey, Sent, RowsOK, BrowserOK, Pages
    <3>5. ASSUME Leave PROVE browser'.step = "idle"
      BY <3>5 DEF Leave, NoPage
    <3> QED BY <1>1, <3>1, <3>2, <3>3, <3>4, <3>5 DEF Next
  <2>2. browser.step = "redirected" /\ browser.key.exp \in Nat
    BY <1>1, <2>1 DEF DiskShow, RowsOK, BrowserOK
  <2>3. clock <= browser.key.exp
    BY <2>1, <2>2, ScoresAssumption DEF DiskShow, verify
  <2>4. browser.key.exp <= goneAt[browser.photo] + ServiceURLExpiry
    BY <1>1, <2>2 DEF KeysExpire
  <2>5. clock \in Nat /\ goneAt[browser.photo] \in Nat /\ ServiceURLExpiry \in Nat
    BY <1>1, LimitAssumption DEF RowsOK, ClockOK
  <2> QED BY <2>2, <2>3, <2>4, <2>5
<1>2. RowsOK /\ KeysExpire /\ [Next]_vars => [InTime]_vars
  BY <1>1
<1>3. Init => KeysExpire
  BY DEF Init, NoPage, KeysExpire
<1> QED BY <1>2, <1>3, RowsInit, RowsStep, KeysExpireStep, PTL DEF Spec, ServedInTime

=============================================================================
