# A TLA+ model of Trekr's API

Trekr is a marketplace where owners rent out recreational vehicles and hirers
book them. The Go program in `src/` is a JSON API (`cmd/server`) and a
background worker (`cmd/worker`) beside a Rails application that owns the
database schema (`src/test/schema.sql`). All state is in one PostgreSQL
database, in files on disk and in a Redis queue; the API keeps none in memory.
What is hard about it is therefore concurrent SQL: `net/http` runs each request
on a goroutine of its own, gorm issues one statement after the other, most
handlers use no transaction, those that do run at READ COMMITTED, and between
any two statements another handler, the worker or a crash can come.

The modules here model those statements, one action each, and say what holds
between them. Of every component that keeps state, the safety properties are
theorems too: they hold for any number of handlers, workers, listings, accounts
and rows.

## 1. Inventory

| Component | Code | State | Operations | Module |
|---|---|---|---|---|
| Bookings | `services/booking_service.go`, `httpapi/bookings.go` | rows of `bookings` | create under row locks, confirm, reject | `Bookings`, `BookingLedger` |
| Chats | `services/chat_service.go`, `httpapi/chats.go` | `chats` with two inbox columns, `messages` | find or create, post, mark read and list | `Chats` |
| Listings and photos | `services/listing_service.go`, `httpapi/listings_write.go`, `httpapi/images.go`, `storage/write.go` | `rv_listings`, attachments, blobs, files on disk | create, update, destroy, attach, delete photo | `Listings`, `PhotoStore` |
| Embedding pipeline | `jobs/`, `ai/embedder.go`, `cmd/worker` | `listing_embeddings`, the asynq queue | enqueue, run, retry | `Embedding` |
| Regions | `region/`, `knowledge/` | an immutable manifest | parse, resolve a town | `Regions` |
| Accounts | `httpapi/register.go`, `httpapi/password_reset.go`, `auth/reset_token.go` | `users` | register, ask for a reset, reset | `Accounts` |
| Sessions | `httpapi/signin.go`, `auth/jwt.go`, `middleware/auth.go` | none on the server: tokens are stateless | sign in, authenticate | `Sessions` |
| Search | `services/search_service.go`, `httpapi/search.go` | reads only | nearest embeddings, then the listings, then their photos | `Catalogue` |
| Listing reads | `httpapi/listings.go`, `httpapi/listing_serializer.go` | reads only | all, one, with photos | `Catalogue` |
| Blob serving | `httpapi/active_storage.go`, `storage/verifier.go`, `storage/disk.go` | reads and signatures | redirect, serve | `Catalogue` |
| Booking and chat payloads, router, configuration, start-up | `httpapi/booking_serializer.go`, `httpapi/chat_serializer.go`, `router.go`, `config/`, `db/` | none | | not modelled |

### How they interact

- **Through tables.** A booking, a chat, an attachment and an embedding all name
  a listing. `ListingService.Destroy` deletes from all of these tables in one
  transaction. gorm's `Save` of a row that carries a preloaded listing, or of a
  listing that is gone, inserts the listing again: confirming a booking or
  updating a listing can undo a Destroy that came in between.
- **Through row locks.** Booking creation locks the rows of the listing it finds;
  status updates, Destroy and other creates wait for them.
- **Through the queue.** After the commit, create and update of a listing enqueue
  `listing:embed`; asynq hands it to some worker, again if it failed.
- **Through files.** Photos are written before, and removed before, the commit of
  the transaction that inserts or deletes their rows.
- **Through tokens.** A JWT, a reset link, a photo's signed id and its key outlive
  the request that made them. Two of them are checked against the database when
  they come back, the other two against the clock only.

### What is hard, and what correctness means

- *Bookings*: two creates on one listing. No two active bookings may share a day;
  the lock that should ensure it covers existing rows only. Waiting must end.
- *Chats*: messages stamped, inserted and copied into the inbox by three separate
  statements of handlers that overtake each other. The inbox columns must repeat
  the newest message and never go back; a read mark is set once; one unbooked
  chat per pair of users.
- *Listings*: rows are transactional and files are not. No photo without a file
  and no file without a photo, but for failures; an update may not undo another.
- *Embedding*: best-effort enqueueing, retries, two workers on one listing. The
  embedding must in the end be that of the current text.
- *Accounts*: one account per mailbox; a reset token is used once, in its six
  hours, for its own account.
- *Sessions*: no token is revoked, and bcrypt runs between the read of the account
  and the issue of the token. A reset must still end the old sessions in the end.
- *Search and reads*: three queries on three snapshots. An answer must stay ranked
  and leave nothing out that was there all along.
- *Blob serving*: the step that sends the bytes asks no database. A deleted photo
  must stop being served even if its file could not be removed.

`PROJECT.json` lists each hazard at its line with the properties about it.

## 2. Decomposition

Each module is one group of tables with every handler that writes them, so an
operation that writes several groups appears in several modules, in each as the
transaction looks from that group's tables:

- `Destroy`: bookings in `Bookings!Destroy` (atomic at its commit, after waiting
  for locks), chats and messages in `Chats!DestroyMessages` and
  `Chats!DestroyChats` (two statements, because their foreign keys can meet a
  concurrent insert), attachments and files in `Listings!ListingsDestroy`,
  `PurgeRows`, `Unlink` and `CommitPurge`, the embedding in `Embedding!Destroy`
  and, as readers see it, in `Catalogue!StoreStep`.
- The listing saved again after a Destroy: `SaveListing` in `Bookings` and
  `Chats`, `Save` and `SetStatus` in `Listings`, `Write` in `Embedding`.
- Enqueueing after Create and Update: `Embedding!Enqueue`, `EnqueueFails`.

Three modules compose others. `Listings` implements `PhotoStore`, the committed
rows and files without handlers or transactions; `Catalogue` extends `PhotoStore`
with the readers, so that every reader runs against all that the store can do and
the handlers' statements are left out of its state space. `Sessions` extends
`Accounts`: a step of its own leaves the accounts alone, a step of `Accounts` may
come between any two of its own.

`live` in `Bookings` and `Chats`, `doc # None` in `Embedding` and
`rows # None` in `Listings`, `listed` in `PhotoStore` are the same fact about the
listing row.

The models share one convention. `pc[h]` is the next statement of handler `h` and
`loc[h]` (or `req`, `todo`, `held`, `errs` in `Bookings`) its local variables,
reset when the request is answered. `Fail` ends a handler at any statement: a
statement error, a lost connection or a server crash. It rolls an open
transaction back, and keeps what earlier statements committed and what happened
to files. History variables record what excuses an exception
named in a property; no guard reads them.

## 3. Modules

### Bookings, BookingLedger

`BookingsCreate` is the handler up to its transaction (owner and date checks,
collected in `errs` as the code collects messages). `LockBookings` takes the
snapshot of `SELECT ... FOR UPDATE`: a READ COMMITTED statement locks the rows
its snapshot showed, one by one (`LockRow`), waiting for their holders and passing
over rows that were deleted meanwhile. The scan's order is left open because an
UPDATE moves a row. `CheckOverlap` is the second query, with a new snapshot.
`Insert` and `Refuse` end the transaction. `TransitionBooking` and `SetStatus` are
the read and the write of confirm and reject; the write waits for the row only.

`BookingLedger` is the abstract promise: bookings entered in one atomic step, only
on free days. `Ledger` in `Bookings` maps to it the listings that had a booking
before, as long as they keep one of those rows (`Intact`). Losing it means Destroy
took the listing. The property `LedgerSpec` says that on them the statements of
many handlers implement the atomic ledger.

Properties: `TypeOK`; `LockDiscipline` (a row has one holder, stays while locked,
and of two creates of one listing the lock set of one contains that of the
other); `CheckStaysValid` (the answer of the overlap check is still true at the
INSERT); `GuardedBookingsDisjoint` (no double booking, except with one inserted
under no lock or confirmed after a rejection); `LedgerSpec`;
`BookedListingsSerialize` (where a booking from before remains, only a return after a
rejection makes two clash: Create's comment "so concurrent attempts serialize" holds
there); `EveryRequestAnswered`; `WaitsAreDetected` (handlers that wait for each other only include
a cycle of creates, which PostgreSQL's detector finds and breaks).

### Chats

Every statement of `CreateFromListing`, `CreateMessage` and `MarkRead` is an
action. The clock ticks between any two, so `created_at` order, insert order and
inbox order can all differ. `DestroyMessages` and `DestroyChats` are Destroy's two
deletes; their rows stay visible to others but locked (`Doomed`) until the commit.
`InboxUpToDate` exempts messages whose handler died before the inbox update
(`lost`); `InboxNamesMessage` exempts chats whose messages Destroy deleted while
another handler changed the chat's subject, so that the chat stayed (`wiped`).
`DuplicatesBounded` bounds the chats of a pair by the handlers that were between
find and create together. `InboxNeverGoesBack` and `ReadOnce` are action
properties.

`messagesIndex` is `MessagesIndex`, `MarkMessages`, `StampReader` and `ListMessages`:
it marks first and lists afterwards, in separate statements. `ReadMeansListed`
says that this order is the right one: once no such request of a reader is under
way, every message that is marked as read was in a list that reader was sent, or
its request failed after the marking (`shown` records both).

### Embedding

A document is a value; equal values have equal `content_hash`. `Write` commits a
text, `Enqueue` or `EnqueueFails` follows. Workers run `Dequeue`, `ReadListing`,
`ReadRecord`, `CallOllama`, `Save` or `SaveRefused`, `Ack`; `JobFails` may come at
any step, after the save too, and asynq retries up to `MaxRetry` times, then
archives. `found` remembers if the row that will be saved existed, because gorm's
`Save` then updates by id and otherwise inserts under the unique index.

`NoSilentStaleness`: a stale embedding has a run coming that has not read yet, or
one under way that has read the current text, unless a task was missed or two
runs overlapped. `Converges`: in the end the embedding is current and stays so,
with the same exceptions.

### Listings, Regions

Photos are numbers that stand for attachment, blob and key. Upload: `WriteBlob`
(the file, at once), `InsertPhoto`, `CommitUpload`. Purge, for one photo or for the
whole listing: `PurgeRows` (waits for another purge of the same rows, and leaves the
file alone when the row is gone), `Unlink` (may fail; the error is ignored),
`CommitPurge`. `ListingsUpdate` then `Save`: all columns, as read. `Regions` holds
Parse's check and `Resolve` as operators; `Listings` instantiates it. The manifest is
compiled into the server: `Manifests` are the files it may have been built with, `Init`
chooses one, and no step changes it. With one that Parse refuses, `regionsOnce` panics in
every handler that asks for a `listingService`, so these actions have it as a guard.

`PhotosServable`, `FilesAccountedFor`, `OrphansOnlyFromRaces` say exactly when rows
and files can part: `torn`, `leaked`, `late` are those cases, and `gone` records the
photos whose rows were deleted, to say that they do not come back.
`RegionMatchesTown` holds across overlapping updates because the two columns are
always saved together. `ResolvesByTownOnly` is what Parse's check is for: the region of
a stored listing is the one its town has in every order of the manifest's regions. `UpdatesLostOnlyInRaces` says what "applies a partial
change" is worth when `Save` writes every column: an update leaves the columns it
was not given as they are, unless another handler wrote the row after the read.

### PhotoStore, Catalogue

`PhotoStore` is the abstract specification of `Listings` for those who read: a file
is written before rows name it, rows are published and withdrawn in one step, a
file is removed while rows still name it, at most once, and a key never names a
second file. `ImplementsPhotoStore` in `Listings` maps `listed` to the listings that
have a row and `keys` to the numbers given out.

`Catalogue` reads it. `ListingsIndex`, `ListingsShow` and `ListingsSearch` are the
first query of three requests, `LoadListings` the second query of a search with the
pairing of rows and listings, `LoadImages` the last. `serializeListings` knows no scores:
the handler takes them off before it (`ListingsOf`) and puts them back by position
after it (`AnswerSearch` with `PairScores`). `NearestRows` is the set of
answers that `ORDER BY score LIMIT` allows, and `Preserved` what the loop collects from
one: the positions whose listing is still there, in their order. An embedding is its
distance from the query; ties may be ordered either way. `BlobRedirect`, `GenerateBlobKey` and
`DiskShow` are the two requests behind a photo's address; the client may keep the
signed id and the key for as long as it likes and use them again.

`SearchRanked` (of the answer: no listing with another's score, none twice,
ascending), `SearchComplete` (a listing that stayed as it was is left out only for
`searchLimit` others as near) and `ServedInTime` (a key issued before a photo's deletion is the last to serve it,
until it expires; `overtaken` excuses a redirect under way at the deletion).

### Accounts

Registration is one INSERT of the normalized address under a unique index. A
reset is asked for by `CreatePasswordReset`, `GenerateResetToken`, `StoreToken` and
used by `UpdatePasswordReset` and `ConsumeToken`; the last writes by id and does not
look at the token again. `TokenAndTimeTogether` ties the two columns to the moment
of generation; `AcceptedUnused` says that a token is never accepted after it has set a
password, so that a second use comes only from requests that had all read the token
before the first was done; `AcceptedInTime` is an action property over `issued`. `ErasedOnlyInRaces` says
when that last UPDATE by id clears a token it does not use: only if the token was stored
while a request that presented an earlier one was under way (`crossed`).

### Sessions

`SignIn` reads the account, `IssueToken` and `RefuseSignIn` come after bcrypt, with
the digest that was read. `RequireAuth` parses a token and loads its account;
`Answer` ends the request behind it. A visit holds passwords as sets of at most one
element, so that "none" needs no value of its own.

`OldSessionsEnd`: `JWTExpiry` after a password was replaced, no token that had been
issued by then is accepted. A sign-in that read the old digest before the reset and
issues its token after it is the one exception (`overtakenAt`), because nothing
compares the token with the account later on. The two history fields are set by
`AccountsStep` in any step that replaces the password.

## 4. Runs

| Run | Bounds | Shows |
|---|---|---|
| `bookings` | 2 handlers, 2 listings (one with a row to lock, one without), 3 ids, 3 days, 2 todays | five safety properties and the refinement of the ledger |
| `bookings_live` | 1 listing with 2 rows, 2 handlers, 2 new ids, 2 days, 1 today | every request is answered, deadlocks of two creates included, and who waits for whom |
| `bookings_serialize` | 1 listing without bookings | counterexample: two creates double book (finding) |
| `bookings_block` | 1 rejected legacy booking | counterexample: confirm after rebooking (finding) |
| `chats` | 2 handlers, 2 listings of one owner, 3 rows, clock to 3 | inbox, read marks, lists, duplicates |
| `chats_single` | the same, with a booked chat | counterexample: two unbooked chats of a pair (finding) |
| `embedding` | 1 listing, 2 texts, 3 tasks, 2 workers, 1 retry | staleness, convergence |
| `embedding_stale` | 2 tasks | counterexample: an overlapped run leaves the older embedding (finding) |
| `listings` | 1 listing, 2 handlers, 3 photos, 2 towns, 3 manifests (one accepted, two refused) | rows and files, the refinement of `PhotoStore`, updates, regions |
| `listings_destroy` | a listing with a trip plan | counterexample: files gone, rows kept (finding) |
| `accounts` | 2 accounts, 2 handlers, 2 reset tokens, 1 client with 1 JWT, clock to 3, both windows 1 | accounts, reset tokens and sessions |
| `catalogue` | 3 listings, the nearest 2 of them, 2 distances, 1 photo, clock to 3, expiry 1 | search and photo addresses |

Why the bounds are enough. Each race is between two requests, or a request and a
crash, so two handlers meet it, and the statements between which a third matters
are covered by actions without a handler (`Destroy`, `SaveListing`, `Tick`). Three
days hold two bookings that are equal, nested, adjacent or disjoint; a third
booking id lets a booking be rejected, rebooked and confirmed. Two messages
suffice to swap their order. Three photos let one upload of two and another
upload or deletion meet. One listing is enough where listings share only ids
(`Embedding`, `Listings`). Two tokens in three ticks with a window of one give a
reissue before and after expiry, and a JWT that is tried on both sides of the reset
and of its expiry. Three listings for a limit of two, at two distances, give ties
and a listing that is left out; a search's listings can be destroyed, created again
and embedded again between its queries. The two manifests that Parse refuses
list a town in two regions and twice in one, the two ways to be ambiguous. `Catalogue` has one reader and one client
because readers write nothing. Bounds appear as constants, or as guards with a
comment that says so (`RoomForOne`, `MaxTasks`, `MaxPhotos`).

Symmetry is used for handlers, and for listings, mailboxes and passwords where the
constants treat them alike; never in a run with a liveness property. (A refinement
without fairness, as in `bookings` and `listings`, is a safety property.)

`CHECK_DEADLOCK FALSE` is set in every configuration: once ids, rows or ticks run
out at the bounds, a model may stop with every handler idle. That no request is
stuck is the subject of `EveryRequestAnswered`.

The legacy bookings in `bookings` are rejected ones: they give creates a row to
lock and block no day. Theorems cover any legacy rows without clashes. `chats` has
no legacy chat; `chats_single` has a booked one.

### Fairness

- `Bookings!FairSpec`: weak fairness of a handler's own statements (a goroutine is
  scheduled and PostgreSQL answers); strong fairness of row locks, which may become
  free and taken again many times, because PostgreSQL queues the waiters of a
  row; weak fairness of `DeadlockVictim`, its deadlock detector. No fairness of
  `Fail`, of new requests or of `Destroy`.
- `Embedding!FairSpec`: weak fairness of `Enqueue` (the API process goes on after
  its commit, unless it fails) and of each worker (asynq polls the queue; it gives
  a task without a timeout of its own thirty minutes, and the handler passes that
  context on to gorm and to the call of Ollama, whose HTTP client has no timeout).
  Failures, retries and writes are not fair; retries end because asynq counts them.
- Nothing is assumed fair in the other modules: their properties are safety.

## 5. Findings

Five places where a comment or a test says more than the code does, each with a
run whose counterexample shows it; `PROJECT.json` quotes the lines.

1. Concurrent creates do not serialize on a listing that has no booking.
2. Confirming a rejected booking does not look at the days taken meanwhile.
3. Two requests can open two unbooked chats of one pair.
4. Overlapping embed tasks can leave the embedding of the older text.
5. Destroy of a listing with a trip plan removes its photo files and then rolls back.

Behaviour met while modelling that no finding is about:

- Two overlapping updates of a listing: the later `Save` writes all columns as it read
  them and undoes the earlier. No text of the repository promises otherwise;
  `UpdatesLostOnlyInRaces` says that nothing else loses an update.
- `signIn` maps a failure of its query to the same empty user as an unknown address,
  so the password check fails and the answer is 401; its 500 cannot be reached.
- A search waits for Ollama as long as its client waits: neither the HTTP client nor
  the server has a timeout.
- A listing whose photos are deleted together with a failing `os.Remove` leaves files
  that only an issued key still reaches.
- Destroy and a create can wait for each other's rows as two creates can. Destroy is
  one step in `Bookings`, so only the deadlock of creates is modelled.
- A chat without messages has a NULL `last_message_at`, which PostgreSQL sorts
  first under DESC, before the newest conversation.
- Blank content is refused after the chat has been opened or has changed its
  subject (`RefuseBlank`): a 422 leaves an empty chat.
- Two messages of equal `created_at`: the inbox keeps the one copied first.
- Destroy between loadBooking's preload queries leaves `RvListing` nil where its
  owner is compared (`bookings.go:119`, `:149`); net/http recovers the panic.
- Consuming a reset token clears, by id, a newer token stored in between; the user has
  to ask again. `ErasedOnlyInRaces` says that no other token is lost.
- Parse's message says a town is in more than one region, also when it is listed
  twice in one.

## 6. Theorems

Eight modules hold theorems, each for any constants that satisfy the named
assumptions of the module it extends. The bounds of the runs (`MaxPhotos`,
`MaxTokens`, `MaxTime`, `MaxTasks` and the like) are constants there, so a theorem
covers every value of them. Every invariant and every action property that a passing
run checks is one of these theorems.

### BookingsProofs

    TypeCorrect        Spec => []TypeOK
    LocksDisciplined   Spec => []LockDiscipline
    ChecksStayValid    Spec => []CheckStaysValid
    NoDoubleBooking    Spec => []GuardedBookingsDisjoint
    NoHiddenWaits      Spec => []WaitsAreDetected

Each invariant is inductive together with those before it, so the proofs are a
chain rather than one large invariant.

- `TypeOK` carries more than types: a handler at `idle` has no request, only a
  create in its transaction holds locks, and a create without messages has two
  dates in order. The later steps need each of these to know what `req[h]` is.
- `LockDiscipline` is why row locks order creates although two snapshots may
  differ. Locked rows are never deleted, all rows of a listing go at once, and ids
  are never reused, so what two creates have to lock is nested. A newly taken
  snapshot contains every lock set of the same listing that is still there.
- `CheckStaysValid` needs it at `Insert`: another create that has decided and holds
  a lock would have a lock set nested with that of the inserting one, which holds
  rows too. The smaller set is locked whole (a decided create has nothing left to
  lock) and not empty, so the two would hold a row in common. At `CheckOverlap`
  it is the meaning of `hasOverlap`; at `SetStatus` a booking that becomes active
  either was already or joins `reopened`; at `Destroy` the rows are gone.
- `NoDoubleBooking` follows at `Insert` from `CheckStaysValid` of the inserting
  handler. A create that holds no lock puts its row in `unguarded`.
- `WaitsAreDetected` is what the liveness property leaves to safety: a handler waits
  for a row, so for a handler that holds one, which by `TypeOK` is a create that is
  locking or has decided. A decided one waits for nothing, so among handlers that all
  wait the holders are locking themselves, and those wait for each other.

Assumptions: `OwnerAssumption` (each listing has an owner, which no request
changes), `DaysAssumption` (days are integers and the blank parameter is not),
`SeedAssumption` and `SeedDisjoint` (rows left by the Rails application are
complete and do not clash). TLC evaluates them in every run of `MCBookings`.

### LedgerProofs

    LedgerImplemented          Spec => LedgerSpec
    BookedListingsDoSerialize  Spec => []BookedListingsSerialize

The refinement of `BookingLedger`, on top of `TypeOK`, `LockDiscipline` and
`CheckStaysValid`. The initial states agree; a step that writes no booking leaves the ledger alone
(`LedgerStutters`); `Insert` is the ledger's entry or not about its listings
(`InsertBooks`), `SetStatus` its decision, `Destroy` its closing. At `Insert` the
ledger asks for free days: `CheckStaysValid` gives them against guarded bookings, and
`SeedLocked` says there are no others on such a listing, because a row from before is
in the lock set of every create until Destroy takes the listing, and ids are not
reused. Its last conjunct (`unguarded` bookings are never on an intact listing) is what
makes the abstract promise stronger than `GuardedBookingsDisjoint`, and gives the second
theorem from it: on such a listing a clash involves a booking that came back after a
rejection. The run `bookings_serialize` shows the same sentence false on a listing
without bookings.

### ChatsProofs

    TypeCorrect          Spec => []TypeOK
    InboxKeepsUp         Spec => []InboxUpToDate
    InboxNames           Spec => []InboxNamesMessage
    InboxDoesShowNewest  Spec => []InboxShowsNewest
    InboxMovesOn         Spec => InboxNeverGoesBack
    ReadIsListed         Spec => []ReadMeansListed
    ReadTimesStay        Spec => ReadOnce
    DuplicatesAreBounded Spec => []DuplicatesBounded

`TablesOK` (rows complete, foreign keys hold) and `HandlersOK` (locals fit the statement,
two Destroys delete different messages) are inductive together: an INSERT names a chat
because `Fits` bounds what a handler holds and Destroy's deletes are refused while a
row still refers to theirs.

- `InboxUpToDate` and `InboxNamesMessage` need `InboxReady`: the message a handler is
  about to copy is of its chat and has the time it stamped, and if it is gone, so is
  its chat or the chat is `wiped`. The comparison in `UpdateInbox` does the rest:
  after it the inbox is no older than that message, and no older than it was.
- `InboxShowsNewest` is what the two come to for a reader: with no inbox update under way
  or failed, and nothing wiped, the inbox has the content and the time of a message that
  no other of the chat is newer than. It needs that times are set (`TimesSet`), since 0
  stands for NULL.
- `InboxNeverGoesBack` and `ReadOnce` are then facts about the one statement that
  writes each column; ids are issued once, so a row that is there before and after a
  step is the same row.
- `ReadMeansListed`: a mark is set by `MarkMessages` of a request that lists afterwards,
  from a snapshot in which the marked messages are still to be seen, or which fails.
- `DuplicatesBounded` counts: `FindChat` adds its handler to `Opening` only when the pair
  has no chat, and `OpenChat` turns one handler of `Opening` into one chat. A request that
  finds a chat adds nothing.

Assumptions: `OwnerAssumption`, `SeedAssumption` (legacy chats are rows of their owner's
listing, numbered from one, without messages) and, for `DuplicatesAreBounded` alone,
`SeedPairs`: finitely many handlers, and no pair had more unbooked chats than that
before. The database has no constraint that says so; the theorem is about what
this program adds, and fails on a database that starts above the bound.

### EmbeddingProofs

    TypeCorrect          Spec => []TypeOK
    StalenessIsRepaired  Spec => []NoSilentStaleness
    RunsAloneReembed     for each listing l: Spec /\ []RunsAlone(l) =>
                           [](l \notin missed => Fresh(l) \/ Coming(l) \/ Embedding(l))

`NoSilentStaleness` speaks of the row, and a `Save` of an old text changes the row. Two
facts about runs under way make it inductive: `AloneUnlessRaced` (two runs that have
read for one listing put it in `raced`) and `OutdatedIsFollowed` (a run whose text is no
longer the listing's is followed by one that has not read). A write makes the row
and every composed text stale at once and owes an enqueueing (`Coming`), which only
`EnqueueFails` drops, into `missed`. The last run to end has read after the last write,
or it is not the last. A failure or a restart gives the task back to the queue until
its retries end, and then counts as missed.

`RunsAloneReembed` says what the finding comes down to, on any number of workers
(`cmd/worker` leaves asynq's concurrency at its default, the number of processors, and
several workers may be started). `RunsAlone(l)`: no two workers are between reading
listing `l` and saving its embedding at the same time. A listing of which that is true
is never in `raced` (`RacedByTwo`), so what EmbedListing's comment says, "a changed
document must re-embed", is true of it, with runs for other listings beside its own,
failures, retries and crashes included. The code does not keep a listing's runs
apart; a lock per listing around EmbedListing would.

Assumptions: `NoneAssumption` (the nil value is no text), `BoundsAssumption` (numbers).

### ListingsProofs

    BookkeepingHolds          Spec => []Bookkeeping
    TypeCorrect               Spec => []TypeOK
    PhotosStayServable        Spec => []PhotosServable
    FilesStayAccountedFor     Spec => []FilesAccountedFor
    NoOrphans                 Spec => []OrphansOnlyFromRaces
    RegionsMatch              Spec => []RegionMatchesTown
    RegionsIgnoreFileOrder    Spec => []ResolvesByTownOnly
    UpdatesAreLostOnlyInRaces Spec => UpdatesLostOnlyInRaces
    PhotoStoreImplemented     Spec => ImplementsPhotoStore
    ResolvesInAnyOrder        equal sets of regions resolve a town alike

None of the properties is inductive, because each depends on what handlers have
inserted, deleted or read and not yet committed. `Bookkeeping` says that, and is
inductive by itself: `HoldsDisjoint` (no photo is in the hands of two handlers: a new
key is new, and a row that one purge has deleted is locked for the next),
`UploadsFresh` (what an upload holds is on disk, and no row names or named it),
`PurgesKnown` (what a purge has deleted is still committed, and of its listing),
`GoneForGood` (deleted rows do not return) and `PhasesOK` (which locals are set at
which statement). On top of it:

- `PhotosServable`: `CommitUpload` publishes what `UploadsFresh` says is on disk; a file
  goes at `Unlink` only, of a row in the purge's hands, and a failure makes it torn.
- `FilesAccountedFor` with `PurgedFiles` (a file whose row a purge has deleted is the
  one it is about to remove, or leaked).
- `OrphansOnlyFromRaces` with `DestroySeesAll` (a photo of the listing that Destroy
  has not read came from an upload that was under way).
- `RegionMatchesTown` with `PendingRegions` (the same of the rows that handlers are about
  to save) and `ResolvesToItsRegion`: in a manifest that `Parse` accepts, the regions
  that have a town are one, so the first by file order is that one. The same lemma gives
  `ResolvesInAnyOrder`, about any two manifests that Parse accepts.
- `ResolvesByTownOnly`: a row is stored only by a handler whose manifest was accepted
  (`LoadedOnce`, an invariant: where it was refused there are no rows), every reordering
  of an accepted manifest is accepted (`ReorderingsParse`), and both resolve alike.
- `UpdatesLostOnlyInRaces` with `PendingUpdates` (the row an update is about to save has
  the columns it was not given as they were read) and `UpdateEnds` (a handler leaves
  that statement by its `Save`, or with the rows as they were).
- `PhotoStoreImplemented`: the initial states agree, and each action is `WriteBlob`,
  `Publish`, `Relist`, `RemoveFile` or `Withdraw` of the store or changes none of its
  variables. `Bookkeeping` gives the guards: uploads are on disk and fresh, the purged
  photos are of the listing.

Assumptions: `NoneAssumption` and `RowAssumption` (the nil value is no column value
and no row), `ManifestsAssumption` (the regions of a manifest are numbered; not that
Parse accepts one), `PhotosAssumption` (the bound is a number).

### AccountsProofs

    TypeCorrect          Spec => []TypeOK
    TokensKeepTheirTime  Spec => []TokenAndTimeTogether
    OneAccountEach       Spec => []OneAccountPerMailbox
    TokensAcceptedUnused Spec => AcceptedUnused
    TokensAcceptedInTime Spec => AcceptedInTime
    TokensErasedOnlyInRaces Spec => ErasedOnlyInRaces

The invariant `Bookkeeping` follows a token from its generation to the row:
`TokensOnTheirWay` says that a handler about to store a token has the account and
time noted for it at its generation and that no row and no other handler has it.
With `TokensGenerated` (rows store generated tokens only) that keeps both columns
together. `OneAccountPerMailbox` is inductive with `PlainAddresses` (stored addresses are
normalized: of equal mailboxes they are equal). `AcceptedUnused` rests on
`UnusedTokens`: a token that is stored, or about to be, has not been used, since a use
clears the only row that has the token. `AcceptedInTime` follows at `UpdatePasswordReset` from the check of the
stored time, which is that of the generation. `ErasedOnlyInRaces` rests on
`ConsumersPresentIt`: a stored token that is not in `crossed` is the very one that every
request about to clear the account's columns has presented.

Assumptions: `WindowAssumption` and `BoundsAssumption` (numbers).

### SessionsProofs

    SessionsTypeCorrect  SSpec => []SessionsTypeOK
    OldSessionsDoEnd     SSpec => OldSessionsEnd
    AccountsKept         SSpec => [](OneAccountPerMailbox /\ TokenAndTimeTogether)
                                  /\ AcceptedUnused /\ AcceptedInTime
                                  /\ ErasedOnlyInRaces

`SessionsImplementsAccounts` (`SSpec => Spec`: every step is one of `Accounts` or leaves
its variables alone) carries the theorems of `Accounts` over. `OldSessionsEnd` rests on
`ExpiriesBounded`: a token expires at most `JWTExpiry` after now and, if it had been
issued when its account's password was replaced, at most that long after the
replacement; the clock does not go back.

Assumptions: those of `Accounts`, `JWTExpiryAssumption` and `MaxJwtsAssumption` (numbers).

### CatalogueProofs

    TypeCorrect       Spec => []TypeOK
    SearchIsRanked    Spec => []SearchRanked
    SearchIsComplete  Spec => []SearchComplete
    ServingEnds       Spec => ServedInTime

`RowsOK` is the conjunction of the parts of `TypeOK`, for the store, the embeddings, the
clock and the two requests. `StoreKept` says once what a commit of any handler keeps.

- Search: `RowsRanked` and `RowsComplete` say of the rows of the first query what the
  properties say of the answer, and `ScoredInOrder` that Nearest returns those rows, in
  their order, whose listing stays. `InStep` carries that to the answer: what is
  serialized is at the positions of what Nearest returned, so that `PairScores` gives
  each listing its own score. The first query establishes them
  (`NearestRanked`: a one-to-one choice of `searchLimit` rows that leaves out no nearer
  one), the second keeps them (`PreservedInOrder`), and a commit in between only shrinks
  `steady` (`SearchKept`).
- `ServedInTime` with `KeysExpire`: a key was issued at most `ServiceURLExpiry` before it
  expires, so one of a photo that is gone expires that long after its deletion at the
  latest, unless the redirect that issued it had found the photo before.

The store that the readers run against is the one that `PhotoStoreImplemented` says the
handlers implement.

Assumptions: `ScoresAssumption` (distances are numbers, the nil value is none),
`LimitAssumption`, `BoundsAssumption` (numbers, and finitely many listings, so that a
query has a last row).

### Only model-checked

- `EveryRequestAnswered` and `Converges`: liveness under fairness is outside the prover, and
  so is ENABLED.
- The counterexamples of the findings.

Inductions over data are out of reach too; no module here declares a RECURSIVE
operator, and where one seemed natural (the loop of a search, the rows of a query) a
set of one-to-one functions says the same.

## 7. Not modelled

- The payloads of bookings and chats, and the formats of all payloads: no state.
- Sign-out, which answers and changes nothing, and OptionalAuth, which resolves a
  user as `RequireAuth` does and lets the request go on without one.
- Router, CORS, body middleware, configuration, start-up: fixed tables and wiring.
- A new build with another manifest on an old database: rows keep the regions of the
  old one until they are saved again.
- The cryptography of tokens: a token is what it signs. The cache of the derived
  secret holds one value that never changes.
- The `ai_requests` log row of an embedding call, which nothing reads; columns that
  no property tells apart (two stand for the eleven of a listing);
  `hirer_last_read_at` and `owner_last_read_at`, which nothing modelled reads (the
  statement that sets them is kept, since it can fail).
- asynq, Ollama, PostgreSQL and the schema are external: modelled as the code in
  `src/` relies on them.

## 8. Plan

Done, in this order: `Bookings` with its ledger and proofs, `Chats`, `Embedding`,
`Regions` and `Listings`, `Accounts`; then `Sessions`, `PhotoStore` with the refinement,
`Catalogue`, the list step of `Chats`, and the proofs about `Listings`, `Accounts` and
`Sessions`; then the refinement of the ledger and the proofs about `Chats`, `Embedding`,
`Catalogue` and the updates of `Listings`; then the manifest as a part of the state of
`Listings`, the tokens that a reset erases, and what the invariants come to where nothing
raced: `BookedListingsSerialize`, `RunsAloneReembed`, `InboxShowsNewest`.

Next:

1. Booked legacy chats in a passing run of `Chats`.
2. Destroy in `Bookings` as row locks taken one by one, for its deadlocks with creates.

## 9. Running

In this directory, for each run of `PROJECT.json`:

    tlc -workers 2 -config MCBookings.cfg MCBookings.tla
    tlapm BookingsProofs.tla
    tlapm LedgerProofs.tla

and so on for the other `Proofs` modules. The longest passing runs, `bookings`,
`chats`, `listings` and `catalogue`, take two to three minutes each, the proofs about five minutes together.
