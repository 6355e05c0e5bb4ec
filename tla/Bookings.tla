------------------------------ MODULE Bookings ------------------------------
(***************************************************************************)
(* Booking creation and status transitions: BookingService (Create,        *)
(* SetStatus, hasOverlap) and the HTTP handlers that call it.  Several     *)
(* request handlers run at once against one PostgreSQL database at READ    *)
(* COMMITTED.  Each statement of Create's transaction is a step of its     *)
(* own, because other handlers run between two statements:                 *)
(*                                                                         *)
(*   BookingsCreate  load the listing, refuse its owner, check the dates   *)
(*   LockBookings    SELECT ... FOR UPDATE starts: its snapshot fixes the  *)
(*                   rows it is going to lock                              *)
(*   LockRow         one row lock, waiting for whoever holds it            *)
(*   CheckOverlap    hasOverlap, a new statement with a new snapshot       *)
(*   Insert, Refuse  INSERT and COMMIT, or ROLLBACK                        *)
(***************************************************************************)
EXTENDS Integers, FiniteSets

CONSTANTS
    Listings,     \* ids of listings
    Users,
    OwnerOf,      \* the owner of each listing, which no request changes
    BookingIds,   \* ids the bookings sequence can issue (a bound in TLC)
    Handlers,     \* request handlers in flight at once (a bound in TLC)
    Days,         \* calendar days, as integers (a bound in TLC)
    Todays,       \* the days on which requests are served (a bound in TLC)
    Blank,        \* a date parameter that is empty or does not parse
    NoRequest,    \* of a handler that serves none
    Seed          \* the bookings already in the table, from id to row

Row(status) == [listing : Listings, hirer : Users, start : Days, end : Days,
                status : status]

activeBookingStatuses == {"pending", "confirmed"}
Statuses == activeBookingStatuses \cup {"rejected"}
CreateRequest == [listing : Listings, hirer : Users,
                  start : Days \cup {Blank}, end : Days \cup {Blank}]
TransitionRequest == [booking : BookingIds, listing : Listings,
                      status : {"confirmed", "rejected"}]

ASSUME OwnerAssumption == OwnerOf \in [Listings -> Users]
ASSUME DaysAssumption == Days \subseteq Int /\ Todays \subseteq Int /\ Blank \notin Int
ASSUME SeedAssumption ==
    /\ DOMAIN Seed \subseteq BookingIds
    /\ Seed \in [DOMAIN Seed -> Row(Statuses)]

VARIABLES
    bookings,   \* the committed rows of the bookings table, by id
    issued,     \* ids the sequence has given out
    live,       \* listings that exist
    today,      \* the current date, UTC
    pc,         \* the next statement of each handler
    req,        \* the request it serves
    todo,       \* rows its FOR UPDATE still has to lock
    held,       \* rows it has locked
    errs,       \* validation messages collected so far
    reopened,   \* history: bookings made active again after a rejection
    unguarded   \* history: bookings inserted by a transaction holding no lock

vars == <<bookings, issued, live, today, pc, req, todo, held, errs,
          reopened, unguarded>>
table == <<bookings, issued, live, reopened, unguarded>>

\* BookingsCreate's transaction, statement by statement
CreateSteps == {"lock", "locking", "decided"}

RowsOf(l) == {b \in DOMAIN bookings : bookings[b].listing = l}

\* Mutant: adjacency does not count as overlap.
OverlapsInside(row, s, e) == ~(row.end <= s \/ row.start >= e)

\* hasOverlap's WHERE NOT (end_date < s OR start_date > e)
Overlaps(row, s, e) == ~(row.end < s \/ row.start > e)

\* Mutant: only confirmed bookings block their days.
ConfirmedOverlap(l, s, e) ==
    \E b \in RowsOf(l) : /\ bookings[b].status = "confirmed"
                         /\ Overlaps(bookings[b], s, e)

hasOverlap(l, s, e) ==
    \E b \in RowsOf(l) : /\ bookings[b].status \in activeBookingStatuses
                         /\ Overlaps(bookings[b], s, e)

Messages == {"start blank", "end blank", "end not after start", "start past",
             "overlap"}

\* The messages Create collects before it opens its transaction.
DateErrors(s, e) ==
    {x \in Messages :
        \/ x = "start blank" /\ s = Blank
        \/ x = "end blank" /\ e = Blank
        \/ x = "end not after start" /\ s # Blank /\ e # Blank /\ ~(e > s)
        \/ x = "start past" /\ s # Blank /\ s < today}

Free(h, b) == \A g \in Handlers \ {h} : b \notin held[g]

\* Mutant: the transaction ends without giving its locks back.
KeepLocks(h) ==
    /\ pc' = [pc EXCEPT ![h] = "idle"]
    /\ req' = [req EXCEPT ![h] = NoRequest]
    /\ todo' = [todo EXCEPT ![h] = {}]
    /\ errs' = [errs EXCEPT ![h] = {}]
    /\ UNCHANGED held

\* Commit or rollback: the locks go, and the handler answers its request.
Release(h) ==
    /\ pc' = [pc EXCEPT ![h] = "idle"]
    /\ req' = [req EXCEPT ![h] = NoRequest]
    /\ todo' = [todo EXCEPT ![h] = {}]
    /\ held' = [held EXCEPT ![h] = {}]
    /\ errs' = [errs EXCEPT ![h] = {}]

-----------------------------------------------------------------------------
Init ==
    /\ bookings = Seed
    /\ issued = DOMAIN Seed
    /\ live = Listings
    /\ today \in Todays
    /\ pc = [h \in Handlers |-> "idle"]
    /\ req = [h \in Handlers |-> NoRequest]
    /\ todo = [h \in Handlers |-> {}]
    /\ held = [h \in Handlers |-> {}]
    /\ errs = [h \in Handlers |-> {}]
    /\ reopened = {}
    /\ unguarded = {}

\* A bound, not a guard of the code: every create in flight finds an id.
RoomForOne ==
    Cardinality(issued) + Cardinality({g \in Handlers : pc[g] \in CreateSteps})
        < Cardinality(BookingIds)

BookingsCreate(h, u, l, s, e) ==
    /\ pc[h] = "idle"
    /\ RoomForOne
    /\ l \in live
    /\ OwnerOf[l] # u
    /\ pc' = [pc EXCEPT ![h] = "lock"]
    /\ req' = [req EXCEPT ![h] =
                  [listing |-> l, hirer |-> u, start |-> s, end |-> e]]
    /\ errs' = [errs EXCEPT ![h] = DateErrors(s, e)]
    /\ UNCHANGED <<table, today, todo, held>>

\* Mutant: the FOR UPDATE selects what can overlap, active bookings only.
LockActive(h) ==
    /\ pc[h] = "lock"
    /\ pc' = [pc EXCEPT ![h] = "locking"]
    /\ todo' = [todo EXCEPT ![h] =
            {b \in RowsOf(req[h].listing) :
                bookings[b].status \in activeBookingStatuses}]
    /\ UNCHANGED <<table, today, req, held, errs>>

\* The rows to lock are those its snapshot shows; a row committed while the
\* statement waits is not among them.
LockBookings(h) ==
    /\ pc[h] = "lock"
    /\ pc' = [pc EXCEPT ![h] = "locking"]
    /\ todo' = [todo EXCEPT ![h] = RowsOf(req[h].listing)]
    /\ UNCHANGED <<table, today, req, held, errs>>

\* Mutant: FOR SHARE, which creates do not wait for.
ShareRow(h, b) ==
    /\ pc[h] = "locking"
    /\ b \in todo[h]
    /\ todo' = [todo EXCEPT ![h] = @ \ {b}]
    /\ held' = [held EXCEPT ![h] = @ \cup ({b} \cap DOMAIN bookings)]
    /\ UNCHANGED <<table, today, pc, req, errs>>

\* The scan's order is not fixed: an UPDATE moves a row.  A row deleted
\* meanwhile is passed over.
LockRow(h, b) ==
    /\ pc[h] = "locking"
    /\ b \in todo[h]
    /\ Free(h, b)
    /\ todo' = [todo EXCEPT ![h] = @ \ {b}]
    /\ held' = [held EXCEPT ![h] = @ \cup ({b} \cap DOMAIN bookings)]
    /\ UNCHANGED <<table, today, pc, req, errs>>

CheckOverlap(h) ==
    /\ pc[h] = "locking"
    /\ todo[h] = {}
    /\ pc' = [pc EXCEPT ![h] = "decided"]
    /\ errs' = [errs EXCEPT ![h] =
            IF /\ req[h].start # Blank
               /\ req[h].end # Blank
               /\ hasOverlap(req[h].listing, req[h].start, req[h].end)
            THEN @ \cup {"overlap"} ELSE @]
    /\ UNCHANGED <<table, today, req, todo, held>>

Insert(h, b) ==
    /\ pc[h] = "decided"
    /\ errs[h] = {}
    /\ req[h].listing \in live
    /\ b \notin issued
    /\ issued' = issued \cup {b}
    /\ bookings' = [x \in DOMAIN bookings \cup {b} |->
            IF x = b THEN [listing |-> req[h].listing, hirer |-> req[h].hirer,
                           start |-> req[h].start, end |-> req[h].end,
                           status |-> "pending"]
            ELSE bookings[x]]
    /\ unguarded' = IF held[h] = {} THEN unguarded \cup {b} ELSE unguarded
    /\ Release(h)
    /\ UNCHANGED <<live, today, reopened>>

\* Mutant: an INSERT its foreign key refuses leaves the transaction open.
RefuseInvalid(h) ==
    /\ pc[h] = "decided"
    /\ errs[h] # {}
    /\ Release(h)
    /\ UNCHANGED <<table, today>>

\* 422, or 500 when the listing is gone and its foreign key refuses the row.
Refuse(h) ==
    /\ pc[h] = "decided"
    /\ errs[h] # {} \/ req[h].listing \notin live
    /\ Release(h)
    /\ UNCHANGED <<table, today>>

\* transitionBooking up to its owner check; loadBooking reads without a lock.
TransitionBooking(h, u, b, status) ==
    /\ pc[h] = "idle"
    /\ b \in DOMAIN bookings
    /\ OwnerOf[bookings[b].listing] = u
    /\ pc' = [pc EXCEPT ![h] = "update"]
    /\ req' = [req EXCEPT ![h] =
            [booking |-> b, listing |-> bookings[b].listing, status |-> status]]
    /\ UNCHANGED <<table, today, todo, held, errs>>

\* UPDATE bookings SET status: waits for the row's lock, looks at no other row
\* and at no earlier status; of a deleted row it updates nothing.  In the same
\* transaction gorm first saves what loadBooking preloaded, INSERT ... ON
\* CONFLICT DO NOTHING: a listing destroyed in between is inserted again.
SetStatus(h) ==
    LET b == req[h].booking
        status == req[h].status IN
    /\ pc[h] = "update"
    /\ Free(h, b)
    /\ bookings' = [x \in DOMAIN bookings |->
            IF x = b THEN [bookings[x] EXCEPT !.status = status]
            ELSE bookings[x]]
    /\ reopened' = {x \in DOMAIN bookings :
            /\ x = b
            /\ bookings[x].status = "rejected"
            /\ status \in activeBookingStatuses} \cup reopened
    /\ live' = live \cup {req[h].listing}
    /\ Release(h)
    /\ UNCHANGED <<issued, today, unguarded>>

\* A statement fails, or the server stops: PostgreSQL rolls back.
Fail(h) ==
    /\ pc[h] # "idle"
    /\ Release(h)
    /\ UNCHANGED <<table, today>>

\* Creates that wait for rows of each other.
Deadlocked(D) == \A g \in D :
    /\ pc[g] = "locking" /\ todo[g] # {}
    /\ \A b \in todo[g] : \E k \in D \ {g} : b \in held[k]

\* PostgreSQL ends one transaction of such a set.
DeadlockVictim(h) ==
    /\ \E D \in SUBSET Handlers : h \in D /\ Deadlocked(D)
    /\ Release(h)
    /\ UNCHANGED <<table, today>>

\* ListingService.Destroy as the bookings table sees it when it commits: its
\* DELETE waits for row locks, and the rows go with their listing.
Destroy(l) ==
    /\ l \in live
    /\ \A h \in Handlers : held[h] \cap RowsOf(l) = {}
    /\ live' = live \ {l}
    /\ bookings' = [b \in DOMAIN bookings \ RowsOf(l) |-> bookings[b]]
    /\ reopened' = reopened \ RowsOf(l)
    /\ unguarded' = unguarded \ RowsOf(l)
    /\ UNCHANGED <<issued, today, pc, req, todo, held, errs>>

\* ListingService.Update saves a listing that was destroyed after it loaded it:
\* Save updates no row, so it inserts one.
SaveListing(l) ==
    /\ l \notin live
    /\ live' = live \cup {l}
    /\ UNCHANGED <<bookings, issued, reopened, unguarded, today,
                   pc, req, todo, held, errs>>

Tick ==
    /\ today' \in {d \in Todays : d > today}
    /\ UNCHANGED <<table, pc, req, todo, held, errs>>

Step(h) ==
    \/ LockBookings(h)
    \/ CheckOverlap(h)
    \/ \E b \in BookingIds : Insert(h, b)
    \/ Refuse(h)

Next ==
    \/ \E h \in Handlers :
        \/ \E u \in Users, l \in Listings,
              s \in Days \cup {Blank}, e \in Days \cup {Blank} :
                BookingsCreate(h, u, l, s, e)
        \/ \E u \in Users, b \in BookingIds, status \in {"confirmed", "rejected"} :
                TransitionBooking(h, u, b, status)
        \/ \E b \in BookingIds : LockRow(h, b)
        \/ Step(h)
        \/ SetStatus(h)
        \/ Fail(h)
        \/ DeadlockVictim(h)
    \/ \E l \in Listings : Destroy(l) \/ SaveListing(l)
    \/ Tick

Spec == Init /\ [][Next]_vars

\* A handler runs on its own goroutine and never stops by itself, PostgreSQL
\* queues the waiters of a row lock, and its deadlock detector runs.
FairSpec ==
    /\ Spec
    /\ \A h \in Handlers :
        /\ WF_vars(Step(h))
        /\ SF_vars(\E b \in BookingIds : LockRow(h, b))
        /\ SF_vars(SetStatus(h))
        /\ WF_vars(DeadlockVictim(h))

-----------------------------------------------------------------------------
Idle(h) == pc[h] = "idle" /\ req[h] = NoRequest /\ errs[h] = {}
Creating(h) ==
    /\ pc[h] \in CreateSteps
    /\ req[h] \in CreateRequest
    /\ errs[h] = {} => /\ req[h].start \in Days
                      /\ req[h].end \in Days
                      /\ req[h].start < req[h].end
Updating(h) == pc[h] = "update" /\ req[h] \in TransitionRequest

\* Every row is complete, ids are issued once, a handler's locals fit the
\* statement it is at, only a create transaction holds locks, and one that has
\* found nothing wrong yet has two dates in order.
TypeOK ==
    /\ bookings \in [DOMAIN bookings -> Row(Statuses)]
    /\ DOMAIN bookings \subseteq issued
    /\ issued \subseteq BookingIds
    /\ live \subseteq Listings
    /\ today \in Todays
    /\ pc \in [Handlers -> CreateSteps \cup {"idle", "update"}]
    /\ req \in [Handlers -> CreateRequest \cup TransitionRequest \cup {NoRequest}]
    /\ todo \in [Handlers -> SUBSET issued]
    /\ held \in [Handlers -> SUBSET BookingIds]
    /\ errs \in [Handlers -> SUBSET Messages]
    /\ reopened \cup unguarded \subseteq DOMAIN bookings
    /\ \A h \in Handlers :
        /\ Idle(h) \/ Creating(h) \/ Updating(h)
        /\ pc[h] # "locking" => todo[h] = {}
        /\ pc[h] \notin {"locking", "decided"} => held[h] = {}

\* Create's transaction has taken the snapshot that fixes its lock set, the rows
\* it has locked and the rows it is going to, deleted ones aside.
Locking(h) == pc[h] \in {"locking", "decided"}
LockSet(h) == (todo[h] \cup held[h]) \cap DOMAIN bookings

\* Why the row locks order creates at all: a row is locked by one transaction
\* at a time, and stays while it is locked; Destroy takes the rows of a listing
\* together, so of two creates the lock set of one contains that of the other,
\* and two that hold rows must have met.
LockDiscipline ==
    /\ \A g, h \in Handlers : g # h => held[g] \cap held[h] = {}
    /\ \A b \in DOMAIN bookings : bookings[b].listing \in live
    /\ \A h \in Handlers : Locking(h) =>
        /\ held[h] \subseteq DOMAIN bookings
        /\ LockSet(h) \subseteq RowsOf(req[h].listing)
    /\ \A g, h \in Handlers :
        /\ Locking(g) /\ Locking(h)
        /\ req[g].listing = req[h].listing
        => LockSet(g) \subseteq LockSet(h) \/ LockSet(h) \subseteq LockSet(g)

SharesADay(r, s, e) == \E d \in Days : d \in r.start .. r.end /\ d \in s .. e

\* Two bookings of one listing that are both pending or confirmed and have a
\* day in common, its first and last day included.
Clash(a, b) ==
    /\ a # b
    /\ bookings[a].listing = bookings[b].listing
    /\ bookings[a].status \in activeBookingStatuses
    /\ bookings[b].status \in activeBookingStatuses
    /\ SharesADay(bookings[a], bookings[b].start, bookings[b].end)

\* The legacy rows do not clash.
ASSUME SeedDisjoint == \A a, b \in DOMAIN Seed :
    /\ a # b
    /\ Seed[a].listing = Seed[b].listing
    /\ Seed[a].status \in activeBookingStatuses
    /\ Seed[b].status \in activeBookingStatuses
    => ~SharesADay(Seed[a], Seed[b].start, Seed[b].end)

\* No double booking, as far as Create's lock reaches: two active bookings of a
\* listing share a day only if one of them was inserted by a transaction that
\* found no row to lock, or was made active again after a rejection.
GuardedBookingsDisjoint == \A a, b \in DOMAIN bookings :
    Clash(a, b) => {a, b} \cap (reopened \cup unguarded) # {}

\* What the locks give Create between its overlap check and its INSERT: the
\* answer of the check is still true when the row is inserted, but for
\* bookings that no lock guarded or that came back after a rejection.
CheckStaysValid == \A h \in Handlers :
    /\ pc[h] = "decided"
    /\ errs[h] = {}
    /\ held[h] # {}
    => \A b \in RowsOf(req[h].listing) \ (reopened \cup unguarded) :
        bookings[b].status \in activeBookingStatuses
            => ~SharesADay(bookings[b], req[h].start, req[h].end)

\* Create's comment, "so concurrent attempts serialize": creates alone, with no
\* booking put back after a rejection, never make two bookings clash.
ConcurrentCreatesSerialize == \A a, b \in DOMAIN bookings :
    Clash(a, b) => {a, b} \cap reopened # {}

\* The comment on activeBookingStatuses, "the statuses that block overlapping
\* dates": no two bookings in these statuses overlap.
ActiveBookingsBlock == \A a, b \in DOMAIN bookings : ~Clash(a, b)

Booked == {l \in Listings : \E b \in DOMAIN Seed : Seed[b].listing = l}
Intact == {l \in Booked : RowsOf(l) \cap DOMAIN Seed # {}}
RowsAmong(rows, ls) == [b \in {x \in DOMAIN rows : rows[x].listing \in ls} |-> rows[b]]
Kept == RowsAmong(bookings, Intact)

Ledger == INSTANCE BookingLedger
    WITH Listings <- Booked, Seed <- RowsAmong(Seed, Booked),
         bookings <- Kept, live <- Intact,
         reopened <- reopened \cap DOMAIN Kept

\* The listings that have been booked before, until Destroy takes their rows,
\* are booked as in BookingLedger: every create enters its booking atomically
\* on free days.
LedgerSpec == Ledger!LSpec

\* Where Create's comment, "so concurrent attempts serialize", does hold: on a
\* listing that keeps a booking from before, of any status, two bookings clash
\* only if one was made active again after a rejection.
BookedListingsSerialize == \A a, b \in DOMAIN Kept :
    Clash(a, b) => {a, b} \cap reopened # {}

\* The rows a handler's next statement locks or writes, and whether others have
\* all of them locked.
Wanted(h) == IF pc[h] = "update" THEN {req[h].booking} ELSE todo[h]
Blocked(h) == Wanted(h) # {} /\ \A b \in Wanted(h) : ~Free(h, b)

\* Nobody waits for a handler that is not there any more, nor in a way that the
\* deadlock detector does not see: handlers that wait for nobody else, and of
\* which none can go on, include creates that wait for rows of each other.
WaitsAreDetected == \A S \in SUBSET Handlers :
    /\ \A g \in S, k \in Handlers : Wanted(g) \cap held[k] # {} => k \in S
    /\ \A g \in S : pc[g] = "idle" \/ Blocked(g)
    /\ \E g \in S : Blocked(g)
    => \E D \in SUBSET S : D # {} /\ Deadlocked(D)

\* Every request is answered, whatever locks it meets: creates that wait for
\* each other's rows, and status updates that wait for a create.
EveryRequestAnswered == \A h \in Handlers : pc[h] # "idle" ~> pc[h] = "idle"

=============================================================================
