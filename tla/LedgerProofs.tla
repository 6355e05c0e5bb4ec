---------------------------- MODULE LedgerProofs ----------------------------
(***************************************************************************)
(* Proof that Bookings implements BookingLedger: on a listing that has     *)
(* been booked before, Create's statements and row locks amount to one     *)
(* atomic step that enters a booking on free days.                         *)
(***************************************************************************)
EXTENDS BookingsProofs

\* Why the bound on unguarded bookings holds on such a listing: the legacy rows
\* are in every lock set until Destroy takes them, and ids are issued once, so
\* a transaction that found no row to lock is not about an intact listing.
SeedLocked ==
    /\ DOMAIN Seed \subseteq issued
    /\ \A h \in Handlers : Locking(h) =>
        RowsOf(req[h].listing) \cap DOMAIN Seed \subseteq todo[h] \cup held[h]
    /\ \A b \in unguarded : bookings[b].listing \notin Intact

LEMMA InitSeedLocked == Init => SeedLocked
BY DEF Init, SeedLocked, Locking

LEMMA NextSeedLocked ==
    TypeOK /\ LockDiscipline /\ SeedLocked /\ [Next]_vars => SeedLocked'
<1> SUFFICES ASSUME TypeOK, LockDiscipline, SeedLocked, [Next]_vars PROVE SeedLocked'
    OBVIOUS
<1>0. /\ pc \in [Handlers -> CreateSteps \cup {"idle", "update"}]
      /\ todo \in [Handlers -> SUBSET issued]
      /\ held \in [Handlers -> SUBSET BookingIds]
      /\ req \in [Handlers -> CreateRequest \cup TransitionRequest \cup {NoRequest}]
      /\ bookings \in [DOMAIN bookings -> Row(Statuses)]
      /\ DOMAIN bookings \subseteq issued
      /\ unguarded \subseteq DOMAIN bookings
      /\ \A h \in Handlers : pc[h] # "locking" => todo[h] = {}
  BY DEF TypeOK
<1> USE <1>0 DEF SeedLocked, Locking, RowsOf, Intact
<1>1. ASSUME NEW h \in Handlers, NEW u \in Users, NEW l \in Listings,
             NEW s \in Days \cup {Blank}, NEW e \in Days \cup {Blank},
             BookingsCreate(h, u, l, s, e)
      PROVE SeedLocked'
  BY <1>1 DEF BookingsCreate, table
<1>2. ASSUME NEW h \in Handlers, LockBookings(h) PROVE SeedLocked'
  BY <1>2 DEF LockBookings, table
<1>3. ASSUME NEW h \in Handlers, NEW b \in BookingIds, LockRow(h, b) PROVE SeedLocked'
  BY <1>3 DEF LockRow, table
<1>4. ASSUME NEW h \in Handlers, CheckOverlap(h) PROVE SeedLocked'
  BY <1>4 DEF CheckOverlap, table
<1>5. ASSUME NEW h \in Handlers, NEW b \in BookingIds, Insert(h, b) PROVE SeedLocked'
  <2>1. /\ DOMAIN bookings' = DOMAIN bookings \cup {b}
        /\ b \notin issued /\ b \notin DOMAIN bookings /\ b \notin DOMAIN Seed
        /\ \A x \in DOMAIN bookings : bookings'[x] = bookings[x]
        /\ bookings'[b].listing = req[h].listing
        /\ issued' = issued \cup {b}
        /\ pc[h] = "decided"
        /\ pc' = [pc EXCEPT ![h] = "idle"]
        /\ \A g \in Handlers \ {h} :
              req'[g] = req[g] /\ todo'[g] = todo[g] /\ held'[g] = held[g]
        /\ unguarded' = IF held[h] = {} THEN unguarded \cup {b} ELSE unguarded
    BY <1>5 DEF Insert, Release
  <2>2. \A l : RowsOf(l)' \cap DOMAIN Seed = RowsOf(l) \cap DOMAIN Seed
    BY <2>1
  <2>3. Intact' = Intact
    BY <2>2
  <2>4. held[h] = {} => req[h].listing \notin Intact
    BY <2>1
  <2>5. \A x \in unguarded' : bookings'[x].listing \notin Intact
    BY <2>1, <2>4
  <2>6. \A g \in Handlers : Locking(g)' =>
            RowsOf(req[g].listing)' \cap DOMAIN Seed \subseteq todo'[g] \cup held'[g]
    BY <2>1, <2>2
  <2> QED BY <2>1, <2>3, <2>5, <2>6
<1>6. ASSUME NEW h \in Handlers, Refuse(h) PROVE SeedLocked'
  BY <1>6 DEF Refuse, Release, table
<1>7. ASSUME NEW h \in Handlers, NEW u \in Users, NEW b \in BookingIds,
             NEW status \in {"confirmed", "rejected"}, TransitionBooking(h, u, b, status)
      PROVE SeedLocked'
  BY <1>7 DEF TransitionBooking, table
<1>8. ASSUME NEW h \in Handlers, SetStatus(h) PROVE SeedLocked'
  <2>1. /\ DOMAIN bookings' = DOMAIN bookings
        /\ \A x \in DOMAIN bookings : bookings'[x].listing = bookings[x].listing
        /\ issued' = issued /\ unguarded' = unguarded
        /\ pc' = [pc EXCEPT ![h] = "idle"]
        /\ \A g \in Handlers \ {h} :
              req'[g] = req[g] /\ todo'[g] = todo[g] /\ held'[g] = held[g]
    BY <1>8 DEF SetStatus, Release, Row
  <2> QED BY <2>1
<1>9. ASSUME NEW h \in Handlers, Fail(h) PROVE SeedLocked'
  BY <1>9 DEF Fail, Release, table
<1>10. ASSUME NEW h \in Handlers, DeadlockVictim(h) PROVE SeedLocked'
  BY <1>10 DEF DeadlockVictim, Release, table
<1>11. ASSUME NEW l \in Listings, Destroy(l) PROVE SeedLocked'
  BY <1>11 DEF Destroy
<1>12. ASSUME NEW l \in Listings, SaveListing(l) PROVE SeedLocked'
  BY <1>12 DEF SaveListing
<1>13. CASE Tick
  BY <1>13 DEF Tick, table
<1>14. CASE UNCHANGED vars
  BY <1>14 DEF vars
<1> HIDE <1>0 DEF SeedLocked, Locking, RowsOf, Intact
<1> QED
  BY <1>1, <1>2, <1>3, <1>4, <1>5, <1>6, <1>7, <1>8, <1>9, <1>10, <1>11, <1>12, <1>13,
     <1>14 DEF Next, Step

-----------------------------------------------------------------------------
(***************************************************************************)
(* The refinement: BookingLedger's variables are Kept, Intact and the kept *)
(* bookings among reopened.                                                *)
(***************************************************************************)
LEMMA KeptRows ==
    /\ DOMAIN Kept = {b \in DOMAIN bookings : bookings[b].listing \in Intact}
    /\ \A b \in DOMAIN Kept : Kept[b] = bookings[b]
BY DEF Kept, RowsAmong

LEMMA LedgerStarts == Init => Ledger!LInit
<1> SUFFICES ASSUME Init PROVE Ledger!LInit
    OBVIOUS
<1>1. bookings = Seed /\ reopened = {}
  BY DEF Init
<1>2. Intact = Booked
  BY <1>1 DEF Intact, Booked, RowsOf
<1>3. Kept = RowsAmong(Seed, Booked)
  BY <1>1, <1>2 DEF Kept
<1> QED BY <1>1, <1>2, <1>3 DEF Ledger!LInit

\* A step that changes no booking changes nothing in the ledger.
LEMMA LedgerStutters ==
    ASSUME bookings' = bookings, reopened' = reopened
    PROVE  UNCHANGED <<Kept, Intact, reopened \cap DOMAIN Kept>>
<1>1. Intact' = Intact
  BY DEF Intact, RowsOf
<1>2. Kept' = Kept
  BY <1>1 DEF Kept, RowsAmong
<1> QED BY <1>1, <1>2

LEMMA InsertBooks ==
    ASSUME TypeOK, LockDiscipline, CheckStaysValid, SeedLocked,
           NEW h \in Handlers, NEW b \in BookingIds, Insert(h, b)
    PROVE  [Ledger!LNext]_<<Kept, Intact, reopened \cap DOMAIN Kept>>
<1>1. /\ DOMAIN bookings' = DOMAIN bookings \cup {b}
      /\ b \notin DOMAIN bookings /\ b \notin DOMAIN Seed
      /\ \A x \in DOMAIN bookings : bookings'[x] = bookings[x]
      /\ bookings'[b] = [listing |-> req[h].listing, hirer |-> req[h].hirer,
                         start |-> req[h].start, end |-> req[h].end,
                         status |-> "pending"]
      /\ reopened' = reopened /\ reopened \subseteq DOMAIN bookings
      /\ pc[h] = "decided" /\ errs[h] = {}
  BY DEF Insert, TypeOK, SeedLocked
<1>2. \A l : RowsOf(l)' \cap DOMAIN Seed = RowsOf(l) \cap DOMAIN Seed
  BY <1>1 DEF RowsOf
<1>3. Intact' = Intact
  BY <1>2 DEF Intact
<1>4. /\ DOMAIN Kept = {x \in DOMAIN bookings : bookings[x].listing \in Intact}
      /\ \A x \in DOMAIN Kept : Kept[x] = bookings[x]
  BY KeptRows
<1>5. Kept' = [x \in {y \in DOMAIN bookings' : bookings'[y].listing \in Intact} |->
                bookings'[x]]
  BY <1>3 DEF Kept, RowsAmong
<1>6. CASE req[h].listing \notin Intact
  <2>1. {y \in DOMAIN bookings' : bookings'[y].listing \in Intact} = DOMAIN Kept
    BY <1>1, <1>4, <1>6
  <2>2. Kept' = [x \in DOMAIN Kept |-> bookings[x]]
    BY <1>1, <1>4, <1>5, <2>1
  <2>3. Kept' = Kept
    BY <2>2, <1>4 DEF Kept, RowsAmong
  <2> QED BY <1>1, <1>3, <2>3
<1>7. CASE req[h].listing \in Intact
  <2> DEFINE row == [listing |-> req[h].listing, hirer |-> req[h].hirer,
                     start |-> req[h].start, end |-> req[h].end,
                     status |-> "pending"]
  <2>1. DOMAIN Kept' = DOMAIN Kept \cup {b}
    BY <1>1, <1>4, <1>5, <1>7
  <2>2. Kept' = [x \in DOMAIN Kept \cup {b} |-> IF x = b THEN row ELSE Kept[x]]
    BY <1>1, <1>4, <1>5, <1>7
  <2>3. req[h] \in CreateRequest /\ req[h].start \in Days /\ req[h].end \in Days
        /\ req[h].start < req[h].end
    BY <1>1 DEF TypeOK, Idle, Creating, Updating
  <2>4. row \in [listing : Intact, hirer : Users, start : Days, end : Days,
                 status : {"pending"}]
    BY <2>3, <1>7 DEF CreateRequest
  <2>5. held[h] # {}
    <3>1. PICK x \in RowsOf(req[h].listing) : x \in DOMAIN Seed
      BY <1>7 DEF Intact
    <3> QED BY <1>1, <3>1 DEF SeedLocked, Locking, TypeOK
  <2>6. ASSUME NEW x \in DOMAIN Kept, x \notin reopened \cap DOMAIN Kept,
               Kept[x].listing = row.listing, Kept[x].status \in {"pending", "confirmed"}
        PROVE  ~SharesADay(Kept[x], row.start, row.end)
    <3>1. /\ x \in RowsOf(req[h].listing)
          /\ x \notin reopened \cup unguarded
          /\ bookings[x].status \in activeBookingStatuses
      BY <1>4, <2>6 DEF RowsOf, SeedLocked, activeBookingStatuses
    <3> QED BY <1>1, <1>4, <2>5, <3>1 DEF CheckStaysValid
  <2>7. Ledger!FreeDays(row.listing, row.start, row.end)
    BY <2>6 DEF Ledger!FreeDays, Ledger!Active, SharesADay
  <2>8. reopened' \cap DOMAIN Kept' = reopened \cap DOMAIN Kept
    BY <1>1, <2>1
  <2>9. row.start < row.end
    BY <2>3
  <2>10. Ledger!Book(b)
    BY <1>3, <2>1, <2>2, <2>4, <2>7, <2>8, <2>9 DEF Ledger!Book
  <2>11. b \in BookingIds \ DOMAIN Kept
    BY <1>1, <1>4
  <2> QED BY <2>10, <2>11 DEF Ledger!LNext
<1> QED BY <1>6, <1>7

LEMMA SetStatusDecides ==
    ASSUME TypeOK, NEW h \in Handlers, SetStatus(h)
    PROVE  [Ledger!LNext]_<<Kept, Intact, reopened \cap DOMAIN Kept>>
<1> DEFINE b == req[h].booking
           status == req[h].status
<1>1. status \in {"confirmed", "rejected"}
  BY DEF SetStatus, TypeOK, Idle, Creating, Updating, TransitionRequest, CreateSteps
<1>2. /\ bookings' = [x \in DOMAIN bookings |->
            IF x = b THEN [bookings[x] EXCEPT !.status = status] ELSE bookings[x]]
      /\ reopened' = {x \in DOMAIN bookings :
            x = b /\ bookings[x].status = "rejected" /\ status \in activeBookingStatuses}
            \cup reopened
  BY DEF SetStatus
<1>3. /\ DOMAIN bookings' = DOMAIN bookings
      /\ \A x \in DOMAIN bookings : bookings'[x].listing = bookings[x].listing
  BY <1>2 DEF TypeOK, Row
<1>4. Intact' = Intact
  BY <1>3 DEF Intact, RowsOf
<1>5. /\ DOMAIN Kept = {x \in DOMAIN bookings : bookings[x].listing \in Intact}
      /\ \A x \in DOMAIN Kept : Kept[x] = bookings[x]
  BY KeptRows
<1>6. Kept' = [x \in {y \in DOMAIN bookings' : bookings'[y].listing \in Intact} |->
                bookings'[x]]
  BY <1>4 DEF Kept, RowsAmong
<1>7. Kept' = [x \in DOMAIN Kept |-> bookings'[x]]
  BY <1>3, <1>5, <1>6
<1>8. Kept' = [x \in DOMAIN Kept |->
            IF x = b THEN [Kept[x] EXCEPT !.status = status] ELSE Kept[x]]
  <2>1. \A x \in DOMAIN Kept :
            bookings'[x] = IF x = b THEN [Kept[x] EXCEPT !.status = status] ELSE Kept[x]
    BY <1>2, <1>5, Zenon
  <2> QED BY <1>7, <2>1, Zenon
<1>9. DOMAIN Kept' = DOMAIN Kept
  BY <1>7
<1>10. CASE b \in DOMAIN Kept
  <2>1. reopened' \cap DOMAIN Kept' =
            IF Kept[b].status = "rejected" /\ status # "rejected"
            THEN (reopened \cap DOMAIN Kept) \cup {b} ELSE reopened \cap DOMAIN Kept
    BY <1>1, <1>2, <1>5, <1>9, <1>10 DEF activeBookingStatuses
  <2>2. Ledger!Decide(b, status)
    BY <1>4, <1>8, <2>1, Zenon DEF Ledger!Decide
  <2> QED BY <1>1, <1>10, <2>2 DEF Ledger!LNext
<1>11. CASE b \notin DOMAIN Kept
  <2>1. Kept' = [x \in DOMAIN Kept |-> Kept[x]]
    BY <1>8, <1>11
  <2>2. Kept' = Kept
    BY <2>1 DEF Kept, RowsAmong
  <2>3. reopened' \cap DOMAIN Kept' = reopened \cap DOMAIN Kept
    BY <1>2, <1>9, <1>11
  <2> QED BY <1>4, <2>2, <2>3
<1> QED BY <1>10, <1>11

LEMMA DestroyCloses ==
    ASSUME TypeOK, NEW l \in Listings, Destroy(l)
    PROVE  [Ledger!LNext]_<<Kept, Intact, reopened \cap DOMAIN Kept>>
<1>1. /\ DOMAIN bookings' = {x \in DOMAIN bookings : bookings[x].listing # l}
      /\ \A x \in DOMAIN bookings' : bookings'[x] = bookings[x]
      /\ reopened' = reopened \ RowsOf(l)
  BY DEF Destroy, RowsOf
<1>2. Intact' = Intact \ {l}
  BY <1>1 DEF Intact, RowsOf
<1>3. /\ DOMAIN Kept = {x \in DOMAIN bookings : bookings[x].listing \in Intact}
      /\ \A x \in DOMAIN Kept : Kept[x] = bookings[x]
  BY KeptRows
<1>4. Kept' = [x \in {y \in DOMAIN bookings' : bookings'[y].listing \in Intact'} |->
                bookings'[x]]
  BY DEF Kept, RowsAmong
<1>5. {y \in DOMAIN bookings' : bookings'[y].listing \in Intact'} =
        {x \in DOMAIN Kept : Kept[x].listing # l}
  BY <1>1, <1>2, <1>3
<1>6. Kept' = [x \in {y \in DOMAIN Kept : Kept[y].listing # l} |-> Kept[x]]
  BY <1>1, <1>3, <1>4, <1>5
<1>7. reopened' \cap DOMAIN Kept' = (reopened \cap DOMAIN Kept) \cap DOMAIN Kept'
  BY <1>1, <1>3, <1>6 DEF RowsOf
<1>8. CASE l \in Intact
  <2>1. Ledger!Close(l)
    BY <1>2, <1>6, <1>7 DEF Ledger!Close
  <2> QED BY <1>8, <2>1 DEF Ledger!LNext
<1>9. CASE l \notin Intact
  <2>1. Intact' = Intact
    BY <1>2, <1>9
  <2>2. {y \in DOMAIN Kept : Kept[y].listing # l} = DOMAIN Kept
    BY <1>3, <1>9
  <2>3. Kept' = [x \in DOMAIN Kept |-> Kept[x]]
    BY <1>6, <2>2
  <2>4. Kept' = Kept
    BY <2>3 DEF Kept, RowsAmong
  <2> QED BY <1>7, <2>1, <2>4
<1> QED BY <1>8, <1>9

LEMMA LedgerStep ==
    TypeOK /\ LockDiscipline /\ CheckStaysValid /\ SeedLocked /\ [Next]_vars
        => [Ledger!LNext]_<<Kept, Intact, reopened \cap DOMAIN Kept>>
<1> SUFFICES ASSUME TypeOK, LockDiscipline, CheckStaysValid, SeedLocked, [Next]_vars
             PROVE  [Ledger!LNext]_<<Kept, Intact, reopened \cap DOMAIN Kept>>
    OBVIOUS
<1>1. CASE bookings' = bookings /\ reopened' = reopened
  BY <1>1, LedgerStutters
<1>2. ASSUME NEW h \in Handlers, NEW u \in Users, NEW l \in Listings,
             NEW s \in Days \cup {Blank}, NEW e \in Days \cup {Blank},
             BookingsCreate(h, u, l, s, e)
      PROVE  bookings' = bookings /\ reopened' = reopened
  BY <1>2 DEF BookingsCreate, table
<1>3. ASSUME NEW h \in Handlers, NEW u \in Users, NEW b \in BookingIds,
             NEW status \in {"confirmed", "rejected"}, TransitionBooking(h, u, b, status)
      PROVE  bookings' = bookings /\ reopened' = reopened
  BY <1>3 DEF TransitionBooking, table
<1>4. ASSUME NEW h \in Handlers, NEW b \in BookingIds, LockRow(h, b)
      PROVE  bookings' = bookings /\ reopened' = reopened
  BY <1>4 DEF LockRow, table
<1>5. ASSUME NEW h \in Handlers,
             \/ LockBookings(h) \/ CheckOverlap(h) \/ Refuse(h)
             \/ Fail(h) \/ DeadlockVictim(h)
      PROVE  bookings' = bookings /\ reopened' = reopened
  BY <1>5 DEF LockBookings, CheckOverlap, Refuse, Fail, DeadlockVictim, table
<1>6. ASSUME NEW l \in Listings, SaveListing(l)
      PROVE  bookings' = bookings /\ reopened' = reopened
  BY <1>6 DEF SaveListing
<1>7. ASSUME Tick \/ UNCHANGED vars
      PROVE  bookings' = bookings /\ reopened' = reopened
  BY <1>7 DEF Tick, vars, table
<1> QED
  BY <1>1, <1>2, <1>3, <1>4, <1>5, <1>6, <1>7, InsertBooks, SetStatusDecides, DestroyCloses
  DEF Next, Step

\* The listings that had a booking before are booked as in BookingLedger: the
\* FOR UPDATE, the overlap check and the INSERT act as one step on free days,
\* and SetStatus and Destroy are its other two steps.
THEOREM LedgerImplemented == Spec => LedgerSpec
<1>1. Init => TypeOK /\ LockDiscipline /\ CheckStaysValid /\ SeedLocked
  BY InitTypeOK, InitLockDiscipline, InitDisjoint, InitSeedLocked
<1>2. TypeOK /\ LockDiscipline /\ CheckStaysValid /\ SeedLocked /\ [Next]_vars
        => (TypeOK /\ LockDiscipline /\ CheckStaysValid /\ SeedLocked)'
  BY NextTypeOK, NextLockDiscipline, NextCheckStaysValid, NextSeedLocked
<1> QED BY <1>1, <1>2, LedgerStarts, LedgerStep, PTL DEF Spec, LedgerSpec, Ledger!LSpec

\* The exception of NoDoubleBooking that a missing lock makes is none on such a
\* listing: two active bookings share a day only if one of them came back after
\* a rejection, whichever statements of however many creates interleave.
THEOREM BookedListingsDoSerialize == Spec => []BookedListingsSerialize
<1> DEFINE Inv == /\ TypeOK /\ LockDiscipline /\ CheckStaysValid
                  /\ GuardedBookingsDisjoint /\ SeedLocked
<1>1. Init => Inv
  BY InitTypeOK, InitLockDiscipline, InitDisjoint, InitSeedLocked
<1>2. Inv /\ [Next]_vars => Inv'
  BY NextTypeOK, NextLockDiscipline, NextCheckStaysValid, NextGuardedBookingsDisjoint,
     NextSeedLocked
<1>3. Inv => BookedListingsSerialize
  <2> SUFFICES ASSUME Inv, NEW a \in DOMAIN Kept, NEW b \in DOMAIN Kept, Clash(a, b)
               PROVE  {a, b} \cap reopened # {}
      BY DEF BookedListingsSerialize
  <2>1. /\ a \in DOMAIN bookings /\ bookings[a].listing \in Intact
        /\ b \in DOMAIN bookings /\ bookings[b].listing \in Intact
    BY KeptRows
  <2>2. a \notin unguarded /\ b \notin unguarded
    BY <2>1 DEF SeedLocked
  <2> QED BY <2>1, <2>2 DEF GuardedBookingsDisjoint
<1> HIDE DEF Inv
<1> QED BY <1>1, <1>2, <1>3, PTL DEF Spec

=============================================================================
