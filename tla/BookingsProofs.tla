--------------------------- MODULE BookingsProofs ---------------------------
(***************************************************************************)
(* Proofs about Bookings, for any listings, users, days and number of      *)
(* handlers.                                                               *)
(***************************************************************************)
EXTENDS Bookings, TLAPS

LEMMA InitTypeOK == Init => TypeOK
BY OwnerAssumption, DaysAssumption, SeedAssumption
DEF Init, TypeOK, Idle, Creating, Updating, Row, Statuses, activeBookingStatuses,
    CreateSteps, CreateRequest, TransitionRequest

LEMMA NextTypeOK == TypeOK /\ [Next]_vars => TypeOK'
<1> SUFFICES ASSUME TypeOK, [Next]_vars PROVE TypeOK'
    OBVIOUS
<1> USE DEF TypeOK, Idle, Creating, Updating, CreateSteps
<1>1. ASSUME NEW h \in Handlers, NEW u \in Users, NEW l \in Listings,
             NEW s \in Days \cup {Blank}, NEW e \in Days \cup {Blank},
             BookingsCreate(h, u, l, s, e)
      PROVE TypeOK'
  <2>1. [listing |-> l, hirer |-> u, start |-> s, end |-> e] \in CreateRequest
    BY DEF CreateRequest
  <2>2. DateErrors(s, e) \in SUBSET Messages
    BY DEF DateErrors
  <2>3. DateErrors(s, e) = {} => s \in Days /\ e \in Days /\ s < e
    <3> SUFFICES ASSUME DateErrors(s, e) = {} PROVE s \in Days /\ e \in Days /\ s < e
        OBVIOUS
    <3>1. s # Blank /\ e # Blank /\ e > s
      BY DEF DateErrors, Messages
    <3> QED BY <3>1, DaysAssumption
  <2> QED BY <1>1, <2>1, <2>2, <2>3 DEF BookingsCreate, table
<1>2. ASSUME NEW h \in Handlers, LockBookings(h) PROVE TypeOK'
  BY <1>2 DEF LockBookings, RowsOf, table
<1>3. ASSUME NEW h \in Handlers, NEW b \in BookingIds, LockRow(h, b) PROVE TypeOK'
  BY <1>3 DEF LockRow, table
<1>4. ASSUME NEW h \in Handlers, CheckOverlap(h) PROVE TypeOK'
  BY <1>4 DEF CheckOverlap, Messages, table
<1>5. ASSUME NEW h \in Handlers, NEW b \in BookingIds, Insert(h, b) PROVE TypeOK'
  BY <1>5 DEF Insert, Release, Row, Statuses, activeBookingStatuses, CreateRequest
<1>6. ASSUME NEW h \in Handlers, Refuse(h) PROVE TypeOK'
  BY <1>6 DEF Refuse, Release, table
<1>7. ASSUME NEW h \in Handlers, NEW u \in Users, NEW b \in BookingIds,
             NEW status \in {"confirmed", "rejected"}, TransitionBooking(h, u, b, status)
      PROVE TypeOK'
  <2>1. [booking |-> b, listing |-> bookings[b].listing, status |-> status]
            \in TransitionRequest
    BY <1>7 DEF TransitionRequest, TransitionBooking, Row
  <2> QED BY <1>7, <2>1 DEF TransitionBooking, table
<1>8. ASSUME NEW h \in Handlers, SetStatus(h) PROVE TypeOK'
  BY <1>8, SMTT(30) DEF SetStatus, Release, Row, Statuses, activeBookingStatuses, TransitionRequest
<1>9. ASSUME NEW h \in Handlers, Fail(h) PROVE TypeOK'
  BY <1>9 DEF Fail, Release, table
<1>10. ASSUME NEW h \in Handlers, DeadlockVictim(h) PROVE TypeOK'
  BY <1>10 DEF DeadlockVictim, Release, table
<1>11. ASSUME NEW l \in Listings, Destroy(l) PROVE TypeOK'
  BY <1>11 DEF Destroy, RowsOf
<1>14. ASSUME NEW l \in Listings, SaveListing(l) PROVE TypeOK'
  BY <1>14 DEF SaveListing
<1>12. CASE Tick
  BY <1>12 DEF Tick, table
<1>13. CASE UNCHANGED vars
  BY <1>13 DEF vars
<1> HIDE DEF TypeOK, Idle, Creating, Updating, CreateSteps
<1> QED
  BY <1>1, <1>2, <1>3, <1>4, <1>5, <1>6, <1>7, <1>8, <1>9, <1>10, <1>11, <1>12, <1>13,
     <1>14 DEF Next, Step

\* The rows of the bookings table stay complete and the handlers' locals stay
\* consistent with the statement each handler is at.
THEOREM TypeCorrect == Spec => []TypeOK
BY InitTypeOK, NextTypeOK, PTL DEF Spec

-----------------------------------------------------------------------------
(***************************************************************************)
(* The locks.  Rows are deleted by Destroy alone, which takes all rows of a *)
(* listing or none and waits for whoever holds one, and a row that was not *)
(* there when a lock set was fixed never joins it: lock sets of a listing  *)
(* keep their inclusions until their transactions end.                     *)
(***************************************************************************)
LEMMA InitLockDiscipline == Init => LockDiscipline
BY SeedAssumption DEF Init, LockDiscipline, Locking, Row

LEMMA NextLockDiscipline ==
    TypeOK /\ LockDiscipline /\ [Next]_vars => LockDiscipline'
<1> SUFFICES ASSUME TypeOK, LockDiscipline, [Next]_vars PROVE LockDiscipline'
    OBVIOUS
<1>0. /\ pc \in [Handlers -> CreateSteps \cup {"idle", "update"}]
      /\ todo \in [Handlers -> SUBSET issued]
      /\ held \in [Handlers -> SUBSET BookingIds]
      /\ req \in [Handlers -> CreateRequest \cup TransitionRequest \cup {NoRequest}]
      /\ \A h \in Handlers : pc[h] \notin {"locking", "decided"} => held[h] = {}
      /\ \A h \in Handlers : pc[h] # "locking" => todo[h] = {}
  BY DEF TypeOK
<1> USE <1>0 DEF LockDiscipline, Locking, LockSet, RowsOf
<1>1. ASSUME NEW h \in Handlers, NEW u \in Users, NEW l \in Listings,
             NEW s \in Days \cup {Blank}, NEW e \in Days \cup {Blank},
             BookingsCreate(h, u, l, s, e)
      PROVE LockDiscipline'
  BY <1>1 DEF BookingsCreate, table
<1>2. ASSUME NEW h \in Handlers, LockBookings(h) PROVE LockDiscipline'
  BY <1>2 DEF LockBookings, table
<1>3. ASSUME NEW h \in Handlers, NEW b \in BookingIds, LockRow(h, b)
      PROVE LockDiscipline'
  <2>1. /\ pc' = pc /\ req' = req /\ bookings' = bookings /\ live' = live
        /\ pc[h] = "locking"
        /\ todo' = [todo EXCEPT ![h] = @ \ {b}]
        /\ held' = [held EXCEPT ![h] = @ \cup ({b} \cap DOMAIN bookings)]
        /\ b \in todo[h]
        /\ \A g \in Handlers \ {h} : b \notin held[g]
    BY <1>3 DEF LockRow, Free, table
  <2>2. \A g \in Handlers : LockSet(g)' = LockSet(g)
    BY <2>1
  <2>3. \A g, k \in Handlers : g # k => held'[g] \cap held'[k] = {}
    BY <2>1
  <2>4. \A g \in Handlers : Locking(g)' => held'[g] \subseteq DOMAIN bookings'
    BY <2>1
  <2> HIDE DEF LockSet
  <2> QED BY <2>1, <2>2, <2>3, <2>4
<1>4. ASSUME NEW h \in Handlers, CheckOverlap(h) PROVE LockDiscipline'
  BY <1>4 DEF CheckOverlap, table
<1>5. ASSUME NEW h \in Handlers, NEW b \in BookingIds, Insert(h, b)
      PROVE LockDiscipline'
  <2>1. /\ DOMAIN bookings' = DOMAIN bookings \cup {b}
        /\ b \notin issued /\ b \notin DOMAIN bookings
        /\ \A x \in DOMAIN bookings : bookings'[x] = bookings[x]
        /\ bookings'[b].listing \in live
        /\ live' = live
        /\ pc' = [pc EXCEPT ![h] = "idle"]
        /\ \A g \in Handlers \ {h} :
              req'[g] = req[g] /\ todo'[g] = todo[g] /\ held'[g] = held[g]
        /\ held'[h] = {}
    BY <1>5 DEF Insert, Release, TypeOK
  <2>2. \A g \in Handlers \ {h} : /\ b \notin todo[g]
                                  /\ Locking(g)' = Locking(g)
    BY <2>1
  <2>3. \A g \in Handlers \ {h} : Locking(g) => LockSet(g)' = LockSet(g)
    BY <2>1, <2>2
  <2>4. ~Locking(h)'
    BY <2>1
  <2>5. \A g \in Handlers \ {h} : Locking(g) => LockSet(g) \subseteq RowsOf(req[g].listing)'
    BY <2>1
  <2> HIDE DEF LockSet
  <2> QED BY <2>1, <2>2, <2>3, <2>4, <2>5
<1>6. ASSUME NEW h \in Handlers, Refuse(h) PROVE LockDiscipline'
  BY <1>6 DEF Refuse, Release, table
<1>7. ASSUME NEW h \in Handlers, NEW u \in Users, NEW b \in BookingIds,
             NEW status \in {"confirmed", "rejected"}, TransitionBooking(h, u, b, status)
      PROVE LockDiscipline'
  BY <1>7 DEF TransitionBooking, table
<1>8. ASSUME NEW h \in Handlers, SetStatus(h) PROVE LockDiscipline'
  BY <1>8 DEF SetStatus, Release, TypeOK, Row
<1>9. ASSUME NEW h \in Handlers, Fail(h) PROVE LockDiscipline'
  BY <1>9 DEF Fail, Release, table
<1>10. ASSUME NEW h \in Handlers, DeadlockVictim(h) PROVE LockDiscipline'
  BY <1>10 DEF DeadlockVictim, Release, table
<1>11. ASSUME NEW l \in Listings, Destroy(l) PROVE LockDiscipline'
  BY <1>11 DEF Destroy
<1>14. ASSUME NEW l \in Listings, SaveListing(l) PROVE LockDiscipline'
  BY <1>14 DEF SaveListing
<1>12. CASE Tick
  BY <1>12 DEF Tick, table
<1>13. CASE UNCHANGED vars
  BY <1>13 DEF vars
<1> HIDE <1>0 DEF LockDiscipline, Locking, LockSet, RowsOf
<1> QED
  BY <1>1, <1>2, <1>3, <1>4, <1>5, <1>6, <1>7, <1>8, <1>9, <1>10, <1>11, <1>12, <1>13,
     <1>14 DEF Next, Step

\* Row locks order the creates of a listing.
THEOREM LocksDisciplined == Spec => []LockDiscipline
BY InitTypeOK, NextTypeOK, InitLockDiscipline, NextLockDiscipline, PTL DEF Spec

-----------------------------------------------------------------------------
(***************************************************************************)
(* No double booking.                                                      *)
(***************************************************************************)
\* hasOverlap's date comparison finds every common day.
LEMMA OverlapsCoversSharedDays ==
    ASSUME NEW r, NEW s \in Days, NEW e \in Days,
           r.start \in Days, r.end \in Days, ~Overlaps(r, s, e)
    PROVE  ~SharesADay(r, s, e)
<1> SUFFICES ASSUME NEW d \in Days, d \in r.start .. r.end, d \in s .. e
             PROVE FALSE
    BY DEF SharesADay
<1>1. d \in Int /\ s \in Int /\ e \in Int /\ r.start \in Int /\ r.end \in Int
  BY DaysAssumption
<1>2. r.end < s \/ r.start > e
  BY DEF Overlaps
<1> QED BY <1>1, <1>2

\* Two creates of one listing cannot both stand at their INSERT holding locks.
LEMMA LockHoldersMeet ==
    ASSUME TypeOK, LockDiscipline, NEW g \in Handlers, NEW h \in Handlers, g # h,
           pc[g] = "decided", pc[h] = "decided",
           req[g].listing = req[h].listing,
           held[g] # {}
    PROVE  held[h] = {}
<1>1. LockSet(g) = held[g] /\ LockSet(h) = held[h]
  BY DEF TypeOK, LockSet, LockDiscipline, Locking
<1>2. held[g] \subseteq held[h] \/ held[h] \subseteq held[g]
  BY <1>1 DEF LockDiscipline, Locking
<1>3. held[g] \cap held[h] = {}
  BY DEF LockDiscipline
<1> QED BY <1>2, <1>3

LEMMA InitDisjoint == Init => CheckStaysValid /\ GuardedBookingsDisjoint
<1> SUFFICES ASSUME Init PROVE CheckStaysValid /\ GuardedBookingsDisjoint
    OBVIOUS
<1>1. CheckStaysValid
  BY DEF Init, CheckStaysValid
<1>2. GuardedBookingsDisjoint
  BY SeedDisjoint DEF Init, GuardedBookingsDisjoint, Clash
<1> QED BY <1>1, <1>2

LEMMA NextCheckStaysValid ==
    TypeOK /\ LockDiscipline /\ CheckStaysValid /\ [Next]_vars => CheckStaysValid'
<1> SUFFICES ASSUME TypeOK, LockDiscipline, CheckStaysValid, [Next]_vars
             PROVE CheckStaysValid'
    OBVIOUS
<1>0. /\ pc \in [Handlers -> CreateSteps \cup {"idle", "update"}]
      /\ held \in [Handlers -> SUBSET BookingIds]
      /\ errs \in [Handlers -> SUBSET Messages]
      /\ req \in [Handlers -> CreateRequest \cup TransitionRequest \cup {NoRequest}]
      /\ bookings \in [DOMAIN bookings -> Row(Statuses)]
      /\ reopened \cup unguarded \subseteq DOMAIN bookings
      /\ DOMAIN bookings \subseteq issued
  BY DEF TypeOK
<1> USE <1>0 DEF CheckStaysValid, RowsOf
<1>1. ASSUME NEW h \in Handlers, NEW u \in Users, NEW l \in Listings,
             NEW s \in Days \cup {Blank}, NEW e \in Days \cup {Blank},
             BookingsCreate(h, u, l, s, e)
      PROVE CheckStaysValid'
  BY <1>1 DEF BookingsCreate, table
<1>2. ASSUME NEW h \in Handlers, LockBookings(h) PROVE CheckStaysValid'
  BY <1>2 DEF LockBookings, table
<1>3. ASSUME NEW h \in Handlers, NEW b \in BookingIds, LockRow(h, b)
      PROVE CheckStaysValid'
  BY <1>3 DEF LockRow, table
<1>4. ASSUME NEW h \in Handlers, CheckOverlap(h) PROVE CheckStaysValid'
  <2> SUFFICES ASSUME NEW g \in Handlers, pc'[g] = "decided", errs'[g] = {},
                      held'[g] # {},
                      NEW b \in RowsOf(req[g].listing) \ (reopened \cup unguarded),
                      bookings[b].status \in activeBookingStatuses
               PROVE ~SharesADay(bookings[b], req[g].start, req[g].end)
    BY <1>4 DEF CheckOverlap, table
  <2>1. CASE g # h
    BY <1>4, <2>1 DEF CheckOverlap, table
  <2>2. CASE g = h
    <3>1. errs[h] = {} /\ req[h].start \in Days /\ req[h].end \in Days
      BY <1>4, <2>2 DEF CheckOverlap, TypeOK, Idle, Creating, Updating
    <3>2. ~hasOverlap(req[h].listing, req[h].start, req[h].end)
      BY <1>4, <2>2, <3>1, DaysAssumption DEF CheckOverlap
    <3>3. ~Overlaps(bookings[b], req[h].start, req[h].end)
      BY <2>2, <3>2 DEF hasOverlap
    <3>4. bookings[b].start \in Days /\ bookings[b].end \in Days
      BY DEF Row
    <3> QED BY <2>2, <3>1, <3>3, <3>4, OverlapsCoversSharedDays
  <2> QED BY <2>1, <2>2
<1>5. ASSUME NEW h \in Handlers, NEW b \in BookingIds, Insert(h, b)
      PROVE CheckStaysValid'
  <2> SUFFICES ASSUME NEW g \in Handlers, pc'[g] = "decided", errs'[g] = {},
                      held'[g] # {},
                      NEW x \in DOMAIN bookings',
                      bookings'[x].listing = req'[g].listing,
                      x \notin reopened' \cup unguarded',
                      bookings'[x].status \in activeBookingStatuses
               PROVE ~SharesADay(bookings'[x], req'[g].start, req'[g].end)
    OBVIOUS
  <2>1. g # h /\ pc[g] = "decided" /\ errs[g] = {} /\ held[g] # {} /\ req'[g] = req[g]
    BY <1>5 DEF Insert, Release
  <2>2. CASE x = b
    <3>1. req[h].listing = req[g].listing /\ pc[h] = "decided"
      BY <1>5, <2>1, <2>2 DEF Insert
    <3>2. held[h] = {}
      BY <2>1, <3>1, LockHoldersMeet
    <3> QED BY <1>5, <2>2, <3>2 DEF Insert
  <2>3. CASE x # b
    BY <1>5, <2>1, <2>3 DEF Insert
  <2> QED BY <2>2, <2>3
<1>6. ASSUME NEW h \in Handlers, Refuse(h) PROVE CheckStaysValid'
  BY <1>6 DEF Refuse, Release, table
<1>7. ASSUME NEW h \in Handlers, NEW u \in Users, NEW b \in BookingIds,
             NEW status \in {"confirmed", "rejected"}, TransitionBooking(h, u, b, status)
      PROVE CheckStaysValid'
  BY <1>7 DEF TransitionBooking, table
<1>8. ASSUME NEW h \in Handlers, SetStatus(h) PROVE CheckStaysValid'
  <2> SUFFICES ASSUME NEW g \in Handlers, pc'[g] = "decided", errs'[g] = {},
                      held'[g] # {},
                      NEW x \in DOMAIN bookings',
                      bookings'[x].listing = req'[g].listing,
                      x \notin reopened' \cup unguarded',
                      bookings'[x].status \in activeBookingStatuses
               PROVE ~SharesADay(bookings'[x], req'[g].start, req'[g].end)
    OBVIOUS
  <2>1. g # h /\ pc[g] = "decided" /\ errs[g] = {} /\ held[g] # {} /\ req'[g] = req[g]
    BY <1>8 DEF SetStatus, Release
  <2>2. /\ x \in DOMAIN bookings /\ x \notin reopened \cup unguarded
        /\ bookings'[x].listing = bookings[x].listing
        /\ bookings'[x].start = bookings[x].start
        /\ bookings'[x].end = bookings[x].end
    BY <1>8 DEF SetStatus, Row
  <2>3. bookings[x].status \in activeBookingStatuses
    <3>1. bookings[x].status \in Statuses
      BY <2>2 DEF Row
    <3>2. x = req[h].booking => bookings'[x].status = req[h].status
      BY <1>8, <2>2 DEF SetStatus, Row
    <3> QED BY <1>8, <2>2, <3>1, <3>2 DEF SetStatus, Statuses
  <2>4. ~SharesADay(bookings[x], req[g].start, req[g].end)
    BY <2>1, <2>2, <2>3
  <2> QED BY <2>1, <2>2, <2>4 DEF SharesADay
<1>9. ASSUME NEW h \in Handlers, Fail(h) PROVE CheckStaysValid'
  BY <1>9 DEF Fail, Release, table
<1>10. ASSUME NEW h \in Handlers, DeadlockVictim(h) PROVE CheckStaysValid'
  BY <1>10 DEF DeadlockVictim, Release, table
<1>11. ASSUME NEW l \in Listings, Destroy(l) PROVE CheckStaysValid'
  BY <1>11 DEF Destroy
<1>14. ASSUME NEW l \in Listings, SaveListing(l) PROVE CheckStaysValid'
  BY <1>14 DEF SaveListing
<1>12. CASE Tick
  BY <1>12 DEF Tick, table
<1>13. CASE UNCHANGED vars
  BY <1>13 DEF vars
<1> HIDE <1>0 DEF CheckStaysValid, RowsOf
<1> QED
  BY <1>1, <1>2, <1>3, <1>4, <1>5, <1>6, <1>7, <1>8, <1>9, <1>10, <1>11, <1>12, <1>13,
     <1>14 DEF Next, Step

LEMMA NextGuardedBookingsDisjoint ==
    TypeOK /\ CheckStaysValid /\ GuardedBookingsDisjoint /\ [Next]_vars
        => GuardedBookingsDisjoint'
<1> SUFFICES ASSUME TypeOK, CheckStaysValid, GuardedBookingsDisjoint, [Next]_vars
             PROVE GuardedBookingsDisjoint'
    OBVIOUS
<1>0. /\ bookings \in [DOMAIN bookings -> Row(Statuses)]
      /\ reopened \cup unguarded \subseteq DOMAIN bookings
      /\ DOMAIN bookings \subseteq issued
  BY DEF TypeOK
<1> USE <1>0 DEF GuardedBookingsDisjoint, Clash
<1>1. CASE UNCHANGED table
  BY <1>1 DEF table
<1>2. ASSUME NEW h \in Handlers, NEW b \in BookingIds, Insert(h, b)
      PROVE GuardedBookingsDisjoint'
  <2>1. ASSUME NEW x \in DOMAIN bookings, x \notin reopened \cup unguarded,
               bookings[x].listing = req[h].listing,
               bookings[x].status \in activeBookingStatuses, held[h] # {}
        PROVE  ~SharesADay(bookings[x], req[h].start, req[h].end)
    BY <1>2, <2>1 DEF CheckStaysValid, Insert, RowsOf
  <2>2. /\ DOMAIN bookings' = DOMAIN bookings \cup {b}
        /\ b \notin DOMAIN bookings
        /\ \A x \in DOMAIN bookings : bookings'[x] = bookings[x]
        /\ bookings'[b].listing = req[h].listing
        /\ bookings'[b].start = req[h].start
        /\ bookings'[b].end = req[h].end
        /\ reopened' = reopened
        /\ unguarded' = IF held[h] = {} THEN unguarded \cup {b} ELSE unguarded
    BY <1>2 DEF Insert
  <2>3. ASSUME NEW x \in DOMAIN bookings', x # b, Clash(b, x)' \/ Clash(x, b)'
        PROVE  {b, x} \cap (reopened' \cup unguarded') # {}
    <3>1. /\ bookings'[x] = bookings[x]
          /\ x \in DOMAIN bookings
          /\ bookings[x].listing = req[h].listing
          /\ bookings[x].status \in activeBookingStatuses
      BY <2>2, <2>3
    <3>2. SharesADay(bookings[x], req[h].start, req[h].end)
      BY <2>2, <2>3, <3>1 DEF SharesADay
    <3> QED BY <2>1, <2>2, <3>1, <3>2
  <2>4. ASSUME NEW x \in DOMAIN bookings, NEW y \in DOMAIN bookings, Clash(x, y)'
        PROVE  {x, y} \cap (reopened' \cup unguarded') # {}
    BY <2>2, <2>4 DEF SharesADay
  <2> QED BY <2>2, <2>3, <2>4
<1>3. ASSUME NEW h \in Handlers, SetStatus(h) PROVE GuardedBookingsDisjoint'
  <2>1. /\ DOMAIN bookings' = DOMAIN bookings
        /\ reopened \subseteq reopened' /\ unguarded' = unguarded
        /\ \A x \in DOMAIN bookings :
              /\ bookings'[x].listing = bookings[x].listing
              /\ bookings'[x].start = bookings[x].start
              /\ bookings'[x].end = bookings[x].end
    BY <1>3 DEF SetStatus, Row
  <2>2. ASSUME NEW x \in DOMAIN bookings, x \notin reopened',
               bookings'[x].status \in activeBookingStatuses
        PROVE  bookings[x].status \in activeBookingStatuses
    <3>1. bookings[x].status \in Statuses
      BY DEF Row
    <3>2. x = req[h].booking => bookings'[x].status = req[h].status
      BY <1>3 DEF SetStatus, Row
    <3> QED BY <1>3, <2>2, <3>1, <3>2 DEF SetStatus, Statuses
  <2> QED BY <2>1, <2>2 DEF SharesADay
<1>4. ASSUME NEW l \in Listings, Destroy(l) PROVE GuardedBookingsDisjoint'
  BY <1>4 DEF Destroy, RowsOf, SharesADay
<1>5. ASSUME NEW l \in Listings, SaveListing(l) PROVE GuardedBookingsDisjoint'
  BY <1>5 DEF SaveListing
<1> HIDE <1>0 DEF GuardedBookingsDisjoint, Clash
<1> QED
  <2>1. ASSUME NEW h \in Handlers, NEW u \in Users, NEW l \in Listings,
               NEW s \in Days \cup {Blank}, NEW e \in Days \cup {Blank},
               BookingsCreate(h, u, l, s, e)
        PROVE  UNCHANGED table
    BY <2>1 DEF BookingsCreate
  <2>2. ASSUME NEW h \in Handlers, NEW u \in Users, NEW b \in BookingIds,
               NEW status \in {"confirmed", "rejected"},
               TransitionBooking(h, u, b, status)
        PROVE  UNCHANGED table
    BY <2>2 DEF TransitionBooking
  <2>3. ASSUME NEW h \in Handlers, NEW b \in BookingIds, LockRow(h, b)
        PROVE  UNCHANGED table
    BY <2>3 DEF LockRow
  <2>4. ASSUME NEW h \in Handlers,
               \/ LockBookings(h) \/ CheckOverlap(h) \/ Refuse(h)
               \/ Fail(h) \/ DeadlockVictim(h)
        PROVE  UNCHANGED table
    BY <2>4 DEF LockBookings, CheckOverlap, Refuse, Fail, DeadlockVictim
  <2>5. ASSUME Tick \/ UNCHANGED vars PROVE UNCHANGED table
    BY <2>5 DEF Tick, vars, table
  <2> QED
    BY <1>1, <1>2, <1>3, <1>4, <1>5, <2>1, <2>2, <2>3, <2>4, <2>5 DEF Next, Step

\* While a create stands between its overlap check and its INSERT, what the
\* check found stays true.
THEOREM ChecksStayValid == Spec => []CheckStaysValid
BY InitTypeOK, NextTypeOK, InitLockDiscipline, NextLockDiscipline,
   InitDisjoint, NextCheckStaysValid, PTL DEF Spec

\* No two active bookings of a listing share a day, but for a booking whose
\* transaction found no row to lock or that was confirmed after a rejection.
THEOREM NoDoubleBooking == Spec => []GuardedBookingsDisjoint
BY InitTypeOK, NextTypeOK, InitLockDiscipline, NextLockDiscipline,
   InitDisjoint, NextCheckStaysValid, NextGuardedBookingsDisjoint, PTL DEF Spec

\* Handlers that can go nowhere, and wait for each other only, include a cycle of
\* creates: a status update holds no row while it waits, and a create holds none
\* before FOR UPDATE nor waits for any after it.
LEMMA BlockedByCreates == TypeOK => WaitsAreDetected
<1> SUFFICES ASSUME TypeOK, NEW S \in SUBSET Handlers,
                    \A g \in S, k \in Handlers : Wanted(g) \cap held[k] # {} => k \in S,
                    \A g \in S : pc[g] = "idle" \/ Blocked(g),
                    NEW h \in S, Blocked(h)
             PROVE  \E D \in SUBSET S : D # {} /\ Deadlocked(D)
  BY DEF WaitsAreDetected
<1> DEFINE D == {g \in S : pc[g] = "locking" /\ Blocked(g)}
<1>1. ASSUME NEW g \in S, NEW b \in Wanted(g), Blocked(g)
      PROVE  \E k \in D \ {g} : b \in held[k]
  <2>1. PICK k \in Handlers \ {g} : b \in held[k]
    BY <1>1 DEF Blocked, Free
  <2>2. k \in S
    BY <2>1
  <2>3. pc[k] \in {"locking", "decided"}
    BY <2>1 DEF TypeOK
  <2>4. Blocked(k)
    BY <2>2, <2>3
  <2>5. pc[k] # "decided"
    BY <2>4 DEF Blocked, Wanted, TypeOK
  <2> QED BY <2>1, <2>2, <2>3, <2>4, <2>5
<1>2. D # {}
  <2>1. PICK b \in Wanted(h) : TRUE
    BY DEF Blocked
  <2> QED BY <1>1, <2>1
<1>3. Deadlocked(D)
  <2>1. ASSUME NEW g \in D PROVE Wanted(g) = todo[g] /\ todo[g] # {}
    BY DEF Wanted, Blocked
  <2> QED BY <1>1, <2>1 DEF Deadlocked
<1> QED BY <1>2, <1>3

\* Whatever the handlers wait for: one of them can go on, or PostgreSQL's deadlock
\* detector ends one of them.
THEOREM NoHiddenWaits == Spec => []WaitsAreDetected
BY BlockedByCreates, TypeCorrect, PTL

=============================================================================
