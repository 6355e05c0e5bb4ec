--------------------------- MODULE BookingLedger ---------------------------
(***************************************************************************)
(* What BookingService promises, without handlers, locks or statements: a  *)
(* listing's calendar in which a booking is entered, in one atomic step,   *)
(* only on days that are free.  The owner may set any booking to confirmed *)
(* or rejected at any time.  A rejected booking that is confirmed again    *)
(* takes its days back whatever was booked meanwhile, so the promise is    *)
(* about the bookings that never went through a rejection.                 *)
(***************************************************************************)
EXTENDS Integers

CONSTANTS Listings, Users, BookingIds, Days, Seed

VARIABLES bookings, live, reopened

Active == {"pending", "confirmed"}

FreeDays(l, s, e) == \A b \in DOMAIN bookings \ reopened :
    /\ bookings[b].listing = l
    /\ bookings[b].status \in Active
    => \A d \in Days : d \in s .. e => d \notin bookings[b].start .. bookings[b].end

LInit == bookings = Seed /\ live = Listings /\ reopened = {}

Book(b) ==
    /\ UNCHANGED <<live, reopened>>
    /\ DOMAIN bookings' = DOMAIN bookings \cup {b}
    /\ \E row \in [listing : live, hirer : Users, start : Days, end : Days,
                   status : {"pending"}] :
        /\ row.start < row.end
        /\ bookings' = [x \in DOMAIN bookings \cup {b} |->
                            IF x = b THEN row ELSE bookings[x]]
        /\ FreeDays(row.listing, row.start, row.end)

Decide(b, status) ==
    /\ bookings' = [x \in DOMAIN bookings |->
            IF x = b THEN [bookings[x] EXCEPT !.status = status]
            ELSE bookings[x]]
    /\ reopened' = IF bookings[b].status = "rejected" /\ status # "rejected"
                   THEN reopened \cup {b} ELSE reopened
    /\ UNCHANGED live

Close(l) ==
    /\ live' = live \ {l}
    /\ bookings' = [b \in {x \in DOMAIN bookings : bookings[x].listing # l} |->
                        bookings[b]]
    /\ reopened' = reopened \cap DOMAIN bookings'

LNext ==
    \/ \E b \in BookingIds \ DOMAIN bookings : Book(b)
    \/ \E b \in DOMAIN bookings, status \in {"confirmed", "rejected"} : Decide(b, status)
    \/ \E l \in live : Close(l)

LSpec == LInit /\ [][LNext]_<<bookings, live, reopened>>

=============================================================================
