-------------------------- MODULE SlotReservation --------------------------
(***************************************************************************)
(* Time slots, the bookings placed on them, and the requests of concurrent *)
(* workers: a checkout, a reschedule, an operator's edit of the slot.  A   *)
(* reservation locks the TimeSlot row, counts the bookings that hold a     *)
(* place, and inserts or moves its booking before it commits; an edit      *)
(* reads and counts without a lock and saves the whole row.  Slots appear  *)
(* when a customer looks at a day, operators add and delete them and close *)
(* days.  Meanwhile the handlers of payments, refunds and visits change    *)
(* the statuses the count is over, holding the booking's row lock and      *)
(* never looking at the slot.  A failed request rolls back and frees its   *)
(* locks.                                                                  *)
(***************************************************************************)
EXTENDS Naturals, FiniteSets

CONSTANTS Bookings, Slots, Workers,
          Nobody,       \* a lock is free
          NoSlot,       \* the booking does not exist yet
          NoRow,        \* the area has no slot at that time
          DefaultCapacity,
          MaxCapacity   \* bound on the capacity an operator types

ASSUME SlotAssumption ==
    /\ Nobody \notin Workers /\ NoSlot \notin Slots
    /\ NoRow \notin [capacity : Nat, active : BOOLEAN]
    /\ MaxCapacity \in Nat \ {0} /\ DefaultCapacity \in 1..MaxCapacity

VARIABLES slot,      \* TimeSlot rows, by area and time
          closed,    \* the slots an active ScheduleClosure is over
          claim,     \* class of each booking's status (SeatClaim); "none": no row
          home,      \* the booking's time_slot
          slotLock, bookingLock,  \* row locks, by worker
          job        \* the transaction each worker is in

vars == <<slot, closed, claim, home, slotLock, bookingLock, job>>
locks == <<slotLock, bookingLock>>

Claim(b) == INSTANCE SeatClaim WITH claim <- claim[b]
Holding == {"fixed", "movable"}

SlotRow == [capacity : 1..MaxCapacity, active : BOOLEAN]

\* A transaction has just begun ("move"), waits for the slot it wants ("want"),
\* has counted and will write ("write"); an edit has read and will save ("save"), also
\* when the row was deleted since ("reinsert").
Idle == [step |-> "idle"]
Steps == [step : {"move", "want", "write"}, booking : Bookings, slot : Slots]
         \cup [step : {"save", "reinsert"}, slot : Slots, row : SlotRow]

Init == /\ slot = [s \in Slots |-> NoRow]
        /\ closed = {}
        /\ claim = [b \in Bookings |-> "none"]
        /\ home = [b \in Bookings |-> NoSlot]
        /\ slotLock = [s \in Slots |-> Nobody]
        /\ bookingLock = [b \in Bookings |-> Nobody]
        /\ job = [w \in Workers |-> Idle]

Begin(w, step) == job[w] = Idle /\ job' = [job EXCEPT ![w] = step]

\* The end of a transaction, committed or rolled back.
Finish(w) ==
    /\ job' = [job EXCEPT ![w] = Idle]
    /\ slotLock' = [s \in Slots |-> IF slotLock[s] = w THEN Nobody ELSE slotLock[s]]
    /\ bookingLock' = [b \in Bookings |-> IF bookingLock[b] = w THEN Nobody ELSE bookingLock[b]]
-----------------------------------------------------------------------------
(* Capacity *)

Reserved(s) == {b \in Bookings : home[b] = s /\ claim[b] \in Holding}

IsClosed(s) == s \in closed

IsBookable(s) == /\ slot[s] # NoRow /\ ~IsClosed(s)
                 /\ slot[s].active
                 /\ Cardinality(Reserved(s)) < slot[s].capacity

Lockable_Ignored(s, w) == TRUE
Lockable(s, w) == slotLock[s] \in {Nobody, w}
-----------------------------------------------------------------------------
(* Reservations *)

Placing == {"move", "want", "write"}
WorkingOn(b) == {w \in Workers : job[w].step \in Placing /\ job[w].booking = b}

\* Every checkout makes a new booking.
Create(w, b, s) ==
    /\ claim[b] = "none" /\ WorkingOn(b) = {}
    /\ Begin(w, [step |-> "want", booking |-> b, slot |-> s])
    /\ UNCHANGED <<slot, closed, claim, home, locks>>

Reschedule(w, b, s) ==
    /\ claim[b] # "none"
    /\ Begin(w, [step |-> "move", booking |-> b, slot |-> s])
    /\ UNCHANGED <<slot, closed, claim, home, locks>>

\* _lock_booking: the query joins the slot the booking is on, and FOR UPDATE
\* locks the rows of every joined table.
LockBooking(w) ==
    /\ job[w].step = "move"
    /\ LET b == job[w].booking IN
       /\ bookingLock[b] = Nobody /\ Lockable(home[b], w)
       /\ claim[b] = "movable"
       /\ bookingLock' = [bookingLock EXCEPT ![b] = w]
       /\ slotLock' = [slotLock EXCEPT ![home[b]] = w]
    /\ job' = [job EXCEPT ![w].step = "want"]
    /\ UNCHANGED <<slot, closed, claim, home>>

LockSlot(w) ==
    /\ job[w].step = "want" /\ Lockable(job[w].slot, w) /\ IsBookable(job[w].slot)
    /\ slotLock' = [slotLock EXCEPT ![job[w].slot] = w]
    /\ job' = [job EXCEPT ![w].step = "write"]
    /\ UNCHANGED <<slot, closed, claim, home, bookingLock>>

\* A checkout's booking is PENDING_PAYMENT; a lead's work order CONFIRMED.
Written(b) == IF claim[b] = "none" THEN Holding ELSE {claim[b]}

Write(w) ==
    /\ job[w].step = "write"
    /\ \E c \in Written(job[w].booking) : claim' = [claim EXCEPT ![job[w].booking] = c]
    /\ home' = [home EXCEPT ![job[w].booking] = job[w].slot]
    /\ Finish(w)
    /\ UNCHANGED <<slot, closed>>

\* Refused (not bookable, expired or closed, not movable), or interrupted.
Fail_LocksKept(w) == /\ job' = [job EXCEPT ![w] = Idle]
                     /\ UNCHANGED locks
Fail(w) == Finish(w)

Refuse(w) == job[w] # Idle /\ Fail(w) /\ UNCHANGED <<slot, closed, claim, home>>

BlockedBy(w, v) == /\ w # v
                   /\ job[w].step = "want"
                   /\ slotLock[job[w].slot] = v

\* Every transaction of some set waits for another of it; the database ends one.
Deadlocked(w) == \E C \in SUBSET Workers :
                    w \in C /\ \A v \in C : \E u \in C : BlockedBy(v, u)
-----------------------------------------------------------------------------
(* Edits of the slot *)

EditValid(s, row) == row.capacity >= Cardinality(Reserved(s))

ReadSlot(w, s) ==
    /\ slot[s] # NoRow
    /\ \E row \in SlotRow :
       /\ row # slot[s] /\ (row.capacity = slot[s].capacity \/ row.active = slot[s].active)
       /\ EditValid(s, row)
       /\ Begin(w, [step |-> "save", slot |-> s, row |-> row])
       /\ UNCHANGED <<slot, closed, claim, home, locks>>

SaveSlot(w) ==
    /\ job[w].step = "save" /\ Lockable(job[w].slot, w)
    /\ slot' = [slot EXCEPT ![job[w].slot] = job[w].row]
    /\ Finish(w)
    /\ UNCHANGED <<closed, claim, home>>

\* Saving a row that is gone inserts it again, if no other took its time meanwhile.
Reinsert(w) ==
    /\ job[w].step = "reinsert" /\ slot[job[w].slot] = NoRow
    /\ slot' = [slot EXCEPT ![job[w].slot] = job[w].row]
    /\ Finish(w)
    /\ UNCHANGED <<closed, claim, home>>
-----------------------------------------------------------------------------
(* The calendar *)

EnsureDailySlot(s) ==
    /\ slot[s] = NoRow
    /\ slot' = [slot EXCEPT ![s] = [capacity |-> DefaultCapacity, active |-> TRUE]]

\* A customer looks at a day that is not over, for a service the area offers.
ListSlots(s) ==
    /\ ~IsClosed(s) /\ EnsureDailySlot(s)
    /\ UNCHANGED <<closed, claim, home, locks, job>>

CreateSlot(s) ==
    /\ slot[s] = NoRow
    /\ \E row \in SlotRow : slot' = [slot EXCEPT ![s] = row]
    /\ UNCHANGED <<closed, claim, home, locks, job>>

\* Bookings protect their slot, whatever their status.
Unprotected(s) == \A b \in Bookings : home[b] # s

DeleteSlot(s) ==
    /\ slot[s] # NoRow /\ slotLock[s] = Nobody
    /\ Unprotected(s)
    /\ slot' = [slot EXCEPT ![s] = NoRow]
    /\ job' = [w \in Workers |-> IF job[w].step = "save" /\ job[w].slot = s
                                 THEN [job[w] EXCEPT !.step = "reinsert"] ELSE job[w]]
    /\ UNCHANGED <<closed, claim, home, locks>>

\* A closure of an area or of all of them is added, moved or taken back.
EditClosures == /\ closed' \in SUBSET Slots
                /\ UNCHANGED <<slot, claim, home, locks, job>>
-----------------------------------------------------------------------------
\* Payments, refunds, cancellation, the visit.
ChangeStatus(b) ==
    /\ bookingLock[b] = Nobody
    /\ \E c \in Holding \cup {"out"} : claim' = [claim EXCEPT ![b] = c]
    /\ Claim(b)!Next
    /\ UNCHANGED <<slot, closed, home, locks, job>>

Step(w) == LockBooking(w) \/ LockSlot(w) \/ Write(w) \/ SaveSlot(w) \/ Reinsert(w)

Next ==
    \/ \E w \in Workers :
          \/ \E b \in Bookings, s \in Slots : Create(w, b, s) \/ Reschedule(w, b, s)
          \/ \E s \in Slots : ReadSlot(w, s)
          \/ Step(w) \/ Refuse(w)
    \/ \E s \in Slots : ListSlots(s) \/ CreateSlot(s) \/ DeleteSlot(s)
    \/ EditClosures
    \/ \E b \in Bookings : ChangeStatus(b)

Spec == Init /\ [][Next]_vars

\* A request that can only be refused.
Refusable(w) ==
    /\ job[w] # Idle
    /\ \/ job[w].step = "move" /\ claim[job[w].booking] # "movable"
       \/ job[w].step = "want" /\ Lockable(job[w].slot, w) /\ ~IsBookable(job[w].slot)
       \/ job[w].step = "reinsert" /\ slot[job[w].slot] # NoRow
       \/ Deadlocked(w)

\* A worker goes on with its request whenever it can.  A lock that is freed and
\* taken again does not pass a waiting transaction by for ever: the database
\* queues the waiters of a row.
Attend(w) == Step(w) \/ (Refusable(w) /\ Refuse(w))

FairSpec == Spec /\ \A w \in Workers : SF_vars(Attend(w))
-----------------------------------------------------------------------------
(* Properties *)

\* The state space; a row lock belongs to the request that is at work behind it.
TypeOK ==
    /\ slot \in [Slots -> SlotRow \cup {NoRow}]
    /\ closed \in SUBSET Slots
    /\ claim \in [Bookings -> {"none", "fixed", "movable", "out"}]
    /\ home \in [Bookings -> Slots \cup {NoSlot}]
    /\ slotLock \in [Slots -> Workers \cup {Nobody}]
    /\ bookingLock \in [Bookings -> Workers \cup {Nobody}]
    /\ job \in [Workers -> {Idle} \cup Steps]
    /\ \A s \in Slots : slotLock[s] # Nobody => job[slotLock[s]].step \in {"want", "write"}
    /\ \A b \in Bookings : bookingLock[b] # Nobody => bookingLock[b] \in WorkingOn(b)

\* The places of a slot: the bookings that hold one and the one being written.
Writing(s) == {w \in Workers : job[w].step = "write" /\ job[w].slot = s}
Seats == [s \in Slots |-> Reserved(s) \cup {job[w].booking : w \in Writing(s)}]

Book == INSTANCE SlotBook WITH seats <- Seats

\* Concurrent reservations are one check of the free capacity each: the row lock
\* of lock_slot_for_reservation makes locking, counting and inserting look like
\* one step, whatever checkouts, reschedules, edits, closures and status changes run
\* beside it; and no booking ever loses the slot it is recorded on.
ReservationIsAtomic == Book!Spec

\* Every request ends, also when two reschedules cross and each waits for the
\* slot the other one holds.
RequestsEnd == \A w \in Workers : job[w] # Idle ~> job[w] = Idle
=============================================================================
