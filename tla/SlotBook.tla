----------------------------- MODULE SlotBook -----------------------------
(***************************************************************************)
(* What slot reservation promises: a booking gets a place in a slot at one *)
(* instant at which the slot is open and has a place free, or by returning *)
(* to the slot it was booked on, for which nothing is checked.  A slot     *)
(* that has bookings stays.                                                *)
(***************************************************************************)
EXTENDS Naturals, FiniteSets

CONSTANTS Bookings, Slots, NoSlot, NoRow

VARIABLES seats,   \* the bookings that have a place in each slot
          home,    \* the slot each booking is recorded on
          slot,    \* the TimeSlot rows: [capacity, active], or NoRow
          closed   \* the slots of closed days

HasRoom(s) == /\ slot[s] # NoRow /\ s \notin closed
              /\ slot[s].active /\ Cardinality(seats[s]) < slot[s].capacity

Init == /\ seats = [s \in Slots |-> {}]
        /\ home = [b \in Bookings |-> NoSlot]
        /\ slot = [s \in Slots |-> NoRow]
        /\ closed = {}

Take(b, s) == /\ b \notin seats[s] /\ HasRoom(s)
              /\ seats' = [seats EXCEPT ![s] = @ \cup {b}]
              /\ UNCHANGED <<home, slot, closed>>

\* The booking is recorded on the slot it took; its place in any other is free.
Settle(b, s) == /\ b \in seats[s]
                /\ home' = [home EXCEPT ![b] = s]
                /\ seats' = [t \in Slots |-> IF t = s THEN seats[t] ELSE seats[t] \ {b}]
                /\ UNCHANGED <<slot, closed>>

Leave(b, s) == /\ b \in seats[s]
               /\ seats' = [seats EXCEPT ![s] = @ \ {b}]
               /\ UNCHANGED <<home, slot, closed>>

Return(b) == /\ home[b] # NoSlot
             /\ seats' = [seats EXCEPT ![home[b]] = @ \cup {b}]
             /\ UNCHANGED <<home, slot, closed>>

Edit(s) == /\ \A t \in Slots \ {s} : slot'[t] = slot[t]
           /\ slot'[s] = NoRow => seats[s] = {} /\ \A b \in Bookings : home[b] # s
           /\ UNCHANGED <<seats, home, closed>>

Close == UNCHANGED <<seats, home, slot>>

Next == \/ \E b \in Bookings, s \in Slots : Take(b, s) \/ Settle(b, s) \/ Leave(b, s)
        \/ \E b \in Bookings : Return(b)
        \/ \E s \in Slots : Edit(s)
        \/ Close

Spec == Init /\ [][Next]_<<seats, home, slot, closed>>
=============================================================================
