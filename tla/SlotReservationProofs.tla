---------------------- MODULE SlotReservationProofs ----------------------
(***************************************************************************)
(* For any number of slots, bookings and workers: a reservation, with its  *)
(* lock, its count and its write, is one step of SlotBook.  The row lock   *)
(* keeps a slot to one writer, and a booking in hand is either not written *)
(* yet or locked, so that what was counted is still so at the write.       *)
(***************************************************************************)
EXTENDS SlotReservation, TLAPS

\* Bookings are recorded on a slot from their creation on.
HomeIsRecorded == \A b \in Bookings : claim[b] = "none" <=> home[b] = NoSlot

\* A worker that has counted keeps the slot it will write to.
WriterHoldsSlot == \A w \in Workers : job[w].step = "write" => slotLock[job[w].slot] = w

\* The booking a worker will write is a new one of its own, or one it has locked
\* and found movable.
BookingInHand ==
    \A w \in Workers :
       /\ job[w].step = "move" => claim[job[w].booking] # "none"
       /\ job[w].step \in {"want", "write"} =>
             \/ claim[job[w].booking] = "none" /\ WorkingOn(job[w].booking) = {w}
             \/ claim[job[w].booking] = "movable" /\ bookingLock[job[w].booking] = w

IInv == TypeOK /\ HomeIsRecorded /\ WriterHoldsSlot /\ BookingInHand
-----------------------------------------------------------------------------
PlacingJobs == [step : Placing, booking : Bookings, slot : Slots]
EditJobs == [step : {"save", "reinsert"}, slot : Slots, row : SlotRow]

\* A worker is idle, places a booking or edits a slot, and its step says which.
LEMMA JobCases ==
    ASSUME TypeOK, NEW w \in Workers
    PROVE  /\ \/ job[w] = Idle
              \/ job[w] \in PlacingJobs
              \/ job[w] \in EditJobs
           /\ job[w] = Idle <=> job[w].step = "idle"
           /\ job[w] \in PlacingJobs <=> job[w].step \in Placing
           /\ job[w].step \in Placing => job[w].booking \in Bookings /\ job[w].slot \in Slots
           /\ job[w] \in EditJobs <=> job[w].step \in {"save", "reinsert"}
           /\ job[w].step \in {"save", "reinsert"} => job[w].slot \in Slots /\ job[w].row \in SlotRow
BY DEF TypeOK, Steps, Idle, Placing, PlacingJobs, EditJobs

\* The next step of a reservation is the same reservation.
LEMMA AdvanceEffect ==
    ASSUME TypeOK, NEW w \in Workers, job[w].step \in Placing, NEW step \in Placing,
           job' = [job EXCEPT ![w].step = step]
    PROVE  /\ job' \in [Workers -> {Idle} \cup Steps]
           /\ job'[w].step = step
           /\ job'[w].booking = job[w].booking /\ job'[w].slot = job[w].slot
           /\ \A v \in Workers \ {w} : job'[v] = job[v]
<1>1. job[w] \in PlacingJobs
  BY JobCases
<1>2. \A j \in PlacingJobs : /\ [j EXCEPT !.step = step] \in PlacingJobs
                             /\ [j EXCEPT !.step = step].step = step
                             /\ [j EXCEPT !.step = step].booking = j.booking
                             /\ [j EXCEPT !.step = step].slot = j.slot
  BY DEF PlacingJobs
<1>3. PlacingJobs \subseteq Steps
  BY DEF PlacingJobs, Steps, Placing
<1>4. job'[w] = [job[w] EXCEPT !.step = step] /\ \A v \in Workers \ {w} : job'[v] = job[v]
  BY DEF TypeOK
<1>5. QED BY <1>1, <1>2, <1>3, <1>4 DEF TypeOK

\* The end of a transaction frees its locks and nobody else's.
LEMMA FinishEffect ==
    ASSUME TypeOK, NEW w \in Workers, Finish(w)
    PROVE  /\ job' \in [Workers -> {Idle} \cup Steps]
           /\ job'[w] = Idle
           /\ \A v \in Workers \ {w} : job'[v] = job[v]
           /\ slotLock' \in [Slots -> Workers \cup {Nobody}]
           /\ bookingLock' \in [Bookings -> Workers \cup {Nobody}]
           /\ \A s \in Slots : /\ slotLock'[s] # w
                               /\ slotLock[s] # w => slotLock'[s] = slotLock[s]
                               /\ slotLock'[s] \in {slotLock[s], Nobody}
           /\ \A b \in Bookings : /\ bookingLock'[b] # w
                                  /\ bookingLock[b] # w => bookingLock'[b] = bookingLock[b]
                                  /\ bookingLock'[b] \in {bookingLock[b], Nobody}
BY SlotAssumption DEF TypeOK, Finish

\* A booking in hand is in no other worker's hands.
LEMMA OneHand ==
    ASSUME IInv, NEW v \in Workers, NEW w \in Workers,
           job[v].step \in {"want", "write"}, job[w].step \in {"want", "write"},
           job[v].booking = job[w].booking
    PROVE  v = w
BY DEF IInv, BookingInHand, WorkingOn, Placing

LEMMA InitIInv == Init => IInv
BY SlotAssumption DEF Init, IInv, TypeOK, HomeIsRecorded, WriterHoldsSlot, BookingInHand, Idle
-----------------------------------------------------------------------------
\* Requests begin, and begin to hold locks.
LEMMA BeginStep ==
    ASSUME IInv, NEW w \in Workers,
           \/ \E b \in Bookings, s \in Slots : Create(w, b, s) \/ Reschedule(w, b, s)
           \/ \E s \in Slots : ReadSlot(w, s)
    PROVE  IInv'
<1> USE DEF IInv, locks
<1>1. PICK j \in Steps : /\ job' = [job EXCEPT ![w] = j] /\ job[w] = Idle
                         /\ UNCHANGED <<slot, closed, claim, home, locks>>
                         /\ \/ j.step = "want" /\ claim[j.booking] = "none" /\ WorkingOn(j.booking) = {}
                            \/ j.step = "move" /\ claim[j.booking] # "none"
                            \/ j.step = "save"
  <2>1. ASSUME NEW b \in Bookings, NEW s \in Slots, NEW step \in {"want", "move"},
               Begin(w, [step |-> step, booking |-> b, slot |-> s])
        PROVE  \E j \in Steps : /\ job' = [job EXCEPT ![w] = j] /\ job[w] = Idle
                                /\ j.step = step /\ j.booking = b
    <3>1. [step |-> step, booking |-> b, slot |-> s] \in Steps
      BY DEF Steps
    <3>2. QED BY <2>1, <3>1 DEF Begin
  <2>2. ASSUME NEW s \in Slots, NEW row \in SlotRow,
               Begin(w, [step |-> "save", slot |-> s, row |-> row])
        PROVE  \E j \in Steps : job' = [job EXCEPT ![w] = j] /\ job[w] = Idle /\ j.step = "save"
    <3>1. [step |-> "save", slot |-> s, row |-> row] \in Steps
      BY DEF Steps
    <3>2. QED BY <2>2, <3>1 DEF Begin
  <2>3. CASE \E b \in Bookings, s \in Slots : Create(w, b, s)
    <3>1. PICK b \in Bookings, s \in Slots : Create(w, b, s)
      BY <2>3
    <3>2. /\ Begin(w, [step |-> "want", booking |-> b, slot |-> s])
          /\ claim[b] = "none" /\ WorkingOn(b) = {}
          /\ UNCHANGED <<slot, closed, claim, home, locks>>
      BY <3>1 DEF Create
    <3>3. PICK j \in Steps : /\ job' = [job EXCEPT ![w] = j] /\ job[w] = Idle
                             /\ j.step = "want" /\ j.booking = b
      BY <2>1, <3>2
    <3>4. QED BY <3>2, <3>3
  <2>4. CASE \E b \in Bookings, s \in Slots : Reschedule(w, b, s)
    <3>1. PICK b \in Bookings, s \in Slots : Reschedule(w, b, s)
      BY <2>4
    <3>2. /\ Begin(w, [step |-> "move", booking |-> b, slot |-> s])
          /\ claim[b] # "none"
          /\ UNCHANGED <<slot, closed, claim, home, locks>>
      BY <3>1 DEF Reschedule
    <3>3. PICK j \in Steps : /\ job' = [job EXCEPT ![w] = j] /\ job[w] = Idle
                             /\ j.step = "move" /\ j.booking = b
      BY <2>1, <3>2
    <3>4. QED BY <3>2, <3>3
  <2>5. CASE \E s \in Slots : ReadSlot(w, s)
    BY <2>2, <2>5 DEF ReadSlot
  <2>6. QED BY <2>3, <2>4, <2>5
<1>2. /\ job' \in [Workers -> {Idle} \cup Steps] /\ job'[w] = j
      /\ \A v \in Workers \ {w} : job'[v] = job[v]
  BY <1>1 DEF TypeOK
<1>3. TypeOK'
  BY <1>1, <1>2 DEF TypeOK, WorkingOn, Idle, Placing
<1>4. WriterHoldsSlot' /\ HomeIsRecorded'
  BY <1>1, <1>2 DEF WriterHoldsSlot, HomeIsRecorded
<1>5. BookingInHand'
  <2>1. ASSUME NEW b, claim[b] # "none" \/ j.step = "save" \/ j.booking # b
        PROVE  claim[b] = "none" => WorkingOn(b)' = WorkingOn(b)
    BY <1>1, <1>2, <2>1 DEF WorkingOn, Idle, Placing
  <2>2. j.step = "want" => WorkingOn(j.booking)' = {w}
    BY <1>1, <1>2 DEF WorkingOn, Placing, Idle
  <2>3. ASSUME NEW v \in Workers \ {w}, job[v].step \in {"want", "write"}, j.step \in Placing,
               job[v].booking = j.booking
        PROVE  claim[j.booking] # "none"
    BY <1>1, <2>3 DEF WorkingOn, Placing
  <2>4. QED BY <1>1, <1>2, <2>1, <2>2, <2>3 DEF BookingInHand, Placing
<1>6. QED BY <1>3, <1>4, <1>5

\* A step of a reservation that only takes locks leaves every booking in its hand.
LEMMA LockStep ==
    ASSUME IInv, NEW w \in Workers, LockBooking(w) \/ LockSlot(w)
    PROVE  IInv'
<1> USE SlotAssumption DEF IInv
<1>1. CASE LockBooking(w)
  <2> DEFINE b == job[w].booking
  <2> USE <1>1 DEF LockBooking
  <2>1. /\ b \in Bookings /\ home[b] \in Slots /\ job[w].step \in Placing
    BY JobCases DEF HomeIsRecorded, TypeOK, Placing
  <2>2. /\ job' \in [Workers -> {Idle} \cup Steps] /\ job'[w].step = "want"
        /\ job'[w].booking = b /\ \A v \in Workers \ {w} : job'[v] = job[v]
    BY <2>1, AdvanceEffect DEF Placing
  <2>3. /\ bookingLock'[b] = w /\ slotLock'[home[b]] = w
        /\ \A c \in Bookings \ {b} : bookingLock'[c] = bookingLock[c]
        /\ \A s \in Slots \ {home[b]} : slotLock'[s] = slotLock[s]
    BY <2>1 DEF TypeOK
  <2>4. \A c \in Bookings : WorkingOn(c)' = WorkingOn(c)
    BY <2>1, <2>2 DEF WorkingOn, Placing
  <2>5. TypeOK'
    BY <2>1, <2>2, <2>3, <2>4 DEF TypeOK, WorkingOn, Placing
  <2>6. WriterHoldsSlot'
    BY <2>1, <2>2, <2>3, JobCases DEF WriterHoldsSlot, Lockable, Placing
  <2>7. BookingInHand'
    <3>1. ASSUME NEW v \in Workers \ {w}, job[v].step \in {"want", "write"}
          PROVE  job[v].booking \in Bookings \ {b}
      BY <3>1, <2>1, JobCases DEF BookingInHand, Placing
    <3>2. \A v \in Workers : job[v].step = "move" => job[v].booking \in Bookings
      BY JobCases DEF Placing
    <3>3. QED BY <2>1, <2>2, <2>3, <2>4, <3>1, <3>2 DEF BookingInHand
  <2>8. QED BY <2>5, <2>6, <2>7 DEF HomeIsRecorded
<1>2. CASE LockSlot(w)
  <2> USE <1>2 DEF LockSlot
  <2>1. job[w].slot \in Slots /\ job[w].step \in Placing /\ job[w].booking \in Bookings
    BY JobCases DEF Placing
  <2>2. /\ job' \in [Workers -> {Idle} \cup Steps] /\ job'[w].step = "write"
        /\ job'[w].booking = job[w].booking /\ job'[w].slot = job[w].slot
        /\ \A v \in Workers \ {w} : job'[v] = job[v]
    BY <2>1, AdvanceEffect DEF Placing
  <2>3. /\ slotLock'[job[w].slot] = w
        /\ \A s \in Slots \ {job[w].slot} : slotLock'[s] = slotLock[s]
    BY <2>1 DEF TypeOK
  <2>4. \A c \in Bookings : WorkingOn(c)' = WorkingOn(c)
    BY <2>1, <2>2 DEF WorkingOn, Placing
  <2>5. TypeOK'
    BY <2>1, <2>2, <2>3, <2>4 DEF TypeOK, WorkingOn, Placing
  <2>6. WriterHoldsSlot'
    BY <2>1, <2>2, <2>3, JobCases DEF WriterHoldsSlot, Lockable, Placing
  <2>7. BookingInHand'
    BY <2>1, <2>2, <2>4, JobCases DEF BookingInHand, Placing
  <2>8. QED BY <2>5, <2>6, <2>7 DEF HomeIsRecorded
<1>3. QED BY <1>1, <1>2

\* The end of a reservation or of an edit: written, saved or refused.
LEMMA FinishStep ==
    ASSUME IInv, NEW w \in Workers,
           Write(w) \/ SaveSlot(w) \/ Reinsert(w) \/ Refuse(w)
    PROVE  IInv'
<1> USE SlotAssumption DEF IInv
<1>1. Finish(w) /\ closed' = closed
  BY DEF Write, SaveSlot, Reinsert, Refuse, Fail
<1>2. /\ slot' \in [Slots -> SlotRow \cup {NoRow}]
      /\ claim' \in [Bookings -> {"none", "fixed", "movable", "out"}]
      /\ home' \in [Bookings -> Slots \cup {NoSlot}]
  BY JobCases DEF Write, SaveSlot, Reinsert, Refuse, TypeOK, Written, Holding, Placing
<1>3. \A b \in Bookings : WorkingOn(b)' = WorkingOn(b) \ {w}
  BY <1>1, FinishEffect DEF WorkingOn, Idle, Placing
<1>4. TypeOK'
  <2>1. \A s \in Slots : slotLock'[s] # Nobody =>
           slotLock'[s] \in Workers \ {w} /\ slotLock'[s] = slotLock[s]
    BY <1>1, FinishEffect
  <2>2. \A b \in Bookings : bookingLock'[b] # Nobody =>
           bookingLock'[b] \in Workers \ {w} /\ bookingLock'[b] = bookingLock[b]
    BY <1>1, FinishEffect
  <2>3. QED BY <1>1, <1>2, <1>3, <2>1, <2>2, FinishEffect DEF TypeOK
<1>5. WriterHoldsSlot'
  BY <1>1, FinishEffect, JobCases DEF WriterHoldsSlot, Idle, Placing
<1>6. ASSUME NEW b \in Bookings, claim'[b] # claim[b] \/ home'[b] # home[b]
      PROVE  /\ job[w].step = "write" /\ job[w].booking = b
             /\ claim'[b] # "none" /\ home'[b] # NoSlot
  BY <1>6, JobCases DEF Write, SaveSlot, Reinsert, Refuse, TypeOK, Written, Holding, Placing,
     BookingInHand
<1>7. HomeIsRecorded'
  BY <1>6 DEF HomeIsRecorded
<1>8. BookingInHand'
  <2>1. ASSUME NEW v \in Workers \ {w}, job[v].step \in {"want", "write"}
        PROVE  /\ job[v].booking \in Bookings
               /\ claim'[job[v].booking] = claim[job[v].booking]
    BY <2>1, <1>6, OneHand, JobCases DEF Placing
  <2>2. \A v \in Workers \ {w} : job[v].step = "move" =>
           job[v].booking \in Bookings /\ claim'[job[v].booking] # "none"
    BY <1>6, JobCases DEF BookingInHand, Placing
  <2>3. job'[w] = Idle /\ \A v \in Workers \ {w} : job'[v] = job[v]
    BY <1>1, FinishEffect
  <2>4. \A b \in Bookings : bookingLock[b] # w => bookingLock'[b] = bookingLock[b]
    BY <1>1, FinishEffect
  <2>5. ASSUME NEW v \in Workers \ {w}, NEW b \in Bookings,
               job[v].step \in {"want", "write"}, job[v].booking = b
        PROVE  \/ claim'[b] = "none" /\ WorkingOn(b)' = {v}
               \/ claim'[b] = "movable" /\ bookingLock'[b] = v
    <3>1. claim'[b] = claim[b]
      BY <2>1, <2>5
    <3>2. CASE claim[b] = "none" /\ WorkingOn(b) = {v}
      BY <1>3, <3>1, <3>2
    <3>3. CASE claim[b] = "movable" /\ bookingLock[b] = v
      BY <2>4, <3>1, <3>3
    <3>4. QED BY <2>5, <3>2, <3>3 DEF BookingInHand
  <2>6. ASSUME NEW v \in Workers
        PROVE  /\ job'[v].step = "move" => claim'[job'[v].booking] # "none"
               /\ job'[v].step \in {"want", "write"} =>
                     \/ claim'[job'[v].booking] = "none" /\ WorkingOn(job[v].booking)' = {v}
                     \/ claim'[job'[v].booking] = "movable" /\ bookingLock'[job'[v].booking] = v
    <3>1. CASE v = w
      BY <2>3, <3>1 DEF Idle
    <3>2. CASE v # w
      <4>1. job'[v] = job[v]
        BY <2>3, <3>2
      <4>2. WorkingOn(job[v].booking)' = {u \in Workers : /\ job'[u].step \in Placing
                                                         /\ job'[u].booking = job[v].booking}
        BY <4>1 DEF WorkingOn
      <4>3. job[v].step \in {"want", "write"} =>
               \/ claim'[job[v].booking] = "none" /\ WorkingOn(job[v].booking)' = {v}
               \/ claim'[job[v].booking] = "movable" /\ bookingLock'[job[v].booking] = v
        BY <2>1, <2>5, <3>2, <4>2 DEF WorkingOn
      <4>4. QED BY <2>2, <3>2, <4>1, <4>3
    <3>3. QED BY <3>1, <3>2
  <2>7. QED BY <2>6 DEF BookingInHand
<1>9. QED BY <1>4, <1>5, <1>7, <1>8

\* What happens beside the requests: the calendar, and the statuses of bookings.
LEMMA OtherStep ==
    ASSUME IInv,
           \/ \E s \in Slots : ListSlots(s) \/ CreateSlot(s) \/ DeleteSlot(s)
           \/ EditClosures
           \/ \E b \in Bookings : ChangeStatus(b)
    PROVE  IInv'
<1> USE SlotAssumption DEF IInv, locks
<1>1. ASSUME NEW s \in Slots, ListSlots(s) \/ CreateSlot(s) PROVE IInv'
  <2>1. /\ slot' \in [Slots -> SlotRow \cup {NoRow}]
        /\ UNCHANGED <<closed, claim, home, locks, job>>
    <3>1. [capacity |-> DefaultCapacity, active |-> TRUE] \in SlotRow
      BY DEF SlotRow
    <3>2. CASE ListSlots(s)
      BY <3>1, <3>2 DEF ListSlots, EnsureDailySlot, TypeOK
    <3>3. CASE CreateSlot(s)
      BY <3>3 DEF CreateSlot, TypeOK
    <3>4. QED BY <1>1, <3>2, <3>3
  <2>2. QED BY <2>1 DEF TypeOK, WorkingOn, HomeIsRecorded, WriterHoldsSlot, BookingInHand
<1>2. ASSUME NEW s \in Slots, DeleteSlot(s) PROVE IInv'
  <2> USE <1>2 DEF DeleteSlot
  <2>1. ASSUME NEW w \in Workers
        PROVE  /\ job'[w] \in {Idle} \cup Steps
               /\ job'[w].step \in Placing <=> job[w].step \in Placing
               /\ job'[w].step \in Placing => job'[w] = job[w]
    <3>1. \A j \in EditJobs : /\ [j EXCEPT !.step = "reinsert"] \in EditJobs
                              /\ [j EXCEPT !.step = "reinsert"].step = "reinsert"
      BY DEF EditJobs
    <3>2. EditJobs \subseteq Steps
      BY DEF EditJobs, Steps
    <3>3. QED BY <3>1, <3>2, JobCases DEF TypeOK, Placing
  <2>2. \A b \in Bookings : WorkingOn(b)' = WorkingOn(b)
    BY <2>1 DEF WorkingOn
  <2>3. TypeOK'
    BY <2>1, <2>2 DEF TypeOK, Placing
  <2>4. WriterHoldsSlot' /\ HomeIsRecorded'
    BY <2>1 DEF WriterHoldsSlot, HomeIsRecorded, Placing
  <2>5. BookingInHand'
    BY <2>1, <2>2, JobCases DEF BookingInHand, Placing
  <2>6. QED BY <2>3, <2>4, <2>5
<1>3. CASE EditClosures
  BY <1>3 DEF EditClosures, TypeOK, WorkingOn, HomeIsRecorded, WriterHoldsSlot, BookingInHand
<1>4. ASSUME NEW b \in Bookings, ChangeStatus(b) PROVE IInv'
  <2> USE <1>4 DEF ChangeStatus
  <2>1. PICK c \in Holding \cup {"out"} : claim' = [claim EXCEPT ![b] = c]
    OBVIOUS
  <2>2. claim[b] # "none" /\ c # "none"
    BY DEF Claim!Next, Claim!Moves, Holding
  <2>3. TypeOK'
    BY <2>1 DEF TypeOK, Holding, WorkingOn
  <2>4. WriterHoldsSlot' /\ HomeIsRecorded'
    BY <2>1, <2>2 DEF WriterHoldsSlot, HomeIsRecorded, TypeOK
  <2>5. BookingInHand'
    <3>1. ASSUME NEW w \in Workers, job[w].step \in {"want", "write"}
          PROVE  job[w].booking \in Bookings \ {b}
      BY <3>1, <2>2, JobCases DEF BookingInHand, Placing
    <3>2. \A w \in Workers : job[w].step = "move" => job[w].booking \in Bookings
      BY JobCases DEF Placing
    <3>3. QED BY <2>1, <2>2, <3>1, <3>2 DEF BookingInHand, WorkingOn, TypeOK
  <2>6. QED BY <2>3, <2>4, <2>5
<1>5. QED BY <1>1, <1>2, <1>3, <1>4

LEMMA StepIInv == IInv /\ [Next]_vars => IInv'
<1> SUFFICES ASSUME IInv, [Next]_vars PROVE IInv'
  OBVIOUS
<1>1. CASE UNCHANGED vars
  BY <1>1 DEF vars, IInv, TypeOK, HomeIsRecorded, WriterHoldsSlot, BookingInHand, WorkingOn
<1>2. QED BY <1>1, BeginStep, LockStep, FinishStep, OtherStep DEF Next, Step

LEMMA Invariance == Spec => []IInv
<1>1. QED BY InitIInv, StepIInv, PTL DEF Spec
-----------------------------------------------------------------------------
(* The refinement of SlotBook *)

\* Who has a place: a booking that holds it, or one that is about to be written.
BeingWritten(b, s) == \E w \in Workers : job[w].step = "write" /\ job[w].slot = s /\ job[w].booking = b
Seated(b, s) == (home[b] = s /\ claim[b] \in Holding) \/ BeingWritten(b, s)

LEMMA SeatsAreSeated ==
    TypeOK => Seats = [s \in Slots |-> {b \in Bookings : Seated(b, s)}]
<1> SUFFICES ASSUME TypeOK, NEW s \in Slots
             PROVE  Reserved(s) \cup {job[w].booking : w \in Writing(s)}
                       = {b \in Bookings : Seated(b, s)}
  BY DEF Seats
<1>1. \A w \in Writing(s) : job[w].booking \in Bookings
  BY JobCases DEF Writing, Placing
<1>2. QED BY <1>1 DEF Seated, BeingWritten, Reserved, Writing

\* One worker at most is past the count of a slot, and a booking is written by one.
LEMMA OneWriter ==
    ASSUME IInv, NEW v \in Workers, NEW w \in Workers,
           job[v].step = "write", job[w].step = "write",
           job[v].slot = job[w].slot \/ job[v].booking = job[w].booking
    PROVE  v = w
<1>1. CASE job[v].slot = job[w].slot
  BY <1>1 DEF IInv, WriterHoldsSlot
<1>2. CASE job[v].booking = job[w].booking
  BY <1>2, OneHand
<1>3. QED BY <1>1, <1>2

\* Who has a place before a step, and who after it.
LEMMA SeatsBeforeAndAfter ==
    ASSUME TypeOK, TypeOK'
    PROVE  /\ Seats = [s \in Slots |-> {b \in Bookings : Seated(b, s)}]
           /\ Seats' = [s \in Slots |-> {b \in Bookings : Seated(b, s)'}]
<1>1. (Seats = [s \in Slots |-> {b \in Bookings : Seated(b, s)}])'
  BY SeatsAreSeated, PTL
<1>2. QED BY <1>1, SeatsAreSeated

\* The seats after a step, from the bookings seated in each slot before it.
LEMMA SeatsAfter ==
    ASSUME TypeOK, TypeOK', NEW b, NEW s \in Slots
    PROVE  /\ (\A t \in Slots : {c \in Bookings : Seated(c, t)'} =
                  IF t = s THEN {c \in Bookings : Seated(c, t)} \cup {b}
                           ELSE {c \in Bookings : Seated(c, t)})
              => Seats' = [Seats EXCEPT ![s] = @ \cup {b}]
           /\ (\A t \in Slots : {c \in Bookings : Seated(c, t)'} =
                  IF t = s THEN {c \in Bookings : Seated(c, t)} \ {b}
                           ELSE {c \in Bookings : Seated(c, t)})
              => Seats' = [Seats EXCEPT ![s] = @ \ {b}]
           /\ (\A t \in Slots : {c \in Bookings : Seated(c, t)'} =
                  IF t = s THEN {c \in Bookings : Seated(c, t)}
                           ELSE {c \in Bookings : Seated(c, t)} \ {b})
              => Seats' = [t \in Slots |-> IF t = s THEN Seats[t] ELSE Seats[t] \ {b}]
<1> DEFINE before(t) == {c \in Bookings : Seated(c, t)}
           after(t) == {c \in Bookings : Seated(c, t)'}
<1>1. Seats = [t \in Slots |-> before(t)] /\ Seats' = [t \in Slots |-> after(t)]
  BY SeatsBeforeAndAfter
<1> HIDE DEF before, after
<1>2. \A t \in Slots : Seats[t] = before(t)
  BY <1>1
<1>3. (\A t \in Slots : after(t) = IF t = s THEN before(t) \cup {b} ELSE before(t))
      => Seats' = [Seats EXCEPT ![s] = @ \cup {b}]
  BY <1>1
<1>4. (\A t \in Slots : after(t) = IF t = s THEN before(t) \ {b} ELSE before(t))
      => Seats' = [Seats EXCEPT ![s] = @ \ {b}]
  BY <1>1
<1>5. (\A t \in Slots : after(t) = IF t = s THEN before(t) ELSE before(t) \ {b})
      => Seats' = [t \in Slots |-> IF t = s THEN Seats[t] ELSE Seats[t] \ {b}]
  BY <1>1, <1>2
<1>6. QED BY <1>3, <1>4, <1>5 DEF before, after

\* The count takes the place: LockSlot is Take, unless the booking has it already.
LEMMA LockSlotRefines ==
    ASSUME IInv, IInv', NEW w \in Workers, LockSlot(w)
    PROVE  [Book!Next]_<<Seats, home, slot, closed>>
<1> DEFINE b == job[w].booking
           s == job[w].slot
<1> USE SlotAssumption DEF LockSlot
<1>1. TypeOK /\ TypeOK' /\ job[w].step \in Placing /\ b \in Bookings /\ s \in Slots
  BY JobCases DEF IInv, Placing
<1>2. /\ job'[w].step = "write" /\ job'[w].booking = b /\ job'[w].slot = s
      /\ \A v \in Workers \ {w} : job'[v] = job[v]
  BY <1>1, AdvanceEffect DEF Placing
<1>3. \A t \in Slots, c \in Bookings :
         Seated(c, t)' <=> (Seated(c, t) \/ (c = b /\ t = s))
  BY <1>1, <1>2 DEF Seated, BeingWritten
<1>4. Writing(s) = {}
  BY DEF Writing, Lockable, IInv, WriterHoldsSlot
<1>5. Seats[s] = Reserved(s)
  BY <1>1, <1>4 DEF Seats
<1>6. Book!HasRoom(s)
  <2>1. /\ slot[s] # NoRow /\ s \notin closed /\ slot[s].active
        /\ Cardinality(Reserved(s)) < slot[s].capacity
    BY DEF IsBookable, IsClosed
  <2>2. Cardinality(Seats[s]) < slot[s].capacity
    BY <1>5, <2>1
  <2>3. Book!Cardinality(Seats[s]) = Cardinality(Seats[s])
    BY DEF Cardinality, Book!Cardinality
  <2>4. QED BY <2>1, <2>2, <2>3 DEF Book!HasRoom
<1>7. Seats' = [Seats EXCEPT ![s] = @ \cup {b}]
  <2>1. \A t \in Slots : {c \in Bookings : Seated(c, t)'} =
           IF t = s THEN {c \in Bookings : Seated(c, t)} \cup {b} ELSE {c \in Bookings : Seated(c, t)}
    BY <1>1, <1>3
  <2>2. QED BY <1>1, <2>1, SeatsAfter
<1>8. CASE b \in Seats[s]
  BY <1>1, <1>7, <1>8, SeatsBeforeAndAfter
<1>9. CASE b \notin Seats[s]
  BY <1>1, <1>6, <1>7, <1>9 DEF Book!Next, Book!Take
<1>10. QED BY <1>8, <1>9

\* The write settles the booking on the slot it counted, and frees its old place.
LEMMA WriteRefines ==
    ASSUME IInv, IInv', NEW w \in Workers, Write(w)
    PROVE  Book!Next
<1> DEFINE b == job[w].booking
           s == job[w].slot
<1> USE SlotAssumption DEF Write
<1>1. TypeOK /\ TypeOK' /\ b \in Bookings /\ s \in Slots /\ BeingWritten(b, s)
  BY JobCases DEF IInv, Placing, BeingWritten
<1>2. /\ job'[w] = Idle
      /\ \A v \in Workers \ {w} : job'[v] = job[v]
  BY <1>1, FinishEffect
<1>3. home'[b] = s /\ claim'[b] \in Holding
  BY <1>1 DEF TypeOK, Written, Holding, IInv, BookingInHand
<1>4. \A c \in Bookings \ {b} : home'[c] = home[c] /\ claim'[c] = claim[c]
  BY <1>1 DEF TypeOK
<1>5. ASSUME NEW t \in Slots, NEW c \in Bookings
      PROVE  BeingWritten(c, t)' <=> (BeingWritten(c, t) /\ c # b /\ t # s)
  BY <1>1, <1>2, OneWriter DEF BeingWritten, Idle
<1>6. ASSUME NEW t \in Slots, NEW c \in Bookings
      PROVE  BeingWritten(c, t) => (t = s <=> c = b)
  BY <1>1, OneWriter DEF BeingWritten
<1>7. ASSUME NEW t \in Slots, NEW c \in Bookings
      PROVE  Seated(c, t)' <=> (Seated(c, t) /\ (t = s \/ c # b))
  BY <1>1, <1>3, <1>4, <1>5, <1>6 DEF Seated
<1>8. Seats' = [t \in Slots |-> IF t = s THEN Seats[t] ELSE Seats[t] \ {b}]
  <2>1. \A t \in Slots : {c \in Bookings : Seated(c, t)'} =
           IF t = s THEN {c \in Bookings : Seated(c, t)} ELSE {c \in Bookings : Seated(c, t)} \ {b}
    BY <1>7
  <2>2. QED BY <1>1, <2>1, SeatsAfter
<1>9. b \in Seats[s]
  BY <1>1, SeatsBeforeAndAfter DEF Seated
<1>10. home' = [home EXCEPT ![b] = s]
  OBVIOUS
<1>11. Book!Settle(b, s)
  BY <1>8, <1>9, <1>10 DEF Book!Settle
<1>12. QED BY <1>1, <1>11 DEF Book!Next

\* A reservation that ends without its write leaves the place it took.
LEMMA RefuseRefines ==
    ASSUME IInv, IInv', NEW w \in Workers, Refuse(w)
    PROVE  [Book!Next]_<<Seats, home, slot, closed>>
<1> DEFINE b == job[w].booking
           s == job[w].slot
<1> USE DEF Refuse, Fail
<1>1. TypeOK /\ TypeOK'
  BY DEF IInv
<1>2. /\ job'[w] = Idle
      /\ \A v \in Workers \ {w} : job'[v] = job[v]
  BY <1>1, FinishEffect
<1>3. CASE job[w].step # "write"
  <2>1. \A t \in Slots, c \in Bookings : Seated(c, t)' <=> Seated(c, t)
    BY <1>2, <1>3 DEF Seated, BeingWritten, Idle
  <2>2. Seats' = Seats
    BY <1>1, <2>1, SeatsBeforeAndAfter
  <2>3. QED BY <2>2
<1>4. CASE job[w].step = "write"
  <2>1. b \in Bookings /\ s \in Slots /\ BeingWritten(b, s)
    BY <1>1, <1>4, JobCases DEF Placing, BeingWritten
  <2>2. \A t \in Slots, c \in Bookings :
           BeingWritten(c, t)' <=> (BeingWritten(c, t) /\ ~(c = b /\ t = s))
    BY <1>2, <1>4, <2>1, OneWriter DEF BeingWritten, Idle
  <2>3. b \in Seats[s]
    BY <1>1, <2>1, SeatsBeforeAndAfter DEF Seated
  <2>4. CASE home[b] = s /\ claim[b] \in Holding
    <3>1. \A t \in Slots, c \in Bookings : Seated(c, t)' <=> Seated(c, t)
      BY <2>2, <2>4 DEF Seated
    <3>2. Seats' = Seats
      BY <1>1, <3>1, SeatsBeforeAndAfter
    <3>3. QED BY <3>2
  <2>5. CASE ~(home[b] = s /\ claim[b] \in Holding)
    <3>1. \A t \in Slots, c \in Bookings :
             Seated(c, t)' <=> (Seated(c, t) /\ ~(c = b /\ t = s))
      BY <2>2, <2>5 DEF Seated
    <3>2. Seats' = [Seats EXCEPT ![s] = @ \ {b}]
      BY <1>1, <2>1, <3>1, SeatsBeforeAndAfter
    <3>3. QED BY <2>1, <2>3, <3>2 DEF Book!Next, Book!Leave
  <2>6. QED BY <2>4, <2>5
<1>5. QED BY <1>3, <1>4

\* A status change takes the booking off its slot or, unchecked, back to it.
LEMMA ChangeStatusRefines ==
    ASSUME IInv, IInv', NEW b \in Bookings, ChangeStatus(b)
    PROVE  [Book!Next]_<<Seats, home, slot, closed>>
<1> USE SlotAssumption
<1>1. /\ TypeOK /\ TypeOK' /\ claim[b] # "none" /\ home[b] \in Slots
      /\ UNCHANGED <<slot, closed, home>>
  BY DEF ChangeStatus, IInv, TypeOK, HomeIsRecorded, Claim!Next, Claim!Moves
<1>2. \A c \in Bookings \ {b} : claim'[c] = claim[c]
  BY DEF ChangeStatus, IInv, TypeOK
<1>3. \A t \in Slots : ~BeingWritten(b, t)
  BY <1>1 DEF ChangeStatus, BeingWritten, IInv, BookingInHand
<1>4. \A t \in Slots, c \in Bookings : BeingWritten(c, t)' <=> BeingWritten(c, t)
  BY DEF ChangeStatus, BeingWritten
<1>5. \A t \in Slots, c \in Bookings \ {b} : Seated(c, t)' <=> Seated(c, t)
  BY <1>1, <1>2, <1>4 DEF Seated
<1>6. \A t \in Slots : (Seated(b, t) <=> t = home[b] /\ claim[b] \in Holding)
                      /\ (Seated(b, t)' <=> t = home[b] /\ claim'[b] \in Holding)
  BY <1>1, <1>3, <1>4 DEF Seated
<1>7. CASE claim[b] \in Holding <=> claim'[b] \in Holding
  <2>1. Seats' = Seats
    BY <1>1, <1>5, <1>6, <1>7, SeatsBeforeAndAfter
  <2>2. QED BY <1>1, <2>1
<1>8. CASE claim[b] \in Holding /\ claim'[b] \notin Holding
  <2>1. b \in Seats[home[b]]
    BY <1>1, <1>6, <1>8, SeatsBeforeAndAfter
  <2>2. Seats' = [Seats EXCEPT ![home[b]] = @ \ {b}]
    <3>1. \A t \in Slots : {c \in Bookings : Seated(c, t)'} =
             IF t = home[b] THEN {c \in Bookings : Seated(c, t)} \ {b}
                            ELSE {c \in Bookings : Seated(c, t)}
      BY <1>5, <1>6, <1>8
    <3>2. QED BY <1>1, <3>1, SeatsAfter
  <2>3. QED BY <1>1, <2>1, <2>2 DEF Book!Next, Book!Leave
<1>9. CASE claim[b] \notin Holding /\ claim'[b] \in Holding
  <2>1. Seats' = [Seats EXCEPT ![home[b]] = @ \cup {b}]
    <3>1. \A t \in Slots : {c \in Bookings : Seated(c, t)'} =
             IF t = home[b] THEN {c \in Bookings : Seated(c, t)} \cup {b}
                            ELSE {c \in Bookings : Seated(c, t)}
      BY <1>5, <1>6, <1>9
    <3>2. QED BY <1>1, <3>1, SeatsAfter
  <2>2. QED BY <1>1, <2>1 DEF Book!Next, Book!Return
<1>10. QED BY <1>7, <1>8, <1>9

\* A slot's row is edited at will and deleted only while nobody has a place in it.
LEMMA SlotRowRefines ==
    ASSUME IInv, IInv', NEW s \in Slots,
           \/ \E w \in Workers : job[w].slot = s /\ (SaveSlot(w) \/ Reinsert(w))
           \/ ListSlots(s) \/ CreateSlot(s) \/ DeleteSlot(s)
    PROVE  Book!Next
<1> USE SlotAssumption DEF locks
<1>1. TypeOK /\ TypeOK' /\ UNCHANGED <<closed, claim, home>>
  BY DEF IInv, SaveSlot, Reinsert, ListSlots, CreateSlot, DeleteSlot
<1>2. \A c \in Bookings, t \in Slots : Seated(c, t)' <=> Seated(c, t)
  <2>1. \A w \in Workers : job'[w].step = "write" \/ job[w].step = "write" => job'[w] = job[w]
    <3>1. ASSUME NEW w \in Workers, SaveSlot(w) \/ Reinsert(w)
          PROVE  \A v \in Workers : job'[v].step = "write" \/ job[v].step = "write" => job'[v] = job[v]
      BY <1>1, <3>1, FinishEffect DEF SaveSlot, Reinsert, Idle
    <3>2. CASE ListSlots(s) \/ CreateSlot(s)
      BY <3>2 DEF ListSlots, CreateSlot
    <3>3. CASE DeleteSlot(s)
      <4>1. \A j \in EditJobs : [j EXCEPT !.step = "reinsert"].step = "reinsert"
        BY DEF EditJobs
      <4>2. QED BY <1>1, <3>3, <4>1, JobCases DEF DeleteSlot
    <3>4. QED BY <3>1, <3>2, <3>3
  <2>2. QED BY <1>1, <2>1 DEF Seated, BeingWritten
<1>3. Seats' = Seats
  BY <1>1, <1>2, SeatsBeforeAndAfter
<1>4. \A t \in Slots \ {s} : slot'[t] = slot[t]
  BY <1>1 DEF SaveSlot, Reinsert, ListSlots, EnsureDailySlot, CreateSlot, DeleteSlot, TypeOK
<1>5. ASSUME slot'[s] = NoRow PROVE Seats[s] = {} /\ \A b \in Bookings : home[b] # s
  <2>1. \A row \in SlotRow : row # NoRow
    BY DEF SlotRow
  <2>2. DeleteSlot(s)
    <3>1. ASSUME NEW w \in Workers, job[w].slot = s, SaveSlot(w) \/ Reinsert(w)
          PROVE  FALSE
      <4>1. job[w].row \in SlotRow
        BY <1>1, <3>1, JobCases DEF SaveSlot, Reinsert
      <4>2. QED BY <1>1, <1>5, <2>1, <3>1, <4>1 DEF SaveSlot, Reinsert, TypeOK
    <3>2. [capacity |-> DefaultCapacity, active |-> TRUE] \in SlotRow
      BY DEF SlotRow
    <3>3. ~ListSlots(s)
      BY <1>1, <1>5, <2>1, <3>2 DEF ListSlots, EnsureDailySlot, TypeOK
    <3>4. ~CreateSlot(s)
      BY <1>1, <1>5, <2>1 DEF CreateSlot, TypeOK
    <3>5. QED BY <3>1, <3>3, <3>4
  <2>3. \A b \in Bookings : home[b] # s
    BY <2>2 DEF DeleteSlot, Unprotected
  <2>4. \A b \in Bookings : ~BeingWritten(b, s)
    BY <2>2 DEF DeleteSlot, BeingWritten, IInv, WriterHoldsSlot
  <2>5. QED BY <1>1, <2>3, <2>4, SeatsBeforeAndAfter DEF Seated
<1>6. Book!Edit(s)
  BY <1>1, <1>3, <1>4, <1>5 DEF Book!Edit
<1>7. QED BY <1>6 DEF Book!Next

\* Every other step leaves the book as it is, or closes or opens days.
LEMMA OtherRefines ==
    ASSUME IInv, IInv',
           \/ \E w \in Workers :
                 \/ \E b \in Bookings, s \in Slots : Create(w, b, s) \/ Reschedule(w, b, s)
                 \/ \E s \in Slots : ReadSlot(w, s)
                 \/ LockBooking(w)
           \/ EditClosures
           \/ UNCHANGED vars
    PROVE  [Book!Next]_<<Seats, home, slot, closed>>
<1>1. TypeOK /\ TypeOK' /\ UNCHANGED <<slot, claim, home>>
  BY DEF IInv, Create, Reschedule, ReadSlot, LockBooking, EditClosures, vars
<1>2. \A w \in Workers : job'[w].step = "write" \/ job[w].step = "write" => job'[w] = job[w]
  <2>1. ASSUME NEW w \in Workers, NEW j, job[w] = Idle, j.step # "write",
               job' = [job EXCEPT ![w] = j]
        PROVE  \A v \in Workers : job'[v].step = "write" \/ job[v].step = "write" => job'[v] = job[v]
    BY <1>1, <2>1 DEF TypeOK, Idle
  <2>2. ASSUME NEW w \in Workers, NEW b \in Bookings, NEW s \in Slots,
               Create(w, b, s) \/ Reschedule(w, b, s)
        PROVE  \A v \in Workers : job'[v].step = "write" \/ job[v].step = "write" => job'[v] = job[v]
    <3>1. CASE Create(w, b, s)
      BY <2>1, <3>1 DEF Create, Begin
    <3>2. CASE Reschedule(w, b, s)
      BY <2>1, <3>2 DEF Reschedule, Begin
    <3>3. QED BY <2>2, <3>1, <3>2
  <2>3. ASSUME NEW w \in Workers, NEW s \in Slots, ReadSlot(w, s)
        PROVE  \A v \in Workers : job'[v].step = "write" \/ job[v].step = "write" => job'[v] = job[v]
    <3>1. PICK row \in SlotRow : Begin(w, [step |-> "save", slot |-> s, row |-> row])
      BY <2>3 DEF ReadSlot
    <3>2. QED BY <2>1, <3>1 DEF Begin
  <2>4. ASSUME NEW w \in Workers, LockBooking(w)
        PROVE  \A v \in Workers : job'[v].step = "write" \/ job[v].step = "write" => job'[v] = job[v]
    BY <1>1, <2>4, AdvanceEffect DEF LockBooking, Placing
  <2>5. CASE EditClosures \/ UNCHANGED vars
    BY <2>5 DEF EditClosures, vars
  <2>6. QED BY <2>2, <2>3, <2>4, <2>5
<1>3. \A b \in Bookings, s \in Slots : Seated(b, s)' <=> Seated(b, s)
  BY <1>1, <1>2 DEF Seated, BeingWritten
<1>4. Seats' = Seats
  BY <1>1, <1>3, SeatsBeforeAndAfter
<1>5. QED BY <1>1, <1>4 DEF Book!Next, Book!Close

LEMMA StepRefines ==
    IInv /\ IInv' /\ [Next]_vars => [Book!Next]_<<Seats, home, slot, closed>>
<1> SUFFICES ASSUME IInv, IInv', [Next]_vars
             PROVE  [Book!Next]_<<Seats, home, slot, closed>>
  OBVIOUS
<1>1. ASSUME NEW w \in Workers, SaveSlot(w) \/ Reinsert(w)
      PROVE  Book!Next
  <2>1. job[w].slot \in Slots
    BY <1>1, JobCases DEF IInv, SaveSlot, Reinsert
  <2>2. QED BY <1>1, <2>1, SlotRowRefines
<1>2. QED
  BY <1>1, LockSlotRefines, WriteRefines, RefuseRefines, ChangeStatusRefines, SlotRowRefines,
     OtherRefines DEF Next, Step
-----------------------------------------------------------------------------
\* The state of slots, requests and locks stays within its types, and every row lock
\* belongs to a request at work behind it.
THEOREM TypeCorrect == Spec => []TypeOK
<1>1. IInv => TypeOK
  BY DEF IInv
<1>2. QED BY <1>1, Invariance, PTL

\* lock_slot_for_reservation makes lock, count and insert one step of SlotBook, for any
\* number of slots, bookings and workers, and whatever runs beside them.
THEOREM ReservationRefinesBook == Spec => ReservationIsAtomic
<1>1. Init => Book!Init
  <2> SUFFICES ASSUME Init PROVE Book!Init
    OBVIOUS
  <2>1. \A s \in Slots : Reserved(s) \cup {job[w].booking : w \in Writing(s)} = {}
    BY SlotAssumption DEF Init, Reserved, Writing, Idle, Holding
  <2>2. Seats = [s \in Slots |-> {}]
    BY <2>1 DEF Seats
  <2>3. QED BY <2>2 DEF Init, Book!Init
<1>2. QED BY <1>1, Invariance, StepRefines, PTL DEF Spec, ReservationIsAtomic, Book!Spec

\* The same under the fairness with which the run checks it.
COROLLARY FairReservationRefinesBook == FairSpec => ReservationIsAtomic
BY ReservationRefinesBook, PTL DEF FairSpec
=============================================================================
