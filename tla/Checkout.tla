----------------------------- MODULE Checkout -----------------------------
(***************************************************************************)
(* The cart, its checkout, the booking of one service and the conversion   *)
(* of a lead, as far as they make bookings: each is one transaction that   *)
(* collects row locks - the customer's account, the slots, the slots'      *)
(* service areas, the month's number sequence - in an order of its own.    *)
(* What a transaction makes is held in its job until it commits.  A client *)
(* may send any request again at any time, also while it is being served.  *)
(***************************************************************************)
EXTENDS Integers, Sequences, FiniteSets, FiniteSetsExt

CONSTANTS Customers, Services, Workers,
          Slots,        \* a set of numbers: the order of their ids
          Areas, AreaOf,
          Requests,     \* what clients and operators may ask for
          Nobody,       \* a lock is free
          NoSequence,   \* the month has no BookingNumberSequence row yet
          MaxSerial     \* the last number of a month, 9999 in the code

Kinds == {"cart", "single", "lead"}
Keys == {r.key : r \in Requests}

ASSUME RequestsAssumption ==
    /\ Slots \subseteq Nat /\ MaxSerial \in Nat \ {0} /\ NoSequence \notin Int
    /\ AreaOf \in [Slots -> Areas]
    /\ Nobody \notin Workers
    /\ {"legacy", "lead"} \cap Keys = {}   \* what stands for a booking without a key
    /\ \A r \in Requests :
          /\ r.kind \in Kinds /\ r.customer \in Customers
          /\ r.items \in Seq([service : Services, slot : Slots]) /\ r.items # <<>>
          /\ r.kind # "cart" => Len(r.items) = 1

VARIABLES cart,      \* CartItem rows: Absent, Open, or the number of their booking
          booking,   \* Booking rows by number
          record,    \* CheckoutRequest rows by customer and key
          sequence,  \* BookingNumberSequence.current_serial of the month
          customerLock, slotLock, areaLock, sequenceLock,
          job        \* the request each worker serves

tables == <<cart, booking, record, sequence>>
locks == <<customerLock, slotLock, areaLock, sequenceLock>>
vars == <<tables, locks, job>>

Numbers == 1..MaxSerial
Absent == -1
Open == 0
NoBooking == [status |-> "none"]
NoRecord == [items |-> <<>>, bookings |-> <<>>]
Existing == {n \in Numbers : booking[n] # NoBooking}

Idle == [step |-> "idle"]
Working(w) == job[w] # Idle
Request(w) == job[w].request
Customer(w) == Request(w).customer

\* The month may have bookings that were numbered before there was a sequence.
Init ==
    /\ cart = [c \in Customers |-> [s \in Services |-> Absent]]
    /\ \E legacy \in {{}, {1}}, c \in Customers, s \in Services :
          booking = [n \in Numbers |-> IF n \in legacy
                        THEN [status |-> "settled", customer |-> c, service |-> s, key |-> "legacy"]
                        ELSE NoBooking]
    /\ record = [c \in Customers |-> [k \in Keys |-> NoRecord]]
    /\ sequence = NoSequence
    /\ customerLock = [c \in Customers |-> Nobody]
    /\ slotLock = [s \in Slots |-> Nobody]
    /\ areaLock = [a \in Areas |-> Nobody]
    /\ sequenceLock = Nobody
    /\ job = [w \in Workers |-> Idle]

Freed(f, w) == [x \in DOMAIN f |-> IF f[x] = w THEN Nobody ELSE f[x]]
Release(w) ==
    /\ customerLock' = Freed(customerLock, w)
    /\ slotLock' = Freed(slotLock, w)
    /\ areaLock' = Freed(areaLock, w)
    /\ sequenceLock' = IF sequenceLock = w THEN Nobody ELSE sequenceLock
    /\ job' = [job EXCEPT ![w] = Idle]

Advance(w, step) == job' = [job EXCEPT ![w].step = step]
-----------------------------------------------------------------------------
(* The cart.  cart_response, which ends every request about the cart, drops the *)
(* rows whose booking is paid.                                                  *)

Payable == {"awaiting"}
Cleaned(rows) ==
    [s \in Services |-> IF rows[s] \in Existing /\ booking[rows[s]].status = "paid"
                        THEN Absent ELSE rows[s]]

EditCart(c, rows) ==
    /\ customerLock[c] = Nobody
    /\ cart' = [cart EXCEPT ![c] = Cleaned(rows)]
    /\ UNCHANGED <<booking, record, sequence, locks, job>>

AddToCart(c, s) ==
    EditCart(c, [cart[c] EXCEPT ![s] = IF @ = Absent THEN Open ELSE @])

Saved(c, s, n) == n \in Existing /\ booking[n].customer = c /\ booking[n].service = s

\* A browser's cart that is merged names the booking it has for a service; one
\* booking is in one row at most.
MergeSavedBooking(c, s, n) ==
    /\ cart[c][s] \in {Absent, Open}
    /\ Saved(c, s, n)
    /\ EditCart(c, [cart[c] EXCEPT ![s] = n])

RemoveFromCart(c, s) == EditCart(c, [cart[c] EXCEPT ![s] = Absent])

\* Payments, cancellation and the visit, under the booking's own lock.
ChangeBooking(n, status) ==
    /\ n \in Existing
    /\ booking' = [booking EXCEPT ![n].status = status]
    /\ UNCHANGED <<cart, record, sequence, locks, job>>
-----------------------------------------------------------------------------
(* Requests *)

Begin(w, r) ==
    /\ job[w] = Idle
    /\ job' = [job EXCEPT ![w] = [step |-> IF r.kind = "lead" THEN "slots" ELSE "begun",
                                  request |-> r, made |-> <<>>, answer |-> <<>>]]
    /\ UNCHANGED <<tables, locks>>

TakeCustomer_Unlocked(w) == UNCHANGED customerLock
TakeCustomer(w) == /\ customerLock[Customer(w)] = Nobody
                   /\ customerLock' = [customerLock EXCEPT ![Customer(w)] = w]

LockCustomer(w) ==
    /\ job[w].step = "begun"
    /\ TakeCustomer(w)
    /\ Advance(w, "locked")
    /\ UNCHANGED <<tables, slotLock, areaLock, sequenceLock>>

\* begin_checkout_request.  The unique key of the row makes an insertion wait for
\* an uncommitted one of the same key.
Pending(w) == {v \in Workers \ {w} : /\ Working(v) /\ job[v].step \notin {"begun", "locked"}
                                     /\ Request(v).kind # "lead"
                                     /\ Customer(v) = Customer(w)
                                     /\ Request(v).key = Request(w).key}
Record(w) == record[Customer(w)][Request(w).key]
Fingerprint(w) == <<Request(w).kind, Request(w).items>>

NotCompleted_Unchecked(w) == TRUE
NotCompleted(w) == Record(w) = NoRecord

BeginCheckoutRequest(w) ==
    /\ job[w].step = "locked" /\ Pending(w) = {}
    /\ NotCompleted(w)
    /\ Advance(w, "slots")
    /\ UNCHANGED <<tables, locks>>

\* Asked before with the same content: the bookings of the first time.
AnswerAgain(w) ==
    /\ job[w].step = "locked" /\ Pending(w) = {}
    /\ ~NotCompleted(w) /\ Record(w).items = Fingerprint(w)
    /\ cart' = IF Request(w).kind = "cart"
               THEN [cart EXCEPT ![Customer(w)] = Cleaned(@)] ELSE cart
    /\ Release(w)
    /\ UNCHANGED <<booking, record, sequence>>

SlotsOf(w) == {Request(w).items[i].slot : i \in DOMAIN Request(w).items}
Unheld(w) == {s \in SlotsOf(w) : slotLock[s] # w}

NextSlot_AsSelected(w) ==
    Request(w).items[Min({i \in DOMAIN Request(w).items : Request(w).items[i].slot \in Unheld(w)})].slot
NextSlot(w) == Min(Unheld(w))

LockSlot(w) ==
    /\ job[w].step = "slots" /\ Unheld(w) # {}
    /\ slotLock[NextSlot(w)] = Nobody
    /\ slotLock' = [slotLock EXCEPT ![NextSlot(w)] = w]
    /\ UNCHANGED <<tables, customerLock, areaLock, sequenceLock, job>>

Item(w) == Request(w).items[Len(job[w].answer) + 1]
Done(w) == Len(job[w].answer) = Len(Request(w).items)
Row(w) == cart[Customer(w)][Item(w).service]

\* The selection already has a booking, which is not paid.
ReuseBooking(w) ==
    /\ job[w].step = "slots" /\ Unheld(w) = {} /\ ~Done(w)
    /\ Request(w).kind = "cart" /\ Row(w) \in Existing
    /\ booking[Row(w)].status \in Payable
    /\ job' = [job EXCEPT ![w].answer = Append(@, Row(w))]
    /\ UNCHANGED <<tables, locks>>

\* lock_slot_for_reservation joins the slot's service area and so locks its row.
Area(w) == AreaOf[Item(w).slot]
LockArea(w) ==
    /\ job[w].step = "slots" /\ Unheld(w) = {} /\ ~Done(w)
    /\ Request(w).kind = "cart" => Row(w) = Open
    /\ areaLock[Area(w)] \in {Nobody, w}
    /\ areaLock' = [areaLock EXCEPT ![Area(w)] = w]
    /\ Advance(w, "numbering")
    /\ UNCHANGED <<tables, customerLock, slotLock, sequenceLock>>

\* generate_booking_number.  A sequence that is made starts from the numbers in use.
CurrentSerial_Unseeded == IF sequence = NoSequence THEN 0 ELSE sequence
CurrentSerial == IF sequence = NoSequence THEN Max(Existing \cup {0}) ELSE sequence

SequenceFree(w) == sequenceLock \in {Nobody, w}

TakeNumber(w) ==
    /\ job[w].step = "numbering" /\ SequenceFree(w)
    /\ LET n == CurrentSerial + Len(job[w].made) + 1 IN
       /\ n <= MaxSerial
       /\ job' = [job EXCEPT ![w].step = "slots",
                             ![w].made = Append(@, [number |-> n, service |-> Item(w).service]),
                             ![w].answer = Append(@, n)]
    /\ sequenceLock' = w
    /\ UNCHANGED <<tables, customerLock, slotLock, areaLock>>

MadeOf(w) == {job[w].made[i] : i \in DOMAIN job[w].made}
Numbered(w) == {m.number : m \in MadeOf(w)}

\* The commit.  The deferred check of a booking's customer needs a lock on the
\* account's row, which only a lead's conversion does not hold.
Completed(w) ==
    IF Request(w).kind = "lead" THEN record
    ELSE [record EXCEPT ![Customer(w)][Request(w).key] =
             [items |-> Fingerprint(w), bookings |-> job[w].answer]]

Commit(w) ==
    /\ job[w].step = "slots" /\ Unheld(w) = {} /\ Done(w)
    /\ customerLock[Customer(w)] \in {Nobody, w}
    /\ Numbered(w) \cap Existing = {}
    /\ booking' = [n \in Numbers |->
          IF n \in Numbered(w)
          THEN LET m == CHOOSE x \in MadeOf(w) : x.number = n
               IN [status |-> "awaiting", customer |-> Customer(w), service |-> m.service,
                   key |-> IF Request(w).kind = "lead" THEN "lead" ELSE Request(w).key]
          ELSE booking[n]]
    /\ cart' = IF Request(w).kind # "cart" THEN cart
               ELSE [cart EXCEPT ![Customer(w)] = Cleaned([s \in Services |->
                       IF \E m \in MadeOf(w) : m.service = s
                       THEN (CHOOSE m \in MadeOf(w) : m.service = s).number ELSE @[s]])]
    /\ record' = Completed(w)
    /\ sequence' = IF MadeOf(w) = {} THEN sequence ELSE CurrentSerial + Cardinality(MadeOf(w))
    /\ Release(w)

\* Refused for whatever reason, interrupted, or ended by the database: rolled back.
Refuse(w) == /\ Working(w)
             /\ Release(w)
             /\ UNCHANGED tables
-----------------------------------------------------------------------------
Step(w) ==
    \/ LockCustomer(w) \/ BeginCheckoutRequest(w) \/ AnswerAgain(w) \/ LockSlot(w)
    \/ ReuseBooking(w) \/ LockArea(w) \/ TakeNumber(w) \/ Commit(w)

Next ==
    \/ \E w \in Workers : (\E r \in Requests : Begin(w, r)) \/ Step(w) \/ Refuse(w)
    \/ \E c \in Customers, s \in Services :
          \/ AddToCart(c, s) \/ RemoveFromCart(c, s)
          \/ \E n \in Numbers : MergeSavedBooking(c, s, n)
    \/ \E n \in Numbers, status \in {"paid", "settled"} : ChangeBooking(n, status)

Spec == Init /\ [][Next]_vars
-----------------------------------------------------------------------------
(* Properties *)

Jobs == {Idle} \cup
        [step : {"begun", "locked", "slots", "numbering"}, request : Requests,
         made : Seq([number : Numbers, service : Services]), answer : Seq(Numbers)]

\* The state space; a row of the cart names a booking of its own customer and service.
TypeOK ==
    /\ cart \in [Customers -> [Services -> {Absent, Open} \cup Numbers]]
    /\ \A n \in Existing : booking[n].customer \in Customers /\ booking[n].service \in Services
    /\ \A c \in Customers, s \in Services : cart[c][s] \in Numbers =>
          booking[cart[c][s]].customer = c /\ booking[cart[c][s]].service = s
    /\ sequence \in {NoSequence} \cup Numbers
    /\ customerLock \in [Customers -> Workers \cup {Nobody}]
    /\ slotLock \in [Slots -> Workers \cup {Nobody}]
    /\ areaLock \in [Areas -> Workers \cup {Nobody}]
    /\ sequenceLock \in Workers \cup {Nobody}
    /\ job \in [Workers -> Jobs]

\* generate_booking_number: no two bookings, committed or being made, get one number,
\* whoever asks at the same time and however the month's sequence came to be.  (A
\* number used twice would fail the checkout, and its repetitions, at the unique key.)
NumbersAreNew ==
    \A w \in Workers : Working(w) =>
       /\ Numbered(w) \cap Existing = {}
       /\ \A v \in Workers \ {w} : Working(v) => Numbered(v) \cap Numbered(w) = {}

\* A booking that a keyed request made is in the answer that every repetition of the
\* request gets: no repetition, concurrent or later, after a failure or not, makes
\* bookings of its own ("the same key only to retry", docs/cart-msg91.md).
OneAnswerPerKey ==
    \A n \in Existing : booking[n].key \in Keys =>
       \E i \in DOMAIN record[booking[n].customer][booking[n].key].bookings :
          record[booking[n].customer][booking[n].key].bookings[i] = n

\* A selection in the cart is booked once: when a checkout commits a booking for it,
\* the row still has none, whatever the customer's other devices do to the cart.
SelectionBookedOnce ==
    [][\A w \in Workers : Commit(w) /\ Request(w).kind = "cart" =>
          \A m \in MadeOf(w) : cart[Customer(w)][m.service] = Open]_vars

\* Who holds the row that w needs next.
WaitsForOrdered(w) ==
    CASE job[w].step = "begun" -> {customerLock[Customer(w)]}
      [] job[w].step = "slots" /\ Unheld(w) # {} -> {slotLock[NextSlot(w)]}
      [] job[w].step = "numbering" -> {sequenceLock}
      [] job[w].step = "slots" /\ Done(w) -> {customerLock[Customer(w)]}
      [] OTHER -> {}

\* Customers' checkouts never wait for each other's slots and numbers in a circle,
\* whatever slots they pick and in whatever order ("Lock slot rows in deterministic order
\* before creating any booking.", cart.py); conversions of leads are left aside.
ByCustomer == {w \in Workers : Working(w) /\ Request(w).kind # "lead"}
Circle(C) == C # {} /\ \A w \in C : \E v \in C \ {w} : v \in WaitsForOrdered(w)
SlotsNeverDeadlock == \A C \in SUBSET ByCustomer : IsFiniteSet(C) => ~Circle(C)
=============================================================================
