-------------------------- MODULE CheckoutProofs --------------------------
(***************************************************************************)
(* For any customers, requests and slots: numbers are given once, a key    *)
(* has one answer, a selection is booked once, and two customers never     *)
(* wait for each other.  A request is alone with what it decides on: with  *)
(* its customer's cart and keys, and with the month's numbers.  The        *)
(* invariant says from which step on, and in which order slots are held.   *)
(***************************************************************************)
EXTENDS Checkout, SequenceTheorems, FiniteSetTheorems, WellFoundedInduction, TLAPS

Items == [service : Services, slot : Slots]
BookingRow == [status : {"awaiting", "paid", "settled"}, customer : Customers,
               service : Services, key : Keys \cup {"legacy", "lead"}]
Fingerprints == {<<r.kind, r.items>> : r \in Requests} \cup {<<>>}
RecordRow == [items : Fingerprints, bookings : Seq(Numbers)]
ActiveJob == [step : {"begun", "locked", "slots", "numbering"}, request : Requests,
              made : Seq([number : Numbers, service : Services]), answer : Seq(Numbers)]

\* The parts of the state that TypeOK leaves to the actions.
Typed ==
    /\ TypeOK
    /\ booking \in [Numbers -> BookingRow \cup {NoBooking}]
    /\ record \in [Customers -> [Keys -> RecordRow]]
    /\ \A c \in Customers, s \in Services : cart[c][s] \in Numbers => cart[c][s] \in Existing

\* No booking of the month is numbered beyond the sequence, also while the
\* sequence has no row.
SequenceCounts ==
    /\ \A n \in Existing : n <= CurrentSerial
    /\ sequence = NoSequence => Existing \subseteq {1}

\* What a request holds.
HeldBy(w) ==
    /\ Working(w) /\ Request(w).kind # "lead" /\ job[w].step # "begun" => customerLock[Customer(w)] = w
    /\ \A c \in Customers : customerLock[c] = w => Working(w) /\ job[w].step # "begun"
    /\ \A s \in Slots : slotLock[s] = w =>
          Working(w) /\ job[w].step \notin {"begun", "locked"} /\ s \in SlotsOf(w)
    /\ sequenceLock = w <=> Working(w) /\ job[w].made # <<>>

\* Where it is: it makes and reuses bookings with all its slots locked, and goes
\* through its items in order.
ProgressOf(w) == Working(w) =>
    /\ Len(job[w].answer) <= Len(Request(w).items)
    /\ job[w].step \in {"begun", "locked"} => job[w].made = <<>> /\ job[w].answer = <<>>
    /\ job[w].answer # <<>> \/ job[w].made # <<>> \/ job[w].step = "numbering" => Unheld(w) = {}
    /\ job[w].step = "numbering" => ~Done(w)

\* It locks slots in the order of their ids.
SlotOrderOf(w) == Working(w) =>
    \A s \in SlotsOf(w) \ Unheld(w), t \in Unheld(w) : s < t

\* Its numbers follow the sequence, and are all in its answer.
NumbersOf(w) == Working(w) =>
    \A i \in DOMAIN job[w].made :
       /\ job[w].made[i].number = CurrentSerial + i
       /\ \E k \in DOMAIN job[w].answer : job[w].answer[k] = job[w].made[i].number

\* Nobody has answered its key yet.
UnansweredOf(w) ==
    Working(w) /\ Request(w).kind # "lead" /\ job[w].step \in {"slots", "numbering"} =>
       Record(w) = NoRecord

\* What a checkout makes a booking for is selected, and not booked.
SelectionsOf(w) == Working(w) /\ Request(w).kind = "cart" =>
    /\ \A i \in DOMAIN job[w].made : cart[Customer(w)][job[w].made[i].service] = Open
    /\ job[w].step = "numbering" => Row(w) = Open

WorkerInv(w) == /\ HeldBy(w) /\ ProgressOf(w) /\ SlotOrderOf(w)
                /\ NumbersOf(w) /\ UnansweredOf(w) /\ SelectionsOf(w)

IInv == Typed /\ SequenceCounts /\ OneAnswerPerKey /\ \A w \in Workers : WorkerInv(w)
-----------------------------------------------------------------------------
(* Numbers and sets of numbers *)

LEMMA LeastNumber ==
    ASSUME NEW S \in SUBSET Nat, S # {}
    PROVE  Min(S) \in S /\ \A n \in S : Min(S) <= n
<1> DEFINE Below == {pair \in Nat \X Nat : pair[1] < pair[2]}
<1>1. Below = OpToRel(<, Nat)
  BY Zenon DEF OpToRel
<1>2. IsWellFoundedOn(Below, Nat)
  BY <1>1, NatLessThanWellFounded, Zenon
<1>3. PICK m \in S : \A n \in S : <<n, m>> \notin Below
  BY <1>2, WFMin, Zenon
<1>4. \A n \in S : ~(n < m)
  BY <1>3
<1>5. \E n \in S : \A k \in S : n <= k
  BY <1>4
<1>6. QED BY <1>5 DEF Min

LEMMA ImageSize ==
    ASSUME NEW n \in Nat, NEW T, NEW f \in [1..n -> T],
           \A i, j \in 1..n : f[i] = f[j] => i = j,
           \A x \in T : \E i \in 1..n : f[i] = x
    PROVE  Cardinality(T) = n
<1>1. IsFiniteSet(1..n) /\ Cardinality(1..n) = n
  BY FS_Interval
<1>2. f \in Bijection(1..n, T)
  BY DEF Bijection, Injection, IsInjective, Surjection
<1>3. ExistsBijection(1..n, T)
  BY <1>2 DEF ExistsBijection
<1>4. QED BY <1>1, <1>3, FS_Bijection

\* The current serial is the highest number there is, or higher.
LEMMA SerialFacts ==
    ASSUME Typed, sequence = NoSequence => Existing \subseteq {1}
    PROVE  /\ CurrentSerial \in 0..MaxSerial /\ CurrentSerial \in Nat
           /\ sequence = NoSequence => \A n \in Existing : n <= CurrentSerial
<1>1. MaxSerial \in Nat \ {0}
  BY RequestsAssumption
<1>2. CASE sequence = NoSequence
  <2>1. Existing = {} \/ Existing = {1}
    BY <1>2
  <2>2. Existing = {} => Max(Existing \cup {0}) = 0
    BY DEF Max
  <2>3. Existing = {1} => Max(Existing \cup {0}) = 1
    BY DEF Max
  <2>4. CurrentSerial = Max(Existing \cup {0})
    BY <1>2 DEF CurrentSerial
  <2>5. QED BY <1>1, <2>1, <2>2, <2>3, <2>4
<1>3. CASE sequence # NoSequence
  BY <1>1, <1>3 DEF Typed, TypeOK, Numbers, CurrentSerial
<1>4. QED BY <1>2, <1>3
-----------------------------------------------------------------------------
(* The shape of a request and of its job *)

LEMMA RequestFacts ==
    ASSUME NEW r \in Requests
    PROVE  /\ r.kind \in Kinds /\ r.customer \in Customers /\ r.key \in Keys
           /\ r.items \in Seq(Items) /\ Len(r.items) \in Nat \ {0}
           /\ r.kind # "cart" => Len(r.items) = 1
           /\ \A i \in 1..Len(r.items) : r.items[i].service \in Services /\ r.items[i].slot \in Slots
<1>1. r.items \in Seq(Items) /\ r.items # <<>>
  BY RequestsAssumption DEF Items
<1>2. Len(r.items) \in Nat \ {0}
  BY <1>1, EmptySeq
<1>3. \A i \in 1..Len(r.items) : r.items[i] \in Items
  BY <1>1, ElementOfSeq
<1>4. r.kind \in Kinds /\ r.customer \in Customers /\ (r.kind # "cart" => Len(r.items) = 1)
  BY RequestsAssumption
<1>5. r.key \in Keys
  BY DEF Keys
<1>6. QED BY <1>1, <1>2, <1>3, <1>4, <1>5 DEF Items

LEMMA JobFacts ==
    ASSUME job \in [Workers -> Jobs], NEW w \in Workers, Working(w)
    PROVE  /\ job[w] \in ActiveJob /\ Request(w) \in Requests
           /\ job[w].made \in Seq([number : Numbers, service : Services])
           /\ job[w].answer \in Seq(Numbers)
           /\ Len(job[w].made) \in Nat /\ DOMAIN job[w].made = 1..Len(job[w].made)
           /\ Len(job[w].answer) \in Nat /\ DOMAIN job[w].answer = 1..Len(job[w].answer)
           /\ \A i \in DOMAIN job[w].made : /\ job[w].made[i].number \in Numbers
                                            /\ job[w].made[i].service \in Services
<1>1. job[w] \in ActiveJob
  BY DEF Jobs, ActiveJob, Working
<1>2. /\ Request(w) \in Requests
      /\ job[w].made \in Seq([number : Numbers, service : Services])
      /\ job[w].answer \in Seq(Numbers)
  BY <1>1 DEF ActiveJob, Request
<1>3. /\ Len(job[w].made) \in Nat /\ DOMAIN job[w].made = 1..Len(job[w].made)
      /\ Len(job[w].answer) \in Nat /\ DOMAIN job[w].answer = 1..Len(job[w].answer)
  BY <1>2, LenProperties
<1>4. \A i \in DOMAIN job[w].made : job[w].made[i] \in [number : Numbers, service : Services]
  BY <1>2, <1>3, ElementOfSeq
<1>5. QED BY <1>1, <1>2, <1>3, <1>4

LEMMA SlotsFacts ==
    ASSUME job \in [Workers -> Jobs], NEW w \in Workers, Working(w)
    PROVE  SlotsOf(w) \subseteq Slots /\ Unheld(w) \subseteq SlotsOf(w) /\ Slots \subseteq Nat
<1>1. Request(w) \in Requests
  BY JobFacts
<1>2. \A i \in DOMAIN Request(w).items : Request(w).items[i].slot \in Slots
  BY <1>1, RequestFacts
<1>3. QED BY <1>2, RequestsAssumption DEF SlotsOf, Unheld

\* A step within a request.
LEMMA AdvanceFacts ==
    ASSUME job \in [Workers -> Jobs], NEW w \in Workers, Working(w),
           NEW step \in {"begun", "locked", "slots", "numbering"}, Advance(w, step)
    PROVE  /\ job' \in [Workers -> Jobs] /\ Working(w)'
           /\ job'[w].step = step /\ job'[w].request = job[w].request
           /\ job'[w].made = job[w].made /\ job'[w].answer = job[w].answer
           /\ \A v \in Workers \ {w} : job'[v] = job[v]
<1>1. job[w] \in ActiveJob
  BY JobFacts
<1> DEFINE new == [job[w] EXCEPT !.step = step]
<1>2. /\ new \in ActiveJob /\ new.step = step /\ new.request = job[w].request
      /\ new.made = job[w].made /\ new.answer = job[w].answer
  BY <1>1 DEF ActiveJob
<1>3. job' = [job EXCEPT ![w] = new]
  BY DEF Advance
<1>4. new # Idle
  BY <1>2 DEF Idle
<1> HIDE DEF new
<1>5. job'[w] = new /\ \A v \in Workers \ {w} : job'[v] = job[v]
  BY <1>3
<1>6. job' \in [Workers -> Jobs]
  BY <1>2, <1>3 DEF Jobs, ActiveJob
<1>7. QED BY <1>2, <1>4, <1>5, <1>6 DEF Working
-----------------------------------------------------------------------------
(* What the others do *)

\* What a request relies on changes only by its own steps.
Undisturbed(v) ==
    /\ job'[v] = job[v]
    /\ \A c \in Customers : customerLock'[c] = v <=> customerLock[c] = v
    /\ \A s \in Slots : slotLock'[s] = v <=> slotLock[s] = v
    /\ sequenceLock' = v <=> sequenceLock = v
    /\ Working(v) =>
          /\ CurrentSerial' = CurrentSerial \/ job[v].made = <<>>
          /\ Request(v).kind # "lead" /\ job[v].step # "begun" =>
                /\ cart'[Customer(v)] = cart[Customer(v)]
                /\ record'[Customer(v)][Request(v).key] = record[Customer(v)][Request(v).key]

LEMMA OthersKeep ==
    ASSUME Typed, NEW v \in Workers, WorkerInv(v), Undisturbed(v)
    PROVE  WorkerInv(v)'
<1>1. CASE ~Working(v)
  <2>1. ~Working(v)'
    BY <1>1 DEF Undisturbed, Working
  <2>2. HeldBy(v)'
    BY <1>1, <2>1 DEF WorkerInv, HeldBy, Undisturbed
  <2>3. QED BY <2>1, <2>2 DEF WorkerInv, ProgressOf, SlotOrderOf, NumbersOf, UnansweredOf, SelectionsOf
<1>2. CASE Working(v)
  <2>1. /\ job'[v] = job[v] /\ Working(v)' /\ Request(v)' = Request(v) /\ Customer(v)' = Customer(v)
        /\ SlotsOf(v)' = SlotsOf(v) /\ Done(v)' = Done(v) /\ Item(v)' = Item(v)
    BY <1>2 DEF Undisturbed, Working, Request, Customer, SlotsOf, Done, Item
  <2>2. job \in [Workers -> Jobs]
    BY DEF Typed, TypeOK
  <2>3. SlotsOf(v) \subseteq Slots
    BY <1>2, <2>2, SlotsFacts
  <2>4. Unheld(v)' = Unheld(v)
    BY <2>1, <2>3 DEF Unheld, Undisturbed
  <2>5. /\ job[v].made \in Seq([number : Numbers, service : Services])
        /\ Request(v) \in Requests
    BY <1>2, <2>2, JobFacts
  <2>6. Customer(v) \in Customers
    BY <2>5, RequestFacts DEF Customer
  <2>7. HeldBy(v)'
    BY <1>2, <2>1, <2>6 DEF WorkerInv, HeldBy, Undisturbed
  <2>8. ProgressOf(v)'
    BY <1>2, <2>1, <2>4 DEF WorkerInv, ProgressOf
  <2>9. SlotOrderOf(v)'
    BY <1>2, <2>1, <2>4 DEF WorkerInv, SlotOrderOf
  <2>10. NumbersOf(v)'
    <3>1. CASE job[v].made = <<>>
      <4>1. DOMAIN job'[v].made = {}
        BY <2>1, <3>1
      <4>2. QED BY <4>1 DEF NumbersOf
    <3>2. CASE CurrentSerial' = CurrentSerial
      BY <1>2, <2>1, <3>2 DEF WorkerInv, NumbersOf
    <3>3. QED BY <1>2, <3>1, <3>2 DEF Undisturbed
  <2>11. UnansweredOf(v)'
    BY <1>2, <2>1 DEF WorkerInv, UnansweredOf, Undisturbed, Record
  <2>12. SelectionsOf(v)'
    <3>1. CASE job[v].step = "begun"
      <4>1. job[v].made = <<>>
        BY <1>2, <3>1 DEF WorkerInv, ProgressOf
      <4>2. DOMAIN job'[v].made = {}
        BY <2>1, <4>1
      <4>3. QED BY <2>1, <3>1, <4>2 DEF SelectionsOf
    <3>2. CASE job[v].step # "begun"
      BY <1>2, <2>1, <3>2 DEF WorkerInv, SelectionsOf, Undisturbed, Row
    <3>3. QED BY <3>1, <3>2
  <2>13. QED BY <2>7, <2>8, <2>9, <2>10, <2>11, <2>12 DEF WorkerInv
<1>3. QED BY <1>1, <1>2

\* A step that leaves the tables alone is the affair of the one who takes it.
LocksAndJobs ==
    /\ customerLock \in [Customers -> Workers \cup {Nobody}]
    /\ slotLock \in [Slots -> Workers \cup {Nobody}]
    /\ areaLock \in [Areas -> Workers \cup {Nobody}]
    /\ sequenceLock \in Workers \cup {Nobody}
    /\ job \in [Workers -> Jobs]

SameLocks(v) ==
    /\ \A c \in Customers : customerLock'[c] = v <=> customerLock[c] = v
    /\ \A s \in Slots : slotLock'[s] = v <=> slotLock[s] = v
    /\ sequenceLock' = v <=> sequenceLock = v

LEMMA OwnStep ==
    ASSUME IInv, NEW w \in Workers, UNCHANGED tables, LocksAndJobs', WorkerInv(w)',
           \A v \in Workers \ {w} : job'[v] = job[v] /\ SameLocks(v)
    PROVE  IInv'
<1>1. /\ cart' = cart /\ booking' = booking /\ record' = record /\ sequence' = sequence
      /\ Existing' = Existing /\ CurrentSerial' = CurrentSerial
  BY DEF tables, Existing, CurrentSerial
<1>2. Typed'
  BY <1>1 DEF IInv, Typed, TypeOK, LocksAndJobs
<1>3. SequenceCounts'
  BY <1>1 DEF IInv, SequenceCounts
<1>4. OneAnswerPerKey'
  BY <1>1 DEF IInv, OneAnswerPerKey
<1>5. ASSUME NEW v \in Workers \ {w}
      PROVE  WorkerInv(v)'
  <2>1. Undisturbed(v)
    BY <1>1 DEF Undisturbed, SameLocks
  <2>2. QED BY <2>1, OthersKeep DEF IInv
<1>6. QED BY <1>2, <1>3, <1>4, <1>5 DEF IInv

LEMMA BeginKeeps ==
    ASSUME IInv, NEW w \in Workers, NEW r \in Requests, Begin(w, r)
    PROVE  IInv'
<1> DEFINE new == [step |-> IF r.kind = "lead" THEN "slots" ELSE "begun",
                   request |-> r, made |-> <<>>, answer |-> <<>>]
<1>1. /\ new \in ActiveJob /\ new.made = <<>> /\ new.answer = <<>> /\ new.request = r
      /\ new.step \in {"slots", "begun"} /\ (r.kind # "lead" => new.step = "begun") /\ new # Idle
  BY DEF ActiveJob, Idle
<1>2. job' = [job EXCEPT ![w] = new] /\ UNCHANGED tables /\ UNCHANGED locks
  BY DEF Begin
<1>3. ~Working(w)
  BY DEF Begin, Working
<1> HIDE DEF new
<1>4. LocksAndJobs /\ job \in [Workers -> Jobs]
  BY DEF IInv, Typed, TypeOK, LocksAndJobs
<1>5. job'[w] = new /\ \A v \in Workers \ {w} : job'[v] = job[v]
  BY <1>2, <1>4
<1>6. LocksAndJobs'
  BY <1>1, <1>2, <1>4 DEF LocksAndJobs, locks, Jobs, ActiveJob
<1>7. \A v \in Workers \ {w} : SameLocks(v)
  BY <1>2 DEF SameLocks, locks
<1>8. Working(w)' /\ Request(w)' = r
  BY <1>1, <1>5 DEF Working, Request
<1>9. HeldBy(w) /\ HeldBy(w)'
  BY <1>1, <1>2, <1>3, <1>5, <1>8 DEF IInv, WorkerInv, HeldBy, locks
<1>10. SlotsOf(w)' \ Unheld(w)' = {}
  <2>1. SlotsOf(w)' \subseteq Slots
    BY <1>8, RequestFacts DEF SlotsOf
  <2>2. QED BY <1>2, <1>3, <1>9, <2>1 DEF HeldBy, Unheld, locks
<1>11. ProgressOf(w)'
  <2>1. Len(r.items) \in Nat \ {0}
    BY RequestFacts
  <2>2. QED BY <1>1, <1>5, <1>8, <2>1 DEF ProgressOf
<1>12. SlotOrderOf(w)'
  BY <1>10 DEF SlotOrderOf
<1>13. DOMAIN job'[w].made = {}
  BY <1>1, <1>5
<1>14. NumbersOf(w)' /\ UnansweredOf(w)' /\ SelectionsOf(w)'
  BY <1>1, <1>5, <1>8, <1>13 DEF NumbersOf, UnansweredOf, SelectionsOf
<1>15. WorkerInv(w)'
  BY <1>9, <1>11, <1>12, <1>14 DEF WorkerInv
<1>16. QED BY <1>2, <1>5, <1>6, <1>7, <1>15, OwnStep

LEMMA LockCustomerKeeps ==
    ASSUME IInv, NEW w \in Workers, Working(w), LockCustomer(w)
    PROVE  IInv'
<1>1. LocksAndJobs /\ job \in [Workers -> Jobs]
  BY DEF IInv, Typed, TypeOK, LocksAndJobs
<1>2. /\ job' \in [Workers -> Jobs] /\ Working(w)' /\ job'[w].step = "locked"
      /\ Request(w)' = Request(w) /\ job'[w].made = job[w].made /\ job'[w].answer = job[w].answer
      /\ \A v \in Workers \ {w} : job'[v] = job[v]
  BY <1>1, AdvanceFacts DEF LockCustomer, Request
<1>3. /\ customerLock[Customer(w)] = Nobody /\ customerLock' = [customerLock EXCEPT ![Customer(w)] = w]
      /\ slotLock' = slotLock /\ areaLock' = areaLock /\ sequenceLock' = sequenceLock
      /\ UNCHANGED tables /\ job[w].step = "begun"
  BY DEF LockCustomer, TakeCustomer
<1>4. Customer(w) \in Customers /\ Customer(w)' = Customer(w)
  BY <1>1, <1>2, JobFacts, RequestFacts DEF Customer
<1>5. LocksAndJobs'
  BY <1>1, <1>2, <1>3, <1>4 DEF LocksAndJobs
<1>6. \A v \in Workers \ {w} : SameLocks(v)
  BY <1>1, <1>3, <1>4, RequestsAssumption DEF SameLocks, LocksAndJobs
<1>7. customerLock'[Customer(w)] = w
  BY <1>1, <1>3, <1>4 DEF LocksAndJobs
<1>8. job[w].made = <<>> /\ job[w].answer = <<>>
  BY <1>3 DEF IInv, WorkerInv, ProgressOf
<1>9. /\ SlotsOf(w)' = SlotsOf(w) /\ Unheld(w)' = Unheld(w)
  BY <1>2, <1>3 DEF SlotsOf, Unheld
<1>10. HeldBy(w)'
  BY <1>2, <1>3, <1>4, <1>7, <1>8 DEF IInv, WorkerInv, HeldBy
<1>11. ProgressOf(w)'
  BY <1>2, <1>3, <1>8 DEF IInv, WorkerInv, ProgressOf
<1>12. SlotOrderOf(w)'
  BY <1>9 DEF IInv, WorkerInv, SlotOrderOf
<1>13. DOMAIN job'[w].made = {}
  BY <1>2, <1>8
<1>14. NumbersOf(w)' /\ UnansweredOf(w)' /\ SelectionsOf(w)'
  BY <1>2, <1>13 DEF NumbersOf, UnansweredOf, SelectionsOf
<1>15. WorkerInv(w)'
  BY <1>10, <1>11, <1>12, <1>14 DEF WorkerInv
<1>16. QED BY <1>2, <1>3, <1>5, <1>6, <1>15, OwnStep

LEMMA BeginCheckoutRequestKeeps ==
    ASSUME IInv, NEW w \in Workers, Working(w), BeginCheckoutRequest(w)
    PROVE  IInv'
<1>1. LocksAndJobs /\ job \in [Workers -> Jobs]
  BY DEF IInv, Typed, TypeOK, LocksAndJobs
<1>2. /\ job' \in [Workers -> Jobs] /\ Working(w)' /\ job'[w].step = "slots"
      /\ Request(w)' = Request(w) /\ job'[w].made = job[w].made /\ job'[w].answer = job[w].answer
      /\ \A v \in Workers \ {w} : job'[v] = job[v]
  BY <1>1, AdvanceFacts DEF BeginCheckoutRequest, Request
<1>3. UNCHANGED tables /\ UNCHANGED locks /\ job[w].step = "locked" /\ Record(w) = NoRecord
  BY DEF BeginCheckoutRequest, NotCompleted
<1>4. Customer(w)' = Customer(w) /\ SlotsOf(w)' = SlotsOf(w) /\ Unheld(w)' = Unheld(w)
  BY <1>2, <1>3 DEF Customer, SlotsOf, Unheld, locks
<1>5. LocksAndJobs' /\ \A v \in Workers \ {w} : SameLocks(v)
  BY <1>1, <1>2, <1>3 DEF LocksAndJobs, SameLocks, locks
<1>6. job[w].made = <<>> /\ job[w].answer = <<>>
  BY <1>3 DEF IInv, WorkerInv, ProgressOf
<1>7. HeldBy(w)'
  BY <1>2, <1>3, <1>4, <1>6 DEF IInv, WorkerInv, HeldBy, locks
<1>8. ProgressOf(w)'
  BY <1>2, <1>6 DEF IInv, WorkerInv, ProgressOf
<1>9. SlotOrderOf(w)'
  BY <1>4 DEF IInv, WorkerInv, SlotOrderOf
<1>10. DOMAIN job'[w].made = {}
  BY <1>2, <1>6
<1>11. NumbersOf(w)' /\ SelectionsOf(w)'
  BY <1>2, <1>10 DEF NumbersOf, SelectionsOf
<1>12. UnansweredOf(w)'
  BY <1>2, <1>3, <1>4 DEF UnansweredOf, Record, tables
<1>13. WorkerInv(w)'
  BY <1>7, <1>8, <1>9, <1>11, <1>12 DEF WorkerInv
<1>14. QED BY <1>2, <1>3, <1>5, <1>13, OwnStep

LEMMA LockSlotKeeps ==
    ASSUME IInv, NEW w \in Workers, Working(w), LockSlot(w)
    PROVE  IInv'
<1>1. LocksAndJobs /\ job \in [Workers -> Jobs]
  BY DEF IInv, Typed, TypeOK, LocksAndJobs
<1> DEFINE next == NextSlot(w)
<1>2. SlotsOf(w) \subseteq Slots /\ Unheld(w) \subseteq SlotsOf(w) /\ Slots \subseteq Nat
  BY <1>1, SlotsFacts
<1>3. next \in Unheld(w) /\ \A s \in Unheld(w) : next <= s
  BY <1>2, LeastNumber DEF LockSlot, NextSlot
<1>4. /\ slotLock[next] = Nobody /\ slotLock' = [slotLock EXCEPT ![next] = w]
      /\ UNCHANGED tables /\ UNCHANGED <<customerLock, areaLock, sequenceLock, job>>
      /\ job[w].step = "slots" /\ Unheld(w) # {}
  BY DEF LockSlot
<1> HIDE DEF next
<1>5. next \in Slots /\ next \in Nat
  BY <1>2, <1>3
<1>6. /\ slotLock'[next] = w
      /\ \A s \in Slots \ {next} : slotLock'[s] = slotLock[s]
  BY <1>1, <1>4, <1>5 DEF LocksAndJobs
<1>7. LocksAndJobs' /\ \A v \in Workers \ {w} : SameLocks(v)
  BY <1>1, <1>4, <1>5, <1>6, RequestsAssumption DEF LocksAndJobs, SameLocks
<1>8. /\ Working(w)' /\ Request(w)' = Request(w) /\ Customer(w)' = Customer(w)
      /\ SlotsOf(w)' = SlotsOf(w) /\ Record(w)' = Record(w) /\ Done(w)' = Done(w) /\ Row(w)' = Row(w)
  BY <1>4 DEF Working, Request, Customer, SlotsOf, Record, Done, Row, Item, tables
<1>9. Unheld(w)' = Unheld(w) \ {next}
  BY <1>2, <1>6, <1>8 DEF Unheld
<1>10. job[w].made = <<>> /\ job[w].answer = <<>>
  BY <1>4 DEF IInv, WorkerInv, ProgressOf
<1>11. HeldBy(w)'
  BY <1>2, <1>3, <1>4, <1>6, <1>8 DEF IInv, WorkerInv, HeldBy
<1>12. ProgressOf(w)'
  BY <1>4, <1>8, <1>10 DEF IInv, WorkerInv, ProgressOf
<1>13. SlotOrderOf(w)'
  <2>1. ASSUME NEW s \in SlotsOf(w) \ (Unheld(w) \ {next}), NEW t \in Unheld(w) \ {next}
        PROVE  s < t
    <3>1. s \in Nat /\ t \in Nat
      BY <1>2
    <3>2. CASE s = next
      BY <1>3, <1>5, <3>1, <3>2
    <3>3. CASE s # next
      BY <3>3 DEF IInv, WorkerInv, SlotOrderOf
    <3>4. QED BY <3>2, <3>3
  <2>2. QED BY <1>8, <1>9, <2>1 DEF SlotOrderOf
<1>14. DOMAIN job'[w].made = {}
  BY <1>4, <1>10
<1>15. NumbersOf(w)' /\ SelectionsOf(w)'
  BY <1>4, <1>14 DEF NumbersOf, SelectionsOf
<1>16. UnansweredOf(w)'
  BY <1>4, <1>8 DEF IInv, WorkerInv, UnansweredOf, NoRecord
<1>17. WorkerInv(w)'
  BY <1>11, <1>12, <1>13, <1>15, <1>16 DEF WorkerInv
<1>18. QED BY <1>4, <1>7, <1>17, OwnStep

\* The item that is next, and one more answer.
LEMMA ItemFacts ==
    ASSUME job \in [Workers -> Jobs], NEW w \in Workers, Working(w), ProgressOf(w), ~Done(w)
    PROVE  /\ Item(w).service \in Services /\ Item(w).slot \in Slots
           /\ Len(job[w].answer) + 1 <= Len(Request(w).items)
<1>1. Request(w) \in Requests /\ Len(job[w].answer) \in Nat
  BY JobFacts
<1>2. Len(Request(w).items) \in Nat
  BY <1>1, RequestFacts
<1>3. Len(job[w].answer) + 1 \in 1..Len(Request(w).items)
  BY <1>1, <1>2 DEF Done, ProgressOf
<1>4. QED BY <1>1, <1>3, RequestFacts DEF Item

LEMMA AnswerGrows ==
    ASSUME NEW answer \in Seq(Numbers), NEW n \in Numbers
    PROVE  /\ Append(answer, n) \in Seq(Numbers) /\ Append(answer, n) # <<>>
           /\ Len(Append(answer, n)) = Len(answer) + 1
           /\ \A k \in DOMAIN answer :
                 k \in DOMAIN Append(answer, n) /\ Append(answer, n)[k] = answer[k]
           /\ Len(answer) + 1 \in DOMAIN Append(answer, n)
           /\ Append(answer, n)[Len(answer) + 1] = n
  OBVIOUS

LEMMA ReuseBookingKeeps ==
    ASSUME IInv, NEW w \in Workers, Working(w), ReuseBooking(w)
    PROVE  IInv'
<1>1. LocksAndJobs /\ job \in [Workers -> Jobs]
  BY DEF IInv, Typed, TypeOK, LocksAndJobs
<1> DEFINE answer == Append(job[w].answer, Row(w))
           new == [job[w] EXCEPT !.answer = answer]
<1>2. /\ job[w].step = "slots" /\ Unheld(w) = {} /\ ~Done(w) /\ Row(w) \in Numbers
      /\ UNCHANGED tables /\ UNCHANGED locks /\ job' = [job EXCEPT ![w] = new]
  BY DEF ReuseBooking, Existing
<1>3. /\ job[w] \in ActiveJob /\ job[w].answer \in Seq(Numbers) /\ Len(job[w].answer) \in Nat
  BY <1>1, JobFacts
<1>4. /\ answer \in Seq(Numbers) /\ answer # <<>> /\ Len(answer) = Len(job[w].answer) + 1
      /\ \A k \in DOMAIN job[w].answer : k \in DOMAIN answer /\ answer[k] = job[w].answer[k]
  BY <1>2, <1>3, AnswerGrows
<1> HIDE DEF answer
<1>5. /\ new \in ActiveJob /\ new.step = "slots" /\ new.request = job[w].request
      /\ new.made = job[w].made /\ new.answer = answer
  BY <1>2, <1>3, <1>4 DEF ActiveJob
<1> HIDE DEF new
<1>6. /\ job'[w] = new /\ \A v \in Workers \ {w} : job'[v] = job[v]
      /\ job' \in [Workers -> Jobs] /\ new # Idle
  <2>1. new # Idle
    BY <1>5 DEF Idle
  <2>2. new \in Jobs
    BY <1>5 DEF Jobs, ActiveJob
  <2>3. QED BY <1>1, <1>2, <2>1, <2>2
<1>7. LocksAndJobs' /\ \A v \in Workers \ {w} : SameLocks(v)
  BY <1>1, <1>2, <1>6 DEF LocksAndJobs, SameLocks, locks
<1>8. /\ Working(w)' /\ Request(w)' = Request(w) /\ Customer(w)' = Customer(w)
      /\ SlotsOf(w)' = SlotsOf(w) /\ Unheld(w)' = Unheld(w) /\ Record(w)' = Record(w)
      /\ CurrentSerial' = CurrentSerial
  BY <1>2, <1>5, <1>6 DEF Working, Request, Customer, SlotsOf, Unheld, Record, tables, locks,
     CurrentSerial, Existing
<1>9. Len(job[w].answer) + 1 <= Len(Request(w).items)
  BY <1>1, <1>2, ItemFacts DEF IInv, WorkerInv
<1>10. HeldBy(w)'
  BY <1>2, <1>5, <1>6, <1>8 DEF IInv, WorkerInv, HeldBy, locks
<1>11. ProgressOf(w)'
  BY <1>2, <1>4, <1>5, <1>6, <1>8, <1>9 DEF ProgressOf
<1>12. SlotOrderOf(w)'
  BY <1>8 DEF IInv, WorkerInv, SlotOrderOf
<1>13. NumbersOf(w)'
  BY <1>4, <1>5, <1>6, <1>8 DEF IInv, WorkerInv, NumbersOf
<1>14. UnansweredOf(w)'
  BY <1>2, <1>8 DEF IInv, WorkerInv, UnansweredOf, NoRecord
<1>15. SelectionsOf(w)'
  BY <1>2, <1>5, <1>6, <1>8 DEF IInv, WorkerInv, SelectionsOf, tables
<1>16. WorkerInv(w)'
  BY <1>10, <1>11, <1>12, <1>13, <1>14, <1>15 DEF WorkerInv
<1>17. QED BY <1>2, <1>6, <1>7, <1>16, OwnStep

LEMMA LockAreaKeeps ==
    ASSUME IInv, NEW w \in Workers, Working(w), LockArea(w)
    PROVE  IInv'
<1>1. LocksAndJobs /\ job \in [Workers -> Jobs]
  BY DEF IInv, Typed, TypeOK, LocksAndJobs
<1>2. /\ job' \in [Workers -> Jobs] /\ Working(w)' /\ job'[w].step = "numbering"
      /\ Request(w)' = Request(w) /\ job'[w].made = job[w].made /\ job'[w].answer = job[w].answer
      /\ \A v \in Workers \ {w} : job'[v] = job[v]
  BY <1>1, AdvanceFacts DEF LockArea, Request
<1>3. /\ job[w].step = "slots" /\ Unheld(w) = {} /\ ~Done(w)
      /\ UNCHANGED tables /\ UNCHANGED <<customerLock, slotLock, sequenceLock>>
      /\ areaLock' = [areaLock EXCEPT ![Area(w)] = w]
      /\ Request(w).kind = "cart" => Row(w) = Open
  BY DEF LockArea
<1>4. LocksAndJobs' /\ \A v \in Workers \ {w} : SameLocks(v)
  BY <1>1, <1>2, <1>3 DEF LocksAndJobs, SameLocks
<1>5. /\ Customer(w)' = Customer(w) /\ SlotsOf(w)' = SlotsOf(w) /\ Unheld(w)' = Unheld(w)
      /\ Record(w)' = Record(w) /\ CurrentSerial' = CurrentSerial /\ Done(w)' = Done(w)
      /\ Row(w)' = Row(w)
  BY <1>2, <1>3 DEF Customer, SlotsOf, Unheld, Record, tables, CurrentSerial, Existing, Done, Row, Item
<1>6. HeldBy(w)'
  BY <1>2, <1>3, <1>5 DEF IInv, WorkerInv, HeldBy
<1>7. ProgressOf(w)'
  BY <1>2, <1>3, <1>5 DEF IInv, WorkerInv, ProgressOf
<1>8. SlotOrderOf(w)'
  BY <1>5 DEF IInv, WorkerInv, SlotOrderOf
<1>9. NumbersOf(w)'
  BY <1>2, <1>5 DEF IInv, WorkerInv, NumbersOf
<1>10. UnansweredOf(w)'
  BY <1>2, <1>3, <1>5 DEF IInv, WorkerInv, UnansweredOf, NoRecord
<1>11. SelectionsOf(w)'
  BY <1>2, <1>3, <1>5 DEF IInv, WorkerInv, SelectionsOf, tables
<1>12. WorkerInv(w)'
  BY <1>6, <1>7, <1>8, <1>9, <1>10, <1>11 DEF WorkerInv
<1>13. QED BY <1>2, <1>3, <1>4, <1>12, OwnStep

LEMMA TakeNumberKeeps ==
    ASSUME IInv, NEW w \in Workers, Working(w), TakeNumber(w)
    PROVE  IInv'
<1>1. LocksAndJobs /\ job \in [Workers -> Jobs]
  BY DEF IInv, Typed, TypeOK, LocksAndJobs
<1>2. /\ job[w] \in ActiveJob
      /\ job[w].made \in Seq([number : Numbers, service : Services])
      /\ job[w].answer \in Seq(Numbers)
      /\ Len(job[w].made) \in Nat /\ DOMAIN job[w].made = 1..Len(job[w].made)
      /\ Len(job[w].answer) \in Nat
  BY <1>1, JobFacts
<1>3. CurrentSerial \in Nat
  BY SerialFacts DEF IInv, SequenceCounts
<1> DEFINE n == CurrentSerial + Len(job[w].made) + 1
           one == [number |-> n, service |-> Item(w).service]
           made == Append(job[w].made, one)
           answer == Append(job[w].answer, n)
           new == [job[w] EXCEPT !.step = "slots", !.made = made, !.answer = answer]
<1>4. /\ job[w].step = "numbering" /\ sequenceLock \in {Nobody, w} /\ sequenceLock' = w
      /\ n <= MaxSerial /\ job' = [job EXCEPT ![w] = new]
      /\ UNCHANGED tables /\ UNCHANGED <<customerLock, slotLock, areaLock>>
  BY DEF TakeNumber, SequenceFree
<1>5. n \in Numbers
  <2>1. n \in Nat /\ 1 <= n
    BY <1>2, <1>3
  <2>2. n <= MaxSerial
    BY <1>4
  <2> HIDE DEF n
  <2>3. QED BY <2>1, <2>2, RequestsAssumption DEF Numbers
<1>6. ~Done(w) /\ Unheld(w) = {}
  BY <1>4 DEF IInv, WorkerInv, ProgressOf
<1>7. Item(w).service \in Services /\ Len(job[w].answer) + 1 <= Len(Request(w).items)
  BY <1>1, <1>6, ItemFacts DEF IInv, WorkerInv
<1>8. one \in [number : Numbers, service : Services] /\ one.number = n /\ one.service = Item(w).service
  BY <1>5, <1>7
<1> HIDE DEF one
<1>9. /\ made \in Seq([number : Numbers, service : Services]) /\ made # <<>>
      /\ DOMAIN made = 1..(Len(job[w].made) + 1)
      /\ \A i \in 1..Len(job[w].made) : made[i] = job[w].made[i]
      /\ made[Len(job[w].made) + 1] = one
  BY <1>2, <1>8
<1>10. /\ answer \in Seq(Numbers) /\ answer # <<>> /\ Len(answer) = Len(job[w].answer) + 1
       /\ \A k \in DOMAIN job[w].answer : k \in DOMAIN answer /\ answer[k] = job[w].answer[k]
       /\ Len(job[w].answer) + 1 \in DOMAIN answer /\ answer[Len(job[w].answer) + 1] = n
  BY <1>2, <1>5, AnswerGrows
<1>11. n = CurrentSerial + (Len(job[w].made) + 1)
  BY <1>2, <1>3
<1> HIDE DEF n, made, answer
<1>12. /\ new \in ActiveJob /\ new.step = "slots" /\ new.request = job[w].request
       /\ new.made = made /\ new.answer = answer
  BY <1>2, <1>9, <1>10 DEF ActiveJob
<1> HIDE DEF new
<1>13. /\ job'[w] = new /\ \A v \in Workers \ {w} : job'[v] = job[v]
       /\ job' \in [Workers -> Jobs] /\ new # Idle
  <2>1. new # Idle
    BY <1>12 DEF Idle
  <2>2. new \in Jobs
    BY <1>12 DEF Jobs, ActiveJob
  <2>3. QED BY <1>1, <1>4, <2>1, <2>2
<1>14. LocksAndJobs' /\ \A v \in Workers \ {w} : SameLocks(v)
  BY <1>1, <1>4, <1>13, RequestsAssumption DEF LocksAndJobs, SameLocks
<1>15. /\ Working(w)' /\ Request(w)' = Request(w) /\ Customer(w)' = Customer(w)
       /\ SlotsOf(w)' = SlotsOf(w) /\ Unheld(w)' = Unheld(w) /\ Record(w)' = Record(w)
       /\ CurrentSerial' = CurrentSerial
  BY <1>4, <1>12, <1>13 DEF Working, Request, Customer, SlotsOf, Unheld, Record, tables,
     CurrentSerial, Existing
<1>16. HeldBy(w)'
  BY <1>4, <1>9, <1>12, <1>13, <1>15 DEF IInv, WorkerInv, HeldBy
<1>17. ProgressOf(w)'
  BY <1>6, <1>7, <1>10, <1>12, <1>13, <1>15 DEF ProgressOf
<1>18. SlotOrderOf(w)'
  BY <1>15 DEF IInv, WorkerInv, SlotOrderOf
<1>19. NumbersOf(w)'
  <2>1. ASSUME NEW i \in DOMAIN made
        PROVE  made[i].number = CurrentSerial + i /\ \E k \in DOMAIN answer : answer[k] = made[i].number
    <3>1. CASE i = Len(job[w].made) + 1
      BY <1>8, <1>9, <1>10, <1>11, <3>1
    <3>2. CASE i # Len(job[w].made) + 1
      <4>1. i \in DOMAIN job[w].made
        BY <1>2, <1>9, <3>2
      <4>2. made[i] = job[w].made[i]
        BY <1>2, <1>9, <4>1
      <4>3. /\ job[w].made[i].number = CurrentSerial + i
            /\ \E k \in DOMAIN job[w].answer : job[w].answer[k] = job[w].made[i].number
        BY <4>1 DEF IInv, WorkerInv, NumbersOf
      <4>4. QED BY <1>10, <4>2, <4>3
    <3>3. QED BY <3>1, <3>2
  <2>2. QED BY <1>12, <1>13, <1>15, <2>1 DEF NumbersOf
<1>20. UnansweredOf(w)'
  BY <1>4, <1>15 DEF IInv, WorkerInv, UnansweredOf, NoRecord
<1>21. SelectionsOf(w)'
  <2>1. ASSUME NEW i \in DOMAIN made, Request(w).kind = "cart"
        PROVE  cart[Customer(w)][made[i].service] = Open
    <3>1. CASE i = Len(job[w].made) + 1
      BY <1>4, <1>8, <1>9, <2>1, <3>1 DEF IInv, WorkerInv, SelectionsOf, Row
    <3>2. CASE i # Len(job[w].made) + 1
      BY <1>2, <1>9, <2>1, <3>2 DEF IInv, WorkerInv, SelectionsOf
    <3>3. QED BY <3>1, <3>2
  <2>2. QED BY <1>4, <1>12, <1>13, <1>15, <2>1 DEF SelectionsOf, tables
<1>22. WorkerInv(w)'
  BY <1>16, <1>17, <1>18, <1>19, <1>20, <1>21 DEF WorkerInv
<1>23. QED BY <1>4, <1>13, <1>14, <1>22, OwnStep
-----------------------------------------------------------------------------
(* The ends of a request, and what happens beside requests *)

LEMMA ReleaseFacts ==
    ASSUME IInv, NEW w \in Workers, Release(w)
    PROVE  /\ LocksAndJobs' /\ WorkerInv(w)'
           /\ \A v \in Workers \ {w} : job'[v] = job[v] /\ SameLocks(v)
<1>1. LocksAndJobs
  BY DEF IInv, Typed, TypeOK, LocksAndJobs
<1>2. /\ \A c \in Customers : customerLock'[c] = IF customerLock[c] = w THEN Nobody ELSE customerLock[c]
      /\ \A s \in Slots : slotLock'[s] = IF slotLock[s] = w THEN Nobody ELSE slotLock[s]
      /\ sequenceLock' = IF sequenceLock = w THEN Nobody ELSE sequenceLock
      /\ job' = [job EXCEPT ![w] = Idle]
  BY <1>1 DEF LocksAndJobs, Release, Freed
<1>3. LocksAndJobs'
  <2>1. /\ customerLock' \in [Customers -> Workers \cup {Nobody}]
        /\ slotLock' \in [Slots -> Workers \cup {Nobody}]
        /\ areaLock' \in [Areas -> Workers \cup {Nobody}]
    BY <1>1 DEF LocksAndJobs, Release, Freed
  <2>2. job' \in [Workers -> Jobs]
    BY <1>1, <1>2 DEF LocksAndJobs, Jobs
  <2>3. QED BY <1>1, <1>2, <2>1, <2>2 DEF LocksAndJobs
<1>4. job'[w] = Idle /\ \A v \in Workers \ {w} : job'[v] = job[v]
  BY <1>1, <1>2 DEF LocksAndJobs
<1>5. \A v \in Workers \ {w} : SameLocks(v)
  BY <1>2, RequestsAssumption DEF SameLocks
<1>6. ~Working(w)'
  BY <1>4 DEF Working
<1>7. HeldBy(w)'
  BY <1>2, <1>6, RequestsAssumption DEF HeldBy
<1>8. WorkerInv(w)'
  BY <1>6, <1>7 DEF WorkerInv, ProgressOf, SlotOrderOf, NumbersOf, UnansweredOf, SelectionsOf
<1>9. QED BY <1>3, <1>4, <1>5, <1>8

LEMMA RefuseKeeps ==
    ASSUME IInv, NEW w \in Workers, Refuse(w)
    PROVE  IInv'
<1>1. Release(w) /\ UNCHANGED tables
  BY DEF Refuse
<1>2. QED BY <1>1, ReleaseFacts, OwnStep

\* While a request has the customer's row, or nobody has, no other checkout of that
\* customer is past its beginning.
LEMMA AloneWithCustomer ==
    ASSUME IInv, NEW v \in Workers, NEW w \in Workers, v # w,
           Working(v), Request(v).kind # "lead", job[v].step # "begun",
           customerLock[Customer(w)] = w \/ customerLock[Customer(w)] = Nobody
    PROVE  Customer(v) # Customer(w)
BY RequestsAssumption DEF IInv, WorkerInv, HeldBy

\* A row of the cart names a booking of its own.
Rows(c, rows) ==
    /\ rows \in [Services -> {Absent, Open} \cup Numbers]
    /\ \A s \in Services : rows[s] \in Numbers =>
          rows[s] \in Existing /\ booking[rows[s]].customer = c /\ booking[rows[s]].service = s

LEMMA CleanedFacts ==
    ASSUME NEW c \in Customers, NEW rows, Rows(c, rows)
    PROVE  Rows(c, Cleaned(rows))
<1> DEFINE left == Cleaned(rows)
<1>1. /\ left \in [Services -> {Absent} \cup {rows[s] : s \in Services}]
      /\ \A s \in Services : left[s] = Absent \/ left[s] = rows[s]
  BY DEF Cleaned
<1> HIDE DEF left
<1>2. left \in [Services -> {Absent, Open} \cup Numbers]
  BY <1>1 DEF Rows
<1>3. Absent \notin Numbers
  BY RequestsAssumption DEF Absent, Numbers
<1>4. Rows(c, left)
  BY <1>1, <1>2, <1>3 DEF Rows
<1>5. QED BY <1>4 DEF left

LEMMA RowsOfCart ==
    ASSUME Typed, NEW c \in Customers
    PROVE  Rows(c, cart[c])
BY DEF Typed, TypeOK, Rows

LEMMA CartStep ==
    ASSUME IInv, NEW c \in Customers, NEW rows, Rows(c, rows),
           cart' = [cart EXCEPT ![c] = rows], UNCHANGED <<booking, record, sequence>>, LocksAndJobs'
    PROVE  Typed' /\ SequenceCounts' /\ OneAnswerPerKey' /\ CurrentSerial' = CurrentSerial
<1>1. Existing' = Existing /\ CurrentSerial' = CurrentSerial
  BY DEF Existing, CurrentSerial
<1>2. cart' \in [Customers -> [Services -> {Absent, Open} \cup Numbers]]
  BY DEF IInv, Typed, TypeOK, Rows
<1>3. \A d \in Customers : cart'[d] = IF d = c THEN rows ELSE cart[d]
  BY DEF IInv, Typed, TypeOK
<1>4. ASSUME NEW d \in Customers, NEW s \in Services, cart'[d][s] \in Numbers
      PROVE  /\ cart'[d][s] \in Existing'
             /\ booking'[cart'[d][s]].customer = d /\ booking'[cart'[d][s]].service = s
  <2>1. Rows(d, cart[d])
    BY RowsOfCart DEF IInv
  <2>2. QED BY <1>1, <1>3, <1>4, <2>1 DEF Rows
<1>5. Typed'
  BY <1>1, <1>2, <1>4 DEF IInv, Typed, TypeOK, LocksAndJobs
<1>6. SequenceCounts' /\ OneAnswerPerKey'
  BY <1>1 DEF IInv, SequenceCounts, OneAnswerPerKey
<1>7. QED BY <1>1, <1>5, <1>6

LEMMA EditCartKeeps ==
    ASSUME IInv, NEW c \in Customers, NEW rows, Rows(c, rows), EditCart(c, rows)
    PROVE  IInv'
<1>1. /\ customerLock[c] = Nobody /\ cart' = [cart EXCEPT ![c] = Cleaned(rows)]
      /\ UNCHANGED <<booking, record, sequence>> /\ UNCHANGED locks /\ UNCHANGED job
  BY DEF EditCart
<1>2. Rows(c, Cleaned(rows))
  BY CleanedFacts
<1>3. LocksAndJobs'
  BY <1>1 DEF IInv, Typed, TypeOK, LocksAndJobs, locks
<1>4. Typed' /\ SequenceCounts' /\ OneAnswerPerKey' /\ CurrentSerial' = CurrentSerial
  BY <1>1, <1>2, <1>3, CartStep
<1>5. ASSUME NEW v \in Workers
      PROVE  WorkerInv(v)'
  <2>1. ASSUME Working(v), Request(v).kind # "lead", job[v].step # "begun"
        PROVE  cart'[Customer(v)] = cart[Customer(v)]
    <3>1. customerLock[Customer(v)] = v
      BY <2>1 DEF IInv, WorkerInv, HeldBy
    <3>2. Customer(v) # c
      BY <1>1, <3>1, RequestsAssumption
    <3>3. QED BY <1>1, <3>2 DEF IInv, Typed, TypeOK
  <2>2. Undisturbed(v)
    BY <1>1, <1>4, <2>1 DEF Undisturbed, locks
  <2>3. QED BY <2>2, OthersKeep DEF IInv
<1>6. QED BY <1>4, <1>5 DEF IInv

LEMMA AnswerAgainKeeps ==
    ASSUME IInv, NEW w \in Workers, Working(w), AnswerAgain(w)
    PROVE  IInv'
<1>1. /\ job[w].step = "locked" /\ Release(w) /\ UNCHANGED <<booking, record, sequence>>
      /\ cart' = IF Request(w).kind = "cart"
                 THEN [cart EXCEPT ![Customer(w)] = Cleaned(cart[Customer(w)])] ELSE cart
  BY DEF AnswerAgain
<1>2. /\ LocksAndJobs' /\ WorkerInv(w)'
      /\ \A v \in Workers \ {w} : job'[v] = job[v] /\ SameLocks(v)
  BY <1>1, ReleaseFacts
<1>3. CASE Request(w).kind # "cart"
  <2>1. UNCHANGED tables
    BY <1>1, <1>3 DEF tables
  <2>2. QED BY <1>2, <2>1, OwnStep
<1>4. CASE Request(w).kind = "cart"
  <2>1. Customer(w) \in Customers
    BY JobFacts, RequestFacts DEF IInv, Typed, TypeOK, Customer
  <2>2. Rows(Customer(w), Cleaned(cart[Customer(w)]))
    BY <2>1, RowsOfCart, CleanedFacts DEF IInv
  <2>3. Typed' /\ SequenceCounts' /\ OneAnswerPerKey' /\ CurrentSerial' = CurrentSerial
    BY <1>1, <1>2, <1>4, <2>1, <2>2, CartStep
  <2>4. customerLock[Customer(w)] = w
    BY <1>1, <1>4 DEF IInv, WorkerInv, HeldBy
  <2>5. ASSUME NEW v \in Workers \ {w}
        PROVE  WorkerInv(v)'
    <3>1. ASSUME Working(v), Request(v).kind # "lead", job[v].step # "begun"
          PROVE  cart'[Customer(v)] = cart[Customer(v)]
      <4>1. Customer(v) # Customer(w)
        BY <2>4, <3>1, AloneWithCustomer
      <4>2. QED BY <1>1, <1>4, <4>1 DEF IInv, Typed, TypeOK
    <3>2. Undisturbed(v)
      BY <1>1, <1>2, <2>3, <3>1 DEF Undisturbed, SameLocks
    <3>3. QED BY <3>2, OthersKeep DEF IInv
  <2>6. QED BY <1>2, <2>3, <2>5 DEF IInv
<1>5. QED BY <1>3, <1>4

LEMMA ChangeBookingKeeps ==
    ASSUME IInv, NEW n \in Numbers, NEW status \in {"paid", "settled"}, ChangeBooking(n, status)
    PROVE  IInv'
<1>1. /\ n \in Existing /\ booking' = [booking EXCEPT ![n].status = status]
      /\ UNCHANGED <<cart, record, sequence>> /\ UNCHANGED locks /\ UNCHANGED job
  BY DEF ChangeBooking
<1>2. booking \in [Numbers -> BookingRow \cup {NoBooking}] /\ booking[n] \in BookingRow
  BY <1>1 DEF IInv, Typed, Existing
<1> DEFINE new == [booking[n] EXCEPT !.status = status]
<1>3. /\ new \in BookingRow /\ new.customer = booking[n].customer
      /\ new.service = booking[n].service /\ new.key = booking[n].key
  BY <1>2 DEF BookingRow
<1>4. new # NoBooking
  BY <1>3 DEF BookingRow, NoBooking
<1>5. booking' = [booking EXCEPT ![n] = new]
  BY <1>1
<1> HIDE DEF new
<1>6. booking'[n] = new /\ \A k \in Numbers \ {n} : booking'[k] = booking[k]
  BY <1>2, <1>5
<1>7. Existing' = Existing
  BY <1>1, <1>4, <1>6 DEF Existing
<1>8. \A k \in Existing : /\ booking'[k].customer = booking[k].customer
                         /\ booking'[k].service = booking[k].service
                         /\ booking'[k].key = booking[k].key
  BY <1>3, <1>6 DEF Existing
<1>9. CurrentSerial' = CurrentSerial
  BY <1>1, <1>7 DEF CurrentSerial
<1>10. Typed'
  <2>1. booking' \in [Numbers -> BookingRow \cup {NoBooking}]
    BY <1>2, <1>3, <1>5
  <2>2. QED BY <1>1, <1>7, <1>8, <2>1 DEF IInv, Typed, TypeOK, locks
<1>11. SequenceCounts'
  BY <1>1, <1>7, <1>9 DEF IInv, SequenceCounts
<1>12. OneAnswerPerKey'
  <2>1. ASSUME NEW k \in Existing', booking'[k].key \in Keys
        PROVE  \E i \in DOMAIN record'[booking'[k].customer][booking'[k].key].bookings :
                  record'[booking'[k].customer][booking'[k].key].bookings[i] = k
    <3>1. /\ k \in Existing /\ booking'[k].customer = booking[k].customer
          /\ booking'[k].key = booking[k].key /\ record' = record
      BY <1>1, <1>7, <1>8
    <3>2. QED BY <2>1, <3>1 DEF IInv, OneAnswerPerKey
  <2>2. QED BY <2>1 DEF OneAnswerPerKey
<1>13. ASSUME NEW v \in Workers
       PROVE  WorkerInv(v)'
  <2>1. Undisturbed(v)
    BY <1>1, <1>9 DEF Undisturbed, locks
  <2>2. QED BY <2>1, OthersKeep DEF IInv
<1>14. QED BY <1>10, <1>11, <1>12, <1>13 DEF IInv

\* What a request has made: the numbers after the current one, each once.
LEMMA MadeFacts ==
    ASSUME IInv, NEW w \in Workers, Working(w)
    PROVE  /\ MadeOf(w) \subseteq [number : Numbers, service : Services]
           /\ Numbered(w) \subseteq Numbers
           /\ Numbered(w) = {CurrentSerial + i : i \in 1..Len(job[w].made)}
           /\ \A x, y \in MadeOf(w) : x.number = y.number => x = y
           /\ Cardinality(MadeOf(w)) = Len(job[w].made) /\ Len(job[w].made) \in Nat
           /\ CurrentSerial \in 0..MaxSerial
<1>1. /\ job[w].made \in Seq([number : Numbers, service : Services])
      /\ Len(job[w].made) \in Nat /\ DOMAIN job[w].made = 1..Len(job[w].made)
  BY JobFacts DEF IInv, Typed, TypeOK
<1> DEFINE S == [number : Numbers, service : Services]
           n == Len(job[w].made)
<1>2. job[w].made \in [1..n -> S]
  BY <1>1, LenProperties
<1>3. \A i \in 1..n : job[w].made[i].number = CurrentSerial + i
  BY <1>1 DEF IInv, WorkerInv, NumbersOf
<1>4. CurrentSerial \in 0..MaxSerial /\ CurrentSerial \in Nat
  BY SerialFacts DEF IInv, SequenceCounts
<1>5. \A i, j \in 1..n : job[w].made[i].number = job[w].made[j].number => i = j
  BY <1>1, <1>3, <1>4
<1>6. MadeOf(w) = {job[w].made[i] : i \in 1..n}
  BY <1>1 DEF MadeOf
<1>7. Cardinality(MadeOf(w)) = n
  <2>1. \A i, j \in 1..n : job[w].made[i] = job[w].made[j] => i = j
    BY <1>5
  <2>2. job[w].made \in [1..n -> MadeOf(w)] /\ \A x \in MadeOf(w) : \E i \in 1..n : job[w].made[i] = x
    BY <1>2, <1>6
  <2>3. QED BY <1>1, <2>1, <2>2, ImageSize
<1>8. MadeOf(w) \subseteq S
  BY <1>2, <1>6
<1>9. Numbered(w) \subseteq Numbers
  BY <1>8 DEF Numbered
<1>10. Numbered(w) = {CurrentSerial + i : i \in 1..n}
  BY <1>3, <1>6 DEF Numbered
<1>11. \A x, y \in MadeOf(w) : x.number = y.number => x = y
  BY <1>5, <1>6
<1>12. QED BY <1>1, <1>4, <1>7, <1>8, <1>9, <1>10, <1>11

LEMMA CommitKeeps ==
    ASSUME IInv, NEW w \in Workers, Working(w), Commit(w)
    PROVE  IInv'
<1> DEFINE c == Customer(w)
           key == IF Request(w).kind = "lead" THEN "lead" ELSE Request(w).key
           MadeAs(n) == CHOOSE x \in MadeOf(w) : x.number = n
           Row1(n) == [status |-> "awaiting", customer |-> c, service |-> MadeAs(n).service, key |-> key]
           MadeFor(s) == CHOOSE m \in MadeOf(w) : m.service = s
           rows == [s \in Services |-> IF \E m \in MadeOf(w) : m.service = s
                                       THEN MadeFor(s).number ELSE cart[c][s]]
           answered == [items |-> Fingerprint(w), bookings |-> job[w].answer]
<1>1. /\ job[w].step = "slots" /\ customerLock[c] \in {Nobody, w} /\ Numbered(w) \cap Existing = {}
      /\ booking' = [n \in Numbers |-> IF n \in Numbered(w) THEN Row1(n) ELSE booking[n]]
      /\ cart' = IF Request(w).kind # "cart" THEN cart ELSE [cart EXCEPT ![c] = Cleaned(rows)]
      /\ record' = IF Request(w).kind = "lead" THEN record
                   ELSE [record EXCEPT ![c][Request(w).key] = answered]
      /\ sequence' = IF MadeOf(w) = {} THEN sequence ELSE CurrentSerial + Cardinality(MadeOf(w))
      /\ Release(w)
  BY DEF Commit, Completed
<1>2. /\ LocksAndJobs' /\ WorkerInv(w)'
      /\ \A v \in Workers \ {w} : job'[v] = job[v] /\ SameLocks(v)
  BY <1>1, ReleaseFacts
<1>3. /\ Request(w) \in Requests /\ job[w].answer \in Seq(Numbers)
      /\ job[w].made \in Seq([number : Numbers, service : Services])
      /\ DOMAIN job[w].made = 1..Len(job[w].made)
  BY JobFacts DEF IInv, Typed, TypeOK
<1>4. c \in Customers /\ Request(w).key \in Keys /\ key \in Keys \cup {"legacy", "lead"}
  BY <1>3, RequestFacts DEF Customer
<1>5. /\ MadeOf(w) \subseteq [number : Numbers, service : Services]
      /\ Numbered(w) \subseteq Numbers
      /\ Numbered(w) = {CurrentSerial + i : i \in 1..Len(job[w].made)}
      /\ \A x, y \in MadeOf(w) : x.number = y.number => x = y
      /\ Cardinality(MadeOf(w)) = Len(job[w].made) /\ Len(job[w].made) \in Nat
      /\ CurrentSerial \in 0..MaxSerial /\ MaxSerial \in Nat \ {0} /\ NoSequence \notin Int
  BY MadeFacts, RequestsAssumption
<1>6. \A m \in MadeOf(w) : m.number \in Numbered(w) /\ MadeAs(m.number) = m
  BY <1>5 DEF Numbered
<1>7. \A n \in Numbered(w) : MadeAs(n) \in MadeOf(w) /\ MadeAs(n).service \in Services
  BY <1>5, <1>6 DEF Numbered
<1>8. \A s \in Services : (\E m \in MadeOf(w) : m.service = s) =>
                               MadeFor(s) \in MadeOf(w) /\ MadeFor(s).service = s
  OBVIOUS
<1> HIDE DEF MadeAs, MadeFor, key, c
<1>9. \A n \in Numbered(w) : /\ Row1(n) \in BookingRow /\ Row1(n) # NoBooking
                             /\ Row1(n).customer = c /\ Row1(n).key = key
                             /\ Row1(n).service = MadeAs(n).service
  BY <1>4, <1>7 DEF BookingRow, NoBooking
<1> HIDE DEF Row1
<1>10. booking \in [Numbers -> BookingRow \cup {NoBooking}]
  BY DEF IInv, Typed
<1>11. /\ \A n \in Numbered(w) : booking'[n] = Row1(n)
       /\ \A n \in Numbers \ Numbered(w) : booking'[n] = booking[n]
       /\ booking' \in [Numbers -> BookingRow \cup {NoBooking}]
  BY <1>1, <1>5, <1>9, <1>10
<1>12. Existing' = Existing \cup Numbered(w)
  BY <1>5, <1>9, <1>11 DEF Existing
<1>13. MadeOf(w) = {} => /\ job[w].made = <<>> /\ Numbered(w) = {}
                         /\ sequence' = sequence /\ Existing' = Existing /\ CurrentSerial' = CurrentSerial
  <2>1. MadeOf(w) = {} => job[w].made = <<>>
    <3>1. MadeOf(w) = {} => DOMAIN job[w].made = {}
      BY DEF MadeOf
    <3>2. QED BY <1>3, <1>5, <3>1, EmptySeq
  <2>2. MadeOf(w) = {} => Numbered(w) = {}
    BY DEF Numbered
  <2>3. QED BY <1>1, <1>12, <2>1, <2>2 DEF CurrentSerial
<1>14. MadeOf(w) # {} => /\ job[w].made # <<>> /\ Len(job[w].made) >= 1
                         /\ sequence' = CurrentSerial + Len(job[w].made)
                         /\ sequence' \in Numbers /\ CurrentSerial' = sequence'
  <2> SUFFICES ASSUME MadeOf(w) # {} PROVE /\ job[w].made # <<>> /\ Len(job[w].made) >= 1
                         /\ sequence' = CurrentSerial + Len(job[w].made)
                         /\ sequence' \in Numbers /\ CurrentSerial' = sequence'
    OBVIOUS
  <2>1. Len(job[w].made) >= 1 /\ job[w].made # <<>>
    BY <1>3, <1>5 DEF MadeOf
  <2>2. sequence' = CurrentSerial + Len(job[w].made)
    BY <1>1, <1>5
  <2>3. CurrentSerial + Len(job[w].made) \in Numbered(w)
    BY <1>5, <2>1
  <2>4. sequence' \in Numbers
    BY <1>5, <2>2, <2>3
  <2>5. sequence' # NoSequence
    BY <1>5, <2>4 DEF Numbers
  <2>6. QED BY <2>1, <2>2, <2>4, <2>5 DEF CurrentSerial
<1>15. Rows(c, cart[c])
  BY <1>4, RowsOfCart DEF IInv
<1>16. /\ rows \in [Services -> {Absent, Open} \cup Numbers]
       /\ \A s \in Services : \/ rows[s] = cart[c][s]
                              \/ \E m \in MadeOf(w) : m.service = s /\ rows[s] = m.number
  BY <1>5, <1>8, <1>15 DEF Rows
<1> HIDE DEF rows
<1>17. /\ Cleaned(rows) \in [Services -> {Absent} \cup {rows[s] : s \in Services}]
       /\ \A s \in Services : Cleaned(rows)[s] = Absent \/ Cleaned(rows)[s] = rows[s]
  BY DEF Cleaned
<1>18. Cleaned(rows) \in [Services -> {Absent, Open} \cup Numbers]
  BY <1>16, <1>17
<1>19. /\ cart' \in [Customers -> [Services -> {Absent, Open} \cup Numbers]]
       /\ \A d \in Customers : d # c => cart'[d] = cart[d]
       /\ cart'[c] = cart[c] \/ cart'[c] = Cleaned(rows)
  BY <1>1, <1>4, <1>18 DEF IInv, Typed, TypeOK
<1>20. ASSUME NEW d \in Customers, NEW s \in Services, cart'[d][s] \in Numbers
       PROVE  /\ cart'[d][s] \in Existing'
              /\ booking'[cart'[d][s]].customer = d /\ booking'[cart'[d][s]].service = s
  <2>1. Absent \notin Numbers
    BY <1>5 DEF Absent, Numbers
  <2>2. CASE cart'[d][s] = cart[d][s]
    <3>1. Rows(d, cart[d])
      BY RowsOfCart DEF IInv
    <3>2. cart[d][s] \in Existing /\ cart[d][s] \in Numbers \ Numbered(w)
      BY <1>1, <1>20, <2>2, <3>1 DEF Rows
    <3>3. QED BY <1>11, <1>12, <2>2, <3>1, <3>2 DEF Rows
  <2>3. CASE cart'[d][s] # cart[d][s]
    <3>1. d = c /\ cart'[c] = Cleaned(rows)
      BY <1>19, <2>3
    <3>2. PICK m \in MadeOf(w) : m.service = s /\ cart'[d][s] = m.number
      BY <1>16, <1>17, <1>20, <2>1, <2>3, <3>1
    <3>3. m.number \in Numbered(w) /\ MadeAs(m.number) = m
      BY <1>6
    <3>4. QED BY <1>9, <1>11, <1>12, <3>1, <3>2, <3>3
  <2>4. QED BY <2>2, <2>3
<1>21. answered \in RecordRow /\ answered.bookings = job[w].answer
  BY <1>3 DEF RecordRow, Fingerprints, Fingerprint
<1> HIDE DEF answered
<1>22. record \in [Customers -> [Keys -> RecordRow]]
  BY DEF IInv, Typed
<1>23. /\ record' \in [Customers -> [Keys -> RecordRow]]
       /\ \A d \in Customers, k \in Keys : <<d, k>> # <<c, Request(w).key>> => record'[d][k] = record[d][k]
       /\ Request(w).kind # "lead" => record'[c][Request(w).key] = answered
       /\ Request(w).kind = "lead" => record' = record
  BY <1>1, <1>4, <1>21, <1>22
<1>24. Typed'
  <2>1. sequence' \in {NoSequence} \cup Numbers
    BY <1>13, <1>14 DEF IInv, Typed, TypeOK
  <2>2. \A n \in Existing' : booking'[n].customer \in Customers /\ booking'[n].service \in Services
    BY <1>11 DEF Existing, BookingRow
  <2>3. QED BY <1>2, <1>11, <1>19, <1>20, <1>23, <2>1, <2>2 DEF Typed, TypeOK, LocksAndJobs
<1>25. SequenceCounts'
  <2>1. CASE MadeOf(w) = {}
    BY <1>13, <2>1 DEF IInv, SequenceCounts
  <2>2. CASE MadeOf(w) # {}
    <3>1. sequence' # NoSequence
      BY <1>5, <1>14, <2>2 DEF Numbers
    <3>2. ASSUME NEW n \in Existing' PROVE n <= CurrentSerial'
      <4>1. n \in Numbers /\ n \in Nat
        BY <1>5, <3>2 DEF Existing, Numbers
      <4>2. CASE n \in Existing
        BY <1>5, <1>14, <2>2, <4>1, <4>2 DEF IInv, SequenceCounts
      <4>3. CASE n \in Numbered(w)
        BY <1>5, <1>14, <2>2, <4>1, <4>3
      <4>4. QED BY <1>12, <4>2, <4>3
    <3>3. QED BY <3>1, <3>2 DEF SequenceCounts
  <2>3. QED BY <2>1, <2>2
<1>26. OneAnswerPerKey'
  <2>1. ASSUME NEW n \in Existing', booking'[n].key \in Keys
        PROVE  \E i \in DOMAIN record'[booking'[n].customer][booking'[n].key].bookings :
                  record'[booking'[n].customer][booking'[n].key].bookings[i] = n
    <3>1. CASE n \in Numbered(w)
      <4>1. booking'[n].customer = c /\ booking'[n].key = key
        BY <1>9, <1>11, <3>1
      <4>2. Request(w).kind # "lead" /\ key = Request(w).key
        BY <2>1, <4>1, RequestsAssumption DEF key
      <4>3. PICK i \in DOMAIN job[w].made : job[w].made[i].number = n
        BY <3>1 DEF Numbered, MadeOf
      <4>4. \E k \in DOMAIN job[w].answer : job[w].answer[k] = n
        BY <4>3 DEF IInv, WorkerInv, NumbersOf
      <4>5. QED BY <1>21, <1>23, <4>1, <4>2, <4>4
    <3>2. CASE n \notin Numbered(w)
      <4>1. n \in Existing /\ booking'[n] = booking[n] /\ booking[n] \in BookingRow
        BY <1>10, <1>11, <1>12, <3>2 DEF Existing
      <4>2. PICK i \in DOMAIN record[booking[n].customer][booking[n].key].bookings :
                    record[booking[n].customer][booking[n].key].bookings[i] = n
        BY <2>1, <4>1 DEF IInv, OneAnswerPerKey
      <4>3. CASE Request(w).kind = "lead"
        BY <1>23, <4>1, <4>2, <4>3
      <4>4. CASE Request(w).kind # "lead"
        <5>1. record[c][Request(w).key] = NoRecord
          BY <1>1, <4>4 DEF IInv, WorkerInv, UnansweredOf, Record, c
        <5>2. DOMAIN record[c][Request(w).key].bookings = {}
          BY <5>1 DEF NoRecord
        <5>3. <<booking[n].customer, booking[n].key>> # <<c, Request(w).key>>
          BY <4>2, <5>2
        <5>4. booking[n].customer \in Customers
          BY <4>1 DEF BookingRow
        <5>5. QED BY <1>23, <2>1, <4>1, <4>2, <5>3, <5>4
      <4>5. QED BY <4>3, <4>4
    <3>3. QED BY <3>1, <3>2
  <2>2. QED BY <2>1 DEF OneAnswerPerKey
<1>27. ASSUME NEW v \in Workers \ {w}
       PROVE  WorkerInv(v)'
  <2>1. Working(v) => CurrentSerial' = CurrentSerial \/ job[v].made = <<>>
    <3>1. CASE MadeOf(w) = {}
      BY <1>13, <3>1
    <3>2. CASE MadeOf(w) # {}
      BY <1>14, <3>2 DEF IInv, WorkerInv, HeldBy
    <3>3. QED BY <3>1, <3>2
  <2>2. ASSUME Working(v), Request(v).kind # "lead", job[v].step # "begun"
        PROVE  /\ cart'[Customer(v)] = cart[Customer(v)]
               /\ record'[Customer(v)][Request(v).key] = record[Customer(v)][Request(v).key]
    <3>1. Customer(v) # c
      BY <1>1, <2>2, AloneWithCustomer DEF c
    <3>2. Customer(v) \in Customers /\ Request(v).key \in Keys
      BY <2>2, JobFacts, RequestFacts DEF IInv, Typed, TypeOK, Customer
    <3>3. QED BY <1>19, <1>23, <3>1, <3>2
  <2>3. Undisturbed(v)
    BY <1>2, <2>1, <2>2 DEF Undisturbed, SameLocks
  <2>4. QED BY <2>3, OthersKeep DEF IInv
<1>28. QED BY <1>2, <1>24, <1>25, <1>26, <1>27 DEF IInv
-----------------------------------------------------------------------------
(* The theorems *)

LEMMA AddToCartKeeps ==
    ASSUME IInv, NEW c \in Customers, NEW s \in Services,
           \/ AddToCart(c, s) \/ RemoveFromCart(c, s)
           \/ \E n \in Numbers : MergeSavedBooking(c, s, n)
    PROVE  IInv'
<1>1. Rows(c, cart[c])
  BY RowsOfCart DEF IInv
<1>2. CASE AddToCart(c, s)
  <2> DEFINE rows == [cart[c] EXCEPT ![s] = IF @ = Absent THEN Open ELSE @]
  <2>1. Rows(c, rows)
    BY <1>1, RequestsAssumption DEF Rows, Numbers, Open
  <2>2. EditCart(c, rows)
    BY <1>2 DEF AddToCart
  <2>3. QED BY <2>1, <2>2, EditCartKeeps
<1>3. CASE RemoveFromCart(c, s)
  <2> DEFINE rows == [cart[c] EXCEPT ![s] = Absent]
  <2>1. Rows(c, rows)
    BY <1>1, RequestsAssumption DEF Rows, Numbers, Absent
  <2>2. EditCart(c, rows)
    BY <1>3 DEF RemoveFromCart
  <2>3. QED BY <2>1, <2>2, EditCartKeeps
<1>4. CASE \E n \in Numbers : MergeSavedBooking(c, s, n)
  <2>1. PICK n \in Numbers : MergeSavedBooking(c, s, n)
    BY <1>4
  <2> DEFINE rows == [cart[c] EXCEPT ![s] = n]
  <2>2. Rows(c, rows)
    BY <1>1, <2>1 DEF Rows, MergeSavedBooking, Saved
  <2>3. EditCart(c, rows)
    BY <2>1 DEF MergeSavedBooking
  <2>4. QED BY <2>2, <2>3, EditCartKeeps
<1>5. QED BY <1>2, <1>3, <1>4

LEMMA InitInvariant ==
    ASSUME Init
    PROVE  IInv
<1>1. PICK legacy \in {{}, {1}}, c \in Customers, s \in Services :
         booking = [n \in Numbers |-> IF n \in legacy
                       THEN [status |-> "settled", customer |-> c, service |-> s, key |-> "legacy"]
                       ELSE NoBooking]
  BY DEF Init
<1>2. /\ cart = [d \in Customers |-> [x \in Services |-> Absent]]
      /\ record = [d \in Customers |-> [k \in Keys |-> NoRecord]]
      /\ sequence = NoSequence /\ customerLock = [d \in Customers |-> Nobody]
      /\ slotLock = [x \in Slots |-> Nobody] /\ areaLock = [a \in Areas |-> Nobody]
      /\ sequenceLock = Nobody /\ job = [w \in Workers |-> Idle]
  BY DEF Init
<1>3. /\ booking \in [Numbers -> BookingRow \cup {NoBooking}] /\ Existing \subseteq {1}
      /\ \A n \in Existing : booking[n].customer = c /\ booking[n].service = s /\ booking[n].key = "legacy"
  BY <1>1 DEF BookingRow, NoBooking, Existing
<1>4. Absent \notin Numbers
  BY RequestsAssumption DEF Absent, Numbers
<1>5. NoRecord \in RecordRow
  BY DEF NoRecord, RecordRow, Fingerprints
<1>6. Typed
  BY <1>2, <1>3, <1>4, <1>5 DEF Typed, TypeOK, Jobs
<1>7. SequenceCounts
  BY <1>3, <1>6, SerialFacts, <1>2 DEF SequenceCounts
<1>8. OneAnswerPerKey
  BY <1>3, RequestsAssumption DEF OneAnswerPerKey
<1>9. \A w \in Workers : WorkerInv(w)
  BY <1>2, RequestsAssumption DEF WorkerInv, HeldBy, ProgressOf, SlotOrderOf, NumbersOf, UnansweredOf,
     SelectionsOf, Working
<1>10. QED BY <1>6, <1>7, <1>8, <1>9 DEF IInv

LEMMA StepInvariant ==
    ASSUME IInv, [Next]_vars
    PROVE  IInv'
<1>1. ASSUME NEW w \in Workers, NEW r \in Requests, Begin(w, r) PROVE IInv'
  BY <1>1, BeginKeeps
<1>2. ASSUME NEW w \in Workers, Step(w) PROVE IInv'
  <2>1. Working(w)
    BY <1>2 DEF Step, LockCustomer, BeginCheckoutRequest, AnswerAgain, LockSlot, ReuseBooking, LockArea,
       TakeNumber, Commit, Working, Idle
  <2>2. QED BY <1>2, <2>1, LockCustomerKeeps, BeginCheckoutRequestKeeps, AnswerAgainKeeps, LockSlotKeeps,
       ReuseBookingKeeps, LockAreaKeeps, TakeNumberKeeps, CommitKeeps DEF Step
<1>3. ASSUME NEW w \in Workers, Refuse(w) PROVE IInv'
  BY <1>3, RefuseKeeps
<1>4. ASSUME NEW c \in Customers, NEW s \in Services,
             \/ AddToCart(c, s) \/ RemoveFromCart(c, s)
             \/ \E n \in Numbers : MergeSavedBooking(c, s, n)
      PROVE  IInv'
  BY <1>4, AddToCartKeeps
<1>5. ASSUME NEW n \in Numbers, NEW status \in {"paid", "settled"}, ChangeBooking(n, status) PROVE IInv'
  BY <1>5, ChangeBookingKeeps
<1>6. CASE UNCHANGED vars
  <2>1. /\ UNCHANGED tables /\ UNCHANGED locks /\ UNCHANGED job
        /\ Existing' = Existing /\ CurrentSerial' = CurrentSerial
    BY <1>6 DEF vars, tables, locks, Existing, CurrentSerial
  <2>2. Typed' /\ SequenceCounts' /\ OneAnswerPerKey'
    <3>1. Typed'
      BY <2>1 DEF IInv, Typed, TypeOK, tables, locks
    <3>2. SequenceCounts'
      BY <2>1 DEF IInv, SequenceCounts, tables
    <3>3. OneAnswerPerKey'
      BY <2>1 DEF IInv, OneAnswerPerKey, tables
    <3>4. QED BY <3>1, <3>2, <3>3
  <2>3. ASSUME NEW v \in Workers PROVE WorkerInv(v)'
    <3>1. Undisturbed(v)
      BY <2>1 DEF Undisturbed, tables, locks
    <3>2. QED BY <3>1, OthersKeep DEF IInv
  <2>4. QED BY <2>2, <2>3 DEF IInv
<1>7. QED BY <1>1, <1>2, <1>3, <1>4, <1>5, <1>6 DEF Next

LEMMA Invariant == Spec => []IInv
BY InitInvariant, StepInvariant, PTL DEF Spec

\* The tables keep their types, and a row of the cart names a booking of its own
\* customer and service (the foreign key of CartItem and the merge of carts).
THEOREM TypeCorrect == Spec => []TypeOK
BY Invariant, PTL DEF IInv, Typed

\* generate_booking_number: a number is given to one booking, whoever asks at the same
\* time and however the month's sequence came to be.
THEOREM NumbersAreGivenOnce == Spec => []NumbersAreNew
<1>1. IInv => NumbersAreNew
  <2> SUFFICES ASSUME IInv, NEW w \in Workers, Working(w)
               PROVE  /\ Numbered(w) \cap Existing = {}
                      /\ \A v \in Workers \ {w} : Working(v) => Numbered(v) \cap Numbered(w) = {}
    BY DEF NumbersAreNew
  <2>1. /\ Numbered(w) = {CurrentSerial + i : i \in 1..Len(job[w].made)}
        /\ CurrentSerial \in Nat /\ Len(job[w].made) \in Nat
    BY MadeFacts, RequestsAssumption
  <2>2. Numbered(w) \cap Existing = {}
    <3>1. ASSUME NEW n \in Existing PROVE n \notin Numbered(w)
      <4>1. n <= CurrentSerial /\ n \in Nat
        BY RequestsAssumption DEF IInv, SequenceCounts, Existing, Numbers
      <4>2. QED BY <2>1, <4>1
    <3>2. QED BY <3>1
  <2>3. ASSUME NEW v \in Workers \ {w}, Working(v)
        PROVE  Numbered(v) \cap Numbered(w) = {}
    <3>1. job[v].made = <<>> \/ job[w].made = <<>>
      BY <2>3 DEF IInv, WorkerInv, HeldBy
    <3>2. ASSUME NEW u \in Workers, job[u].made = <<>> PROVE Numbered(u) = {}
      <4>1. DOMAIN job[u].made = {}
        BY <3>2
      <4>2. QED BY <4>1 DEF Numbered, MadeOf
    <3>3. QED BY <3>1, <3>2
  <2>4. QED BY <2>2, <2>3
<1>2. QED BY <1>1, Invariant, PTL

\* begin_checkout_request: whatever is repeated, at whatever moment, a booking that a
\* key made is in the one answer the key has.
THEOREM KeysHaveOneAnswer == Spec => []OneAnswerPerKey
BY Invariant, PTL DEF IInv

\* checkout_cart: a selection for which a booking is committed had none, whatever the
\* customer did to the cart meanwhile.
THEOREM SelectionsAreBookedOnce == Spec => SelectionBookedOnce
<1>1. IInv => [\A w \in Workers : Commit(w) /\ Request(w).kind = "cart" =>
                 \A m \in MadeOf(w) : cart[Customer(w)][m.service] = Open]_vars
  <2> SUFFICES ASSUME IInv, NEW w \in Workers, Commit(w), Request(w).kind = "cart", NEW m \in MadeOf(w)
               PROVE  cart[Customer(w)][m.service] = Open
    OBVIOUS
  <2>1. Working(w)
    BY DEF Commit, Working, Idle
  <2>2. QED BY <2>1 DEF IInv, WorkerInv, SelectionsOf, MadeOf
<1>2. QED BY <1>1, Invariant, PTL DEF SelectionBookedOnce

\* Who w waits for, of those who serve a customer.
LEMMA WaitCases ==
    ASSUME IInv, NEW v \in Workers, NEW w \in Workers, Working(w), v \in WaitsForOrdered(w)
    PROVE  \/ job[w].step = "begun" /\ customerLock[Customer(w)] = v
           \/ job[w].step = "slots" /\ Unheld(w) # {} /\ slotLock[NextSlot(w)] = v
           \/ job[w].step = "numbering" /\ sequenceLock = v
           \/ job[w].step = "slots" /\ Done(w) /\ customerLock[Customer(w)] = v
BY DEF WaitsForOrdered

\* A circle has a smallest one within it.
LEMMA SmallestCircle ==
    ASSUME NEW C, IsFiniteSet(C), Circle(C)
    PROVE  \E T \in SUBSET C : Circle(T) /\ \A U \in SUBSET T : Circle(U) => U = T
<1> DEFINE B == {U \in SUBSET C : Circle(U)}
<1>1. FiniteSubsetsOf(C) = SUBSET C
  BY FS_FiniteSubsetsOfFinite
<1>2. IsWellFoundedOn(StrictSubsetOrdering(C), SUBSET C)
  BY <1>1, FS_StrictSubsetOrderingWellFounded
<1>3. B \in SUBSET (SUBSET C) /\ C \in B
  OBVIOUS
<1> HIDE DEF B
<1>4. PICK T \in B : \A U \in B : ~(<<U, T>> \in StrictSubsetOrdering(C))
  BY <1>2, <1>3, WFMin
<1>5. \A U \in B : U \subseteq T => U = T
  BY <1>3, <1>4 DEF StrictSubsetOrdering
<1>6. QED BY <1>5 DEF B

\* A customer's request for whose rows another one waits has left the customer's row
\* behind: it waits for a slot or for the sequence.
LEMMA AwaitedWait ==
    ASSUME IInv, NEW w \in ByCustomer, NEW v \in ByCustomer, NEW u \in ByCustomer,
           v # w, u # v, v \in WaitsForOrdered(w), u \in WaitsForOrdered(v)
    PROVE  \/ job[v].step = "slots" /\ Unheld(v) # {} /\ slotLock[NextSlot(v)] = u
           \/ job[v].step = "numbering" /\ sequenceLock = u
<1>1. /\ w \in Workers /\ Working(w) /\ Request(w).kind # "lead" /\ Customer(w) \in Customers
      /\ v \in Workers /\ Working(v) /\ Request(v).kind # "lead" /\ Customer(v) \in Customers
      /\ u \in Workers
  BY JobFacts, RequestFacts DEF ByCustomer, IInv, Typed, TypeOK, Customer
<1>2. job[v].step # "begun" => customerLock[Customer(v)] = v
  BY <1>1 DEF IInv, WorkerInv, HeldBy
\* Who still waits for the customer's row holds nothing.
<1>3. CASE job[v].step = "begun"
  <2>1. sequenceLock # v /\ (\A c \in Customers : customerLock[c] # v) /\ (\A s \in Slots : slotLock[s] # v)
    BY <1>1, <1>3 DEF IInv, WorkerInv, HeldBy, ProgressOf
  <2>2. Unheld(w) # {} => NextSlot(w) \in Slots
    <3>1. Unheld(w) \subseteq Slots /\ Slots \subseteq Nat
      BY <1>1, SlotsFacts DEF IInv, Typed, TypeOK
    <3>2. QED BY <3>1, LeastNumber DEF NextSlot
  <2>3. QED BY <1>1, <2>1, <2>2, WaitCases
<1>4. CASE job[v].step # "begun"
  BY <1>1, <1>2, <1>4, WaitCases
<1>5. QED BY <1>3, <1>4

\* The slot somebody waits for is held, and so lies below the holder's own next one.
LEMMA WaitsUpwards ==
    ASSUME IInv, NEW w \in Workers, NEW v \in Workers, Working(w), Working(v),
           Unheld(w) # {}, slotLock[NextSlot(w)] = v, Unheld(v) # {}
    PROVE  /\ NextSlot(w) \in Nat /\ NextSlot(v) \in Nat
           /\ NextSlot(w) < NextSlot(v)
<1>1. Unheld(v) \subseteq Slots /\ Unheld(w) \subseteq Slots /\ Slots \subseteq Nat
  BY SlotsFacts DEF IInv, Typed, TypeOK
<1>2. NextSlot(v) \in Unheld(v) /\ NextSlot(w) \in Unheld(w)
  BY <1>1, LeastNumber DEF NextSlot
<1>3. NextSlot(w) \in SlotsOf(v) \ Unheld(v)
  BY <1>1, <1>2 DEF IInv, WorkerInv, HeldBy, Unheld
<1>4. NextSlot(w) < NextSlot(v)
  BY <1>2, <1>3 DEF IInv, WorkerInv, SlotOrderOf
<1>5. QED BY <1>1, <1>2, <1>4

\* cart.py locks the slots of a cart in the order of their ids: no checkouts wait for
\* each other in a circle.  In a smallest one everybody is waited for, and so has all its
\* slots or waits for one; but those who wait for a slot above somebody's next one
\* would be a smaller circle.
THEOREM CheckoutsNeverDeadlock == Spec => []SlotsNeverDeadlock
<1>1. IInv => SlotsNeverDeadlock
  <2> SUFFICES ASSUME IInv, NEW C \in SUBSET ByCustomer, IsFiniteSet(C), Circle(C)
               PROVE  FALSE
    BY DEF SlotsNeverDeadlock
  <2>1. PICK T \in SUBSET C : Circle(T) /\ \A U \in SUBSET T : Circle(U) => U = T
    BY SmallestCircle
  <2>2. \A w \in T : w \in ByCustomer /\ w \in Workers /\ Working(w)
    BY DEF ByCustomer
  <2>3. \A v \in T : \E w \in T \ {v} : v \in WaitsForOrdered(w)
    <3> DEFINE U == {v \in T : \E w \in T \ {v} : v \in WaitsForOrdered(w)}
    <3>1. \A w \in T : \E v \in U \ {w} : v \in WaitsForOrdered(w)
      BY <2>1 DEF Circle
    <3>2. U \in SUBSET T /\ U # {}
      BY <2>1, <3>1 DEF Circle
    <3>3. Circle(U)
      BY <3>1, <3>2 DEF Circle
    <3>4. QED BY <2>1, <3>2, <3>3
  <2>4. \A v \in T : \E u \in T \ {v} :
           \/ Unheld(v) # {} /\ slotLock[NextSlot(v)] = u
           \/ sequenceLock = u
    <3> SUFFICES ASSUME NEW v \in T
                 PROVE  \E u \in T \ {v} : \/ Unheld(v) # {} /\ slotLock[NextSlot(v)] = u
                                           \/ sequenceLock = u
      OBVIOUS
    <3>1. PICK w \in T \ {v} : v \in WaitsForOrdered(w)
      BY <2>3
    <3>2. PICK u \in T \ {v} : u \in WaitsForOrdered(v)
      BY <2>1 DEF Circle
    <3>3. QED BY <2>2, <3>1, <3>2, AwaitedWait
  \* Who holds the sequence has all its slots, and waits for nobody.
  <2>5. \A u \in T : sequenceLock # u
    <3>1. \A u \in T : sequenceLock = u => Unheld(u) = {}
      BY <2>2 DEF IInv, WorkerInv, HeldBy, ProgressOf
    <3>2. QED BY <2>4, <3>1
  <2>6. \A w \in T : \E v \in T \ {w} :
           /\ v \in WaitsForOrdered(w)
           /\ NextSlot(w) \in Nat /\ NextSlot(v) \in Nat /\ NextSlot(w) < NextSlot(v)
    <3> SUFFICES ASSUME NEW w \in T
                 PROVE  \E v \in T \ {w} :
                           /\ v \in WaitsForOrdered(w)
                           /\ NextSlot(w) \in Nat /\ NextSlot(v) \in Nat /\ NextSlot(w) < NextSlot(v)
      OBVIOUS
    <3>1. PICK x \in T \ {w} : w \in WaitsForOrdered(x)
      BY <2>3
    <3>2. PICK v \in T \ {w} : v \in WaitsForOrdered(w)
      BY <2>1 DEF Circle
    <3>3. Unheld(w) # {} /\ slotLock[NextSlot(w)] = v /\ Unheld(v) # {}
      BY <2>2, <2>4, <2>5, <3>1, <3>2, AwaitedWait
    <3>4. QED BY <2>2, <3>2, <3>3, WaitsUpwards
  <2>7. PICK x \in T : TRUE
    BY <2>1 DEF Circle
  <2> DEFINE U == {v \in T : NextSlot(x) < NextSlot(v)}
  <2>8. U \in SUBSET T /\ U # {}
    BY <2>6
  <2>9. \A w \in U : \E v \in U \ {w} : v \in WaitsForOrdered(w)
    <3> SUFFICES ASSUME NEW w \in U PROVE \E v \in U \ {w} : v \in WaitsForOrdered(w)
      OBVIOUS
    <3>1. PICK v \in T \ {w} : /\ v \in WaitsForOrdered(w)
                               /\ NextSlot(w) \in Nat /\ NextSlot(v) \in Nat
                               /\ NextSlot(w) < NextSlot(v)
      BY <2>6
    <3>2. NextSlot(x) \in Nat
      BY <2>6
    <3> DEFINE a == NextSlot(x)
               b == NextSlot(w)
               c == NextSlot(v)
    <3>3. a \in Nat /\ b \in Nat /\ c \in Nat /\ a < b /\ b < c
      BY <3>1, <3>2
    <3>4. a < c
      <4> HIDE DEF a, b, c
      <4> QED BY <3>3
    <3>5. QED BY <3>1, <3>4
  <2>10. Circle(U)
    BY <2>8, <2>9 DEF Circle
  <2>11. x \in U
    BY <2>1, <2>8, <2>10
  <2>12. QED
    <3> DEFINE a == NextSlot(x)
    <3>1. a \in Nat /\ a < a
      BY <2>6, <2>11
    <3> HIDE DEF a
    <3>2. QED BY <3>1
<1>2. QED BY <1>1, Invariant, PTL
=============================================================================
