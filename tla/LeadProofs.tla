---------------------------- MODULE LeadProofs ----------------------------
(***************************************************************************)
(* For any number of leads, bookings and workers: what holds of the leads  *)
(* that no write raced.  The invariant says of a transaction that is not   *)
(* out of date that it knows its lead as it is, and of one past its        *)
(* validation that what it is about to write is valid still.               *)
(***************************************************************************)
EXTENDS Lead, TLAPS

\* The funnel and payment statuses that the handlers set.
Funnels == {"VISITED", "CART_ADDED", "BOOKED", "PAID"}
Payments == {"NOT_REQUIRED", "PENDING", "LINK_SENT", "PAID"}
Sound(r) == r \in Row /\ r.funnel \in Funnels /\ r.payment \in Payments

\* A lead is converted with its booking, and paid only with one.
Whole(r) == Coherent(r) /\ (r.funnel = "PAID" => r.converted # None)

Rises(r, u) == /\ FunnelRank[u.funnel] >= FunnelRank[r.funnel]
               /\ PaymentRank[u.payment] >= PaymentRank[r.payment]

LeadInv(l) == Exists(l) => Sound(rows[l]) /\ (l \notin raced => Whole(rows[l]))

\* Which handlers read a lead, find one, or both.
Shape(j) ==
    /\ j.op \in {"enter", "cart", "book"} => j.lead = None
    /\ j.op \in {"convert", "edit", "bulk", "send", "settle"} => j.lead # None /\ j.found = None
    /\ j.op = "create" => j.lead # None
    /\ j.op = "capture" => j.lead = None \/ j.found = None
    /\ j.step = "find" => /\ j.found = None /\ j.op \in {"cart", "book", "create", "capture"}
                          /\ j.op = "create" \/ j.lead = None
    /\ j.op \in {"book", "create", "capture", "convert"} => j.booking \in Bookings
    /\ j.op = "capture" => j.booking \in made \ paid
    /\ j.lead # None => Exists(j.lead)
    /\ j.read # Absent => Sound(j.read)
    /\ j.op = "edit" => j.read # Absent

\* A transaction that is not out of date knows its lead as it is.
KnowsLead(j) ==
    ~j.outdated /\ j.lead # None =>
       /\ j.step \in {"find", "check"} \/ j.op = "edit" => j.read = rows[j.lead]
       /\ j.op \in {"convert", "create"} => ~AlreadyConverted(rows[j.lead])
       /\ j.op = "capture" => j.booking \in {rows[j.lead].pending, rows[j.lead].converted}
       /\ j.op = "send" => rows[j.lead].payment # "PAID"
       /\ j.op = "settle" => rows[j.lead].converted # None

\* What was validated is valid still.
StillValid(j) ==
    ~j.outdated /\ j.step = "commit" =>
       \A l \in Targets(j) :
          /\ Coherent(Written(j, l))
          /\ Written(j, l).status \in Active => \A m \in Leads \ {l} : ~IsActive(m)

Informed(j) == Shape(j) /\ KnowsLead(j) /\ StillValid(j)

Busy(w) == job[w] # Idle

\* A lead that was found is active and locked, or its row is new; no other is locked.
FoundIsHeld(w) == LET f == job[w].found IN
    /\ f # None => ~Exists(f) \/ (IsActive(f) /\ lock[f] = w)
    /\ \A l \in Leads : lock[l] = w => f = l

WorkerInv(w) == Busy(w) => Informed(job[w]) /\ FoundIsHeld(w)

\* Two transactions have found different leads, and capture different bookings.
Differ(j, k) == /\ j.found # None => j.found # k.found
                /\ j.op = "capture" /\ k.op = "capture" => j.booking # k.booking
Apart(v, w) == Busy(v) /\ Busy(w) => Differ(job[v], job[w])

OwnersArePaid == \A b \in Bookings : owner[b] # None => b \in paid /\ Exists(owner[b])

IInv == /\ TypeOK
        /\ job \in [Workers -> Jobs \cup {Idle}]
        /\ OneActiveLead
        /\ PaidLeadIsKept
        /\ OwnersArePaid
        /\ \A l \in Leads : LeadInv(l)
        /\ \A w \in Workers : WorkerInv(w)
        /\ \A v, w \in Workers : v # w => Apart(v, w)
-----------------------------------------------------------------------------
(* Rows *)

LEMMA Records ==
    /\ Absent \notin Row /\ Idle \notin Jobs
    /\ Absent.status \notin Active
    /\ Sound(NewLead) /\ Whole(NewLead)
    /\ NewLead.funnel # "PAID"
    /\ \A r : Sound(r) => r # Absent
BY LeadAssumption DEF Absent, Row, Idle, Jobs, Active, Statuses, NewLead, Sound, Whole, Coherent,
   Funnels, Payments, FunnelRank, PaymentRank

LEMMA Ranks ==
    /\ FunnelRank["VISITED"] = 10 /\ FunnelRank["CART_ADDED"] = 20
    /\ FunnelRank["BOOKED"] = 40 /\ FunnelRank["PAID"] = 50
    /\ PaymentRank["NOT_REQUIRED"] = 10 /\ PaymentRank["PENDING"] = 20
    /\ PaymentRank["LINK_SENT"] = 30 /\ PaymentRank["PAID"] = 40
    /\ DOMAIN FunnelRank = Funnels \cup {"UNPAID", "CANCELLED", "LOST"}
    /\ DOMAIN PaymentRank = Payments \cup {"FAILED", "REFUNDED"}
BY DEF FunnelRank, PaymentRank, Funnels, Payments

\* Paid leaves a row as it is when the row is paid with that booking.
LEMMA PaidRow ==
    ASSUME NEW r \in Row, NEW b \in Bookings
    PROVE  Paid(r, b) = r <=> /\ r.status = "CONVERTED" /\ r.converted = b /\ r.pending = None
                              /\ r.payment = "PAID" /\ r.funnel = "PAID"
BY DEF Paid, Row

LEMMA SettledRow ==
    ASSUME NEW r \in Row, r.payment = "PAID", r.funnel = "PAID"
    PROVE  Settled(r) = r
BY DEF Settled, Row

\* An upsert only raises the funnel and the payment, and says of nothing that it is paid.
LEMMA UpsertedRow ==
    ASSUME NEW r, Sound(r),
           NEW f \in {"CART_ADDED", "BOOKED"}, NEW p \in {"NOT_REQUIRED", "PENDING"}
    PROVE  LET u == Upserted(r, f, p) IN
           /\ Sound(u) /\ Rises(r, u)
           /\ u.status = r.status /\ u.converted = r.converted
           /\ u.funnel = "PAID" => r.funnel = "PAID"
<1> DEFINE g == Higher(FunnelRank, r.funnel, f)
           q == Higher(PaymentRank, r.payment, p)
<1>1. /\ g \in Funnels /\ FunnelRank[g] >= FunnelRank[r.funnel]
      /\ g = "PAID" => r.funnel = "PAID"
  BY Ranks DEF Higher, Sound, Funnels
<1>2. q \in Payments /\ PaymentRank[q] >= PaymentRank[r.payment]
  BY Ranks DEF Higher, Sound, Payments
<1>3. Upserted(r, f, p) = [r EXCEPT !.funnel = g, !.payment = q]
  BY DEF Upserted
<1> HIDE DEF g, q
<1>4. g \in DOMAIN FunnelRank /\ q \in DOMAIN PaymentRank
  BY <1>1, <1>2, Ranks
<1>5. QED BY <1>1, <1>2, <1>3, <1>4 DEF Sound, Rises, Row

LEMMA LinkedRow ==
    ASSUME NEW r, Sound(r), NEW b \in Bookings
    PROVE  LET u == Linked(r, b) IN
           /\ Sound(u) /\ Rises(r, u)
           /\ u.status = r.status /\ u.converted = r.converted
           /\ u.funnel = "PAID" => r.funnel = "PAID"
<1> DEFINE u == Upserted(r, "BOOKED", "PENDING")
<1>1. /\ Sound(u) /\ Rises(r, u)
      /\ u.status = r.status /\ u.converted = r.converted
      /\ u.funnel = "PAID" => r.funnel = "PAID"
  BY UpsertedRow
<1>2. Linked(r, b) = [u EXCEPT !.pending = b, !.quoted = TRUE]
  BY DEF Linked
<1> HIDE DEF u
<1>3. QED BY <1>1, <1>2 DEF Sound, Rises, Row

LEMMA SettledRows ==
    ASSUME NEW r, Sound(r)
    PROVE  /\ Sound(Settled(r)) /\ Rises(r, Settled(r))
           /\ Settled(r).status = r.status /\ Settled(r).converted = r.converted
           /\ \A b \in Bookings : /\ Sound(Paid(r, b)) /\ Rises(r, Paid(r, b))
                                  /\ Paid(Paid(r, b), b) = Paid(r, b)
                                  /\ Whole(Paid(r, b))
<1>1. /\ "PAID" \in Funnels /\ "PAID" \in DOMAIN FunnelRank
      /\ "PAID" \in Payments /\ "PAID" \in DOMAIN PaymentRank
      /\ FunnelRank["PAID"] >= FunnelRank[r.funnel]
      /\ PaymentRank["PAID"] >= PaymentRank[r.payment]
  BY Ranks DEF Sound, Funnels, Payments
<1>2. /\ Sound(Settled(r)) /\ Rises(r, Settled(r))
      /\ Settled(r).status = r.status /\ Settled(r).converted = r.converted
  BY <1>1 DEF Settled, Sound, Rises, Row
<1>3. ASSUME NEW b \in Bookings
      PROVE  /\ Sound(Paid(r, b)) /\ Rises(r, Paid(r, b))
             /\ Paid(Paid(r, b), b) = Paid(r, b)
             /\ Whole(Paid(r, b))
  <2>1. /\ Paid(r, b) \in Row
        /\ Paid(r, b).status = "CONVERTED" /\ Paid(r, b).converted = b /\ Paid(r, b).pending = None
        /\ Paid(r, b).payment = "PAID" /\ Paid(r, b).funnel = "PAID"
    BY <1>1 DEF Paid, Sound, Row, Statuses
  <2>2. QED BY <1>1, <2>1, PaidRow, LeadAssumption DEF Sound, Rises, Whole, Coherent
<1>4. QED BY <1>2, <1>3

\* What becomes of the lead that an upsert found or an operator enters.
LEMMA FoundRows ==
    ASSUME NEW j, NEW r, Sound(r), j.op \in {"enter", "cart", "book", "create", "capture"},
           j.op \in {"book", "create", "capture"} => j.booking \in Bookings
    PROVE  LET u == OnFound(j, r) IN
           /\ Sound(u) /\ Rises(r, u)
           /\ j.op # "capture" => /\ u.status = r.status /\ u.converted = r.converted
                                  /\ u.funnel = "PAID" => r.funnel = "PAID"
           /\ j.op = "capture" => Paid(u, j.booking) = u /\ Whole(u)
<1>1. CASE j.op = "enter"
  <2>1. OnFound(j, r) = r
    BY <1>1 DEF OnFound
  <2>2. Rises(r, r)
    BY Ranks DEF Rises, Sound, Funnels, Payments
  <2>3. QED BY <1>1, <2>1, <2>2
<1>2. CASE j.op = "cart"
  <2>1. OnFound(j, r) = Upserted(r, "CART_ADDED", "NOT_REQUIRED")
    BY <1>2 DEF OnFound, Carted
  <2>2. QED BY <1>2, <2>1, UpsertedRow
<1>3. CASE j.op \in {"book", "create"}
  <2>1. OnFound(j, r) = Linked(r, j.booking)
    BY <1>3 DEF OnFound
  <2>2. QED BY <1>3, <2>1, LinkedRow
<1>4. CASE j.op = "capture"
  <2> DEFINE q == Linked(r, j.booking)
  <2>1. OnFound(j, r) = Paid(q, j.booking)
    BY <1>4 DEF OnFound
  <2>2. Sound(q) /\ Rises(r, q)
    BY <1>4, LinkedRow
  <2> HIDE DEF q
  <2>3. LET u == Paid(q, j.booking) IN Sound(u) /\ Rises(q, u) /\ Paid(u, j.booking) = u /\ Whole(u)
    BY <1>4, <2>2, SettledRows
  <2>4. Rises(r, Paid(q, j.booking))
    BY <2>2, <2>3, Ranks DEF Rises, Sound, Funnels, Payments
  <2>5. QED BY <1>4, <2>1, <2>3, <2>4
<1>5. QED BY <1>1, <1>2, <1>3, <1>4

\* What a handler has to know of its lead before it writes it.
Known(j, r) == /\ j.op \in {"convert", "create"} => ~AlreadyConverted(r)
               /\ j.op = "send" => r.payment # "PAID"
               /\ j.op = "settle" => r.converted # None

LEMMA LeadRows ==
    ASSUME NEW j, NEW r, Sound(r),
           j.op \in {"capture", "convert", "create", "edit", "bulk", "send", "settle"},
           j.op \in {"capture", "convert", "create"} => j.booking \in Bookings,
           j.status \in Statuses
    PROVE  LET u == OnRead(j, r) IN
           /\ Sound(u)
           /\ Whole(r) /\ Known(j, r) => Rises(r, u) /\ (u.funnel = "PAID" => u.converted # None)
           /\ j.op = "capture" => Paid(u, j.booking) = u /\ Whole(u)
           /\ j.op \in {"convert", "create"} => /\ u.status = "CONVERTED" /\ u.converted = j.booking
                                                /\ Coherent(u)
<1>1. CASE j.op = "capture"
  <2>1. OnRead(j, r) = Paid(r, j.booking)
    BY <1>1 DEF OnRead
  <2>2. QED BY <1>1, <2>1, SettledRows DEF Whole
<1>2. CASE j.op \in {"convert", "create"}
  <2>1. OnRead(j, r) = Converted(r, j.booking)
    BY <1>2 DEF OnRead
  <2> DEFINE u == Converted(r, j.booking)
  <2>2. /\ u \in Row /\ u.status = "CONVERTED" /\ u.funnel = "BOOKED" /\ u.converted = j.booking
        /\ u.payment = r.payment
    BY <1>2, Ranks DEF Converted, Sound, Row, Statuses, Funnels
  <2> HIDE DEF u
  <2>3. Sound(u) /\ Coherent(u)
    BY <1>2, <2>2, LeadAssumption DEF Sound, Funnels, Coherent
  <2>4. Whole(r) /\ Known(j, r) => r.funnel # "PAID"
    BY <1>2 DEF Whole, Known, Coherent, AlreadyConverted
  <2>5. r.funnel # "PAID" => Rises(r, u)
    BY <2>2, Ranks DEF Rises, Sound, Funnels, Payments
  <2>6. QED BY <1>2, <2>1, <2>2, <2>3, <2>4, <2>5 DEF u
<1>3. CASE j.op \in {"edit", "bulk"}
  <2>1. OnRead(j, r) = [r EXCEPT !.status = j.status]
    BY <1>3 DEF OnRead
  <2>2. LET u == [r EXCEPT !.status = j.status] IN
        Sound(u) /\ u.funnel = r.funnel /\ u.payment = r.payment /\ u.converted = r.converted
    BY DEF Sound, Row
  <2>3. QED BY <1>3, <2>1, <2>2, Ranks DEF Whole, Rises, Sound, Funnels, Payments
<1>4. CASE j.op = "send"
  <2>1. OnRead(j, r) = LinkSent(r)
    BY <1>4 DEF OnRead
  <2>2. LET u == LinkSent(r) IN
        Sound(u) /\ u.funnel = r.funnel /\ u.payment = "LINK_SENT" /\ u.converted = r.converted
    BY Ranks DEF Sound, Row, LinkSent, Payments
  <2>3. QED BY <1>4, <2>1, <2>2, Ranks DEF Whole, Known, Rises, Sound, Funnels, Payments
<1>5. CASE j.op = "settle"
  <2>1. OnRead(j, r) = Settled(r)
    BY <1>5 DEF OnRead
  <2>2. QED BY <1>5, <2>1, SettledRows DEF Known
<1>6. QED BY <1>1, <1>2, <1>3, <1>4, <1>5

-----------------------------------------------------------------------------
(* What a transaction writes *)

LEMMA IInvParts ==
    ASSUME IInv
    PROVE  /\ rows \in [Leads -> Row \cup {Absent}]
           /\ lock \in [Leads -> Workers \cup {None}]
           /\ made \subseteq Bookings /\ paid \subseteq made /\ raced \subseteq Leads
           /\ owner \in [Bookings -> Leads \cup {None}]
           /\ \A l \in Leads : Exists(l) => Sound(rows[l])
           /\ \A l \in Leads : IsActive(l) => Exists(l)
           /\ \A w \in Workers : job[w] = Idle => \A l \in Leads : lock[l] # w
           /\ \A w \in Workers : Busy(w) => /\ job[w] \in Jobs /\ Informed(job[w])
                                            /\ FoundIsHeld(w)
BY Records DEF IInv, TypeOK, LeadInv, WorkerInv, Exists, IsActive, Busy

\* A row about to be written is sound; if the transaction is not out of date, it
\* keeps what was reached and what was paid.
LEMMA WrittenRow ==
    ASSUME IInv, NEW w \in Workers, Busy(w), job[w].step = "commit",
           NEW l \in Targets(job[w])
    PROVE  LET u == Written(job[w], l) IN
           /\ l \in Leads /\ Sound(u)
           /\ job[w].op = "capture" => Paid(u, job[w].booking) = u
           /\ ~job[w].outdated /\ l \notin raced =>
                 /\ Whole(u)
                 /\ Exists(l) => Rises(rows[l], u)
                 /\ \A b \in Bookings : owner[b] = l => Paid(u, b) = u
<1> DEFINE j == job[w]
           u == Written(j, l)
           Fresh == ~j.outdated /\ l \notin raced
<1>1. /\ j \in Jobs /\ Informed(j) /\ FoundIsHeld(w) /\ j.step = "commit"
      /\ l \in {j.lead, j.found} /\ l # None
  BY IInvParts DEF Targets
<1>2. l \in Leads /\ (Exists(l) => Sound(rows[l]))
  BY <1>1, IInvParts DEF Jobs
<1>3. Fresh => /\ Coherent(u)
               /\ Exists(l) => Whole(rows[l])
  BY <1>1, <1>2 DEF IInv, LeadInv, Informed, StillValid
<1>4. ASSUME NEW b \in Bookings, owner[b] = l, Fresh
      PROVE  /\ Exists(l) /\ b \in paid
             /\ rows[l].status = "CONVERTED" /\ rows[l].converted = b /\ rows[l].pending = None
             /\ rows[l].payment = "PAID" /\ rows[l].funnel = "PAID"
             /\ ~IsActive(l)
  <2>1. Exists(l) /\ b \in paid /\ Paid(rows[l], b) = rows[l]
    BY <1>1, <1>4 DEF IInv, OwnersArePaid, PaidLeadIsKept
  <2>2. QED BY <1>2, <2>1, PaidRow DEF Sound, IsActive, Active
<1>5. CASE l = j.lead /\ l # j.found
  <2> DEFINE r == rows[l]
  <2>1. /\ Exists(l) /\ Sound(r)
        /\ j.op \in {"capture", "convert", "create", "edit", "bulk", "send", "settle"}
        /\ j.op \in {"capture", "convert", "create"} => j.booking \in Bookings
        /\ j.status \in Statuses
    BY <1>1, <1>2, <1>5 DEF Informed, Shape, Jobs
  <2>2. /\ j.op # "edit" => u = OnRead(j, r)
        /\ j.op = "edit" => u = OnRead(j, j.read) /\ Sound(j.read)
    BY <1>1, <1>5 DEF Written, Informed, Shape
  <2>3. Fresh => /\ u = OnRead(j, r) /\ Known(j, r)
                 /\ j.op = "capture" => j.booking \in {r.pending, r.converted}
    BY <1>1, <1>5, <2>2 DEF Informed, KnowsLead, Known
  <2>4. Sound(u) /\ (j.op = "capture" => Paid(u, j.booking) = u)
    BY <2>1, <2>2, LeadRows
  <2>5. Fresh => Whole(u) /\ Rises(r, u)
    BY <1>3, <2>1, <2>3, LeadRows DEF Whole
  <2>6. ASSUME NEW b \in Bookings, owner[b] = l, Fresh
        PROVE  Paid(u, b) = u
    <3>1. /\ b \in paid /\ r \in Row
          /\ r.status = "CONVERTED" /\ r.converted = b /\ r.pending = None
          /\ r.payment = "PAID" /\ r.funnel = "PAID"
      BY <1>4, <2>1, <2>6 DEF Sound
    <3>2. j.op \in {"edit", "bulk", "settle"}
      BY <1>1, <2>1, <2>3, <2>6, <3>1, LeadAssumption DEF Known, AlreadyConverted, Informed, Shape
    <3>3. CASE j.op = "settle"
      <4>1. u = Settled(r)
        BY <2>3, <2>6, <3>3 DEF OnRead
      <4>2. u = r
        BY <3>1, <4>1, SettledRow
      <4>3. QED BY <3>1, <4>2, PaidRow
    <3>4. CASE j.op \in {"edit", "bulk"}
      <4>1. u = [r EXCEPT !.status = j.status]
        BY <2>3, <2>6, <3>4 DEF OnRead
      <4>2. u.converted = b /\ u.status = j.status
        BY <3>1, <4>1 DEF Row
      <4>3. j.status = "CONVERTED"
        BY <1>3, <2>6, <4>2, LeadAssumption DEF Coherent
      <4>4. u = r
        BY <3>1, <4>1, <4>3 DEF Row
      <4>5. QED BY <3>1, <4>4, PaidRow
    <3>5. QED BY <3>2, <3>3, <3>4
  <2>7. QED BY <1>2, <2>1, <2>4, <2>5, <2>6
<1>6. CASE l = j.found
  <2> DEFINE r == FoundRow(l)
             q == OnFound(j, r)
  <2>1. /\ j.op \in {"enter", "cart", "book", "create", "capture"}
        /\ j.op \in {"book", "create", "capture"} => j.booking \in Bookings
        /\ j.status \in Statuses
        /\ ~Exists(l) \/ IsActive(l)
    BY <1>1, <1>6 DEF Informed, Shape, Jobs, FoundIsHeld
  <2>2. Sound(r) /\ (Exists(l) => r = rows[l]) /\ (Fresh => Whole(r))
    BY <1>2, <1>3, Records DEF FoundRow
  <2>3. /\ Sound(q) /\ Rises(r, q)
        /\ j.op # "capture" => /\ q.status = r.status /\ q.converted = r.converted
                               /\ q.funnel = "PAID" => r.funnel = "PAID"
        /\ j.op = "capture" => Paid(q, j.booking) = q /\ Whole(q)
    BY <2>1, <2>2, FoundRows
  <2>4. Fresh => Whole(q)
    BY <2>2, <2>3 DEF Whole, Coherent
  <2>5. \A b \in Bookings : Fresh => owner[b] # l
    BY <1>4, <2>1
  <2>6. CASE l # j.lead
    <3>1. u = q
      BY <1>6, <2>6 DEF Written
    <3>2. QED BY <1>2, <2>2, <2>3, <2>4, <2>5, <3>1
  <2>7. CASE l = j.lead
    <3>1. j.op = "create" /\ u = OnRead(j, q) /\ Exists(l)
      BY <1>1, <1>6, <2>1, <2>7 DEF Written, Informed, Shape
    <3>2. Fresh => Known(j, q)
      <4>1. Fresh => ~AlreadyConverted(r)
        BY <1>1, <2>2, <2>7, <3>1 DEF Informed, KnowsLead
      <4>2. QED BY <2>3, <3>1, <4>1 DEF Known, AlreadyConverted
    <3> HIDE DEF q, r
    <3>3. /\ Sound(u)
          /\ Whole(q) /\ Known(j, q) => Rises(q, u) /\ (u.funnel = "PAID" => u.converted # None)
          /\ Coherent(u)
      BY <2>1, <2>3, <3>1, LeadRows
    <3>4. Fresh => Rises(r, u)
      BY <2>2, <2>3, <2>4, <3>2, <3>3, Ranks DEF Rises, Sound, Funnels, Payments
    <3>5. QED BY <1>2, <2>2, <2>4, <2>5, <3>1, <3>2, <3>3, <3>4 DEF Whole
  <2>8. QED BY <2>6, <2>7
<1>7. QED BY <1>1, <1>5, <1>6
-----------------------------------------------------------------------------
(* Steps that write no row *)

\* A transaction that begins, goes on or ends without a write disturbs nobody
\* else, if it locks or finds no lead that another one holds.
LEMMA Quiet ==
    ASSUME IInv, NEW w \in Workers, NEW j \in Jobs \cup {Idle},
           UNCHANGED <<rows, made, paid, owner, raced>>, job' = [job EXCEPT ![w] = j],
           lock' \in [Leads -> Workers \cup {None}],
           \A v \in Workers \ {w}, l \in Leads : lock'[l] = v <=> lock[l] = v,
           j = Idle => \A l \in Leads : lock'[l] # w,
           j # Idle => /\ Informed(j)
                       /\ j.found # None => \/ ~Exists(j.found)
                                            \/ IsActive(j.found) /\ lock'[j.found] = w
                       /\ \A l \in Leads : lock'[l] = w => j.found = l
                       /\ \A v \in Workers \ {w} : Busy(v) => Differ(j, job[v])
    PROVE  IInv'
<1>1. /\ job' \in [Workers -> Jobs \cup {Idle}] /\ job'[w] = j
      /\ \A v \in Workers \ {w} : job'[v] = job[v]
  BY DEF IInv
<1>2. TypeOK'
  BY <1>1, IInvParts DEF TypeOK, Busy
<1>3. OneActiveLead' /\ PaidLeadIsKept' /\ OwnersArePaid' /\ \A l \in Leads : LeadInv(l)'
  BY DEF IInv, OneActiveLead, PaidLeadIsKept, OwnersArePaid, LeadInv, Exists, IsActive, Sound
<1>4. ASSUME NEW v \in Workers, Informed(job'[v])
      PROVE  Informed(job[v])'
  <2>1. Shape(job[v])'
    BY <1>4 DEF Informed, Shape, Exists
  <2>2. KnowsLead(job[v])'
    BY <1>4 DEF Informed, KnowsLead
  <2>3. StillValid(job[v])'
    BY <1>4 DEF Informed, StillValid, IsActive, Written, FoundRow, Exists
  <2>4. QED BY <2>1, <2>2, <2>3 DEF Informed
<1>5. \A v \in Workers : WorkerInv(v)'
  <2> SUFFICES ASSUME NEW v \in Workers, job'[v] # Idle
               PROVE  Informed(job'[v]) /\ FoundIsHeld(v)'
    BY <1>4 DEF WorkerInv, Busy
  <2>1. CASE v = w
    BY <1>1, <2>1 DEF FoundIsHeld, Exists, IsActive
  <2>2. CASE v # w
    <3>1. job'[v] = job[v] /\ Busy(v) /\ Informed(job[v]) /\ FoundIsHeld(v) /\ job[v] \in Jobs
      BY <1>1, <2>2, IInvParts DEF Busy
    <3>2. QED BY <2>2, <3>1 DEF FoundIsHeld, Exists, IsActive, Jobs
  <2>3. QED BY <2>1, <2>2
<1>6. \A v, u \in Workers : v # u => Apart(v, u)'
  <2>1. \A v \in Workers \ {w} : Busy(v)' = Busy(v) /\ Apart(v, w)' = Apart(w, v)'
    BY <1>1 DEF Busy, Apart, Differ
  <2>2. \A v \in Workers \ {w} : Apart(w, v)'
    BY <1>1 DEF Apart, Busy, Differ
  <2>3. \A v, u \in Workers \ {w} : v # u => Apart(v, u)'
    BY <1>1 DEF IInv, Apart, Busy
  <2>4. QED BY <2>1, <2>2, <2>3
<1>7. QED BY <1>1, <1>2, <1>3, <1>5, <1>6 DEF IInv

LEMMA AbortStep == ASSUME IInv, NEW w \in Workers, Abort(w) PROVE IInv'
<1>1. /\ UNCHANGED <<rows, made, paid, owner, raced>> /\ job' = [job EXCEPT ![w] = Idle]
      /\ lock' = [l \in Leads |-> IF lock[l] = w THEN None ELSE lock[l]]
  BY DEF Abort, Unlocked
<1>2. lock \in [Leads -> Workers \cup {None}] /\ None \notin Workers
  BY IInvParts, LeadAssumption
<1>3. lock' \in [Leads -> Workers \cup {None}]
  BY <1>1, <1>2
<1>4. \A v \in Workers \ {w}, l \in Leads : lock'[l] = v <=> lock[l] = v
  BY <1>1, <1>2
<1>5. \A l \in Leads : lock'[l] # w
  BY <1>1, <1>2
<1>6. QED BY <1>1, <1>3, <1>4, <1>5, Quiet

LEMMA Begun ==
    ASSUME IInv, NEW w \in Workers, NEW j \in Jobs, j.found = None, Informed(j), Begin(w, j),
           j.op = "capture" => ~Capturing(j.booking)
    PROVE  IInv'
<1>1. job[w] = Idle /\ \A l \in Leads : lock[l] # w
  BY IInvParts DEF Begin, Free
<1>2. \A v \in Workers \ {w} : Busy(v) => Differ(j, job[v])
  BY DEF Differ, Capturing, Busy
<1>3. QED BY <1>1, <1>2, Quiet, IInvParts, Records DEF Begin

\* An upsert locks the active lead, or fills a row that nobody else fills.
LEMMA UpsertStep ==
    ASSUME IInv, NEW w \in Workers, NEW j \in Jobs, Upsert(w, j), Informed(j), j.step = "find",
           job[w] \in {Idle, j},
           \A v \in Workers \ {w} : Busy(v) /\ j.op = "capture" /\ job[v].op = "capture" =>
                                      j.booking # job[v].booking
    PROVE  IInv'
<1>1. PICK l \in Leads : /\ Takeable(l) \/ Spare(l)
                         /\ lock' = [lock EXCEPT ![l] = w]
                         /\ job' = [job EXCEPT ![w] = [j EXCEPT !.found = l, !.step = "check"]]
  BY DEF Upsert
<1> DEFINE k == [j EXCEPT !.found = l, !.step = "check"]
<1>2. /\ k \in Jobs /\ k.found = l /\ k.step = "check"
      /\ k.op = j.op /\ k.lead = j.lead /\ k.booking = j.booking /\ k.status = j.status
      /\ k.read = j.read /\ k.outdated = j.outdated
  BY DEF Jobs
<1>3. j.found = None /\ \A m \in Leads : lock[m] # w
  BY IInvParts, LeadAssumption DEF Informed, Shape, FoundIsHeld, Busy
<1>4. \A v \in Workers \ {w} : lock[l] # v /\ (Busy(v) => job[v].found # l)
  <2> SUFFICES ASSUME NEW v \in Workers \ {w}
               PROVE  lock[l] # v /\ (Busy(v) => job[v].found # l)
    OBVIOUS
  <2>1. /\ lock[l] = v => Busy(v) /\ job[v].found = l
        /\ Busy(v) /\ job[v].found = l => ~Exists(l) \/ lock[l] = v
    BY IInvParts, LeadAssumption DEF FoundIsHeld, Busy
  <2>2. CASE Takeable(l)
    BY <2>1, <2>2, IInvParts, LeadAssumption DEF Takeable
  <2>3. CASE Spare(l)
    BY <2>1, <2>3 DEF Spare, Busy
  <2>4. QED BY <1>1, <2>2, <2>3
<1>5. /\ lock' \in [Leads -> Workers \cup {None}] /\ lock'[l] = w
      /\ \A m \in Leads : lock'[m] = w => m = l
      /\ \A v \in Workers \ {w}, m \in Leads : lock'[m] = v <=> lock[m] = v
  BY <1>1, <1>3, <1>4, IInvParts
<1>6. ~Exists(l) \/ IsActive(l)
  BY <1>1 DEF Takeable, Spare
<1> HIDE DEF k
<1>7. Informed(k)
  BY <1>2 DEF Informed, Shape, KnowsLead, StillValid
<1>8. \A v \in Workers \ {w} : Busy(v) => Differ(k, job[v])
  BY <1>2, <1>4 DEF Differ
<1>9. job' = [job EXCEPT ![w] = k] /\ UNCHANGED <<rows, made, paid, owner, raced>>
  BY <1>1 DEF Upsert, k
<1>10. QED BY <1>2, <1>5, <1>6, <1>7, <1>8, <1>9, Quiet, Records

\* What a job says when it begins.
LEMMA NewJob ==
    ASSUME IInv,
           NEW op \in {"enter", "cart", "book", "capture", "convert", "create", "edit", "bulk",
                       "send", "settle"},
           NEW step \in {"find", "check"}, NEW l \in Leads \cup {None},
           NEW b \in Bookings \cup {None}, NEW s \in Statuses, l # None => Exists(l)
    PROVE  LET j == Job(op, step, l, b, s) IN
           /\ j \in Jobs /\ j.op = op /\ j.step = step /\ j.lead = l /\ j.booking = b
           /\ j.status = s /\ j.found = None /\ ~j.outdated
           /\ l = None => j.read = Absent
           /\ l # None => j.read = rows[l] /\ Sound(j.read) /\ j.read # Absent
<1>1. l # None => l \in Leads /\ rows[l] \in Row /\ Sound(rows[l]) /\ rows[l] # Absent
  BY IInvParts, Records DEF Sound
<1>2. QED BY <1>1 DEF Job, Jobs

LEMMA EnterStep == ASSUME IInv, NEW w \in Workers, EnterLead(w) PROVE IInv'
<1> DEFINE i == Job("enter", "check", None, None, "NEW")
<1>1. PICK l \in Leads : Spare(l) /\ Begin(w, [i EXCEPT !.found = l])
  BY DEF EnterLead
<1>2. /\ i \in Jobs /\ i.op = "enter" /\ i.step = "check" /\ i.lead = None
      /\ ~i.outdated /\ i.read = Absent
  <2>1. "NEW" \in Statuses /\ None \in Leads \cup {None} /\ None \in Bookings \cup {None}
    BY DEF Statuses, Active
  <2>2. QED BY <2>1, NewJob
<1> HIDE DEF i
<1> DEFINE j == [i EXCEPT !.found = l]
<1>3. /\ j \in Jobs /\ j.op = "enter" /\ j.step = "check" /\ j.lead = None
      /\ ~j.outdated /\ j.read = Absent /\ j.found = l
  BY <1>2 DEF Jobs
<1>4. Begin(w, j)
  BY <1>1
<1> HIDE DEF j
<1>5. Informed(j)
  BY <1>3 DEF Informed, Shape, KnowsLead, StillValid
<1>6. job[w] = Idle /\ \A m \in Leads : lock[m] # w
  BY <1>4, IInvParts DEF Begin, Free
<1>7. ~Exists(l) /\ \A v \in Workers \ {w} : Busy(v) => Differ(j, job[v])
  BY <1>1, <1>3 DEF Spare, Busy, Differ
<1>8. QED BY <1>3, <1>4, <1>5, <1>6, <1>7, Quiet, IInvParts, Records DEF Begin

\* A request that begins by reading a lead knows it.
LEMMA ReadStep ==
    ASSUME IInv, NEW w \in Workers, NEW l \in Leads, NEW b \in Bookings \cup {None},
           NEW op \in {"capture", "convert", "create", "edit", "bulk", "send", "settle"},
           NEW step \in {"find", "check"}, NEW s \in Statuses,
           Begin(w, Job(op, step, l, b, s)), Exists(l),
           step = "find" => op = "create",
           op \in {"capture", "convert", "create"} => b \in Bookings,
           op = "capture" => /\ b \in made \ paid /\ ~Capturing(b)
                             /\ b \in {rows[l].pending, rows[l].converted},
           op \in {"convert", "create"} => ~AlreadyConverted(rows[l]),
           op = "send" => rows[l].payment # "PAID",
           op = "settle" => rows[l].converted # None
    PROVE  IInv'
<1> DEFINE j == Job(op, step, l, b, s)
<1>1. /\ j \in Jobs /\ j.op = op /\ j.step = step /\ j.lead = l /\ j.booking = b
      /\ j.found = None /\ ~j.outdated
      /\ j.read = rows[l] /\ Sound(j.read) /\ j.read # Absent
  BY NewJob, LeadAssumption
<1>2. Begin(w, j)
  OBVIOUS
<1> HIDE DEF j
<1>3. Informed(j)
  <2>1. Shape(j)
    BY <1>1, LeadAssumption DEF Shape
  <2>2. KnowsLead(j)
    BY <1>1 DEF KnowsLead
  <2>3. StillValid(j)
    BY <1>1 DEF StillValid
  <2>4. QED BY <2>1, <2>2, <2>3 DEF Informed
<1>4. QED BY <1>1, <1>2, <1>3, Begun

\* A request that begins with a search has read nothing yet.
LEMMA SearchStep ==
    ASSUME IInv, NEW w \in Workers, NEW b \in Bookings \cup {None},
           NEW op \in {"cart", "book", "capture"},
           Free(w), Upsert(w, Job(op, "find", None, b, "NEW")),
           op \in {"book", "capture"} => b \in Bookings,
           op = "capture" => b \in made \ paid /\ ~Capturing(b)
    PROVE  IInv'
<1> DEFINE j == Job(op, "find", None, b, "NEW")
<1>1. /\ j \in Jobs /\ j.op = op /\ j.step = "find" /\ j.lead = None /\ j.booking = b
      /\ j.found = None /\ ~j.outdated /\ j.read = Absent
  <2>1. "NEW" \in Statuses
    BY DEF Statuses, Active
  <2>2. QED BY <2>1, NewJob
<1>2. Upsert(w, j)
  OBVIOUS
<1> HIDE DEF j
<1>3. Informed(j)
  BY <1>1 DEF Informed, Shape, KnowsLead, StillValid
<1>4. \A v \in Workers \ {w} : Busy(v) /\ j.op = "capture" /\ job[v].op = "capture" =>
                              j.booking # job[v].booking
  BY <1>1 DEF Capturing, Busy
<1>5. QED BY <1>1, <1>2, <1>3, <1>4, UpsertStep DEF Free

\* Every way in which a request begins.
Request(w) ==
    \/ EnterLead(w) \/ AddToCart(w)
    \/ \E b \in Bookings : CreateBooking(w, b) \/ PaymentCaptured(w, b)
    \/ \E l \in Leads, b \in Bookings : ConvertWithBooking(w, l, b) \/ ConvertByCreating(w, l, b)
    \/ \E l \in Leads, s \in Edits : Edit(w, l, s) \/ AdminForm(w, l, s) \/ BulkStatus(w, l, s)
    \/ \E l \in Leads : SendPaymentLink(w, l) \/ RecordManualPayment(w, l)

LEMMA RequestStep ==
    ASSUME IInv, NEW w \in Workers, Request(w)
    PROVE  IInv' /\ rows' = rows
<1>1. rows' = rows
  BY DEF Request, EnterLead, AddToCart, CreateBooking, PaymentCaptured, ConvertWithBooking,
     ConvertByCreating, Edit, AdminForm, BulkStatus, SendPaymentLink, RecordManualPayment,
     Begin, Upsert
<1>2. "NEW" \in Statuses /\ Edits \subseteq Statuses
  BY LeadAssumption DEF Statuses, Active
<1>3. CASE EnterLead(w)
  BY <1>1, <1>3, EnterStep
<1>4. CASE AddToCart(w)
  BY <1>1, <1>4, SearchStep DEF AddToCart
<1>5. ASSUME NEW b \in Bookings, CreateBooking(w, b) PROVE IInv'
  BY <1>5, SearchStep DEF CreateBooking
<1>6. ASSUME NEW b \in Bookings, PaymentCaptured(w, b) PROVE IInv'
  <2>1. CASE Free(w) /\ Upsert(w, Job("capture", "find", None, b, "NEW"))
    BY <1>6, <2>1, SearchStep DEF PaymentCaptured
  <2>2. CASE \E l \in Leads : /\ Exists(l) /\ b \in {rows[l].pending, rows[l].converted}
                              /\ Begin(w, Job("capture", "check", l, b, "NEW"))
    BY <1>2, <1>6, <2>2, ReadStep DEF PaymentCaptured
  <2>3. QED BY <1>6, <2>1, <2>2 DEF PaymentCaptured
<1>7. ASSUME NEW l \in Leads, NEW b \in Bookings,
             ConvertWithBooking(w, l, b) \/ ConvertByCreating(w, l, b)
      PROVE  IInv'
  BY <1>2, <1>7, ReadStep DEF ConvertWithBooking, ConvertByCreating
<1>8. ASSUME NEW l \in Leads, NEW s \in Edits,
             Edit(w, l, s) \/ AdminForm(w, l, s) \/ BulkStatus(w, l, s)
      PROVE  IInv'
  BY <1>2, <1>8, ReadStep DEF Edit, AdminForm, BulkStatus
<1>9. ASSUME NEW l \in Leads, SendPaymentLink(w, l) \/ RecordManualPayment(w, l) PROVE IInv'
  BY <1>2, <1>9, ReadStep DEF SendPaymentLink, RecordManualPayment
<1>10. QED BY <1>1, <1>3, <1>4, <1>5, <1>6, <1>7, <1>8, <1>9 DEF Request

LEMMA FindActiveStep == ASSUME IInv, NEW w \in Workers, FindActive(w) PROVE IInv'
<1>1. job[w] \in Jobs /\ Informed(job[w]) /\ job[w].step = "find" /\ Upsert(w, job[w])
  BY IInvParts DEF FindActive, Busy
<1>2. \A v \in Workers \ {w} : Busy(v) => Differ(job[w], job[v])
  BY DEF IInv, Apart, FindActive, Busy
<1>3. QED BY <1>1, <1>2, UpsertStep DEF Differ

\* What a validated transaction goes on with.
LEMMA CheckedJob ==
    ASSUME NEW j \in Jobs
    PROVE  LET k == Checked(j) IN
           /\ k \in Jobs /\ k.step = "commit" /\ k.op = j.op /\ k.lead = j.lead
           /\ k.booking = j.booking /\ k.status = j.status /\ k.found = j.found
           /\ k.outdated = j.outdated
           /\ k.read = IF j.op = "edit" THEN j.read ELSE Absent
           /\ \A r : OnFound(k, r) = OnFound(j, r) /\ OnRead(k, r) = OnRead(j, r)
<1> DEFINE k == Checked(j)
<1>1. /\ k \in Jobs /\ k.step = "commit" /\ k.op = j.op /\ k.lead = j.lead
      /\ k.booking = j.booking /\ k.status = j.status /\ k.found = j.found
      /\ k.outdated = j.outdated
      /\ k.read = IF j.op = "edit" THEN j.read ELSE Absent
  BY DEF Checked, Jobs
<1> HIDE DEF k
<1>2. \A r : OnFound(k, r) = OnFound(j, r) /\ OnRead(k, r) = OnRead(j, r)
  BY <1>1 DEF OnFound, OnRead
<1>3. QED BY <1>1, <1>2 DEF k

\* What passes the validation is valid, when it is what the transaction writes.
LEMMA CheckedIsInformed ==
    ASSUME IInv, NEW w \in Workers, Busy(w), job[w].step = "check",
           FoundIsClean(job[w]), ReadIsClean(job[w])
    PROVE  Informed(Checked(job[w]))
<1> DEFINE j == job[w]
           k == Checked(j)
<1>1. j \in Jobs /\ Shape(j) /\ KnowsLead(j) /\ FoundIsHeld(w) /\ j.step = "check"
  BY IInvParts DEF Informed
<1>2. /\ k \in Jobs /\ k.step = "commit" /\ k.op = j.op /\ k.lead = j.lead
      /\ k.booking = j.booking /\ k.status = j.status /\ k.found = j.found
      /\ k.outdated = j.outdated
      /\ k.read = IF j.op = "edit" THEN j.read ELSE Absent
      /\ \A r : OnFound(k, r) = OnFound(j, r) /\ OnRead(k, r) = OnRead(j, r)
  BY <1>1, CheckedJob
<1> HIDE DEF k
<1>3. Shape(k)
  BY <1>1, <1>2 DEF Shape
<1>4. KnowsLead(k)
  BY <1>1, <1>2 DEF KnowsLead
<1>5. ASSUME ~j.outdated, NEW l \in Targets(k)
      PROVE  /\ Coherent(Written(k, l))
             /\ Written(k, l).status \in Active => \A m \in Leads \ {l} : ~IsActive(m)
  <2>1. l \in Leads /\ l # None /\ l \in {j.lead, j.found}
    BY <1>1, <1>2, <1>5 DEF Targets, Jobs
  <2>2. CASE l = j.lead /\ l # j.found
    <3>1. j.read = rows[l]
      BY <1>1, <1>5, <2>1, <2>2 DEF KnowsLead
    <3>2. Written(k, l) = OnRead(j, j.read)
      BY <1>2, <2>2, <3>1 DEF Written
    <3>3. QED BY <2>1, <2>2, <3>2 DEF ReadIsClean, Clean, Duplicated
  <2>3. CASE l = j.found /\ l # j.lead
    <3>1. Written(k, l) = OnFound(j, FoundRow(l))
      BY <1>2, <2>3 DEF Written
    <3>2. QED BY <2>1, <2>3, <3>1 DEF FoundIsClean, Clean, Duplicated
  <2>4. CASE l = j.found /\ l = j.lead
    <3> DEFINE r == FoundRow(l)
    <3>1. j.op = "create" /\ j.booking \in Bookings /\ j.status \in Statuses
      BY <1>1, <2>1, <2>4 DEF Shape, Jobs
    <3>2. Sound(r)
      BY <2>1, IInvParts, Records DEF FoundRow
    <3>3. Sound(OnFound(j, r))
      BY <3>1, <3>2, FoundRows
    <3>4. Written(k, l) = OnRead(j, OnFound(j, r))
      BY <1>2, <2>4, <3>1 DEF Written
    <3> HIDE DEF r
    <3>5. LET u == OnRead(j, OnFound(j, r)) IN Coherent(u) /\ u.status = "CONVERTED"
      BY <3>1, <3>3, LeadRows
    <3>6. QED BY <3>4, <3>5 DEF Active
  <2>5. QED BY <2>1, <2>2, <2>3, <2>4
<1>6. StillValid(k)
  BY <1>2, <1>5 DEF StillValid
<1>7. QED BY <1>3, <1>4, <1>6 DEF Informed, k

LEMMA CheckStep == ASSUME IInv, NEW w \in Workers, Check(w) PROVE IInv'
<1> DEFINE j == job[w]
<1>1. /\ j \in Jobs /\ Informed(j) /\ FoundIsHeld(w) /\ Busy(w) /\ j.step = "check"
  BY IInvParts DEF Check, Busy
<1>2. \A v \in Workers \ {w} : Busy(v) => Differ(j, job[v])
  BY <1>1 DEF IInv, Apart
<1>3. Idle \notin Jobs
  BY Records
<1>4. CASE /\ FoundIsClean(j) /\ ReadIsClean(j)
           /\ job' = [job EXCEPT ![w] = Checked(j)]
           /\ UNCHANGED <<rows, lock, made, paid, owner, raced>>
  <2> DEFINE k == Checked(j)
  <2>1. /\ k \in Jobs /\ k.found = j.found /\ k.op = j.op /\ k.booking = j.booking
    BY <1>1, CheckedJob
  <2>2. Informed(k)
    BY <1>1, <1>4, CheckedIsInformed
  <2>3. job' = [job EXCEPT ![w] = k] /\ UNCHANGED <<rows, lock, made, paid, owner, raced>>
    BY <1>4
  <2> HIDE DEF k
  <2>4. \A v \in Workers \ {w} : Busy(v) => Differ(k, job[v])
    BY <1>2, <2>1 DEF Differ
  <2>5. QED BY <1>1, <1>3, <2>1, <2>2, <2>3, <2>4, Quiet, IInvParts DEF FoundIsHeld
<1>5. CASE /\ FoundFails(j) /\ ~Refused(j)
           /\ job' = [job EXCEPT ![w].found = None]
           /\ lock' = Unlocked(w)
           /\ UNCHANGED <<rows, made, paid, owner, raced>>
  <2> DEFINE k == [j EXCEPT !.found = None]
  <2>1. /\ k \in Jobs /\ k.found = None /\ k.step = "check"
        /\ k.op = j.op /\ k.lead = j.lead /\ k.booking = j.booking /\ k.status = j.status
        /\ k.read = j.read /\ k.outdated = j.outdated
    BY <1>1 DEF Jobs
  <2>2. job' = [job EXCEPT ![w] = k]
    BY <1>5 DEF IInv
  <2> HIDE DEF k
  <2>3. Informed(k)
    BY <1>1, <2>1 DEF Informed, Shape, KnowsLead, StillValid
  <2>4. \A v \in Workers \ {w} : Busy(v) => Differ(k, job[v])
    BY <1>2, <2>1 DEF Differ
  <2>5. /\ lock' \in [Leads -> Workers \cup {None}]
        /\ \A l \in Leads : lock'[l] # w
        /\ \A v \in Workers \ {w}, l \in Leads : lock'[l] = v <=> lock[l] = v
    BY <1>5, IInvParts, LeadAssumption DEF Unlocked
  <2>6. UNCHANGED <<rows, made, paid, owner, raced>>
    BY <1>5
  <2>7. QED BY <1>3, <2>1, <2>2, <2>3, <2>4, <2>5, <2>6, Quiet
<1>6. CASE /\ ReadFails(j) /\ j.op = "capture"
           /\ job' = [job EXCEPT ![w] = [Checked(j) EXCEPT !.lead = None]]
           /\ UNCHANGED <<rows, lock, made, paid, owner, raced>>
  <2> DEFINE i == Checked(j)
             k == [i EXCEPT !.lead = None]
  <2>1. /\ i \in Jobs /\ i.found = j.found /\ i.op = j.op /\ i.booking = j.booking
        /\ i.step = "commit" /\ i.read = Absent
    BY <1>1, <1>6, CheckedJob
  <2>2. job' = [job EXCEPT ![w] = k] /\ UNCHANGED <<rows, lock, made, paid, owner, raced>>
    BY <1>6
  <2> HIDE DEF i
  <2>3. /\ k \in Jobs /\ k.found = j.found /\ k.op = "capture" /\ k.booking = j.booking
        /\ k.step = "commit" /\ k.read = Absent /\ k.lead = None
    BY <1>6, <2>1 DEF Jobs
  <2> HIDE DEF k
  <2>4. j.found = None
    BY <1>1, <1>6 DEF ReadFails, ReadIsClean, Informed, Shape
  <2>5. Informed(k)
    BY <1>1, <1>6, <2>3, <2>4 DEF Informed, Shape, KnowsLead, StillValid, Targets
  <2>6. \A v \in Workers \ {w} : Busy(v) => Differ(k, job[v])
    BY <1>2, <1>6, <2>3 DEF Differ
  <2>7. QED BY <1>1, <1>3, <2>2, <2>3, <2>4, <2>5, <2>6, Quiet, IInvParts DEF FoundIsHeld
<1>7. CASE Abort(w)
  BY <1>7, AbortStep
<1>8. QED BY <1>4, <1>5, <1>6, <1>7 DEF Check
-----------------------------------------------------------------------------
(* The commit *)

LEMMA CommitEffect ==
    ASSUME IInv, NEW w \in Workers, Commit(w)
    PROVE  /\ job[w] \in Jobs /\ Informed(job[w]) /\ FoundIsHeld(w) /\ Busy(w)
           /\ job[w].step = "commit"
           /\ Targets(job[w]) \subseteq Leads
           /\ \A l \in Targets(job[w]) : rows'[l] = Written(job[w], l) /\ Sound(rows'[l])
           /\ \A l \in Leads \ Targets(job[w]) : rows'[l] = rows[l]
           /\ rows' \in [Leads -> Row \cup {Absent}]
           /\ raced \subseteq raced' /\ raced' \subseteq Leads
           /\ \A l \in Targets(job[w]) \ raced' : ~job[w].outdated /\ l \notin raced
<1>1. /\ job[w] \in Jobs /\ Informed(job[w]) /\ FoundIsHeld(w) /\ Busy(w)
      /\ job[w].step = "commit"
  BY IInvParts DEF Commit, Busy
<1>2. Targets(job[w]) \subseteq Leads
  BY <1>1 DEF Targets, Jobs
<1>3. /\ \A l \in Targets(job[w]) : rows'[l] = Written(job[w], l) /\ Sound(rows'[l])
      /\ \A l \in Leads \ Targets(job[w]) : rows'[l] = rows[l]
      /\ rows' \in [Leads -> Row \cup {Absent}]
  <2>1. rows' = [l \in Leads |-> IF l \in Targets(job[w]) THEN Written(job[w], l) ELSE rows[l]]
    BY DEF Commit
  <2>2. \A l \in Targets(job[w]) : Sound(Written(job[w], l))
    BY <1>1, WrittenRow
  <2>3. QED BY <1>2, <2>1, <2>2, IInvParts DEF Sound
<1>4. raced' = IF job[w].outdated THEN raced \cup Targets(job[w]) ELSE raced
  BY DEF Commit
<1>5. QED BY <1>1, <1>2, <1>3, <1>4, IInvParts

\* Of two rows that one handler writes, the lead it read is converted.
LEMMA OneTarget ==
    ASSUME IInv, NEW w \in Workers, Commit(w),
           NEW l \in Targets(job[w]), NEW m \in Targets(job[w]), l # m
    PROVE  rows'[l].status \notin Active \/ rows'[m].status \notin Active
<1> DEFINE j == job[w]
           k == j.lead
<1>1. j \in Jobs /\ Shape(j)
  BY CommitEffect DEF Informed
<1>2. k \in {l, m} /\ k # None /\ j.found # None /\ k # j.found /\ k \in Leads
  BY <1>1 DEF Targets, Jobs
<1>3. j.op = "create" /\ j.booking \in Bookings /\ j.status \in Statuses /\ Sound(rows[k])
  BY <1>1, <1>2, IInvParts DEF Shape, Jobs
<1>4. rows'[k] = OnRead(j, rows[k])
  BY <1>2, <1>3, CommitEffect DEF Written
<1>5. rows'[k].status = "CONVERTED"
  BY <1>3, <1>4, LeadRows
<1>6. QED BY <1>2, <1>5 DEF Active

\* What the lead table is after a commit.
LEMMA CommitRows ==
    ASSUME IInv, NEW w \in Workers, Commit(w)
    PROVE  /\ OneActiveLead' /\ PaidLeadIsKept' /\ OwnersArePaid'
           /\ \A l \in Leads : LeadInv(l)' /\ (Exists(l) => Exists(l)')
           /\ \A l \in Leads \ raced' : Exists(l) => Rises(rows[l], rows'[l])
<1> DEFINE j == job[w]
           T == Targets(j)
<1>1. /\ j \in Jobs /\ Informed(j) /\ j.step = "commit" /\ Busy(w)
      /\ T \subseteq Leads
      /\ \A l \in T : rows'[l] = Written(j, l) /\ Sound(rows'[l])
      /\ \A l \in Leads \ T : rows'[l] = rows[l]
      /\ raced \subseteq raced'
      /\ \A l \in T \ raced' : ~j.outdated /\ l \notin raced
  BY CommitEffect
<1>2. \A l \in T \ raced' :
         /\ Whole(rows'[l])
         /\ Exists(l) => Rises(rows[l], rows'[l])
         /\ \A b \in Bookings : owner[b] = l => Paid(rows'[l], b) = rows'[l]
  BY <1>1, WrittenRow
<1>3. \A l \in Leads : Exists(l) => Exists(l)'
  BY <1>1, Records DEF Exists
<1>4. ASSUME NEW l \in Leads
      PROVE  LeadInv(l)'
  <2>1. CASE l \in T
    BY <1>1, <1>2, <2>1 DEF LeadInv, Sound, Whole, Coherent
  <2>2. CASE l \notin T
    BY <1>1, <2>2 DEF IInv, LeadInv, Exists, Sound, Whole, Coherent
  <2>3. QED BY <2>1, <2>2
<1>5. \A l \in Leads \ raced' : Exists(l) => Rises(rows[l], rows'[l])
  <2>1. ASSUME NEW l \in Leads \ T, Exists(l) PROVE Rises(rows[l], rows'[l])
    BY <1>1, <2>1, IInvParts, Ranks DEF Rises, Sound, Funnels, Payments
  <2>2. QED BY <1>2, <2>1
<1>6. ASSUME NEW l \in Leads, NEW m \in Leads, l # m,
             rows'[l].status \in Active, rows'[m].status \in Active
      PROVE  {l, m} \cap raced' # {}
  <2>1. SUFFICES ASSUME l \notin raced', m \notin raced' PROVE FALSE
    OBVIOUS
  <2>2. ASSUME NEW p \in T \ raced', NEW q \in Leads \ T,
               rows'[p].status \in Active, rows'[q].status \in Active
        PROVE  FALSE
    <3>1. ~j.outdated /\ Written(j, p).status \in Active
      BY <1>1, <2>2
    <3>2. ~IsActive(q)
      BY <1>1, <2>2, <3>1 DEF Informed, StillValid
    <3>3. QED BY <1>1, <2>2, <3>2 DEF IsActive
  <2>3. CASE l \in T /\ m \in T
    BY <1>6, <2>3, OneTarget
  <2>4. CASE l \notin T /\ m \notin T
    BY <1>1, <1>6, <2>1, <2>4 DEF IInv, OneActiveLead, IsActive
  <2>5. QED BY <1>6, <2>1, <2>2, <2>3, <2>4
<1>7. OneActiveLead'
  BY <1>6 DEF OneActiveLead, IsActive
<1>8. ASSUME NEW b \in Bookings, owner'[b] # None
      PROVE  /\ b \in paid' /\ owner'[b] \in Leads /\ rows'[owner'[b]] # Absent
             /\ owner'[b] \notin raced' => Paid(rows'[owner'[b]], b) = rows'[owner'[b]]
  <2>1. CASE owner'[b] = owner[b]
    <3>1. owner[b] \in Leads /\ b \in paid /\ Exists(owner[b])
      BY <1>8, <2>1, IInvParts DEF IInv, OwnersArePaid
    <3>2. b \in paid'
      BY <3>1 DEF Commit
    <3>3. owner[b] \notin T /\ owner[b] \notin raced' =>
             Paid(rows'[owner[b]], b) = rows'[owner[b]]
      BY <1>1, <2>1, <3>1, <1>8 DEF IInv, PaidLeadIsKept
    <3>4. rows'[owner[b]] # Absent
      BY <1>3, <3>1 DEF Exists
    <3>5. QED BY <1>2, <2>1, <3>1, <3>2, <3>3, <3>4
  <2>2. CASE owner'[b] # owner[b]
    <3>1. j.op = "capture" /\ b = j.booking /\ owner'[b] \in T
      BY <2>2, IInvParts DEF Commit
    <3>2. b \in paid'
      BY <3>1 DEF Commit
    <3>3. Paid(rows'[owner'[b]], b) = rows'[owner'[b]]
      BY <1>1, <3>1, WrittenRow
    <3>4. QED BY <1>1, <3>1, <3>2, <3>3, Records DEF Exists
  <2>3. QED BY <2>1, <2>2
<1>9. PaidLeadIsKept' /\ OwnersArePaid'
  BY <1>8 DEF PaidLeadIsKept, OwnersArePaid, Exists
<1>10. QED BY <1>3, <1>4, <1>5, <1>7, <1>9

\* A commit tells every transaction that read a lead it wrote, or that validated
\* before it made a lead active.
LEMMA CommitJobs ==
    ASSUME IInv, NEW w \in Workers, Commit(w)
    PROVE  /\ job' \in [Workers -> Jobs \cup {Idle}] /\ job'[w] = Idle
           /\ \A v \in Workers \ {w} :
                 /\ job[v] = Idle => job'[v] = Idle
                 /\ Busy(v) =>
                    /\ job'[v] \in Jobs
                    /\ job'[v].op = job[v].op /\ job'[v].step = job[v].step
                    /\ job'[v].lead = job[v].lead /\ job'[v].booking = job[v].booking
                    /\ job'[v].read = job[v].read /\ job'[v].found = job[v].found
                    /\ ~job'[v].outdated =>
                          /\ job'[v] = job[v] /\ job[v].lead \notin Targets(job[w])
                          /\ job[v].step = "commit" => \A l \in Targets(job[w]) : ~Takes(l)
<1> DEFINE j == job[w]
           Told(v) == \/ job[v].lead \in Targets(j)
                      \/ job[v].step = "commit" /\ \E l \in Targets(j) : Takes(l)
           Later(v) == IF job[v] # Idle /\ Told(v) THEN [job[v] EXCEPT !.outdated = TRUE] ELSE job[v]
<1>1. job' = [v \in Workers |-> IF v = w THEN Idle ELSE Later(v)]
  BY DEF Commit
<1>2. ASSUME NEW v \in Workers, Busy(v)
      PROVE  LET k == [job[v] EXCEPT !.outdated = TRUE] IN
             /\ job[v] \in Jobs /\ k \in Jobs /\ k.outdated
             /\ k.op = job[v].op /\ k.step = job[v].step
             /\ k.lead = job[v].lead /\ k.booking = job[v].booking
             /\ k.read = job[v].read /\ k.found = job[v].found
  BY <1>2, IInvParts DEF Jobs
<1> HIDE DEF Told
<1>3. \A v \in Workers : Later(v) \in Jobs \cup {Idle}
  BY <1>2 DEF Busy
<1>4. ASSUME NEW v \in Workers \ {w}, Busy(v)
      PROVE  /\ job'[v] = Later(v) /\ Later(v) \in Jobs
             /\ job'[v].op = job[v].op /\ job'[v].step = job[v].step
             /\ job'[v].lead = job[v].lead /\ job'[v].booking = job[v].booking
             /\ job'[v].read = job[v].read /\ job'[v].found = job[v].found
             /\ ~job'[v].outdated => job'[v] = job[v] /\ ~Told(v)
  BY <1>1, <1>2, <1>4 DEF Busy
<1>5. QED BY <1>1, <1>3, <1>4 DEF Told, Busy

\* What others found is not written.
LEMMA CommitKeepsFound ==
    ASSUME IInv, NEW w \in Workers, Commit(w), NEW v \in Workers \ {w}, Busy(v),
           job[v].found # None
    PROVE  /\ job[v].found \in Leads \ Targets(job[w])
           /\ rows'[job[v].found] = rows[job[v].found]
<1> DEFINE f == job[v].found
<1>1. f \in Leads /\ (~Exists(f) \/ lock[f] = v) /\ v # None
  BY IInvParts, LeadAssumption DEF Jobs, FoundIsHeld
<1>2. \A l \in Targets(job[w]) : lock[l] \in {None, w}
  BY DEF Commit
<1>3. f # job[w].found
  BY CommitEffect DEF IInv, Apart, Differ
<1>4. f = job[w].lead => Exists(f)
  BY <1>1, CommitEffect, LeadAssumption DEF Informed, Shape
<1>5. f \notin Targets(job[w])
  BY <1>1, <1>2, <1>3, <1>4 DEF Targets
<1>6. QED BY <1>1, <1>5, CommitEffect

\* Another transaction knows after a commit what it has to know, if it is not
\* out of date by then.
LEMMA CommitInforms ==
    ASSUME IInv, NEW w \in Workers, Commit(w), NEW v \in Workers \ {w}, Busy(v)
    PROVE  Informed(job[v])' /\ FoundIsHeld(v)'
<1> DEFINE T == Targets(job[w])
           k == job[v]
<1>1. k \in Jobs /\ Shape(k) /\ KnowsLead(k) /\ StillValid(k) /\ FoundIsHeld(v)
  BY IInvParts DEF Informed
<1>2. /\ job'[v] \in Jobs
      /\ job'[v].op = k.op /\ job'[v].step = k.step
      /\ job'[v].lead = k.lead /\ job'[v].booking = k.booking
      /\ job'[v].read = k.read /\ job'[v].found = k.found
      /\ ~job'[v].outdated =>
            /\ job'[v] = k /\ k.lead \notin T
            /\ k.step = "commit" => \A l \in T : ~Takes(l)
  BY CommitJobs
<1>3. /\ \A l \in Leads \ T : rows'[l] = rows[l]
      /\ \A l \in Leads : Exists(l) => Exists(l)'
  BY CommitEffect, CommitRows
<1>4. k.found # None => k.found \in Leads \ T /\ rows'[k.found] = rows[k.found]
  BY CommitKeepsFound
<1>5. Shape(job[v])'
  <2>1. k.op = "capture" => k.booking \in made' \ paid'
    <3>1. k.op = "capture" /\ job[w].op = "capture" => k.booking # job[w].booking
      BY CommitEffect DEF IInv, Apart, Differ
    <3>2. QED BY <1>1, <3>1 DEF Shape, Commit
  <2>2. k.lead # None => Exists(k.lead) /\ rows'[k.lead] # Absent
    BY <1>1, <1>3 DEF Shape, Jobs, Exists
  <2>3. QED BY <1>1, <1>2, <2>1, <2>2 DEF Shape, Exists, Sound
<1>6. ASSUME ~job'[v].outdated, k.lead # None
      PROVE  rows'[k.lead] = rows[k.lead]
  BY <1>1, <1>2, <1>3, <1>6 DEF Jobs
<1>7. KnowsLead(job[v])'
  BY <1>1, <1>2, <1>6 DEF KnowsLead, AlreadyConverted
<1>8. StillValid(job[v])'
  <2> SUFFICES ASSUME ~job'[v].outdated, k.step = "commit", NEW l \in Targets(k)
               PROVE  /\ Coherent(Written(job[v], l)')
                      /\ Written(job[v], l)'.status \in Active =>
                            \A m \in Leads \ {l} : rows'[m].status \notin Active
    BY <1>2 DEF StillValid, Targets, IsActive, Coherent
  <2>1. job'[v] = k /\ l \in Leads /\ rows'[l] = rows[l] /\ ~k.outdated
    BY <1>1, <1>2, <1>4, <1>6 DEF Targets, Jobs
  <2>2. Written(job[v], l)' = Written(k, l)
    BY <2>1 DEF Written, FoundRow, Exists
  <2>3. \A m \in Leads : ~IsActive(m) => rows'[m].status \notin Active
    BY <1>2, <1>3 DEF IsActive, Takes
  <2>4. QED BY <1>1, <2>1, <2>2, <2>3 DEF StillValid
<1>9. FoundIsHeld(v)'
  <2>1. \A l \in Leads : lock'[l] = v <=> lock[l] = v
    BY LeadAssumption DEF Commit, Unlocked
  <2>2. QED BY <1>1, <1>2, <1>4, <2>1 DEF FoundIsHeld, Exists, IsActive
<1>10. QED BY <1>5, <1>7, <1>8, <1>9 DEF Informed

LEMMA CommitStep == ASSUME IInv, NEW w \in Workers, Commit(w) PROVE IInv'
<1>1. /\ job' \in [Workers -> Jobs \cup {Idle}] /\ job'[w] = Idle
      /\ \A v \in Workers \ {w} : job[v] = Idle => job'[v] = Idle
  BY CommitJobs
<1>2. TypeOK'
  <2>1. lock' = Unlocked(w)
    BY DEF Commit
  <2>2. /\ lock' \in [Leads -> Workers \cup {None}]
        /\ \A l \in Leads : lock'[l] # w
        /\ \A v \in Workers, l \in Leads : lock'[l] = v => lock[l] = v
    BY <2>1, IInvParts, LeadAssumption DEF Unlocked
  <2>3. made' \subseteq Bookings /\ paid' \subseteq made'
    <3>1. /\ job[w].op \in {"book", "create"} => job[w].booking \in Bookings
          /\ job[w].op = "capture" => job[w].booking \in made
      BY CommitEffect DEF Informed, Shape
    <3>2. QED BY <3>1, IInvParts DEF Commit
  <2>4. owner' \in [Bookings -> Leads \cup {None}]
    BY CommitEffect, IInvParts DEF Commit
  <2>5. ASSUME NEW v \in Workers
        PROVE  job'[v] \in Jobs \/ (job'[v] = Idle /\ \A l \in Leads : lock'[l] # v)
    BY <1>1, <2>2, CommitJobs, IInvParts DEF Busy
  <2>6. QED BY <2>2, <2>3, <2>4, <2>5, CommitEffect DEF TypeOK
<1>3. \A v \in Workers : WorkerInv(v)'
  <2> SUFFICES ASSUME NEW v \in Workers, job'[v] # Idle
               PROVE  Informed(job[v])' /\ FoundIsHeld(v)'
    BY DEF WorkerInv, Busy
  <2>1. v # w /\ Busy(v)
    BY <1>1 DEF Busy
  <2>2. QED BY <2>1, CommitInforms
<1>4. \A v, u \in Workers : v # u => Apart(v, u)'
  <2> SUFFICES ASSUME NEW v \in Workers, NEW u \in Workers, v # u, Busy(v)', Busy(u)'
               PROVE  Differ(job[v], job[u])'
    BY DEF Apart
  <2>1. v # w /\ u # w /\ Busy(v) /\ Busy(u)
    BY <1>1 DEF Busy
  <2>2. Differ(job[v], job[u])
    BY <2>1 DEF IInv, Apart
  <2>3. QED BY <2>1, <2>2, CommitJobs DEF Differ
<1>5. QED BY <1>1, <1>2, <1>3, <1>4, CommitRows DEF IInv
-----------------------------------------------------------------------------
(* The theorems *)

LEMMA InitIInv == Init => IInv
<1> SUFFICES ASSUME Init PROVE IInv
  OBVIOUS
<1>1. /\ rows = [l \in Leads |-> Absent] /\ lock = [l \in Leads |-> None]
      /\ made = {} /\ paid = {} /\ raced = {}
      /\ owner = [b \in Bookings |-> None] /\ job = [w \in Workers |-> Idle]
  BY DEF Init
<1>2. TypeOK /\ job \in [Workers -> Jobs \cup {Idle}]
  BY <1>1, LeadAssumption DEF TypeOK
<1>3. \A l \in Leads : ~IsActive(l) /\ LeadInv(l)
  BY <1>1, Records DEF IsActive, LeadInv, Exists
<1>4. OneActiveLead /\ PaidLeadIsKept /\ OwnersArePaid
  BY <1>1, <1>3 DEF OneActiveLead, PaidLeadIsKept, OwnersArePaid
<1>5. \A w \in Workers : ~Busy(w)
  BY <1>1 DEF Busy
<1>6. QED BY <1>2, <1>3, <1>4, <1>5 DEF IInv, WorkerInv, Apart

\* A step but a commit leaves every lead as it is.
LEMMA NextIInv ==
    ASSUME IInv, Next
    PROVE  IInv' /\ \A l \in Leads \ raced' : Exists(l) => Rises(rows[l], rows'[l])
<1>1. PICK w \in Workers : \/ Request(w) \/ FindActive(w) \/ Check(w)
                           \/ Commit(w) \/ Conflict(w) \/ LinkIsLive(w)
  BY DEF Next, Request
<1>2. rows' = rows => \A l \in Leads : Exists(l) => Rises(rows[l], rows'[l])
  BY IInvParts, Ranks DEF Rises, Sound, Funnels, Payments
<1>3. CASE Request(w)
  BY <1>2, <1>3, RequestStep
<1>4. CASE FindActive(w)
  BY <1>2, <1>4, FindActiveStep DEF FindActive, Upsert
<1>5. CASE Check(w)
  BY <1>2, <1>5, CheckStep DEF Check, Abort
<1>6. CASE Commit(w)
  BY <1>6, CommitStep, CommitRows
<1>7. CASE Conflict(w) \/ LinkIsLive(w)
  BY <1>2, <1>7, AbortStep DEF Conflict, LinkIsLive, Abort
<1>8. QED BY <1>1, <1>3, <1>4, <1>5, <1>6, <1>7

THEOREM Invariance == Spec => []IInv
<1>1. ASSUME IInv, UNCHANGED vars PROVE IInv'
  <2>1. \A v \in Workers : WorkerInv(v)'
    BY <1>1 DEF IInv, WorkerInv, Busy, Informed, Shape, KnowsLead, StillValid, FoundIsHeld,
       Exists, IsActive, Written, FoundRow, AlreadyConverted, Targets, vars
  <2>2. QED BY <1>1, <2>1 DEF IInv, TypeOK, OneActiveLead, PaidLeadIsKept, OwnersArePaid, LeadInv,
       Exists, IsActive, Apart, Busy, vars
<1>2. QED BY InitIInv, NextIInv, <1>1, PTL DEF Spec

\* One number has one active lead per service, whatever customers, payments and
\* operators do at once, but for the leads written on an out-of-date read.
THEOREM LeadIsNotDuplicated == Spec => []OneActiveLead
BY Invariance, PTL DEF IInv

\* A lead converted by a captured advance stays converted to that very booking.
THEOREM PaymentIsKept == Spec => []PaidLeadIsKept
BY Invariance, PTL DEF IInv

\* The rows of the table, the locks and the transactions are what they should be.
THEOREM TypeCorrect == Spec => []TypeOK
BY Invariance, PTL DEF IInv

\* No step lowers the funnel or the payment status of a lead that was not raced.
THEOREM ProgressIsNotLost == Spec => ProgressIsKept
<1>1. IInv /\ [Next]_vars => [\A l \in Leads \ raced' : Exists(l) =>
          /\ FunnelRank[rows'[l].funnel] >= FunnelRank[rows[l].funnel]
          /\ PaymentRank[rows'[l].payment] >= PaymentRank[rows[l].payment]]_vars
  BY NextIInv DEF Rises
<1>2. QED BY Invariance, <1>1, PTL DEF Spec, ProgressIsKept
=============================================================================
