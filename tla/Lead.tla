-------------------------------- MODULE Lead --------------------------------
(***************************************************************************)
(* The leads of one customer and one service.  Customers fill a cart and   *)
(* book, which finds the active lead or makes one; payments convert a      *)
(* lead; operators edit, convert, settle and send payment links.  Only the *)
(* search for the active lead locks a row.  Every other handler reads its  *)
(* lead, has it validated against the table, and writes later, some of the *)
(* columns or all.  A lead whose last validation or read was out of date   *)
(* at a write is marked raced: what still holds of the others is the       *)
(* subject of the invariants.                                              *)
(***************************************************************************)
EXTENDS Naturals, FiniteSets

CONSTANTS Leads,      \* rows the table has room for
          Bookings, Workers,
          None,       \* no booking, no lead; a free lock
          Edits       \* the statuses operators set

Active == {"NEW", "CONTACTED", "INTERESTED", "FOLLOW_UP"}
Statuses == Active \cup {"CONVERTED", "LOST", "CLOSED"}

ASSUME LeadAssumption == /\ None \notin Leads \cup Bookings \cup Workers
                         /\ Edits \subseteq Statuses

VARIABLES rows,     \* the table; a row nobody made yet is Absent
          lock,     \* row locks, by worker
          made,     \* bookings
          paid,     \* bookings whose advance was captured
          owner,    \* the lead that a captured booking was recorded on
          job,      \* the transaction each worker is in
          raced     \* leads written on an out-of-date read

vars == <<rows, lock, made, paid, owner, job, raced>>

FunnelRank == [VISITED |-> 10, CART_ADDED |-> 20, UNPAID |-> 30, BOOKED |-> 40,
               PAID |-> 50, CANCELLED |-> 60, LOST |-> 70]
PaymentRank == [NOT_REQUIRED |-> 10, PENDING |-> 20, LINK_SENT |-> 30, FAILED |-> 35,
                PAID |-> 40, REFUNDED |-> 50]

\* "quoted": amounts are known; "link": a payment link was made at some time.
Row == [status : Statuses, funnel : DOMAIN FunnelRank, payment : DOMAIN PaymentRank,
        converted : Bookings \cup {None}, pending : Bookings \cup {None},
        quoted : BOOLEAN, link : BOOLEAN]
Absent == [status |-> "ABSENT"]
NewLead == [status |-> "NEW", funnel |-> "VISITED", payment |-> "NOT_REQUIRED",
            converted |-> None, pending |-> None, quoted |-> FALSE, link |-> FALSE]

Exists(l) == rows[l] # Absent
IsActive(l) == rows[l].status \in Active

\* A job: the lead it read without a lock (with what it read), the lead its
\* upsert found, its booking, and whether its reads are out of date by now.
Idle == [op |-> "none"]
Job(op, step, l, b, status) ==
    [op |-> op, step |-> step, lead |-> l, booking |-> b, status |-> status,
     read |-> IF l = None THEN Absent ELSE rows[l], found |-> None, outdated |-> FALSE]

Init == /\ rows = [l \in Leads |-> Absent]
        /\ lock = [l \in Leads |-> None]
        /\ made = {} /\ paid = {}
        /\ owner = [b \in Bookings |-> None]
        /\ job = [w \in Workers |-> Idle]
        /\ raced = {}
-----------------------------------------------------------------------------
(* What the handlers make of a lead *)

Higher_Plain(rank, current, candidate) == candidate
Higher(rank, current, candidate) ==
    IF rank[candidate] > rank[current] THEN candidate ELSE current

Upserted(r, funnel, payment) ==
    [r EXCEPT !.funnel = Higher(FunnelRank, @, funnel),
              !.payment = Higher(PaymentRank, @, payment)]

Carted(r) == Upserted(r, "CART_ADDED", "NOT_REQUIRED")
Linked(r, b) == [Upserted(r, "BOOKED", "PENDING") EXCEPT !.pending = b, !.quoted = TRUE]
Paid(r, b) == [r EXCEPT !.status = "CONVERTED", !.converted = b, !.pending = None,
                        !.payment = "PAID", !.funnel = "PAID"]
Converted(r, b) == [r EXCEPT !.status = "CONVERTED", !.funnel = "BOOKED",
                             !.converted = b, !.pending = None]
LinkSent(r) == [r EXCEPT !.payment = "LINK_SENT", !.link = TRUE]
Settled(r) == [r EXCEPT !.payment = "PAID", !.funnel = "PAID"]

\* The lead that upsert_lead found or an operator enters, as the rest of its handler leaves it.
OnFound(j, r) == CASE j.op = "enter" -> r
                   [] j.op = "cart" -> Carted(r)
                   [] j.op \in {"book", "create"} -> Linked(r, j.booking)
                   [] j.op = "capture" -> Paid(Linked(r, j.booking), j.booking)
\* The lead the handler had read.
OnRead(j, r) == CASE j.op = "capture" -> Paid(r, j.booking)
                  [] j.op \in {"convert", "create"} -> Converted(r, j.booking)
                  [] j.op \in {"edit", "bulk"} -> [r EXCEPT !.status = j.status]
                  [] j.op = "send" -> LinkSent(r)
                  [] j.op = "settle" -> Settled(r)

FoundRow(l) == IF Exists(l) THEN rows[l] ELSE NewLead

\* An edit saves every column as it was read; the others name their columns.
Written(j, l) == IF l = j.lead
                 THEN OnRead(j, IF j.op = "edit" THEN j.read
                                ELSE IF l = j.found THEN OnFound(j, FoundRow(l)) ELSE rows[l])
                 ELSE OnFound(j, FoundRow(l))
-----------------------------------------------------------------------------
(* Validation: full_clean of an instance that would be lead l *)

Coherent(r) == (r.status = "CONVERTED") <=> (r.converted # None)

Duplicated_NewOnly(l, r) == r.status = "NEW" /\ \E m \in Leads \ {l} : IsActive(m)
Duplicated(l, r) == r.status \in Active /\ \E m \in Leads \ {l} : IsActive(m)

Shares(l, r, column) == r[column] # None /\ \E m \in Leads \ {l} :
                            Exists(m) /\ rows[m][column] = r[column]
Unique(l, r) == ~Shares(l, r, "converted") /\ ~Shares(l, r, "pending")

Clean(l, r) == Coherent(r) /\ ~Duplicated(l, r) /\ Unique(l, r)
-----------------------------------------------------------------------------
(* Requests *)

\* A bound: no request begins once a lead has been raced.
Free(w) == job[w] = Idle /\ raced = {}

Begin(w, j) == /\ Free(w)
               /\ job' = [job EXCEPT ![w] = j]
               /\ UNCHANGED <<rows, lock, made, paid, owner, raced>>

Takeable(l) == IsActive(l) /\ lock[l] = None
Spare(l) == ~Exists(l) /\ \A v \in Workers : job[v] # Idle => job[v].found # l

\* upsert_lead: lock the active lead, or fill a new row, on behalf of j.
Upsert(w, j) ==
    /\ \E l \in Leads :
          /\ Takeable(l) \/ (Spare(l) /\ ~\E m \in Leads : IsActive(m))
          /\ lock' = [lock EXCEPT ![l] = w]
          /\ job' = [job EXCEPT ![w] = [j EXCEPT !.found = l, !.step = "check"]]
    /\ UNCHANGED <<rows, made, paid, owner, raced>>

\* An operator enters a lead by hand, without a search.
EnterLead(w) == \E l \in Leads :
    Spare(l) /\ Begin(w, [Job("enter", "check", None, None, "NEW") EXCEPT !.found = l])

AddToCart(w) == Free(w) /\ Upsert(w, Job("cart", "find", None, None, "NEW"))

\* A booking is made once, and by one transaction.
InHand(b) == \E v \in Workers : job[v] # Idle /\ job[v].booking = b /\ job[v].op \in {"book", "create"}

CreateBooking(w, b) == /\ b \notin made /\ ~InHand(b)
                       /\ Free(w) /\ Upsert(w, Job("book", "find", None, b, "NEW"))

Capturing(b) == \E v \in Workers : job[v] # Idle /\ job[v].booking = b /\ job[v].op = "capture"

\* The booking's row is locked throughout; the lead is looked up without a lock.
PaymentCaptured(w, b) ==
    /\ b \in made \ paid /\ ~Capturing(b)
    /\ LET known == {l \in Leads : Exists(l) /\ b \in {rows[l].pending, rows[l].converted}}
       IN \/ known = {} /\ Free(w) /\ Upsert(w, Job("capture", "find", None, b, "NEW"))
          \/ \E l \in known : Begin(w, Job("capture", "check", l, b, "NEW"))

AlreadyConverted_Never(r) == FALSE
AlreadyConverted(r) == r.status = "CONVERTED" /\ r.converted # None

ConvertWithBooking(w, l, b) == /\ Exists(l) /\ ~AlreadyConverted(rows[l]) /\ b \in made
                               /\ Begin(w, Job("convert", "check", l, b, "NEW"))

\* Address, area and slot are right; create_booking then upserts a lead itself.
ConvertByCreating(w, l, b) == /\ Exists(l) /\ ~AlreadyConverted(rows[l])
                              /\ b \notin made /\ ~InHand(b)
                              /\ Begin(w, Job("create", "find", l, b, "NEW"))

Edit(w, l, s) == Exists(l) /\ Begin(w, Job("edit", "check", l, None, s))

\* The form of the admin site, filled in from a page shown earlier.
AdminForm(w, l, s) == Exists(l) /\ Begin(w, Job("edit", "check", l, None, s))

BulkStatus(w, l, s) == /\ Exists(l) /\ rows[l].status # s
                       /\ Begin(w, Job("bulk", "check", l, None, s))

\* A link sent before may be live still, and is then sent again without a write.
SendPaymentLink(w, l) == /\ Exists(l) /\ rows[l].payment # "PAID" /\ rows[l].quoted
                         /\ Begin(w, Job("send", "check", l, None, "NEW"))

RecordManualPayment(w, l) == /\ Exists(l) /\ rows[l].converted # None
                             /\ Begin(w, Job("settle", "check", l, None, "NEW"))
-----------------------------------------------------------------------------
(* Steps of a transaction *)

Unlocked(w) == [l \in Leads |-> IF lock[l] = w THEN None ELSE lock[l]]

Abort(w) == /\ job' = [job EXCEPT ![w] = Idle]
            /\ lock' = Unlocked(w)
            /\ UNCHANGED <<rows, made, paid, owner, raced>>

FindActive(w) == /\ job[w] # Idle /\ job[w].step = "find"
                 /\ Upsert(w, job[w])

FoundIsClean(j) == j.found # None => Clean(j.found, OnFound(j, FoundRow(j.found)))
ReadIsClean(j) == j.lead # None => Clean(j.lead, OnRead(j, j.read))

\* create_booking goes on without a lead, a capture without marking its own.
FoundFails(j) == ~FoundIsClean(j)
ReadFails(j) == FoundIsClean(j) /\ ~ReadIsClean(j)
Refused(j) == (FoundFails(j) /\ j.op \in {"cart", "enter"}) \/ (ReadFails(j) /\ j.op # "capture")

\* Only an edit has use for what it read from here on.
Checked(j) == [j EXCEPT !.step = "commit", !.read = IF j.op = "edit" THEN @ ELSE Absent]

Check(w) ==
    /\ job[w] # Idle /\ job[w].step = "check"
    /\ LET j == job[w]
       IN \/ /\ FoundIsClean(j) /\ ReadIsClean(j)
             /\ job' = [job EXCEPT ![w] = Checked(j)]
             /\ UNCHANGED <<rows, lock, made, paid, owner, raced>>
          \/ /\ FoundFails(j) /\ ~Refused(j)
             /\ job' = [job EXCEPT ![w].found = None]   \* rolled back to a savepoint
             /\ lock' = Unlocked(w)
             /\ UNCHANGED <<rows, made, paid, owner, raced>>
          \/ /\ ReadFails(j) /\ j.op = "capture"
             /\ job' = [job EXCEPT ![w] = [Checked(j) EXCEPT !.lead = None]]
             /\ UNCHANGED <<rows, lock, made, paid, owner, raced>>
          \/ Refused(j) /\ Abort(w)

Targets(j) == {j.lead, j.found} \ {None}

Takes(l) == /\ ~IsActive(l) /\ rows'[l].status \in Active

\* The database's own unique indexes; a breach aborts the transaction.
FitsIndexes(j) == \A l \in Targets(j) : Unique(l, Written(j, l))

Commit(w) ==
    LET j == job[w] IN
    /\ j # Idle /\ j.step = "commit"
    /\ \A l \in Targets(j) : lock[l] \in {None, w}
    /\ FitsIndexes(j)
    /\ rows' = [l \in Leads |-> IF l \in Targets(j) THEN Written(j, l) ELSE rows[l]]
    /\ made' = IF j.op \in {"book", "create"} THEN made \cup {j.booking} ELSE made
    /\ paid' = IF j.op = "capture" THEN paid \cup {j.booking} ELSE paid
    /\ owner' = IF j.op = "capture" /\ Targets(j) # {}
                THEN [owner EXCEPT ![j.booking] = CHOOSE l \in Targets(j) : TRUE] ELSE owner
    /\ lock' = Unlocked(w)
    /\ raced' = IF j.outdated THEN raced \cup Targets(j) ELSE raced
    /\ job' = [v \in Workers |->
                 IF v = w THEN Idle
                 ELSE IF /\ job[v] # Idle
                         /\ \/ job[v].lead \in Targets(j)
                            \/ job[v].step = "commit" /\ \E l \in Targets(j) : Takes(l)
                      THEN [job[v] EXCEPT !.outdated = TRUE] ELSE job[v]]

Conflict(w) == /\ job[w] # Idle /\ job[w].step = "commit" /\ ~FitsIndexes(job[w])
               /\ Abort(w)

\* The link made earlier is live still: nothing is written.
LinkIsLive(w) == /\ job[w] # Idle /\ job[w].op = "send"
                 /\ job[w].step = "check" /\ job[w].read.link
                 /\ Abort(w)

Next == \E w \in Workers :
    \/ EnterLead(w) \/ AddToCart(w)
    \/ \E b \in Bookings : CreateBooking(w, b) \/ PaymentCaptured(w, b)
    \/ \E l \in Leads, b \in Bookings : ConvertWithBooking(w, l, b) \/ ConvertByCreating(w, l, b)
    \/ \E l \in Leads, s \in Edits : Edit(w, l, s) \/ AdminForm(w, l, s) \/ BulkStatus(w, l, s)
    \/ \E l \in Leads : SendPaymentLink(w, l) \/ RecordManualPayment(w, l)
    \/ FindActive(w) \/ Check(w) \/ Commit(w) \/ Conflict(w) \/ LinkIsLive(w)

Spec == Init /\ [][Next]_vars
-----------------------------------------------------------------------------
Jobs == [op : {"enter", "cart", "book", "capture", "convert", "create", "edit", "bulk", "send", "settle"},
         step : {"find", "check", "commit"}, lead : Leads \cup {None},
         booking : Bookings \cup {None}, status : Statuses,
         read : Row \cup {Absent}, found : Leads \cup {None}, outdated : BOOLEAN]

\* Every row is a lead the models allow, and only workers hold locks.
TypeOK == /\ rows \in [Leads -> Row \cup {Absent}]
          /\ lock \in [Leads -> Workers \cup {None}]
          /\ made \subseteq Bookings /\ paid \subseteq made /\ raced \subseteq Leads
          /\ owner \in [Bookings -> Leads \cup {None}]
          /\ \A w \in Workers : job[w] \in Jobs \/ (job[w] = Idle /\ \A l \in Leads : lock[l] # w)

\* One number has one active lead per service (Lead.clean), unless one of two
\* was written by a transaction that validated before the other one committed.
OneActiveLead == \A l, m \in Leads : IsActive(l) /\ IsActive(m) /\ l # m => {l, m} \cap raced # {}

\* Once a payment is recorded on a lead, the lead stays converted to that very
\* booking and paid: no cart, second booking or operator's action undoes it.
PaidLeadIsKept == \A b \in Bookings : LET l == owner[b] IN
    l # None /\ l \notin raced => Paid(rows[l], b) = rows[l]

\* The funnel and the payment status of a lead only ever rise (the ranks of
\* upsert_lead), whatever later visits, links and conversions report.
ProgressIsKept ==
    [][\A l \in Leads \ raced' : Exists(l) =>
          /\ FunnelRank[rows'[l].funnel] >= FunnelRank[rows[l].funnel]
          /\ PaymentRank[rows'[l].payment] >= PaymentRank[rows[l].payment]]_vars
=============================================================================
