------------------------- MODULE BookingPayments -------------------------
(***************************************************************************)
(* One booking, its advance payments, refunds, technician assignment and   *)
(* invoice: every service function that writes the booking row, as one     *)
(* action each.  A service function runs in one database transaction that  *)
(* holds the row lock of the booking (select_for_update) from its first    *)
(* read of the row to its commit, so its effect is atomic; a raised error  *)
(* rolls it back, so an error path is a step that does not happen.         *)
(*                                                                         *)
(* The payment provider (Razorpay) is external.  It captures money and     *)
(* settles refunds on its own, and what it reports reaches the booking     *)
(* late, several times and in any order: a report stays deliverable for    *)
(* ever, and a step that delivers it is enabled in any later state.        *)
(***************************************************************************)
EXTENDS Integers, FiniteSetsExt

\* An operator whose name ends in _Word is a wrong form of the one it precedes;
\* no specification uses it, it is there to show that a property can fail.

CONSTANTS Orders,         \* provider orders, one per Idempotency-Key
          Refunds,        \* provider refund ids
          Technicians,
          Nobody,         \* assigned_technician is NULL
          NoOrder,        \* a refund id the provider has not used yet
          Total,          \* booking.total_amount
          Advance,        \* booking.advance_required
          ManualAmounts,  \* amounts an operator may type for a lead's payment
          RequireBalance  \* BOOKING_REQUIRE_BALANCE_BEFORE_COMPLETION

ASSUME AmountsAssumption ==
    /\ Total \in Nat /\ Advance \in 1..Total
    /\ ManualAmounts \subseteq Nat \ {0}
    /\ RequireBalance \in BOOLEAN

ASSUME SentinelAssumption == Nobody \notin Technicians /\ NoOrder \notin Orders

VARIABLES booking,        \* the Booking row
          advance,        \* Razorpay BOOKING_ADVANCE rows, by order
          manual,         \* amount of the offline BOOKING_ADVANCE row, 0 if none
          refund,         \* REFUND rows: the local status of each provider refund
          assignments,    \* technicians with an open TechnicianAssignment row
          leadConverted,  \* a lead has this booking as converted_booking
          invoiced,       \* the Invoice row exists
          captured,       \* provider: orders whose payment it has captured
          provider        \* provider: its refunds and the statuses reported so far

local == <<booking, advance, manual, refund, assignments, leadConverted, invoiced>>
external == <<captured, provider>>
vars == <<booking, advance, manual, refund, assignments, leadConverted, invoiced,
          captured, provider>>
-----------------------------------------------------------------------------
BookingStatus == {"PENDING_PAYMENT", "PAYMENT_FAILED", "CONFIRMED",
                  "TECHNICIAN_ASSIGNED", "TECHNICIAN_EN_ROUTE", "IN_PROGRESS",
                  "COMPLETED", "CLOSED", "CANCELLED", "REFUND_PENDING", "REFUNDED"}
PaymentStatus == {"UNPAID", "PARTIALLY_PAID", "PAID", "FAILED", "REFUNDED"}
AdvanceStatus == {"NONE", "CREATED", "SUCCESS", "FAILED", "REFUNDED"}
RefundRowStatus == {"NONE", "PENDING", "SUCCESS", "FAILED"}
ProviderReport == {"pending", "processed", "failed"}

AwaitingPayment == {"PENDING_PAYMENT", "PAYMENT_FAILED"}
Startable_Refunding == {"TECHNICIAN_ASSIGNED", "TECHNICIAN_EN_ROUTE", "REFUND_PENDING"}
Startable == {"TECHNICIAN_ASSIGNED", "TECHNICIAN_EN_ROUTE"}
Assignable == {"CONFIRMED", "TECHNICIAN_ASSIGNED"}
BalanceRecordable == {"IN_PROGRESS", "TECHNICIAN_ASSIGNED"}
Cancellable(actor) ==
    IF actor = "admin"
    THEN {"PENDING_PAYMENT", "PAYMENT_FAILED", "CONFIRMED", "TECHNICIAN_ASSIGNED",
          "TECHNICIAN_EN_ROUTE", "IN_PROGRESS"}
    ELSE {"PENDING_PAYMENT", "CONFIRMED", "TECHNICIAN_ASSIGNED"}

\* Every status in which the visit goes ahead or has taken place.
InService == {"CONFIRMED", "TECHNICIAN_ASSIGNED", "TECHNICIAN_EN_ROUTE",
              "IN_PROGRESS", "COMPLETED", "CLOSED"}

\* BOOKING_CAPACITY_STATUSES, the statuses a time slot counts, and among them
\* CUSTOMER_RESCHEDULABLE_STATUSES.
Movable == {"CONFIRMED", "TECHNICIAN_ASSIGNED"}
HoldsPlace == Movable \cup {"PENDING_PAYMENT", "TECHNICIAN_EN_ROUTE", "IN_PROGRESS"}
SeatClass(status) == IF status \in Movable THEN "movable"
                     ELSE IF status \in HoldsPlace THEN "fixed" ELSE "out"

\* What the technicians' diary sees of a status (TECHNICIAN_BUSY_STATUSES: the jobs a
\* technician has).
JobStage(status) ==
    CASE status = "CONFIRMED" -> "assignable"
      [] status = "TECHNICIAN_ASSIGNED" -> "assigned"
      [] status \in {"TECHNICIAN_EN_ROUTE", "IN_PROGRESS"} -> "working"
      [] OTHER -> "out"

BookingRow == [status: BookingStatus, payment_status: PaymentStatus,
               advance_paid: Nat, balance_due: Nat, balance_collected: Nat,
               technician: Technicians \cup {Nobody},
               cancelled: BOOLEAN, manual_work_order: BOOLEAN]
AdvanceRow == [status: AdvanceStatus, ref: {"none", "captured", "failed"}]
ProviderRefund == [order: Orders \cup {NoOrder}, amount: Nat,
                   reported: SUBSET ProviderReport]

NewBooking(status, converted) ==
    [status |-> status, payment_status |-> "UNPAID", advance_paid |-> 0,
     balance_due |-> Total, balance_collected |-> 0, technician |-> Nobody,
     cancelled |-> FALSE, manual_work_order |-> converted]

\* A checkout leaves the booking PENDING_PAYMENT; a lead turned into a work
\* order creates it and confirms it in the same transaction.
Init ==
    /\ \/ booking = NewBooking("PENDING_PAYMENT", FALSE)
       \/ booking = NewBooking("CONFIRMED", TRUE)
    /\ leadConverted = booking.manual_work_order
    /\ advance = [o \in Orders |-> [status |-> "NONE", ref |-> "none"]]
    /\ manual = 0
    /\ refund = [r \in Refunds |-> "NONE"]
    /\ assignments = {}
    /\ invoiced = FALSE
    /\ captured = {}
    /\ provider = [r \in Refunds |-> [order |-> NoOrder, amount |-> 0, reported |-> {}]]
-----------------------------------------------------------------------------
(* Advance payments *)

\* ACTIVE_ADVANCE_STATUSES, which the unique constraint of Payment is over.
\* No code sets PENDING on an advance.
Active(o) == advance[o].status \in {"CREATED", "SUCCESS"}

\* The database accepts a row of order o in an active status.
ConstraintAllows(o) == manual = 0 /\ \A p \in Orders \ {o} : ~Active(p)

\* An order key that already has a row, and an active order, are answered from
\* the rows that exist and change nothing.
CreateAdvanceOrder(o) ==
    /\ booking.status \in AwaitingPayment
    /\ advance[o].status = "NONE"
    /\ manual = 0 /\ \A p \in Orders : ~Active(p)
    /\ advance' = [advance EXCEPT ![o].status = "CREATED"]
    /\ UNCHANGED <<booking, manual, refund, assignments, leadConverted, invoiced, external>>

MarkPaymentFailed(o, ref) ==
    /\ advance' = [advance EXCEPT ![o] = [status |-> "FAILED", ref |-> ref]]
    /\ booking' = IF booking.status \in AwaitingPayment
                  THEN [booking EXCEPT !.status = "PAYMENT_FAILED",
                                       !.payment_status = "FAILED"]
                  ELSE booking
    /\ UNCHANGED <<manual, refund, assignments, leadConverted, invoiced, external>>

ConfirmedAfterPayment_Added ==
    [booking EXCEPT !.advance_paid = @ + Advance,
                    !.balance_due = Total - Advance,
                    !.payment_status = "PARTIALLY_PAID",
                    !.status = "CONFIRMED"]
ConfirmedAfterPayment ==
    [booking EXCEPT !.advance_paid = Advance,
                    !.balance_due = Total - Advance,
                    !.payment_status = "PARTIALLY_PAID",
                    !.status = "CONFIRMED"]

\* The signature over order and payment is the provider's.
PaymentProven_Unchecked(o) == advance[o].status # "NONE"
PaymentProven(o) == o \in captured

\* The payment.captured webhook, or the customer's verify call with a valid
\* signature.  A SUCCESS row is answered without a change.  Synchronising the
\* lead may fail; the payment commits all the same.
ConfirmCapturedPayment(o) ==
    /\ PaymentProven(o)
    /\ advance[o].status \in {"CREATED", "FAILED", "REFUNDED"}
    /\ ConstraintAllows(o)
    /\ advance' = [advance EXCEPT ![o] = [status |-> "SUCCESS", ref |-> "captured"]]
    /\ booking' = ConfirmedAfterPayment
    /\ leadConverted' \in {leadConverted, TRUE}
    /\ UNCHANGED <<manual, refund, assignments, invoiced, external>>

\* A verify call whose signature does not match: the failure is committed
\* before the error is raised.  The payment id is the caller's.
RejectPaymentSignature(o) ==
    /\ advance[o].status \notin {"NONE", "SUCCESS"}
    /\ \E ref \in {"captured", "failed"} :
          (ref = "captured" => o \in captured) /\ MarkPaymentFailed(o, ref)

Failable(o) == advance[o].status \notin {"NONE", "SUCCESS"}

\* One attempt on an order may fail before another succeeds, so the report of
\* the failure can arrive at any time after the order was created.
PaymentFailedWebhook(o) == Failable(o) /\ MarkPaymentFailed(o, "failed")

BalanceAfter(paid) == IF paid > Total THEN 0 ELSE Total - paid

\* An operator records money taken outside the provider for a converted lead.
RecordManualPayment(amount) ==
    /\ leadConverted
    /\ manual = 0 /\ \A o \in Orders : ~Active(o)
    /\ manual' = amount
    /\ LET paid == booking.advance_paid + amount
           due  == BalanceAfter(paid)
       IN  booking' = [booking EXCEPT !.advance_paid = paid, !.balance_due = due,
                          !.payment_status = IF due = 0 THEN "PAID" ELSE "PARTIALLY_PAID"]
    /\ UNCHANGED <<advance, refund, assignments, leadConverted, invoiced, external>>

\* An operator links an existing booking to a lead: it becomes CONFIRMED from
\* whatever status it has, and the row is written without having been locked.
ConvertLead ==
    /\ ~leadConverted
    /\ leadConverted' = TRUE
    /\ booking' = [booking EXCEPT !.status = "CONFIRMED", !.manual_work_order = TRUE]
    /\ UNCHANGED <<advance, manual, refund, assignments, invoiced, external>>

\* converted_booking is also a plain writable field of the lead, and a lead can
\* be deleted; neither touches the booking.
EditLead ==
    /\ leadConverted' = ~leadConverted
    /\ UNCHANGED <<booking, advance, manual, refund, assignments, invoiced, external>>
-----------------------------------------------------------------------------
(* Refunds *)

AmountOf(p, rs) == MapThenSumSet(LAMBDA r : p[r].amount, rs)

\* The refunds of order o whose local status is in S.
RefundsOf(p, rows, o, S) == {r \in Refunds : p[r].order = o /\ rows[r] \in S}

\* The refunds of o the provider has not given up, and those it has paid out.
ProviderHeld(p, o) == {r \in Refunds : p[r].order = o /\ "failed" \notin p[r].reported}
ProviderPaid(p, o) == {r \in Refunds : p[r].order = o /\ "processed" \in p[r].reported}

RefundStatus_Optimistic(report) == IF report = "failed" THEN "FAILED" ELSE "SUCCESS"
RefundStatus(report) == CASE report = "processed" -> "SUCCESS"
                          [] report = "failed" -> "FAILED"
                          [] OTHER -> "PENDING"

SettledStatus_Keep == booking.status
SettledStatus_Restored ==
    IF booking.status # "REFUND_PENDING" THEN booking.status
    ELSE IF booking.technician # Nobody THEN "TECHNICIAN_ASSIGNED" ELSE "CONFIRMED"
SettledStatus ==
    IF booking.status # "REFUND_PENDING" THEN booking.status
    ELSE IF booking.cancelled THEN "CANCELLED" ELSE "CONFIRMED"

\* What every refund handler does last, on the rows it has just written.
ApplyRefundState(p, rows, o) ==
    LET successful == AmountOf(p, RefundsOf(p, rows, o, {"SUCCESS"}))
        pending == RefundsOf(p, rows, o, {"PENDING"}) # {}
    IN  IF successful >= Advance
        THEN /\ advance' = [advance EXCEPT ![o].status = "REFUNDED"]
             /\ booking' = [booking EXCEPT !.status = "REFUNDED",
                                           !.payment_status = "REFUNDED"]
        ELSE /\ booking' = [booking EXCEPT !.status =
                               IF pending THEN "REFUND_PENDING" ELSE SettledStatus]
             /\ UNCHANGED advance

\* The provider accepts a refund as long as it does not hold more than it captured.
ProviderAccepts(r, o, amount, report) ==
    /\ o \in captured
    /\ provider[r].order = NoOrder
    /\ amount + AmountOf(provider, ProviderHeld(provider, o)) <= Advance
    /\ provider' = [provider EXCEPT ![r] =
                      [order |-> o, amount |-> amount, reported |-> {report}]]

CreateRefund(r, o, amount, report) ==
    /\ advance[o].status \in {"SUCCESS", "REFUNDED"}
    /\ advance[o].ref = "captured"   \* the provider refuses a payment id it did not capture
    /\ amount <= Advance - AmountOf(provider, RefundsOf(provider, refund, o, {"PENDING", "SUCCESS"}))
    /\ ProviderAccepts(r, o, amount, report)
    /\ refund' = [refund EXCEPT ![r] = RefundStatus(report)]
    /\ ApplyRefundState(provider', refund', o)
    /\ UNCHANGED <<manual, assignments, leadConverted, invoiced, captured>>

\* The provider has the refund and the backend has no row for it: the process
\* stopped between the provider's answer and the commit, or the refund was
\* made in the provider's dashboard.
RefundWithoutRow(r, o, amount, report) ==
    /\ ProviderAccepts(r, o, amount, report)
    /\ UNCHANGED <<local, captured>>

\* Every status the provider ever reported for r can be delivered, in any order.
\* The source row is looked up by the payment id it carries.
RefundWebhook(r, report) ==
    LET o == provider[r].order IN
    /\ report \in provider[r].reported
    /\ advance[o].ref = "captured"
    /\ refund' = [refund EXCEPT ![r] = RefundStatus(report)]
    /\ ApplyRefundState(provider, refund', o)
    /\ UNCHANGED <<manual, assignments, leadConverted, invoiced, external>>

CurrentReport(r) ==
    IF "processed" \in provider[r].reported THEN "processed"
    ELSE IF "failed" \in provider[r].reported THEN "failed" ELSE "pending"

ReconcileRefund(r) ==
    /\ refund[r] # "NONE"
    /\ refund' = [refund EXCEPT ![r] = RefundStatus(CurrentReport(r))]
    /\ ApplyRefundState(provider, refund', provider[r].order)
    /\ UNCHANGED <<manual, assignments, leadConverted, invoiced, external>>

ProviderCaptures(o) ==
    /\ advance[o].status # "NONE" /\ o \notin captured
    /\ captured' = captured \cup {o}
    /\ UNCHANGED <<local, provider>>

ProviderSettles(r, report) ==
    /\ provider[r].reported = {"pending"}
    /\ provider' = [provider EXCEPT ![r].reported = @ \cup {report}]
    /\ UNCHANGED <<local, captured>>
-----------------------------------------------------------------------------
(* The visit *)

AssignTechnician(t) ==
    /\ booking.status \in Assignable
    /\ assignments' = {t}
    /\ booking' = [booking EXCEPT !.technician = t, !.status = "TECHNICIAN_ASSIGNED"]
    /\ UNCHANGED <<advance, manual, refund, leadConverted, invoiced, external>>

Unassigned_StatusOnly ==
    [booking EXCEPT !.status = IF @ = "TECHNICIAN_ASSIGNED" THEN "CONFIRMED" ELSE @]
Unassigned ==
    [booking EXCEPT !.technician = Nobody,
                    !.status = IF @ = "TECHNICIAN_ASSIGNED" THEN "CONFIRMED" ELSE @]

RemoveTechnician ==
    /\ assignments # {}
    /\ assignments' = {}
    /\ booking' = Unassigned
    /\ UNCHANGED <<advance, manual, refund, leadConverted, invoiced, external>>

\* The booking row alone changes.
Transition(row) ==
    /\ booking' = row
    /\ UNCHANGED <<advance, manual, refund, assignments, leadConverted, invoiced, external>>

MarkEnRoute ==
    /\ booking.status = "TECHNICIAN_ASSIGNED"
    /\ Transition([booking EXCEPT !.status = "TECHNICIAN_EN_ROUTE"])

StartBooking ==
    /\ booking.status \in Startable
    /\ booking.technician # Nobody
    /\ Transition([booking EXCEPT !.status = "IN_PROGRESS"])

MayComplete_Unsettled == booking.status = "IN_PROGRESS" /\ booking.technician # Nobody
MayComplete ==
    /\ booking.status = "IN_PROGRESS"
    /\ booking.technician # Nobody
    /\ RequireBalance => booking.balance_collected >= booking.balance_due

CompleteBooking ==
    /\ MayComplete
    /\ Transition([booking EXCEPT !.status = "COMPLETED"])

CloseBooking ==
    /\ booking.status = "COMPLETED"
    /\ Transition([booking EXCEPT !.status = "CLOSED"])

\* A customer must also ask early enough; time is not modelled, so the window
\* may be open or shut in any state.
CancelBooking(actor) ==
    /\ booking.status \in Cancellable(actor)
    /\ Transition([booking EXCEPT !.status = "CANCELLED", !.cancelled = TRUE])

RecordBalance(amount) ==
    /\ booking.status \in BalanceRecordable
    /\ amount <= booking.balance_due - booking.balance_collected
    /\ LET collected == booking.balance_collected + amount
       IN  Transition([booking EXCEPT !.balance_collected = collected,
              !.payment_status = IF collected >= booking.balance_due THEN "PAID" ELSE @])

InvoiceAvailable_Any == booking.payment_status # "UNPAID"
InvoiceAvailable == booking.payment_status = "PAID" \/ booking.status = "COMPLETED"

IssueInvoice ==
    /\ ~invoiced /\ InvoiceAvailable
    /\ invoiced' = TRUE
    /\ UNCHANGED <<booking, advance, manual, refund, assignments, leadConverted, external>>
-----------------------------------------------------------------------------
PaymentNext ==
    \/ \E o \in Orders : \/ CreateAdvanceOrder(o) \/ ConfirmCapturedPayment(o)
                         \/ RejectPaymentSignature(o) \/ PaymentFailedWebhook(o)
                         \/ ProviderCaptures(o)
    \/ \E a \in ManualAmounts : RecordManualPayment(a)
    \/ ConvertLead
    \/ EditLead

RefundNext ==
    \E r \in Refunds :
       \/ \E o \in Orders, a \in 1..Advance, s \in ProviderReport :
             CreateRefund(r, o, a, s) \/ RefundWithoutRow(r, o, a, s)
       \/ \E s \in ProviderReport : RefundWebhook(r, s)
       \/ \E s \in {"processed", "failed"} : ProviderSettles(r, s)
       \/ ReconcileRefund(r)

VisitNext ==
    \/ \E t \in Technicians : AssignTechnician(t)
    \/ RemoveTechnician \/ MarkEnRoute \/ StartBooking \/ CompleteBooking \/ CloseBooking
    \/ \E actor \in {"admin", "customer"} : CancelBooking(actor)
    \/ \E a \in 1..Total : RecordBalance(a)
    \/ IssueInvoice

Next == PaymentNext \/ RefundNext \/ VisitNext

Spec == Init /\ [][Next]_vars
-----------------------------------------------------------------------------
(* Properties *)

\* The state space of the booking and what surrounds it.
TypeOK ==
    /\ booking \in BookingRow
    /\ advance \in [Orders -> AdvanceRow]
    /\ manual \in {0} \cup ManualAmounts
    /\ refund \in [Refunds -> RefundRowStatus]
    /\ assignments \in SUBSET Technicians
    /\ leadConverted \in BOOLEAN
    /\ invoiced \in BOOLEAN
    /\ captured \in SUBSET Orders
    /\ provider \in [Refunds -> ProviderRefund]

\* A booking has one active advance payment at most, counting the operator's
\* offline payment: whatever order a new attempt, a late capture of an attempt
\* already written off and a manual payment come in (DEPLOYMENT.md, "Payment
\* Safety").
OneActiveAdvance ==
    /\ \A o, p \in Orders : Active(o) /\ Active(p) => o = p
    /\ manual > 0 => \A o \in Orders : ~Active(o)

\* The visit goes ahead only for a booking whose advance the provider captured,
\* or that an operator confirmed through a lead; no order of failures, refunds,
\* cancellations and late reports leads there otherwise.
ServiceIsPaidOrConverted ==
    booking.status \in InService => captured # {} \/ booking.manual_work_order

\* The technician on the booking is the one open assignment row, and a booking
\* that says it is assigned has one.
AssignmentMatchesBooking ==
    /\ assignments = {booking.technician} \ {Nobody}
    /\ booking.status = "TECHNICIAN_ASSIGNED" => booking.technician # Nobody

\* A finished job, and a booking shown as paid, has the whole price on record.
Settled == booking.advance_paid + booking.balance_collected >= Total
SettledWhenDone ==
    /\ RequireBalance /\ booking.status \in {"COMPLETED", "CLOSED"} => Settled
    /\ booking.payment_status = "PAID" => Settled

\* The advance enters advance_paid once, however often its capture is reported
\* and after however many failures, refunds and manual payments.
AdvanceCountedOnce ==
    booking.advance_paid \in {0, Advance, manual, Advance + manual}

\* A booking waits in REFUND_PENDING only while one of its refunds is pending.
RefundPendingIsReal ==
    booking.status = "REFUND_PENDING" => \E r \in Refunds : refund[r] = "PENDING"

\* Refunds recorded as paid out never exceed the payment they return.
RefundsWithinPayment ==
    \A o \in Orders : AmountOf(provider, RefundsOf(provider, refund, o, {"SUCCESS"})) <= Advance

\* A booking shown as REFUNDED has had a whole payment returned by the provider.
RefundedMeansReturned ==
    booking.status = "REFUNDED" =>
       \E o \in Orders : AmountOf(provider, ProviderPaid(provider, o)) >= Advance

\* A late or repeated failure report never undoes a payment that succeeded.
SuccessNeverFails ==
    [][\A o \in Orders : advance[o].status = "SUCCESS" => advance'[o].status # "FAILED"]_vars

\* An invoice is issued only for a booking whose whole price is on record.
InvoiceOnlyWhenSettled ==
    [][RequireBalance /\ ~invoiced /\ invoiced' => Settled]_vars

\* To its time slot the booking behaves as SeatClaim says, which is what
\* SlotReservation assumes of it: a booking that gave up its place comes back as
\* CONFIRMED or not at all, whichever handler brings it back.
Seat == INSTANCE SeatClaim WITH claim <- SeatClass(booking.status)
ImplementsSeatClaim == Seat!Spec

\* To the diary of its technician the booking behaves as JobClaim says, which is what
\* Dispatch assumes of it: only an assignment, which looks at the diary, makes it a
\* job; no payment, refund or report in any order does.
Job == INSTANCE JobClaim WITH stage <- JobStage(booking.status),
                              technician <- booking.technician
ImplementsJobClaim == Job!Spec
=============================================================================
