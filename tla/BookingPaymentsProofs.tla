---------------------- MODULE BookingPaymentsProofs ----------------------
(***************************************************************************)
(* The safety properties of BookingPayments, for every set of orders,      *)
(* refunds and technicians and every amount.  The inductive invariant is   *)
(* the conjunction of the properties with three facts they rest on; what   *)
(* refunds add up to has an invariant and sum lemmas of its own below.     *)
(***************************************************************************)
EXTENDS BookingPayments, WebhookRecord, FiniteSetTheorems, WellFoundedInduction, TLAPS

\* balance_due is what the recorded advance leaves of the price, whichever of
\* the capture and the offline payment wrote it last.
BalanceMatchesAdvance == booking.balance_due = BalanceAfter(booking.advance_paid)

\* A refund row stands for a refund the provider reported, of a payment it captured.
RefundsHaveCapture ==
    \A r \in Refunds :
       /\ refund[r] # "NONE" => provider[r].reported # {}
       /\ provider[r].reported # {} => provider[r].order \in captured

\* A refund in progress can end in CONFIRMED, so it too needs the capture.
PaidOrConverted ==
    booking.status \in InService \cup {"REFUND_PENDING", "REFUNDED"} =>
       captured # {} \/ booking.manual_work_order

IInv == /\ TypeOK
        /\ OneActiveAdvance
        /\ AdvanceCountedOnce
        /\ BalanceMatchesAdvance
        /\ SettledWhenDone
        /\ AssignmentMatchesBooking
        /\ RefundPendingIsReal
        /\ RefundsHaveCapture
        /\ PaidOrConverted
-----------------------------------------------------------------------------
\* What the last step of every refund handler leaves behind: at most the status
\* of order o and the two statuses of the booking change, and the booking waits
\* in REFUND_PENDING only for a refund in the rows just written.
LEMMA RefundStateEffect ==
    ASSUME TypeOK, NEW p, NEW rows, NEW o \in Orders, ApplyRefundState(p, rows, o)
    PROVE  /\ \E s \in BookingStatus, ps \in PaymentStatus :
                /\ booking' = [booking EXCEPT !.status = s, !.payment_status = ps]
                /\ ps \in {booking.payment_status, "REFUNDED"}
                /\ \/ s \in {"REFUNDED", "REFUND_PENDING"}
                   \/ s = booking.status
                   \/ booking.status = "REFUND_PENDING" /\ s \in {"CANCELLED", "CONFIRMED"}
                /\ s = "REFUND_PENDING" => \E r \in Refunds : rows[r] = "PENDING"
           /\ \/ advance' = advance
              \/ advance' = [advance EXCEPT ![o].status = "REFUNDED"]
<1> DEFINE full == AmountOf(p, RefundsOf(p, rows, o, {"SUCCESS"})) >= Advance
           pending == RefundsOf(p, rows, o, {"PENDING"}) # {}
<1>1. CASE full
  <2>1. booking' = [booking EXCEPT !.status = "REFUNDED", !.payment_status = "REFUNDED"]
        /\ advance' = [advance EXCEPT ![o].status = "REFUNDED"]
    BY <1>1 DEF ApplyRefundState
  <2>2. QED BY <2>1 DEF BookingStatus, PaymentStatus
<1>2. CASE ~full
  <2> DEFINE s == IF pending THEN "REFUND_PENDING" ELSE SettledStatus
  <2>1. booking' = [booking EXCEPT !.status = s] /\ UNCHANGED advance
    BY <1>2 DEF ApplyRefundState
  <2>2. booking' = [booking EXCEPT !.status = s, !.payment_status = booking.payment_status]
    BY <2>1 DEF TypeOK, BookingRow
  <2>3. /\ s \in BookingStatus
        /\ \/ s = "REFUND_PENDING" \/ s = booking.status
           \/ booking.status = "REFUND_PENDING" /\ s \in {"CANCELLED", "CONFIRMED"}
    BY DEF TypeOK, BookingRow, BookingStatus, SettledStatus
  <2>4. s = "REFUND_PENDING" => pending
    BY DEF SettledStatus
  <2>5. s = "REFUND_PENDING" => \E r \in Refunds : rows[r] = "PENDING"
    BY <2>4 DEF RefundsOf
  <2>6. QED BY <2>1, <2>2, <2>3, <2>5 DEF TypeOK, BookingRow
<1>3. QED BY <1>1, <1>2
-----------------------------------------------------------------------------
LEMMA InitIInv == Init => IInv
<1> SUFFICES ASSUME Init PROVE IInv
  OBVIOUS
<1> USE AmountsAssumption, SentinelAssumption DEF Init
<1>1. PICK st \in {"PENDING_PAYMENT", "CONFIRMED"}, c \in BOOLEAN :
        booking = NewBooking(st, c) /\ (st = "CONFIRMED" => c)
  OBVIOUS
<1>2. TypeOK
  <2>1. booking \in BookingRow
    BY <1>1 DEF NewBooking, BookingRow, BookingStatus, PaymentStatus
  <2>2. advance \in [Orders -> AdvanceRow]
    BY DEF AdvanceRow, AdvanceStatus
  <2>3. refund \in [Refunds -> RefundRowStatus] /\ provider \in [Refunds -> ProviderRefund]
    BY DEF RefundRowStatus, ProviderRefund
  <2>4. leadConverted \in BOOLEAN
    BY <1>1 DEF NewBooking
  <2>5. QED BY <2>1, <2>2, <2>3, <2>4 DEF TypeOK
<1>3. OneActiveAdvance /\ RefundsHaveCapture
  BY DEF OneActiveAdvance, Active, RefundsHaveCapture
<1>4. AdvanceCountedOnce /\ BalanceMatchesAdvance /\ SettledWhenDone
  BY <1>1 DEF NewBooking, AdvanceCountedOnce, BalanceMatchesAdvance, BalanceAfter,
              SettledWhenDone
<1>5. AssignmentMatchesBooking /\ RefundPendingIsReal /\ PaidOrConverted
  BY <1>1 DEF NewBooking, AssignmentMatchesBooking, RefundPendingIsReal, PaidOrConverted,
              InService
<1>6. QED BY <1>2, <1>3, <1>4, <1>5 DEF IInv

\* The handlers of advance payments, manual payments and lead conversion.
LEMMA PaymentStep == IInv /\ PaymentNext => IInv'
<1> SUFFICES ASSUME IInv, PaymentNext PROVE IInv'
  OBVIOUS
<1> USE AmountsAssumption, SentinelAssumption
<1> USE DEF IInv, TypeOK, BookingRow, AdvanceRow, Active, external
<1>1. ASSUME NEW o \in Orders, CreateAdvanceOrder(o) PROVE IInv'
  <2> USE <1>1 DEF CreateAdvanceOrder
  <2>1. TypeOK'
    BY DEF AdvanceStatus
  <2>2. OneActiveAdvance'
    BY DEF OneActiveAdvance
  <2>3. QED
    BY <2>1, <2>2 DEF AdvanceCountedOnce, BalanceMatchesAdvance, SettledWhenDone, Settled,
       AssignmentMatchesBooking, RefundPendingIsReal, RefundsHaveCapture, PaidOrConverted
<1>2. ASSUME NEW o \in Orders, ConfirmCapturedPayment(o) PROVE IInv'
  <2> USE <1>2 DEF ConfirmCapturedPayment, ConfirmedAfterPayment
  <2>1. TypeOK'
    <3>1. Advance \in Nat /\ Total - Advance \in Nat
      OBVIOUS
    <3>2. booking' \in BookingRow
      BY <3>1 DEF BookingStatus, PaymentStatus
    <3>3. advance' \in [Orders -> AdvanceRow]
      BY DEF AdvanceStatus
    <3>4. QED BY <3>2, <3>3
  <2>2. OneActiveAdvance'
    BY DEF OneActiveAdvance, ConstraintAllows
  <2>3. AdvanceCountedOnce' /\ BalanceMatchesAdvance' /\ SettledWhenDone'
    BY DEF AdvanceCountedOnce, BalanceMatchesAdvance, BalanceAfter, SettledWhenDone, Settled
  <2>4. AssignmentMatchesBooking' /\ RefundPendingIsReal' /\ RefundsHaveCapture'
    BY DEF AssignmentMatchesBooking, RefundPendingIsReal, RefundsHaveCapture
  <2>5. PaidOrConverted'
    BY DEF PaidOrConverted, PaymentProven
  <2>6. QED BY <2>1, <2>2, <2>3, <2>4, <2>5
<1>3. ASSUME NEW o \in Orders, NEW ref \in {"captured", "failed"}, MarkPaymentFailed(o, ref)
      PROVE IInv'
  <2> USE <1>3 DEF MarkPaymentFailed, AwaitingPayment
  <2>1. TypeOK'
    BY DEF AdvanceStatus, BookingStatus, PaymentStatus
  <2>2. OneActiveAdvance'
    BY DEF OneActiveAdvance
  <2>3. AdvanceCountedOnce' /\ BalanceMatchesAdvance' /\ SettledWhenDone'
    BY DEF AdvanceCountedOnce, BalanceMatchesAdvance, SettledWhenDone, Settled
  <2>4. AssignmentMatchesBooking' /\ RefundPendingIsReal' /\ RefundsHaveCapture' /\ PaidOrConverted'
    BY DEF AssignmentMatchesBooking, RefundPendingIsReal, RefundsHaveCapture, PaidOrConverted,
           InService
  <2>5. QED BY <2>1, <2>2, <2>3, <2>4
<1>4. ASSUME NEW o \in Orders, ProviderCaptures(o) PROVE IInv'
  <2> USE <1>4 DEF ProviderCaptures, local
  <2>1. TypeOK'
    OBVIOUS
  <2>2. RefundsHaveCapture' /\ PaidOrConverted'
    BY DEF RefundsHaveCapture, PaidOrConverted
  <2>3. QED
    BY <2>1, <2>2 DEF OneActiveAdvance, AdvanceCountedOnce, BalanceMatchesAdvance,
       SettledWhenDone, Settled, AssignmentMatchesBooking, RefundPendingIsReal
<1>5. ASSUME NEW a \in ManualAmounts, RecordManualPayment(a) PROVE IInv'
  <2> USE <1>5 DEF RecordManualPayment, BalanceAfter
  <2>1. TypeOK'
    <3> DEFINE paid == booking.advance_paid + a
               due == IF paid > Total THEN 0 ELSE Total - paid
    <3>1. a \in Nat /\ paid \in Nat
      OBVIOUS
    <3>2. due \in Nat
      BY <3>1
    <3>3. booking' = [booking EXCEPT !.advance_paid = paid, !.balance_due = due,
                         !.payment_status = IF due = 0 THEN "PAID" ELSE "PARTIALLY_PAID"]
      OBVIOUS
    <3> HIDE DEF paid, due
    <3>4. booking' \in BookingRow
      BY <3>1, <3>2, <3>3 DEF PaymentStatus
    <3>5. QED BY <3>4
  <2>2. OneActiveAdvance' /\ AdvanceCountedOnce'
    BY DEF OneActiveAdvance, AdvanceCountedOnce
  <2>3. BalanceMatchesAdvance' /\ SettledWhenDone'
    BY DEF BalanceMatchesAdvance, SettledWhenDone, Settled
  <2>4. QED
    BY <2>1, <2>2, <2>3 DEF AssignmentMatchesBooking, RefundPendingIsReal,
       RefundsHaveCapture, PaidOrConverted
<1>6. CASE ConvertLead
  <2> USE <1>6 DEF ConvertLead
  <2>1. TypeOK'
    BY DEF BookingStatus
  <2>2. QED
    BY <2>1 DEF OneActiveAdvance, AdvanceCountedOnce, BalanceMatchesAdvance, SettledWhenDone,
       Settled, AssignmentMatchesBooking, RefundPendingIsReal, RefundsHaveCapture,
       PaidOrConverted
<1>7. CASE EditLead
  BY <1>7 DEF EditLead, OneActiveAdvance, AdvanceCountedOnce, BalanceMatchesAdvance,
     SettledWhenDone, Settled, AssignmentMatchesBooking, RefundPendingIsReal,
     RefundsHaveCapture, PaidOrConverted
<1>8. QED
  BY <1>1, <1>2, <1>3, <1>4, <1>5, <1>6, <1>7
     DEF PaymentNext, RejectPaymentSignature, PaymentFailedWebhook

\* The handlers of the visit: dispatch, the technician's steps, cancellation,
\* the balance and the invoice.
LEMMA VisitStep == IInv /\ VisitNext => IInv'
<1> SUFFICES ASSUME IInv, VisitNext PROVE IInv'
  OBVIOUS
<1> USE AmountsAssumption, SentinelAssumption
<1> USE DEF IInv, TypeOK, BookingRow, Active, external
<1>1. ASSUME NEW t \in Technicians, AssignTechnician(t) PROVE IInv'
  <2> USE <1>1 DEF AssignTechnician, Assignable
  <2>1. TypeOK'
    <3>1. booking' \in BookingRow
      BY DEF BookingStatus
    <3>2. QED BY <3>1
  <2>2. AssignmentMatchesBooking'
    BY DEF AssignmentMatchesBooking
  <2>3. OneActiveAdvance' /\ AdvanceCountedOnce' /\ BalanceMatchesAdvance' /\ SettledWhenDone'
    BY DEF OneActiveAdvance, AdvanceCountedOnce, BalanceMatchesAdvance, SettledWhenDone, Settled
  <2>4. RefundPendingIsReal' /\ RefundsHaveCapture' /\ PaidOrConverted'
    BY DEF RefundPendingIsReal, RefundsHaveCapture, PaidOrConverted, InService
  <2>5. QED BY <2>1, <2>2, <2>3, <2>4
<1>2. CASE RemoveTechnician
  <2> USE <1>2 DEF RemoveTechnician, Unassigned
  <2>1. TypeOK'
    BY DEF BookingStatus
  <2>2. AssignmentMatchesBooking'
    BY DEF AssignmentMatchesBooking
  <2>3. OneActiveAdvance' /\ AdvanceCountedOnce' /\ BalanceMatchesAdvance' /\ SettledWhenDone'
    BY DEF OneActiveAdvance, AdvanceCountedOnce, BalanceMatchesAdvance, SettledWhenDone, Settled
  <2>4. RefundPendingIsReal' /\ RefundsHaveCapture' /\ PaidOrConverted'
    BY DEF RefundPendingIsReal, RefundsHaveCapture, PaidOrConverted, InService
  <2>5. QED BY <2>1, <2>2, <2>3, <2>4
<1>3. CASE MarkEnRoute \/ StartBooking \/ CloseBooking
  <2>1. PICK s \in {"TECHNICIAN_EN_ROUTE", "IN_PROGRESS", "CLOSED"} :
          /\ Transition([booking EXCEPT !.status = s])
          /\ booking.status \in Startable \cup {"COMPLETED"}
          /\ s = "CLOSED" => booking.status = "COMPLETED"
    BY <1>3 DEF MarkEnRoute, StartBooking, CloseBooking, Startable
  <2> USE <2>1 DEF Transition, Startable
  <2>2. TypeOK'
    BY DEF BookingStatus
  <2>3. OneActiveAdvance' /\ AdvanceCountedOnce' /\ BalanceMatchesAdvance' /\ SettledWhenDone'
    BY DEF OneActiveAdvance, AdvanceCountedOnce, BalanceMatchesAdvance, SettledWhenDone, Settled
  <2>4. AssignmentMatchesBooking' /\ RefundPendingIsReal' /\ RefundsHaveCapture' /\ PaidOrConverted'
    BY DEF AssignmentMatchesBooking, RefundPendingIsReal, RefundsHaveCapture, PaidOrConverted,
           InService
  <2>5. QED BY <2>2, <2>3, <2>4
<1>4. CASE CompleteBooking
  <2> USE <1>4 DEF CompleteBooking, MayComplete, Transition
  <2>1. TypeOK'
    BY DEF BookingStatus
  <2>2. SettledWhenDone'
    BY DEF SettledWhenDone, Settled, BalanceMatchesAdvance, BalanceAfter
  <2>3. OneActiveAdvance' /\ AdvanceCountedOnce' /\ BalanceMatchesAdvance'
    BY DEF OneActiveAdvance, AdvanceCountedOnce, BalanceMatchesAdvance
  <2>4. AssignmentMatchesBooking' /\ RefundPendingIsReal' /\ RefundsHaveCapture' /\ PaidOrConverted'
    BY DEF AssignmentMatchesBooking, RefundPendingIsReal, RefundsHaveCapture, PaidOrConverted,
           InService
  <2>5. QED BY <2>1, <2>2, <2>3, <2>4
<1>5. ASSUME NEW actor \in {"admin", "customer"}, CancelBooking(actor) PROVE IInv'
  <2>1. Transition([booking EXCEPT !.status = "CANCELLED", !.cancelled = TRUE])
    BY <1>5 DEF CancelBooking
  <2> USE <2>1 DEF Transition
  <2>2. TypeOK'
    BY DEF BookingStatus
  <2>3. OneActiveAdvance' /\ AdvanceCountedOnce' /\ BalanceMatchesAdvance' /\ SettledWhenDone'
    BY DEF OneActiveAdvance, AdvanceCountedOnce, BalanceMatchesAdvance, SettledWhenDone, Settled
  <2>4. AssignmentMatchesBooking' /\ RefundPendingIsReal' /\ RefundsHaveCapture' /\ PaidOrConverted'
    BY DEF AssignmentMatchesBooking, RefundPendingIsReal, RefundsHaveCapture, PaidOrConverted,
           InService
  <2>5. QED BY <2>2, <2>3, <2>4
<1>6. ASSUME NEW a \in 1..Total, RecordBalance(a) PROVE IInv'
  <2> DEFINE collected == booking.balance_collected + a
  <2>1. Transition([booking EXCEPT !.balance_collected = collected,
           !.payment_status = IF collected >= booking.balance_due THEN "PAID" ELSE @])
        /\ booking.status \in BalanceRecordable
    BY <1>6 DEF RecordBalance
  <2>2. collected \in Nat
    OBVIOUS
  <2> USE <2>1, <2>2 DEF Transition, BalanceRecordable
  <2>3. TypeOK'
    <3> HIDE DEF collected
    <3>1. booking' \in BookingRow
      BY DEF PaymentStatus
    <3>2. QED BY <3>1
  <2>4. SettledWhenDone'
    BY DEF SettledWhenDone, Settled, BalanceMatchesAdvance, BalanceAfter
  <2>5. OneActiveAdvance' /\ AdvanceCountedOnce' /\ BalanceMatchesAdvance'
    BY DEF OneActiveAdvance, AdvanceCountedOnce, BalanceMatchesAdvance
  <2>6. AssignmentMatchesBooking' /\ RefundPendingIsReal' /\ RefundsHaveCapture' /\ PaidOrConverted'
    BY DEF AssignmentMatchesBooking, RefundPendingIsReal, RefundsHaveCapture, PaidOrConverted
  <2>7. QED BY <2>3, <2>4, <2>5, <2>6
<1>7. CASE IssueInvoice
  BY <1>7 DEF IssueInvoice, OneActiveAdvance, AdvanceCountedOnce, BalanceMatchesAdvance,
     SettledWhenDone, Settled, AssignmentMatchesBooking, RefundPendingIsReal,
     RefundsHaveCapture, PaidOrConverted
<1>8. QED
  BY <1>1, <1>2, <1>3, <1>4, <1>5, <1>6, <1>7 DEF VisitNext

\* A refund handler keeps the invariant: what it writes is a refund row of a
\* captured payment, followed by the status that follows from the rows.
LEMMA RefundHandlerStep ==
    ASSUME IInv, NEW r \in Refunds, NEW o \in Orders, NEW status \in {"PENDING", "SUCCESS", "FAILED"},
           o \in captured,
           provider' \in [Refunds -> ProviderRefund],
           \A q \in Refunds \ {r} : provider'[q] = provider[q],
           provider'[r].order \in captured /\ provider'[r].reported # {},
           refund' = [refund EXCEPT ![r] = status],
           ApplyRefundState(provider', refund', o),
           UNCHANGED <<manual, assignments, leadConverted, invoiced, captured>>
    PROVE  IInv'
<1> USE AmountsAssumption, SentinelAssumption DEF IInv, TypeOK
<1>1. PICK s \in BookingStatus, ps \in PaymentStatus :
        /\ booking' = [booking EXCEPT !.status = s, !.payment_status = ps]
        /\ ps \in {booking.payment_status, "REFUNDED"}
        /\ \/ s \in {"REFUNDED", "REFUND_PENDING"}
           \/ s = booking.status
           \/ booking.status = "REFUND_PENDING" /\ s \in {"CANCELLED", "CONFIRMED"}
        /\ s = "REFUND_PENDING" => \E q \in Refunds : refund'[q] = "PENDING"
  BY RefundStateEffect
<1>2. advance' = advance \/ advance' = [advance EXCEPT ![o].status = "REFUNDED"]
  BY RefundStateEffect
<1> USE <1>1 DEF BookingRow
<1>3. TypeOK'
  <2>1. booking' \in BookingRow
    OBVIOUS
  <2>2. advance' \in [Orders -> AdvanceRow]
    BY <1>2 DEF AdvanceRow, AdvanceStatus
  <2>3. refund' \in [Refunds -> RefundRowStatus]
    BY DEF RefundRowStatus
  <2>4. QED BY <2>1, <2>2, <2>3
<1>4. OneActiveAdvance'
  BY <1>2 DEF OneActiveAdvance, Active, AdvanceRow
<1>5. AdvanceCountedOnce' /\ BalanceMatchesAdvance' /\ SettledWhenDone'
  BY DEF AdvanceCountedOnce, BalanceMatchesAdvance, SettledWhenDone, Settled
<1>6. AssignmentMatchesBooking' /\ RefundPendingIsReal'
  BY DEF AssignmentMatchesBooking, RefundPendingIsReal
<1>7. RefundsHaveCapture'
  BY DEF RefundsHaveCapture
<1>8. PaidOrConverted'
  BY DEF PaidOrConverted, InService
<1>9. QED BY <1>3, <1>4, <1>5, <1>6, <1>7, <1>8

\* The provider's refunds change: only the reports of r, of a captured payment.
LEMMA ProviderStep ==
    ASSUME IInv, NEW r \in Refunds, UNCHANGED <<local, captured>>,
           provider' \in [Refunds -> ProviderRefund],
           \A q \in Refunds \ {r} : provider'[q] = provider[q],
           provider'[r].order \in captured /\ provider'[r].reported # {}
    PROVE  IInv'
<1> USE DEF IInv, local
<1>1. TypeOK' /\ OneActiveAdvance' /\ AdvanceCountedOnce' /\ BalanceMatchesAdvance'
  BY DEF TypeOK, OneActiveAdvance, Active, AdvanceCountedOnce, BalanceMatchesAdvance
<1>2. SettledWhenDone' /\ AssignmentMatchesBooking' /\ RefundPendingIsReal' /\ PaidOrConverted'
  BY DEF SettledWhenDone, Settled, AssignmentMatchesBooking, RefundPendingIsReal, PaidOrConverted
<1>3. RefundsHaveCapture'
  BY DEF RefundsHaveCapture
<1>4. QED BY <1>1, <1>2, <1>3

\* The refund handlers and the provider's side of a refund.
LEMMA RefundStep == IInv /\ RefundNext => IInv'
<1> SUFFICES ASSUME IInv, RefundNext PROVE IInv'
  OBVIOUS
<1> PICK r \in Refunds :
       \/ \E o \in Orders, a \in 1..Advance, s \in ProviderReport :
             CreateRefund(r, o, a, s) \/ RefundWithoutRow(r, o, a, s)
       \/ \E s \in ProviderReport : RefundWebhook(r, s)
       \/ \E s \in {"processed", "failed"} : ProviderSettles(r, s)
       \/ ReconcileRefund(r)
  BY DEF RefundNext
<1>1. TypeOK /\ RefundsHaveCapture
  BY DEF IInv
<1>2. \A s : RefundStatus(s) \in {"PENDING", "SUCCESS", "FAILED"}
  BY DEF RefundStatus
<1>3. ASSUME NEW o \in Orders, NEW a \in 1..Advance, NEW s \in ProviderReport,
             ProviderAccepts(r, o, a, s)
      PROVE  /\ o \in captured
             /\ provider' \in [Refunds -> ProviderRefund]
             /\ \A q \in Refunds \ {r} : provider'[q] = provider[q]
             /\ provider'[r].order = o /\ provider'[r].reported = {s}
  BY <1>1, <1>3, AmountsAssumption DEF ProviderAccepts, TypeOK, ProviderRefund
<1>4. ASSUME NEW o \in Orders, NEW a \in 1..Advance, NEW s \in ProviderReport,
             CreateRefund(r, o, a, s)
      PROVE  IInv'
  <2>1. ProviderAccepts(r, o, a, s) /\ ApplyRefundState(provider', refund', o)
        /\ refund' = [refund EXCEPT ![r] = RefundStatus(s)]
        /\ UNCHANGED <<manual, assignments, leadConverted, invoiced, captured>>
    BY <1>4 DEF CreateRefund
  <2>2. QED BY <2>1, <1>2, <1>3, RefundHandlerStep
<1>5. ASSUME NEW o \in Orders, NEW a \in 1..Advance, NEW s \in ProviderReport,
             RefundWithoutRow(r, o, a, s)
      PROVE  IInv'
  <2>1. ProviderAccepts(r, o, a, s) /\ UNCHANGED <<local, captured>>
    BY <1>5 DEF RefundWithoutRow
  <2>2. QED BY <2>1, <1>3, ProviderStep
<1>6. ASSUME NEW s, provider[r].reported # {},
             refund' = [refund EXCEPT ![r] = RefundStatus(s)],
             ApplyRefundState(provider, refund', provider[r].order),
             UNCHANGED <<manual, assignments, leadConverted, invoiced, external>>
      PROVE  IInv'
  <2>1. provider[r].order \in captured /\ captured \subseteq Orders
    BY <1>1, <1>6 DEF RefundsHaveCapture, TypeOK
  <2>2. provider' = provider /\ captured' = captured
    BY <1>6 DEF external
  <2>3. provider' \in [Refunds -> ProviderRefund]
    BY <1>1, <2>2 DEF TypeOK
  <2>4. ApplyRefundState(provider', refund', provider[r].order)
    BY <1>6, <2>2
  <2>5. QED BY <1>2, <1>6, <2>1, <2>2, <2>3, <2>4, RefundHandlerStep
<1>7. ASSUME NEW s \in ProviderReport, RefundWebhook(r, s) PROVE IInv'
  BY <1>6, <1>7 DEF RefundWebhook
<1>8. CASE ReconcileRefund(r)
  BY <1>1, <1>6, <1>8 DEF ReconcileRefund, RefundsHaveCapture
<1>9. ASSUME NEW s \in {"processed", "failed"}, ProviderSettles(r, s) PROVE IInv'
  <2>1. /\ provider[r].reported = {"pending"} /\ UNCHANGED <<local, captured>>
        /\ provider' = [provider EXCEPT ![r].reported = @ \cup {s}]
    BY <1>9 DEF ProviderSettles
  <2>2. provider' \in [Refunds -> ProviderRefund]
    BY <1>1, <2>1 DEF TypeOK, ProviderRefund, ProviderReport
  <2>3. provider[r].order \in captured
    BY <1>1, <2>1 DEF RefundsHaveCapture
  <2>4. /\ \A q \in Refunds \ {r} : provider'[q] = provider[q]
        /\ provider'[r].order \in captured' /\ provider'[r].reported # {}
    BY <1>1, <2>1, <2>3 DEF TypeOK, ProviderRefund
  <2>5. provider'[r].order \in captured
    BY <2>1, <2>4
  <2>6. QED BY <2>1, <2>2, <2>4, <2>5, ProviderStep
<1>10. QED BY <1>4, <1>5, <1>7, <1>8, <1>9
-----------------------------------------------------------------------------
\* Every reachable state satisfies the inductive invariant, whichever handlers
\* and provider reports led to it.
THEOREM Invariance == Spec => []IInv
<1>1. IInv /\ UNCHANGED vars => IInv'
  <2> SUFFICES ASSUME IInv, UNCHANGED vars PROVE IInv'
    OBVIOUS
  <2>1. TypeOK' /\ OneActiveAdvance' /\ AdvanceCountedOnce' /\ BalanceMatchesAdvance'
    BY DEF IInv, vars, TypeOK, OneActiveAdvance, Active, AdvanceCountedOnce,
           BalanceMatchesAdvance
  <2>2. SettledWhenDone' /\ AssignmentMatchesBooking' /\ RefundPendingIsReal'
    BY DEF IInv, vars, SettledWhenDone, Settled, AssignmentMatchesBooking,
           RefundPendingIsReal
  <2>3. RefundsHaveCapture' /\ PaidOrConverted'
    BY DEF IInv, vars, RefundsHaveCapture, PaidOrConverted
  <2>4. QED BY <2>1, <2>2, <2>3 DEF IInv
<1>2. IInv /\ [Next]_vars => IInv'
  BY <1>1, PaymentStep, VisitStep, RefundStep DEF Next
<1>3. QED BY InitIInv, <1>2, PTL DEF Spec

\* Every column of the rows keeps its declared type; balance_due, which the
\* payment handlers compute by subtraction, is never negative.
THEOREM TypeCorrect == Spec => []TypeOK
<1>1. IInv => TypeOK
  BY DEF IInv
<1>2. QED BY <1>1, Invariance, PTL

\* Whatever order new attempts, late captures and manual payments come in, one
\* advance of the booking is active: the checks of create_advance_payment_order
\* and record_manual_lead_payment and the unique constraint suffice together.
THEOREM OneAdvance == Spec => []OneActiveAdvance
<1>1. IInv => OneActiveAdvance
  BY DEF IInv
<1>2. QED BY <1>1, Invariance, PTL

\* No sequence of failures, refunds and cancellations brings a booking into
\* service without a captured advance or an operator's conversion.
THEOREM ServicePaid == Spec => []ServiceIsPaidOrConverted
<1>1. IInv => ServiceIsPaidOrConverted
  BY DEF IInv, PaidOrConverted, ServiceIsPaidOrConverted
<1>2. QED BY <1>1, Invariance, PTL

\* The booking's technician and its open assignment row agree after any sequence
\* of assign_technician, remove_technician_assignment and the other handlers.
THEOREM AssignmentAgrees == Spec => []AssignmentMatchesBooking
<1>1. IInv => AssignmentMatchesBooking
  BY DEF IInv
<1>2. QED BY <1>1, Invariance, PTL

\* A job that complete_booking finished, or a booking shown as PAID, has the
\* whole price on record, late captures and manual payments included.
THEOREM DoneIsSettled == Spec => []SettledWhenDone
<1>1. IInv => SettledWhenDone
  BY DEF IInv
<1>2. QED BY <1>1, Invariance, PTL

\* A capture reported again, or after a failure or a refund, does not add the
\* advance to advance_paid a second time.
THEOREM CountedOnce == Spec => []AdvanceCountedOnce
<1>1. IInv => AdvanceCountedOnce
  BY DEF IInv
<1>2. QED BY <1>1, Invariance, PTL

\* A booking left in REFUND_PENDING by _apply_refund_state has a pending refund.
THEOREM PendingIsReal == Spec => []RefundPendingIsReal
<1>1. IInv => RefundPendingIsReal
  BY DEF IInv
<1>2. QED BY <1>1, Invariance, PTL
-----------------------------------------------------------------------------
\* Neither payment.failed nor a verify call with a bad signature, nor any other
\* handler, takes a captured payment from SUCCESS to FAILED.
THEOREM SuccessIsKept == Spec => SuccessNeverFails
<1> DEFINE Kept == \A o \in Orders : advance[o].status = "SUCCESS" => advance'[o].status # "FAILED"
<1>1. IInv /\ [Next]_vars => Kept
  <2> SUFFICES ASSUME IInv, [Next]_vars PROVE Kept
    OBVIOUS
  <2>1. TypeOK
    BY DEF IInv
  <2> USE <2>1 DEF TypeOK, AdvanceRow, external
  <2>2. CASE UNCHANGED advance
    BY <2>2
  <2>3. CASE PaymentNext
    <3>1. ASSUME NEW o \in Orders,
                 CreateAdvanceOrder(o) \/ RejectPaymentSignature(o) \/ PaymentFailedWebhook(o)
                    \/ ConfirmCapturedPayment(o)
          PROVE  Kept
      BY <3>1 DEF CreateAdvanceOrder, RejectPaymentSignature, PaymentFailedWebhook, Failable,
                  MarkPaymentFailed, ConfirmCapturedPayment
    <3>2. QED BY <2>2, <2>3, <3>1 DEF PaymentNext, ProviderCaptures, local,
                 RecordManualPayment, ConvertLead, EditLead
  <2>4. CASE RefundNext
    <3>1. ASSUME NEW p, NEW rows, NEW o, ApplyRefundState(p, rows, o) PROVE Kept
      <4>1. UNCHANGED advance \/ advance' = [advance EXCEPT ![o].status = "REFUNDED"]
        BY <3>1 DEF ApplyRefundState
      <4>2. QED BY <4>1, <2>2
    <3>2. UNCHANGED advance \/ \E p, rows, o : ApplyRefundState(p, rows, o)
      BY <2>4 DEF RefundNext, CreateRefund, RefundWithoutRow, RefundWebhook, ProviderSettles,
                  ReconcileRefund, local
    <3>3. QED BY <3>1, <3>2, <2>2
  <2>5. CASE VisitNext
    BY <2>2, <2>5 DEF VisitNext, AssignTechnician, RemoveTechnician, MarkEnRoute, StartBooking,
       CompleteBooking, CloseBooking, CancelBooking, RecordBalance, IssueInvoice, Transition
  <2>6. QED BY <2>2, <2>3, <2>4, <2>5 DEF Next, vars
<1> HIDE DEF Kept
<1>2. Spec => [][Kept]_vars
  BY <1>1, Invariance, PTL DEF Spec
<1>3. QED BY <1>2 DEF SuccessNeverFails, Kept

\* issue_invoice writes an invoice only while the recorded money covers the price:
\* a booking it finds PAID or COMPLETED is settled, by the inductive invariant.
THEOREM InvoiceIsSettled == Spec => InvoiceOnlyWhenSettled
<1> DEFINE Covered == RequireBalance /\ ~invoiced /\ invoiced' => Settled
<1>1. IInv /\ [Next]_vars => Covered
  <2> SUFFICES ASSUME IInv, [Next]_vars PROVE Covered
    OBVIOUS
  <2>1. CASE UNCHANGED invoiced
    BY <2>1 DEF IInv, TypeOK
  <2>2. CASE IssueInvoice
    BY <2>2 DEF IInv, SettledWhenDone, IssueInvoice, InvoiceAvailable
  <2>3. IssueInvoice \/ UNCHANGED invoiced
    <3>1. CASE PaymentNext
      BY <3>1 DEF PaymentNext, CreateAdvanceOrder, ConfirmCapturedPayment, ProviderCaptures,
         RejectPaymentSignature, PaymentFailedWebhook, MarkPaymentFailed, RecordManualPayment,
         ConvertLead, EditLead, local
    <3>2. CASE RefundNext
      BY <3>2 DEF RefundNext, CreateRefund, RefundWithoutRow, RefundWebhook, ProviderSettles,
         ReconcileRefund, local
    <3>3. CASE VisitNext
      BY <3>3 DEF VisitNext, AssignTechnician, RemoveTechnician, MarkEnRoute, StartBooking,
         CompleteBooking, CloseBooking, CancelBooking, RecordBalance, Transition
    <3>4. QED BY <3>1, <3>2, <3>3 DEF Next, vars
  <2>4. QED BY <2>1, <2>2, <2>3
<1> HIDE DEF Covered
<1>2. Spec => [][Covered]_vars
  BY <1>1, Invariance, PTL DEF Spec
<1>3. QED BY <1>2 DEF InvoiceOnlyWhenSettled, Covered

\* Seen from its time slot, a booking does what SeatClaim allows, the abstract
\* booking that SlotReservation is built on: no handler makes a booking that
\* holds no place start, travel or await payment.
THEOREM SeatRefinement == Spec => ImplementsSeatClaim
<1> USE DEF SeatClass, HoldsPlace, Movable
<1> DEFINE s == booking.status
           Stays == s' = s \/ s' \notin HoldsPlace \ Movable \/ s \in HoldsPlace
<1>1. Init => Seat!Init
  BY DEF Init, NewBooking, Seat!Init
<1>2. IInv /\ [Next]_vars => Stays
  <2> SUFFICES ASSUME IInv, [Next]_vars PROVE Stays
    OBVIOUS
  <2> USE DEF external, local
  <2>1. TypeOK
    BY DEF IInv
  <2> USE <2>1 DEF TypeOK, BookingRow
  <2>2. CASE PaymentNext
    BY <2>2 DEF PaymentNext, CreateAdvanceOrder, ConfirmCapturedPayment, ConfirmedAfterPayment,
       ProviderCaptures, RejectPaymentSignature, PaymentFailedWebhook, MarkPaymentFailed,
       RecordManualPayment, ConvertLead, EditLead
  <2>3. CASE RefundNext
    <3>1. ASSUME NEW p, NEW rows, NEW o, ApplyRefundState(p, rows, o) PROVE Stays
      <4>1. \E t \in {"REFUNDED", "REFUND_PENDING", SettledStatus} : s' = t
        BY <3>1 DEF ApplyRefundState
      <4>2. QED BY <4>1 DEF SettledStatus
    <3>2. UNCHANGED booking \/ \E p, rows, o : ApplyRefundState(p, rows, o)
      BY <2>3 DEF RefundNext, CreateRefund, RefundWithoutRow, RefundWebhook, ProviderSettles,
                  ReconcileRefund
    <3>3. QED BY <3>1, <3>2
  <2>4. CASE VisitNext
    <3> USE DEF Transition, Unassigned, Assignable, Startable
    <3>1. \/ UNCHANGED booking
          \/ \E t \in Technicians : AssignTechnician(t)
          \/ RemoveTechnician \/ MarkEnRoute \/ StartBooking \/ CompleteBooking \/ CloseBooking
          \/ \E actor \in {"admin", "customer"} : CancelBooking(actor)
          \/ \E a \in 1..Total : RecordBalance(a)
      BY <2>4 DEF VisitNext, IssueInvoice
    <3>2. QED BY <3>1 DEF AssignTechnician, RemoveTechnician, MarkEnRoute, StartBooking,
                 CompleteBooking, CloseBooking, CancelBooking, RecordBalance
  <2>5. QED BY <2>2, <2>3, <2>4 DEF Next, vars
<1>3. Stays => [Seat!Next]_(SeatClass(booking.status))
  BY DEF Seat!Next, Seat!Moves
<1> HIDE DEF Stays, s, SeatClass, HoldsPlace, Movable
<1>4. IInv /\ [Next]_vars => [Seat!Next]_(SeatClass(booking.status))
  BY <1>2, <1>3
<1>5. QED BY <1>1, <1>4, Invariance, PTL DEF Spec, ImplementsSeatClaim, Seat!Spec

\* Seen from its technician's diary, a booking does what JobClaim allows, the abstract
\* booking that Dispatch is built on: a payment, a refund or a conversion confirms it
\* anew or takes it out, and only assign_technician gives it a technician.
THEOREM JobRefinement == Spec => ImplementsJobClaim
<1> DEFINE Keeps == booking'.technician = booking.technician
           Same == Keeps /\ booking'.status = booking.status
           Goes == /\ Keeps /\ booking.status \in {"TECHNICIAN_ASSIGNED", "TECHNICIAN_EN_ROUTE"}
                   /\ booking'.status \in {"TECHNICIAN_EN_ROUTE", "IN_PROGRESS"}
           Leaves == /\ Keeps
                     /\ booking'.status \notin {"TECHNICIAN_ASSIGNED", "TECHNICIAN_EN_ROUTE", "IN_PROGRESS"}
           Given == \E t \in Technicians : AssignTechnician(t)
<1>1. Init => Job!Init
  BY DEF Init, NewBooking, Job!Init, JobStage
<1>2. IInv /\ [Next]_vars => Same \/ Goes \/ Leaves \/ Given \/ RemoveTechnician
  <2> SUFFICES ASSUME IInv, [Next]_vars PROVE Same \/ Goes \/ Leaves \/ Given \/ RemoveTechnician
    OBVIOUS
  <2> USE DEF external, local
  <2>1. TypeOK
    BY DEF IInv
  <2> USE <2>1 DEF TypeOK, BookingRow
  <2>2. CASE PaymentNext
    BY <2>2 DEF PaymentNext, CreateAdvanceOrder, ConfirmCapturedPayment, ConfirmedAfterPayment,
       ProviderCaptures, RejectPaymentSignature, PaymentFailedWebhook, MarkPaymentFailed,
       RecordManualPayment, ConvertLead, EditLead
  <2>3. CASE RefundNext
    <3>1. ASSUME NEW p, NEW rows, NEW o, ApplyRefundState(p, rows, o) PROVE Same \/ Leaves
      <4>1. Keeps /\ \E s \in {"REFUNDED", "REFUND_PENDING", SettledStatus} : booking'.status = s
        BY <3>1 DEF ApplyRefundState
      <4>2. SettledStatus \in {booking.status, "CANCELLED", "CONFIRMED"}
        BY DEF SettledStatus
      <4>3. QED BY <4>1, <4>2
    <3>2. UNCHANGED booking \/ \E p, rows, o : ApplyRefundState(p, rows, o)
      BY <2>3 DEF RefundNext, CreateRefund, RefundWithoutRow, RefundWebhook, ProviderSettles,
                  ReconcileRefund
    <3>3. QED BY <3>1, <3>2
  <2>4. CASE VisitNext
    <3> USE DEF Transition, Startable
    <3>1. \/ UNCHANGED booking
          \/ Given \/ RemoveTechnician \/ MarkEnRoute \/ StartBooking \/ CompleteBooking \/ CloseBooking
          \/ \E actor \in {"admin", "customer"} : CancelBooking(actor)
          \/ \E a \in 1..Total : RecordBalance(a)
      BY <2>4 DEF VisitNext, IssueInvoice
    <3>2. QED BY <3>1 DEF MarkEnRoute, StartBooking, CompleteBooking, CloseBooking, CancelBooking,
                 RecordBalance
  <2>5. QED BY <2>2, <2>3, <2>4 DEF Next, vars
<1>3. IInv /\ [Next]_vars => [Job!Next]_(Job!vars)
  <2> SUFFICES ASSUME IInv, [Next]_vars
               PROVE  Job!Next \/ UNCHANGED <<JobStage(booking.status), booking.technician>>
    BY DEF Job!vars
  <2>1. TypeOK /\ AssignmentMatchesBooking
    BY DEF IInv
  <2>2. CASE Same
    BY <2>2 DEF JobStage
  <2>3. CASE Goes
    <3>1. Job!Proceed
      BY <2>3 DEF Job!Proceed, JobStage
    <3>2. QED BY <3>1 DEF Job!Next, Job!Others
  <2>4. CASE Leaves
    <3>1. Job!Withdraw
      BY <2>4 DEF Job!Withdraw, JobStage
    <3>2. QED BY <3>1 DEF Job!Next, Job!Others
  <2>5. ASSUME NEW t \in Technicians, AssignTechnician(t) PROVE Job!Next
    <3>1. Job!Assign(t)
      BY <2>1, <2>5 DEF AssignTechnician, Assignable, TypeOK, BookingRow, Job!Assign, JobStage
    <3>2. QED BY <3>1 DEF Job!Next
  <2>6. CASE RemoveTechnician
    <3>1. booking.technician # Nobody /\ booking' = Unassigned
      BY <2>1, <2>6 DEF RemoveTechnician, AssignmentMatchesBooking
    <3>2. booking'.technician = Nobody /\ booking'.status =
            IF booking.status = "TECHNICIAN_ASSIGNED" THEN "CONFIRMED" ELSE booking.status
      BY <2>1, <3>1 DEF Unassigned, TypeOK, BookingRow
    <3>3. Job!Remove
      BY <3>1, <3>2 DEF Job!Remove, JobStage
    <3>4. QED BY <3>3 DEF Job!Next, Job!Others
  <2>7. QED BY <1>2, <2>2, <2>3, <2>4, <2>5, <2>6
<1>4. QED BY <1>1, <1>3, Invariance, PTL DEF Spec, ImplementsJobClaim, Job!Spec
-----------------------------------------------------------------------------
(* Sums of refunds.  Induction over finite sets takes the smallest of the   *)
(* sets that a claim is wrong of.                                           *)

\* Among sets of finitely many refunds there is one of which no smaller one is there.
LEMMA SmallestSet ==
    ASSUME NEW S, IsFiniteSet(S), NEW B \in SUBSET (SUBSET S), B # {}
    PROVE  \E T \in B : \A U \in B : U \subseteq T => U = T
<1>1. FiniteSubsetsOf(S) = SUBSET S
  BY FS_FiniteSubsetsOfFinite
<1>2. IsWellFoundedOn(StrictSubsetOrdering(S), SUBSET S)
  BY <1>1, FS_StrictSubsetOrderingWellFounded
<1>3. PICK T \in B : \A U \in B : ~(<<U, T>> \in StrictSubsetOrdering(S))
  BY <1>2, WFMin
<1>4. \A U \in B : U \subseteq T => U = T
  BY <1>3 DEF StrictSubsetOrdering
<1>5. QED BY <1>4

\* AmountOf is a fold over any order of the refunds: the sums over the subsets of S
\* in the order in which Pick takes them.
Pick(s) == CHOOSE x \in s : TRUE
Sums(p, S, f) ==
    f = [s \in SUBSET S |-> IF s = {} THEN 0 ELSE p[Pick(s)].amount + f[s \ {Pick(s)}]]
Priced(p, S) == \A r \in S : p[r].amount \in Nat

LEMMA Picks == ASSUME NEW S, S # {} PROVE Pick(S) \in S
BY DEF Pick

LEMMA AmountIsFold ==
    ASSUME NEW p, NEW S
    PROVE  AmountOf(p, S) = (CHOOSE f : Sums(p, S, f))[S]
BY DEF AmountOf, MapThenSumSet, MapThenFoldSet, Sums, Pick

LEMMA SumsAgree ==
    ASSUME NEW p, NEW S, IsFiniteSet(S), NEW T, NEW f, NEW g, Sums(p, S, f), Sums(p, T, g)
    PROVE  \A s \in SUBSET S : s \in SUBSET T => f[s] = g[s]
<1> DEFINE Bad == {s \in SUBSET S : s \in SUBSET T /\ f[s] # g[s]}
<1>1. SUFFICES ASSUME Bad # {} PROVE FALSE
  OBVIOUS
<1>2. PICK s \in Bad : \A u \in Bad : u \subseteq s => u = s
  <2>1. Bad \in SUBSET (SUBSET S)
    OBVIOUS
  <2> HIDE DEF Bad
  <2>2. QED BY <1>1, <2>1, SmallestSet
<1>3. /\ s \in SUBSET S => f[s] = IF s = {} THEN 0 ELSE p[Pick(s)].amount + f[s \ {Pick(s)}]
      /\ s \in SUBSET T => g[s] = IF s = {} THEN 0 ELSE p[Pick(s)].amount + g[s \ {Pick(s)}]
  BY DEF Sums
<1>4. s # {}
  BY <1>3
<1>5. Pick(s) \in s
  BY <1>4, Picks
<1>6. s \ {Pick(s)} \notin Bad
  BY <1>2, <1>5
<1>7. f[s \ {Pick(s)}] = g[s \ {Pick(s)}]
  BY <1>6
<1>8. QED BY <1>3, <1>7

LEMMA SumsExist ==
    ASSUME NEW p, NEW S, IsFiniteSet(S)
    PROVE  \E f : Sums(p, S, f)
<1> DEFINE Bad == {s \in SUBSET S : ~ \E f : Sums(p, s, f)}
<1>1. SUFFICES ASSUME Bad # {} PROVE FALSE
  OBVIOUS
<1>2. PICK s \in Bad : \A u \in Bad : u \subseteq s => u = s
  <2>1. Bad \in SUBSET (SUBSET S)
    OBVIOUS
  <2> HIDE DEF Bad
  <2>2. QED BY <1>1, <2>1, SmallestSet
<1>3. ASSUME NEW u \in SUBSET s, u # s PROVE Sums(p, u, CHOOSE f : Sums(p, u, f)) /\ IsFiniteSet(u)
  BY <1>2, <1>3, FS_Subset
<1> DEFINE f == [u \in SUBSET s |-> IF u = {} THEN 0 ELSE p[Pick(u)].amount + AmountOf(p, u \ {Pick(u)})]
<1>4. ASSUME NEW u \in SUBSET s, u # s PROVE f[u] = AmountOf(p, u)
  <2> DEFINE g == CHOOSE h : Sums(p, u, h)
             v == u \ {Pick(u)}
             k == CHOOSE h : Sums(p, v, h)
  <2>1. Sums(p, u, g) /\ AmountOf(p, u) = g[u]
    BY <1>3, <1>4, AmountIsFold
  <2> HIDE DEF g
  <2>2. g[u] = IF u = {} THEN 0 ELSE p[Pick(u)].amount + g[v]
    BY <2>1 DEF Sums
  <2>3. CASE u = {}
    BY <2>1, <2>2, <2>3
  <2>4. CASE u # {}
    <3>1. Pick(u) \in u
      BY <2>4, Picks
    <3>2. v \in SUBSET s /\ v # s /\ v \in SUBSET u
      BY <1>4, <3>1
    <3>3. Sums(p, v, k) /\ AmountOf(p, v) = k[v] /\ IsFiniteSet(u)
      BY <1>3, <1>4, <3>2, AmountIsFold
    <3> HIDE DEF k
    <3>4. g[v] = k[v]
      BY <2>1, <3>2, <3>3, SumsAgree
    <3>5. QED BY <2>1, <2>2, <2>4, <3>3, <3>4
  <2>5. QED BY <2>3, <2>4
<1>5. ASSUME NEW u \in SUBSET s, u # {} PROVE f[u \ {Pick(u)}] = AmountOf(p, u \ {Pick(u)})
  <2>1. Pick(u) \in u
    BY <1>5, Picks
  <2>2. u \ {Pick(u)} \in SUBSET s /\ u \ {Pick(u)} # s
    BY <2>1
  <2>3. QED BY <1>4, <2>2
<1>6. f = [u \in SUBSET s |-> IF u = {} THEN 0 ELSE p[Pick(u)].amount + f[u \ {Pick(u)}]]
  BY <1>5
<1> HIDE DEF f
<1>7. Sums(p, s, f)
  BY <1>6 DEF Sums
<1>8. QED BY <1>7

LEMMA AmountUnfolds ==
    ASSUME NEW p, NEW S, IsFiniteSet(S)
    PROVE  /\ S = {} => AmountOf(p, S) = 0
           /\ S # {} => Pick(S) \in S /\ AmountOf(p, S) = p[Pick(S)].amount + AmountOf(p, S \ {Pick(S)})
<1> DEFINE T == S \ {Pick(S)}
           f == CHOOSE h : Sums(p, S, h)
           g == CHOOSE h : Sums(p, T, h)
<1>1. IsFiniteSet(T)
  BY FS_Subset
<1>2. Sums(p, S, f) /\ AmountOf(p, S) = f[S] /\ Sums(p, T, g) /\ AmountOf(p, T) = g[T]
  BY <1>1, SumsExist, AmountIsFold
<1> HIDE DEF f, g
<1>3. f[T] = g[T]
  BY <1>2, SumsAgree
<1>4. f[S] = IF S = {} THEN 0 ELSE p[Pick(S)].amount + f[T]
  BY <1>2 DEF Sums
<1>5. QED BY <1>2, <1>3, <1>4, Picks

LEMMA AmountIsNat ==
    ASSUME NEW p, NEW S, IsFiniteSet(S), Priced(p, S)
    PROVE  AmountOf(p, S) \in Nat
<1> DEFINE Bad == {s \in SUBSET S : AmountOf(p, s) \notin Nat}
<1>1. SUFFICES ASSUME Bad # {} PROVE FALSE
  OBVIOUS
<1>2. PICK s \in Bad : \A u \in Bad : u \subseteq s => u = s
  <2>1. Bad \in SUBSET (SUBSET S)
    OBVIOUS
  <2> HIDE DEF Bad
  <2>2. QED BY <1>1, <2>1, SmallestSet
<1>3. IsFiniteSet(s)
  BY FS_Subset
<1>4. s # {} /\ Pick(s) \in s /\ AmountOf(p, s) = p[Pick(s)].amount + AmountOf(p, s \ {Pick(s)})
  BY <1>3, AmountUnfolds
<1>5. s \ {Pick(s)} \notin Bad
  BY <1>2, <1>4
<1>6. AmountOf(p, s \ {Pick(s)}) \in Nat
  BY <1>5
<1>7. p[Pick(s)].amount \in Nat
  BY <1>4 DEF Priced
<1>8. QED BY <1>2, <1>4, <1>6, <1>7

\* Whichever refund is taken out first.
LEMMA AmountWithout ==
    ASSUME NEW p, NEW S, IsFiniteSet(S), Priced(p, S), NEW r \in S
    PROVE  AmountOf(p, S) = p[r].amount + AmountOf(p, S \ {r})
<1> DEFINE Bad == {s \in SUBSET S : \E x \in s : AmountOf(p, s) # p[x].amount + AmountOf(p, s \ {x})}
<1>1. SUFFICES ASSUME Bad # {} PROVE FALSE
  OBVIOUS
<1>2. PICK s \in Bad : \A u \in Bad : u \subseteq s => u = s
  <2>1. Bad \in SUBSET (SUBSET S)
    OBVIOUS
  <2> HIDE DEF Bad
  <2>2. QED BY <1>1, <2>1, SmallestSet
<1>3. PICK x \in s : AmountOf(p, s) # p[x].amount + AmountOf(p, s \ {x})
  BY <1>2
<1> DEFINE y == Pick(s)
<1>4. y \in s /\ AmountOf(p, s) = p[y].amount + AmountOf(p, s \ {y})
  BY <1>3, AmountUnfolds, FS_Subset
<1> HIDE DEF y
<1>5. x # y
  BY <1>3, <1>4
<1>6. s \ {x} \notin Bad /\ s \ {y} \notin Bad
  BY <1>2, <1>4
<1>7. AmountOf(p, s \ {x}) = p[y].amount + AmountOf(p, (s \ {x}) \ {y})
  BY <1>4, <1>5, <1>6
<1>8. AmountOf(p, s \ {y}) = p[x].amount + AmountOf(p, (s \ {y}) \ {x})
  BY <1>3, <1>5, <1>6
<1> DEFINE rest == (s \ {x}) \ {y}
<1>9. rest = (s \ {y}) \ {x} /\ rest \in SUBSET S
  OBVIOUS
<1>10. AmountOf(p, rest) \in Nat /\ p[x].amount \in Nat /\ p[y].amount \in Nat
  <2>1. IsFiniteSet(rest) /\ Priced(p, rest)
    BY <1>9, FS_Subset DEF Priced
  <2>2. QED BY <1>4, <2>1, AmountIsNat DEF Priced
<1> HIDE DEF rest
<1>11. AmountOf(p, s \ {x}) = p[y].amount + AmountOf(p, rest) /\ AmountOf(p, s \ {y}) = p[x].amount + AmountOf(p, rest)
  BY <1>7, <1>8, <1>9 DEF rest
<1>12. QED BY <1>3, <1>4, <1>10, <1>11

LEMMA AmountBelow ==
    ASSUME NEW p, NEW S, IsFiniteSet(S), Priced(p, S), NEW T \in SUBSET S
    PROVE  /\ AmountOf(p, T) \in Nat /\ AmountOf(p, S) \in Nat
           /\ AmountOf(p, T) <= AmountOf(p, S)
<1>1. ASSUME NEW s \in SUBSET S PROVE IsFiniteSet(s) /\ Priced(p, s) /\ AmountOf(p, s) \in Nat
  <2>1. IsFiniteSet(s) /\ Priced(p, s)
    BY FS_Subset DEF Priced
  <2>2. QED BY <2>1, AmountIsNat
<1> DEFINE Bad == {s \in SUBSET S : T \subseteq s /\ ~(AmountOf(p, T) <= AmountOf(p, s))}
<1>2. SUFFICES ASSUME Bad # {} PROVE FALSE
  <2>1. S \notin Bad
    BY <1>2
  <2>2. QED BY <1>1, <2>1
<1>3. PICK s \in Bad : \A u \in Bad : u \subseteq s => u = s
  <2>1. Bad \in SUBSET (SUBSET S)
    OBVIOUS
  <2> HIDE DEF Bad
  <2>2. QED BY <1>2, <2>1, SmallestSet
<1>4. PICK r \in s : r \notin T
  <2>1. AmountOf(p, T) \in Nat
    BY <1>1
  <2>2. s # T
    BY <2>1
  <2>3. QED BY <2>2
<1>5. s \ {r} \notin Bad
  BY <1>3, <1>4
<1>6. AmountOf(p, T) <= AmountOf(p, s \ {r})
  BY <1>4, <1>5
<1>7. AmountOf(p, s) = p[r].amount + AmountOf(p, s \ {r})
  BY <1>1, AmountWithout
<1>8. p[r].amount \in Nat /\ AmountOf(p, s \ {r}) \in Nat /\ AmountOf(p, T) \in Nat
  BY <1>1 DEF Priced
<1>9. QED BY <1>3, <1>6, <1>7, <1>8

LEMMA SameAmounts ==
    ASSUME NEW p, NEW q, NEW S, IsFiniteSet(S), \A r \in S : q[r].amount = p[r].amount
    PROVE  AmountOf(q, S) = AmountOf(p, S)
<1> DEFINE Bad == {s \in SUBSET S : AmountOf(q, s) # AmountOf(p, s)}
<1>1. SUFFICES ASSUME Bad # {} PROVE FALSE
  OBVIOUS
<1>2. PICK s \in Bad : \A u \in Bad : u \subseteq s => u = s
  <2>1. Bad \in SUBSET (SUBSET S)
    OBVIOUS
  <2> HIDE DEF Bad
  <2>2. QED BY <1>1, <2>1, SmallestSet
<1>3. /\ s = {} => AmountOf(p, s) = 0 /\ AmountOf(q, s) = 0
      /\ s # {} => /\ Pick(s) \in s
                   /\ AmountOf(p, s) = p[Pick(s)].amount + AmountOf(p, s \ {Pick(s)})
                   /\ AmountOf(q, s) = q[Pick(s)].amount + AmountOf(q, s \ {Pick(s)})
  BY FS_Subset, AmountUnfolds
<1>4. s # {}
  BY <1>3
<1>5. s \ {Pick(s)} \notin Bad
  BY <1>2, <1>3, <1>4
<1>6. AmountOf(q, s \ {Pick(s)}) = AmountOf(p, s \ {Pick(s)})
  BY <1>5
<1>7. q[Pick(s)].amount = p[Pick(s)].amount
  BY <1>3, <1>4
<1>8. QED BY <1>3, <1>4, <1>6, <1>7
-----------------------------------------------------------------------------
(* What is returned.  The provider holds no more refunds of a payment than  *)
(* it captured, and the rows that are SUCCESS are among those it paid.      *)

\* What the provider has promised and what it reported of it.
Promised == {r \in Refunds : provider[r].order # NoOrder}
ReportsAgree ==
    \A r \in Refunds :
       /\ provider[r].order = NoOrder => provider[r].reported = {}
       /\ ~({"processed", "failed"} \subseteq provider[r].reported)
       /\ refund[r] = "SUCCESS" => "processed" \in provider[r].reported
HeldWithinPayment ==
    \A o \in Orders : AmountOf(provider, ProviderHeld(provider, o)) <= Advance

RefundInv == IsFiniteSet(Promised) /\ ReportsAgree /\ HeldWithinPayment /\ RefundedMeansReturned

\* What was paid out stays paid out.
PaidKept ==
    \A o \in Orders : /\ AmountOf(provider, ProviderPaid(provider, o)) \in Nat
                       /\ AmountOf(provider', ProviderPaid(provider', o)) \in Nat
                       /\ AmountOf(provider, ProviderPaid(provider, o))
                             <= AmountOf(provider', ProviderPaid(provider', o))

LEMMA OfOrder ==
    ASSUME TypeOK, RefundInv, NEW o \in Orders
    PROVE  /\ ProviderHeld(provider, o) \subseteq Promised /\ ProviderPaid(provider, o) \subseteq Promised
           /\ IsFiniteSet(ProviderHeld(provider, o)) /\ IsFiniteSet(ProviderPaid(provider, o))
           /\ Priced(provider, Promised)
<1>1. ProviderHeld(provider, o) \subseteq Promised /\ ProviderPaid(provider, o) \subseteq Promised
  BY SentinelAssumption DEF ProviderHeld, ProviderPaid, Promised
<1>2. Priced(provider, Promised)
  BY DEF TypeOK, ProviderRefund, Priced, Promised
<1>3. QED BY <1>1, <1>2, FS_Subset DEF RefundInv

\* The provider's refunds change so that none is forgotten and no amount changes.
LEMMA PaidGrows ==
    ASSUME TypeOK, RefundInv, TypeOK', IsFiniteSet(Promised'), NEW o \in Orders,
           ProviderPaid(provider, o) \subseteq ProviderPaid(provider', o),
           \A r \in ProviderPaid(provider, o) : provider'[r].amount = provider[r].amount
    PROVE  /\ AmountOf(provider, ProviderPaid(provider, o)) \in Nat
           /\ AmountOf(provider', ProviderPaid(provider', o)) \in Nat
           /\ AmountOf(provider, ProviderPaid(provider, o))
                 <= AmountOf(provider', ProviderPaid(provider', o))
<1> DEFINE S == ProviderPaid(provider', o)
           T == ProviderPaid(provider, o)
<1>1. IsFiniteSet(T)
  BY OfOrder
<1>2. S \subseteq Promised'
  BY SentinelAssumption DEF ProviderPaid, Promised
<1>3. IsFiniteSet(S)
  BY <1>2, FS_Subset
<1>4. Priced(provider', S)
  BY DEF ProviderPaid, Priced, TypeOK, ProviderRefund
<1>5. AmountOf(provider', T) = AmountOf(provider, T)
  BY <1>1, SameAmounts
<1>6. AmountOf(provider', T) \in Nat /\ AmountOf(provider', S) \in Nat /\ AmountOf(provider', T) <= AmountOf(provider', S)
  BY <1>3, <1>4, AmountBelow
<1>7. QED BY <1>5, <1>6

LEMMA AcceptsRefund ==
    ASSUME TypeOK, RefundInv, TypeOK', NEW r \in Refunds, NEW o \in Orders, NEW a \in 1..Advance,
           NEW s \in ProviderReport, ProviderAccepts(r, o, a, s)
    PROVE  IsFiniteSet(Promised') /\ HeldWithinPayment' /\ PaidKept
<1>1. /\ provider[r].order = NoOrder
      /\ a + AmountOf(provider, ProviderHeld(provider, o)) <= Advance
      /\ provider'[r].order = o /\ provider'[r].amount = a /\ provider'[r].reported = {s}
      /\ \A q \in Refunds \ {r} : provider'[q] = provider[q]
  BY DEF ProviderAccepts, TypeOK
<1>2. o # NoOrder /\ Advance \in Nat /\ a \in Nat
  BY SentinelAssumption, AmountsAssumption
<1>3. Promised' = Promised \cup {r}
  BY <1>1, <1>2 DEF Promised
<1>4. IsFiniteSet(Promised')
  BY <1>3, FS_AddElement DEF RefundInv
<1>5. HeldWithinPayment'
  <2> SUFFICES ASSUME NEW d \in Orders
               PROVE  AmountOf(provider', ProviderHeld(provider', d)) <= Advance
    BY DEF HeldWithinPayment
  <2> DEFINE H == ProviderHeld(provider, d)
             K == ProviderHeld(provider', d)
  <2>1. IsFiniteSet(H) /\ Priced(provider, Promised) /\ H \subseteq Promised /\ r \notin H
    BY <1>1, OfOrder, SentinelAssumption DEF ProviderHeld
  <2>2. \A q \in H : provider'[q].amount = provider[q].amount
    BY <1>1, <2>1 DEF ProviderHeld
  <2>3. AmountOf(provider', H) = AmountOf(provider, H) /\ AmountOf(provider, H) <= Advance
    BY <2>1, <2>2, SameAmounts DEF RefundInv, HeldWithinPayment
  <2>4. K = H \/ (d = o /\ K = H \cup {r})
    BY <1>1, <1>2, <2>1 DEF ProviderHeld
  <2>5. CASE K = H
    BY <2>3, <2>5
  <2>6. CASE d = o /\ K = H \cup {r}
    <3>1. IsFiniteSet(K) /\ r \in K /\ K \ {r} = H
      <4> HIDE DEF H, K
      <4>1. QED BY <2>1, <2>6, FS_AddElement
    <3>4. Priced(provider', K)
      BY DEF Priced, ProviderHeld, TypeOK, ProviderRefund
    <3>2. AmountOf(provider', K) = a + AmountOf(provider', H)
      BY <1>1, <3>1, <3>4, AmountWithout
    <3>3. QED BY <1>1, <2>3, <2>6, <3>2
  <2>7. QED BY <2>4, <2>5, <2>6
<1>6. PaidKept
  <2> SUFFICES ASSUME NEW d \in Orders
               PROVE  /\ ProviderPaid(provider, d) \subseteq ProviderPaid(provider', d)
                      /\ \A q \in ProviderPaid(provider, d) : provider'[q].amount = provider[q].amount
    BY <1>4, PaidGrows DEF PaidKept
  <2>1. r \notin ProviderPaid(provider, d)
    BY <1>1, SentinelAssumption DEF ProviderPaid
  <2>2. QED BY <1>1, <2>1 DEF ProviderPaid
<1>7. QED BY <1>4, <1>5, <1>6

LEMMA SettlesRefund ==
    ASSUME TypeOK, RefundInv, TypeOK', NEW r \in Refunds, NEW s \in {"processed", "failed"},
           ProviderSettles(r, s)
    PROVE  IsFiniteSet(Promised') /\ HeldWithinPayment' /\ PaidKept
<1>1. /\ \A q \in Refunds : provider'[q].order = provider[q].order /\ provider'[q].amount = provider[q].amount
      /\ \A q \in Refunds : provider[q].reported \subseteq provider'[q].reported
  BY DEF ProviderSettles, TypeOK, ProviderRefund
<1>2. Promised' = Promised
  BY <1>1 DEF Promised
<1>3. HeldWithinPayment'
  <2> SUFFICES ASSUME NEW d \in Orders
               PROVE  AmountOf(provider', ProviderHeld(provider', d)) <= Advance
    BY DEF HeldWithinPayment
  <2> DEFINE H == ProviderHeld(provider, d)
             K == ProviderHeld(provider', d)
  <2>1. IsFiniteSet(H) /\ H \subseteq Promised /\ Priced(provider, Promised)
    BY OfOrder
  <2>2. K \in SUBSET H /\ IsFiniteSet(K) /\ Priced(provider, H)
    <3>1. K \in SUBSET H
      BY <1>1 DEF ProviderHeld
    <3>2. QED BY <2>1, <3>1, FS_Subset DEF Priced
  <2>3. AmountOf(provider', K) = AmountOf(provider, K)
    BY <1>1, <2>2, SameAmounts DEF ProviderHeld
  <2>4. AmountOf(provider, K) \in Nat /\ AmountOf(provider, H) \in Nat /\ AmountOf(provider, K) <= AmountOf(provider, H)
    BY <2>1, <2>2, AmountBelow
  <2>5. AmountOf(provider, H) <= Advance /\ Advance \in Nat
    BY AmountsAssumption DEF RefundInv, HeldWithinPayment
  <2> HIDE DEF H, K
  <2>6. AmountOf(provider', K) <= Advance
    BY <2>3, <2>4, <2>5
  <2>7. QED BY <2>6 DEF K
<1>4. IsFiniteSet(Promised')
  BY <1>2 DEF RefundInv
<1>5. PaidKept
  <2> SUFFICES ASSUME NEW d \in Orders
               PROVE  /\ ProviderPaid(provider, d) \subseteq ProviderPaid(provider', d)
                      /\ \A q \in ProviderPaid(provider, d) : provider'[q].amount = provider[q].amount
    BY <1>4, PaidGrows DEF PaidKept
  <2>1. QED BY <1>1 DEF ProviderPaid
<1>6. QED BY <1>3, <1>4, <1>5

\* The provider's side is left alone.
LEMMA ProviderSame ==
    ASSUME TypeOK, RefundInv, TypeOK', provider' = provider
    PROVE  IsFiniteSet(Promised') /\ HeldWithinPayment' /\ PaidKept
<1>1. IsFiniteSet(Promised') /\ HeldWithinPayment'
  BY DEF RefundInv, Promised, HeldWithinPayment, ProviderHeld
<1>2. PaidKept
  <2> SUFFICES ASSUME NEW d \in Orders
               PROVE  /\ ProviderPaid(provider, d) \subseteq ProviderPaid(provider', d)
                      /\ \A q \in ProviderPaid(provider, d) : provider'[q].amount = provider[q].amount
    BY <1>1, PaidGrows DEF PaidKept
  <2>1. QED BY DEF ProviderPaid
<1>3. QED BY <1>1, <1>2

\* A booking that was REFUNDED is so still by what was paid out, and one that has
\* become so is by the rows of order o.
LEMMA ReturnedKept ==
    ASSUME TypeOK, RefundInv, TypeOK', PaidKept, booking.status = "REFUNDED"
    PROVE  RefundedMeansReturned'
<1>1. PICK o \in Orders : AmountOf(provider, ProviderPaid(provider, o)) >= Advance
  BY DEF RefundInv, RefundedMeansReturned
<1>2. AmountOf(provider', ProviderPaid(provider', o)) >= Advance
  BY <1>1, AmountsAssumption DEF PaidKept
<1>3. QED BY <1>2 DEF RefundedMeansReturned

LEMMA RefundedByRows ==
    ASSUME TypeOK, RefundInv, TypeOK', IsFiniteSet(Promised'), ReportsAgree', PaidKept,
           NEW o \in Orders, ApplyRefundState(provider', refund', o)
    PROVE  RefundedMeansReturned'
<1> DEFINE S == RefundsOf(provider', refund', o, {"SUCCESS"})
           T == ProviderPaid(provider', o)
<1>1. S \in SUBSET T /\ T \subseteq Promised'
  BY SentinelAssumption DEF RefundsOf, ProviderPaid, ReportsAgree, Promised
<1>2. IsFiniteSet(T) /\ Priced(provider', T)
  BY <1>1, FS_Subset DEF Priced, ProviderPaid, TypeOK, ProviderRefund
<1>3. /\ AmountOf(provider', S) \in Nat /\ AmountOf(provider', T) \in Nat
      /\ AmountOf(provider', S) <= AmountOf(provider', T)
  BY <1>1, <1>2, AmountBelow
<1>4. CASE AmountOf(provider', S) >= Advance
  <2>1. AmountOf(provider', T) >= Advance
    BY <1>3, <1>4, AmountsAssumption
  <2>2. QED BY <2>1 DEF RefundedMeansReturned
<1>5. CASE ~(AmountOf(provider', S) >= Advance)
  <2>1. booking'.status \in {"REFUND_PENDING", SettledStatus}
    BY <1>5 DEF ApplyRefundState, TypeOK, BookingRow
  <2>2. booking'.status = "REFUNDED" => booking.status = "REFUNDED"
    BY <2>1 DEF SettledStatus
  <2>3. QED BY <2>2, ReturnedKept DEF RefundedMeansReturned
<1>6. QED BY <1>4, <1>5

LEMMA RefundHandlerReturns ==
    ASSUME TypeOK, RefundsHaveCapture, RefundInv, TypeOK', NEW r \in Refunds,
           \/ \E o \in Orders, a \in 1..Advance, s \in ProviderReport :
                 CreateRefund(r, o, a, s) \/ RefundWithoutRow(r, o, a, s)
           \/ \E s \in ProviderReport : RefundWebhook(r, s)
           \/ \E s \in {"processed", "failed"} : ProviderSettles(r, s)
           \/ ReconcileRefund(r)
    PROVE  RefundInv'
<1>1. \A s : (RefundStatus(s) = "SUCCESS" => s = "processed") /\ RefundStatus(s) \in {"PENDING", "SUCCESS", "FAILED"}
  BY DEF RefundStatus
<1>2. captured \subseteq Orders /\ ReportsAgree
  BY DEF TypeOK, RefundInv
<1>3. ASSUME NEW o \in Orders, NEW a \in 1..Advance, NEW s \in ProviderReport,
             CreateRefund(r, o, a, s) \/ RefundWithoutRow(r, o, a, s)
      PROVE  RefundInv'
  <2>1. ProviderAccepts(r, o, a, s)
    BY <1>3 DEF CreateRefund, RefundWithoutRow
  <2>2. IsFiniteSet(Promised') /\ HeldWithinPayment' /\ PaidKept
    BY <2>1, AcceptsRefund
  <2>3. /\ provider[r].order = NoOrder /\ provider'[r].order = o /\ provider'[r].reported = {s}
        /\ \A q \in Refunds \ {r} : provider'[q] = provider[q]
    BY <2>1 DEF ProviderAccepts, TypeOK
  <2>4. /\ \A q \in Refunds \ {r} : refund'[q] = refund[q]
        /\ refund'[r] \in {refund[r], RefundStatus(s)}
    BY <1>3 DEF CreateRefund, RefundWithoutRow, local, TypeOK
  <2>5. refund[r] # "SUCCESS"
    BY <1>2, <2>3 DEF ReportsAgree
  <2>6. ReportsAgree'
    <3>1. ASSUME NEW q \in Refunds
          PROVE  /\ provider'[q].order = NoOrder => provider'[q].reported = {}
                 /\ ~({"processed", "failed"} \subseteq provider'[q].reported)
                 /\ refund'[q] = "SUCCESS" => "processed" \in provider'[q].reported
      <4>1. CASE q = r
        BY <1>1, <2>3, <2>4, <2>5, <4>1, SentinelAssumption
      <4>2. CASE q # r
        BY <1>2, <2>3, <2>4, <4>2 DEF ReportsAgree
      <4>3. QED BY <4>1, <4>2
    <3>2. QED BY <3>1 DEF ReportsAgree
  <2>7. RefundedMeansReturned'
    <3>1. CASE CreateRefund(r, o, a, s)
      BY <2>2, <2>6, <3>1, RefundedByRows DEF CreateRefund
    <3>2. CASE RefundWithoutRow(r, o, a, s)
      BY <2>2, <3>2, ReturnedKept DEF RefundWithoutRow, local, RefundedMeansReturned
    <3>3. QED BY <1>3, <3>1, <3>2
  <2>8. QED BY <2>2, <2>6, <2>7 DEF RefundInv
<1>4. ASSUME NEW s, provider[r].reported # {}, s = "processed" => "processed" \in provider[r].reported,
             refund' = [refund EXCEPT ![r] = RefundStatus(s)],
             ApplyRefundState(provider, refund', provider[r].order), UNCHANGED external
      PROVE  RefundInv'
  <2>1. provider' = provider /\ provider[r].order \in Orders
    BY <1>2, <1>4 DEF external, RefundsHaveCapture
  <2>2. IsFiniteSet(Promised') /\ HeldWithinPayment' /\ PaidKept
    BY <2>1, ProviderSame
  <2>3. ReportsAgree'
    BY <1>1, <1>2, <1>4, <2>1 DEF ReportsAgree, TypeOK
  <2>4. ApplyRefundState(provider', refund', provider[r].order)
    BY <1>4, <2>1
  <2>5. RefundedMeansReturned'
    BY <2>1, <2>2, <2>3, <2>4, RefundedByRows
  <2>6. QED BY <2>2, <2>3, <2>5 DEF RefundInv
<1>5. ASSUME NEW s \in ProviderReport, RefundWebhook(r, s) PROVE RefundInv'
  BY <1>4, <1>5 DEF RefundWebhook
<1>6. CASE ReconcileRefund(r)
  <2>1. CurrentReport(r) = "processed" => "processed" \in provider[r].reported
    BY DEF CurrentReport
  <2>2. provider[r].reported # {}
    BY <1>6 DEF ReconcileRefund, RefundsHaveCapture
  <2>3. QED BY <1>4, <1>6, <2>1, <2>2 DEF ReconcileRefund
<1>7. ASSUME NEW s \in {"processed", "failed"}, ProviderSettles(r, s) PROVE RefundInv'
  <2>1. IsFiniteSet(Promised') /\ HeldWithinPayment' /\ PaidKept
    BY <1>7, SettlesRefund
  <2>2. /\ UNCHANGED local /\ provider[r].reported = {"pending"}
        /\ provider'[r].reported = {"pending", s}
        /\ \A q \in Refunds \ {r} : provider'[q] = provider[q]
        /\ provider'[r].order = provider[r].order
    BY <1>7 DEF ProviderSettles, TypeOK, ProviderRefund
  <2>3. ReportsAgree'
    BY <1>2, <2>2 DEF ReportsAgree, local
  <2>4. RefundedMeansReturned'
    BY <2>1, <2>2, ReturnedKept DEF local, RefundedMeansReturned
  <2>5. QED BY <2>1, <2>3, <2>4 DEF RefundInv
<1>8. QED BY <1>3, <1>5, <1>6, <1>7

\* Every other handler leaves the refunds alone and makes no booking REFUNDED.
LEMMA OthersReturn ==
    ASSUME TypeOK, RefundInv, TypeOK', PaymentNext \/ VisitNext \/ UNCHANGED vars
    PROVE  RefundInv'
<1>1. provider' = provider /\ refund' = refund
  BY DEF vars, external, local, PaymentNext, CreateAdvanceOrder, ConfirmCapturedPayment, ProviderCaptures,
     RejectPaymentSignature, PaymentFailedWebhook, MarkPaymentFailed, RecordManualPayment, ConvertLead,
     EditLead, VisitNext, AssignTechnician, RemoveTechnician, MarkEnRoute, StartBooking,
     CompleteBooking, CloseBooking, CancelBooking, RecordBalance, IssueInvoice, Transition
<1>2. booking'.status = "REFUNDED" => booking.status = "REFUNDED"
  <2> USE DEF TypeOK, BookingRow
  <2>1. CASE PaymentNext
    BY <2>1 DEF local, PaymentNext, CreateAdvanceOrder, ConfirmCapturedPayment, ConfirmedAfterPayment,
       ProviderCaptures, RejectPaymentSignature, PaymentFailedWebhook, MarkPaymentFailed,
       RecordManualPayment, ConvertLead, EditLead
  <2>2. CASE VisitNext
    BY <2>2 DEF VisitNext, AssignTechnician, RemoveTechnician, Unassigned, MarkEnRoute, StartBooking,
       CompleteBooking, CloseBooking, CancelBooking, RecordBalance, IssueInvoice, Transition
  <2>3. CASE UNCHANGED vars
    BY <2>3 DEF vars
  <2>4. QED BY <2>1, <2>2, <2>3
<1>3. IsFiniteSet(Promised') /\ HeldWithinPayment' /\ PaidKept
  BY <1>1, ProviderSame
<1>4. ReportsAgree'
  BY <1>1 DEF RefundInv, ReportsAgree
<1>5. RefundedMeansReturned'
  BY <1>2, <1>3, ReturnedKept DEF RefundedMeansReturned
<1>6. QED BY <1>3, <1>4, <1>5 DEF RefundInv

LEMMA InitRefundInv == ASSUME Init PROVE RefundInv
<1>1. Promised = {} /\ ReportsAgree
  BY DEF Init, Promised, ReportsAgree
<1>2. \A o \in Orders : ProviderHeld(provider, o) = {}
  BY SentinelAssumption DEF Init, ProviderHeld
<1>3. HeldWithinPayment
  <2>1. AmountOf(provider, {}) = 0
    BY FS_EmptySet, AmountUnfolds
  <2>2. QED BY <1>2, <2>1, AmountsAssumption DEF HeldWithinPayment
<1>4. RefundedMeansReturned
  BY DEF Init, NewBooking, RefundedMeansReturned
<1>5. QED BY <1>1, <1>3, <1>4, FS_EmptySet DEF RefundInv

LEMMA RefundsAreWithin == ASSUME TypeOK, RefundInv PROVE RefundsWithinPayment
<1> SUFFICES ASSUME NEW o \in Orders
             PROVE  AmountOf(provider, RefundsOf(provider, refund, o, {"SUCCESS"})) <= Advance
  BY DEF RefundsWithinPayment
<1> DEFINE S == RefundsOf(provider, refund, o, {"SUCCESS"})
           H == ProviderHeld(provider, o)
<1>1. S \in SUBSET H
  BY DEF RefundInv, ReportsAgree, RefundsOf, ProviderHeld
<1>2. IsFiniteSet(H) /\ Priced(provider, H)
  BY OfOrder DEF Priced
<1>3. AmountOf(provider, S) \in Nat /\ AmountOf(provider, H) \in Nat /\ AmountOf(provider, S) <= AmountOf(provider, H)
  BY <1>1, <1>2, AmountBelow
<1>4. AmountOf(provider, H) <= Advance
  BY DEF RefundInv, HeldWithinPayment
<1> HIDE DEF S, H
<1>5. AmountOf(provider, S) <= Advance
  BY <1>3, <1>4, AmountsAssumption
<1>6. QED BY <1>5 DEF S

LEMMA RefundInvariance == Spec => []RefundInv
<1>1. TypeOK /\ RefundsHaveCapture /\ TypeOK' /\ RefundInv /\ [Next]_vars => RefundInv'
  BY RefundHandlerReturns, OthersReturn DEF Next, RefundNext
<1>2. IInv => TypeOK /\ RefundsHaveCapture
  BY DEF IInv
<1>3. Init => RefundInv
  BY InitRefundInv
<1>4. QED BY <1>1, <1>2, <1>3, Invariance, PTL DEF Spec

\* Whatever refunds are asked for at the same time, made beside the backend, reported
\* late or reconciled: create_refund and the provider together never record more as
\* paid out than the payment.
THEOREM RefundsAreCovered == Spec => []RefundsWithinPayment
<1>1. TypeOK /\ RefundInv => RefundsWithinPayment
  BY RefundsAreWithin
<1>2. QED BY <1>1, TypeCorrect, RefundInvariance, PTL

\* _apply_refund_state shows a booking as REFUNDED only after the provider has paid
\* out a whole payment, and that stays so.
THEOREM RefundedIsReturned == Spec => []RefundedMeansReturned
<1>1. RefundInv => RefundedMeansReturned
  BY DEF RefundInv
<1>2. QED BY <1>1, RefundInvariance, PTL
-----------------------------------------------------------------------------
(* How often a webhook applies one of the steps above: WebhookRecord, for any     *)
(* number of workers and of copies of a payload.  The claim is held by the pair   *)
(* of PROCESSING and the five minutes, not by a lock, so the invariant ties every *)
(* worker at work to that pair.                                                   *)

\* A worker at work on the event keeps its row PROCESSING and fresh.
ClaimIsFresh == Busy # {} => record.status = "PROCESSING" /\ fresh

\* An attempt applies the event once: not yet while it is dispatching, and at
\* least once when it is past that.
AppliedIsCounted ==
    \A w \in Workers : /\ worker[w] = "dispatching" => applied < record.attempts
                       /\ worker[w] = "applied" => applied > 0

\* A row that exists has had an attempt.
WorkedOn == record.status # "NONE" => record.attempts > 0

RecordInv ==
    /\ WebhookTypeOK
    /\ OneDispatcher
    /\ ClaimIsFresh
    /\ AppliedIsCounted
    /\ ProcessedWasApplied
    /\ WorkedOn

LEMMA InitRecordInv == WebhookInit => RecordInv
<1> SUFFICES ASSUME WebhookInit PROVE RecordInv
  OBVIOUS
<1> USE DEF WebhookInit
<1>1. Busy = {} /\ \A w \in Workers : worker[w] = "idle"
  BY DEF Busy
<1>2. record.status = "NONE" /\ record.attempts = 0 /\ 0 \in 0..MaxAttempts
  BY AttemptsAssumption
<1>3. WebhookTypeOK
  <2>1. record \in [status : {"NONE", "PROCESSING", "PROCESSED", "FAILED"},
                    attempts : 0..MaxAttempts]
    BY <1>2
  <2>2. worker \in [Workers -> {"idle", "dispatching", "applied", "raised"}]
    OBVIOUS
  <2>3. applied \in 0..record.attempts
    BY <1>2
  <2>4. QED BY <1>1, <2>1, <2>2, <2>3 DEF WebhookTypeOK
<1>4. OneDispatcher /\ ClaimIsFresh /\ AppliedIsCounted /\ ProcessedWasApplied
        /\ WorkedOn
  BY <1>1, <1>2 DEF OneDispatcher, ClaimIsFresh, AppliedIsCounted,
                    ProcessedWasApplied, WorkedOn
<1>5. QED BY <1>3, <1>4 DEF RecordInv

\* A claim is written only when the last one is stale or its attempt has failed, and
\* then nobody is at work; every other step leaves at most the workers that were.
LEMMA StepRecordInv == RecordInv /\ [WebhookNext]_webhookVars => RecordInv'
<1> SUFFICES ASSUME RecordInv, [WebhookNext]_webhookVars PROVE RecordInv'
  OBVIOUS
<1> USE AttemptsAssumption DEF RecordInv
<1>1. ASSUME NEW w \in Workers, Claim(w) PROVE RecordInv'
  <2>1. Busy = {}
    BY <1>1 DEF Claim, ProcessingIsFresh, ClaimIsFresh
  <2>2. worker' = [worker EXCEPT ![w] = "dispatching"] /\ Busy' = {w}
    BY <1>1, <2>1 DEF Claim, Busy, WebhookTypeOK
  <2>3. record' \in [status : {"PROCESSING"}, attempts : 1..MaxAttempts]
        /\ record'.attempts = record.attempts + 1
    BY <1>1 DEF Claim, WebhookTypeOK
  <2>4. WebhookTypeOK'
    BY <1>1, <2>2, <2>3 DEF Claim, WebhookTypeOK
  <2>5. OneDispatcher' /\ ClaimIsFresh'
    BY <1>1, <2>2, <2>3 DEF Claim, OneDispatcher, ClaimIsFresh
  <2>6. AppliedIsCounted' /\ ProcessedWasApplied' /\ WorkedOn'
    BY <1>1, <2>2, <2>3 DEF Claim, AppliedIsCounted, ProcessedWasApplied,
                            WorkedOn, WebhookTypeOK
  <2>7. QED BY <2>4, <2>5, <2>6
<1>2. ASSUME NEW w \in Workers, AnswerDuplicate(w) PROVE RecordInv'
  <2>1. /\ UNCHANGED <<record, fresh, worker, applied>> /\ Busy' = Busy
        /\ acked' = TRUE
        /\ record.status \in {"PROCESSED", "PROCESSING"}
    BY <1>2 DEF AnswerDuplicate, ProcessingIsFresh, Busy
  <2>2. WebhookTypeOK' /\ OneDispatcher' /\ ClaimIsFresh' /\ AppliedIsCounted'
    BY <2>1 DEF WebhookTypeOK, OneDispatcher, ClaimIsFresh, AppliedIsCounted
  <2>3. record.attempts > 0
    BY <2>1 DEF WorkedOn
  <2>4. ProcessedWasApplied' /\ WorkedOn'
    BY <2>1, <2>3 DEF ProcessedWasApplied, WorkedOn
  <2>5. QED BY <2>2, <2>4
<1>3. ASSUME NEW w \in Workers, Dispatch(w) PROVE RecordInv'
  <2>1. w \in Busy /\ Busy' = Busy
    BY <1>3 DEF Dispatch, Busy, WebhookTypeOK
  <2>2. applied' = applied + 1 /\ applied' \in 0..record'.attempts /\ record' = record
    BY <1>3 DEF Dispatch, AppliedIsCounted, WebhookTypeOK
  <2>3. WebhookTypeOK'
    BY <1>3, <2>1, <2>2 DEF Dispatch, WebhookTypeOK
  <2>4. OneDispatcher' /\ ClaimIsFresh' /\ ProcessedWasApplied' /\ WorkedOn'
    BY <1>3, <2>1, <2>2 DEF Dispatch, OneDispatcher, ClaimIsFresh,
                            ProcessedWasApplied, WorkedOn, WebhookTypeOK
  <2>5. AppliedIsCounted'
    BY <1>3, <2>1, <2>2 DEF Dispatch, AppliedIsCounted, OneDispatcher,
                            Busy, WebhookTypeOK
  <2>6. QED BY <2>3, <2>4, <2>5
<1>4. ASSUME NEW w \in Workers, Raise(w) PROVE RecordInv'
  <2>1. Busy' = Busy
    BY <1>4 DEF Raise, Busy, WebhookTypeOK
  <2>2. QED
    BY <1>4, <2>1 DEF Raise, WebhookTypeOK, OneDispatcher, ClaimIsFresh,
                      AppliedIsCounted, ProcessedWasApplied, WorkedOn
<1>5. ASSUME NEW w \in Workers,
             RecordFailed(w) \/ RecordProcessed(w) \/ Kill(w)
      PROVE  RecordInv'
  <2>1. w \in Busy /\ Stop(w)
    BY <1>5 DEF RecordFailed, RecordProcessed, MayRecordProcessed,
                Kill, Busy
  <2>2. Busy' = {}
    BY <2>1 DEF Stop, OneDispatcher, Busy, WebhookTypeOK
  <2>3. /\ applied' = applied /\ fresh' = fresh /\ record'.attempts = record.attempts
        /\ record' \in [status : {"PROCESSING", "PROCESSED", "FAILED"}, attempts : 0..MaxAttempts]
        /\ record'.status = "PROCESSED" => applied > 0
    BY <1>5, <2>1 DEF RecordFailed, RecordProcessed, MayRecordProcessed,
                      Kill, WebhookTypeOK, AppliedIsCounted,
                      ProcessedWasApplied
  <2>4. record.attempts > 0 /\ acked' \in BOOLEAN
    BY <1>5, <2>1 DEF RecordFailed, RecordProcessed, Kill, WebhookTypeOK,
                      WorkedOn
  <2>5. worker' \in [Workers -> {"idle", "dispatching", "applied", "raised"}]
        /\ \A v \in Workers : worker'[v] = "idle"
    BY <2>1, <2>2 DEF Stop, Busy, WebhookTypeOK
  <2>6. WebhookTypeOK'
    BY <2>2, <2>3, <2>4, <2>5 DEF WebhookTypeOK
  <2>7. OneDispatcher' /\ ClaimIsFresh' /\ AppliedIsCounted' /\ ProcessedWasApplied'
        /\ WorkedOn'
    BY <2>2, <2>3, <2>4, <2>5 DEF OneDispatcher, ClaimIsFresh, AppliedIsCounted,
                                  ProcessedWasApplied, WorkedOn
  <2>8. QED BY <2>6, <2>7
<1>6. CASE FiveMinutesPass
  BY <1>6 DEF FiveMinutesPass, WebhookTypeOK, OneDispatcher, ClaimIsFresh,
              AppliedIsCounted, ProcessedWasApplied, WorkedOn, Busy
<1>7. CASE UNCHANGED webhookVars
  BY <1>7 DEF webhookVars, WebhookTypeOK, OneDispatcher, ClaimIsFresh,
              AppliedIsCounted, ProcessedWasApplied, WorkedOn, Busy
<1>8. QED
  BY <1>1, <1>2, <1>3, <1>4, <1>5, <1>6, <1>7 DEF WebhookNext
-----------------------------------------------------------------------------
THEOREM RecordInvariance == WebhookSpec => []RecordInv
<1>1. WebhookInit => RecordInv
  BY InitRecordInv
<1>2. RecordInv /\ [WebhookNext]_webhookVars => RecordInv'
  BY StepRecordInv
<1>3. QED BY <1>1, <1>2, PTL DEF WebhookSpec

\* The state space of one webhook's handling, and that its row says PROCESSING while a
\* worker is at work on it.
THEOREM RecordTypeCorrect == WebhookSpec => []WebhookTypeOK
BY RecordInvariance, PTL DEF RecordInv

\* One worker at most is at work on an event: the five minutes of
\* process_razorpay_webhook outlast every worker.
THEOREM OneAtWork == WebhookSpec => []OneDispatcher
BY RecordInvariance, PTL DEF RecordInv

\* A row is PROCESSED, and an event acknowledged, only after an attempt at it.
THEOREM ProcessedIsTrue == WebhookSpec => []ProcessedWasApplied
BY RecordInvariance, PTL DEF RecordInv

\* A processed event is never applied again and its row never taken back.
THEOREM ProcessedOnce == WebhookSpec => ProcessedIsFinal
<1>1. RecordInv /\ [WebhookNext]_webhookVars =>
        [record.status = "PROCESSED" => record'.status = "PROCESSED" /\ applied' = applied]_webhookVars
  <2> SUFFICES ASSUME RecordInv, [WebhookNext]_webhookVars, record.status = "PROCESSED"
               PROVE  record' = record /\ applied' = applied
    OBVIOUS
  <2>1. \A w \in Workers : worker[w] = "idle"
    BY DEF RecordInv, ClaimIsFresh, Busy
  <2>2. QED
    BY <2>1 DEF WebhookNext, webhookVars, Claim, AnswerDuplicate,
                Dispatch, Raise, RecordFailed, RecordProcessed,
                MayRecordProcessed, Kill, FiveMinutesPass
<1>2. QED BY <1>1, RecordInvariance, PTL DEF WebhookSpec, ProcessedIsFinal
=============================================================================
