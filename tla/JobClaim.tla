----------------------------- MODULE JobClaim -----------------------------
(***************************************************************************)
(* What the technicians' diary sees of one booking: whether it is waiting  *)
(* for a technician, has one, keeps one at work, or is none of these; and  *)
(* whose name is on it.  BookingPayments implements it and Dispatch moves  *)
(* its bookings by it.  What it rules out: a booking becomes a busy job by *)
(* an assignment only, never by a payment, a refund or a report.           *)
(***************************************************************************)
CONSTANTS Technicians, Nobody

VARIABLES stage,       \* "assignable", "assigned", "working" or "out"
          technician   \* booking.assigned_technician

vars == <<stage, technician>>

Init == stage \in {"assignable", "out"} /\ technician = Nobody

Assign(t) == /\ stage \in {"assignable", "assigned"}
             /\ stage' = "assigned" /\ technician' = t

\* A job at work goes on without a name.
Remove == /\ technician # Nobody
          /\ technician' = Nobody
          /\ stage' = IF stage = "assigned" THEN "assignable" ELSE stage

\* En route, started.
Proceed == /\ stage \in {"assigned", "working"}
           /\ stage' = "working" /\ UNCHANGED technician

\* Completed, cancelled, refunded, or confirmed anew by a payment or a lead: the
\* name stays on the booking.
Withdraw == stage' \in {"assignable", "out"} /\ UNCHANGED technician

Others == Remove \/ Proceed \/ Withdraw
Next == (\E t \in Technicians : Assign(t)) \/ Others

Spec == Init /\ [][Next]_vars
=============================================================================
