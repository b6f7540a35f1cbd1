----------------------------- MODULE Dispatch -----------------------------
(***************************************************************************)
(* The diary of the technicians: bookings with their slots, the profiles   *)
(* and leaves that make a technician fit for one, and workers that assign. *)
(* An assignment locks the booking (and the slot it joins), then the       *)
(* technician's row, then reads profile, leaves and the other bookings in  *)
(* queries of their own, then writes.  Meanwhile customers reschedule,     *)
(* operators edit profiles and leaves, and every other handler moves the   *)
(* bookings as JobClaim says.                                              *)
(***************************************************************************)
EXTENDS Naturals, FiniteSets

CONSTANTS Technicians, Bookings, Slots, Workers,
          Nobody,     \* no technician; a free lock
          Overlap,    \* pairs of slots on one date whose times overlap
          Covers,     \* pairs of technician and slot: services, areas, pincode, hours
          Absence,    \* the slots a leave stretches over
          Forms       \* contents an operator gives the profile form

ASSUME DiaryAssumption ==
    /\ Nobody \notin Technicians \cup Workers
    /\ Overlap \subseteq Slots \X Slots
    /\ \A s \in Slots : <<s, s>> \in Overlap
    /\ \A p \in Overlap : <<p[2], p[1]>> \in Overlap
    /\ Covers \subseteq Technicians \X Slots
    /\ Absence \subseteq Slots

VARIABLES profile,    \* TechnicianProfile rows
          leave,      \* the status of the one leave each technician may have
          stage, technician,  \* of each booking (JobClaim)
          slot,       \* its time_slot
          moved,      \* it was rescheduled since it was assigned
          bookingLock, technicianLock,  \* row locks, by worker
          job         \* the assignment each worker is in

vars == <<profile, leave, stage, technician, slot, moved, bookingLock, technicianLock, job>>
people == <<profile, leave>>
diary == <<stage, technician, slot, moved>>
locks == <<bookingLock, technicianLock>>

Claim(b) == INSTANCE JobClaim WITH stage <- stage[b], technician <- technician[b]

Verification == {"PENDING", "UNDER_REVIEW", "VERIFIED", "REJECTED", "SUSPENDED"}
Availability == {"AVAILABLE", "BUSY", "ON_LEAVE", "OFFLINE", "SUSPENDED"}
Profile == [verification : Verification, availability : Availability,
            active : BOOLEAN, available : BOOLEAN]

ASSUME FormsAssumption == Forms \subseteq Profile

NewProfile == [verification |-> "PENDING", availability |-> "AVAILABLE",
               active |-> TRUE, available |-> TRUE]

Idle == [step |-> "idle"]
Request(step, b, t) == [step |-> step, booking |-> b, technician |-> t]
Requests == {Request(step, b, t) : step \in {"begun", "locked", "checking", "eligible"},
                                   b \in Bookings, t \in Technicians}

Init ==
    /\ profile = [t \in Technicians |-> NewProfile]
    /\ leave = [t \in Technicians |-> "NONE"]
    /\ stage \in [Bookings -> {"assignable"}]
    /\ technician = [b \in Bookings |-> Nobody]
    /\ slot \in [Bookings -> Slots]
    /\ moved = [b \in Bookings |-> FALSE]
    /\ bookingLock = [b \in Bookings |-> Nobody]
    /\ technicianLock = [t \in Technicians |-> Nobody]
    /\ job = [w \in Workers |-> Idle]
-----------------------------------------------------------------------------
(* Eligibility *)

Fit(t) == /\ profile[t].active
          /\ profile[t].verification = "VERIFIED"
          /\ profile[t].available /\ profile[t].availability = "AVAILABLE"

\* Every leave that is not rejected counts, approved or not.
OnLeave(t, s) == leave[t] \in {"PENDING", "APPROVED"} /\ s \in Absence

Busy_NotAtWork == {"assigned"}
Busy == {"assigned", "working"}

Occupies(t, c, s) == technician[c] = t /\ stage[c] \in Busy /\ <<slot[c], s>> \in Overlap
HasOverlap(t, b) == \E c \in Bookings \ {b} : Occupies(t, c, slot[b])

Eligible(t, b) == /\ Fit(t)
                  /\ <<t, slot[b]>> \in Covers
                  /\ ~OnLeave(t, slot[b])
                  /\ ~HasOverlap(t, b)
-----------------------------------------------------------------------------
(* Assignments *)

Advance(w, step) == job' = [job EXCEPT ![w].step = step]

Release(w) ==
    /\ job' = [job EXCEPT ![w] = Idle]
    /\ bookingLock' = [b \in Bookings |-> IF bookingLock[b] = w THEN Nobody ELSE bookingLock[b]]
    /\ technicianLock' =
          [t \in Technicians |-> IF technicianLock[t] = w THEN Nobody ELSE technicianLock[t]]

AssignRequest(w, b, t) ==
    /\ job[w] = Idle
    /\ job' = [job EXCEPT ![w] = Request("begun", b, t)]
    /\ UNCHANGED <<people, diary, locks>>

LockBooking(w) ==
    /\ job[w].step = "begun" /\ bookingLock[job[w].booking] = Nobody
    /\ stage[job[w].booking] \in {"assignable", "assigned"}
    /\ bookingLock' = [bookingLock EXCEPT ![job[w].booking] = w]
    /\ Advance(w, "locked")
    /\ UNCHANGED <<people, diary, technicianLock>>

TakeTechnician_Unlocked(w) == UNCHANGED technicianLock
TakeTechnician(w) == /\ technicianLock[job[w].technician] = Nobody
                     /\ technicianLock' = [technicianLock EXCEPT ![job[w].technician] = w]

LockTechnician(w) ==
    /\ job[w].step = "locked"
    /\ TakeTechnician(w)
    /\ Advance(w, "checking")
    /\ UNCHANGED <<people, diary, bookingLock>>

CheckEligibility(w) ==
    /\ job[w].step = "checking"
    /\ Eligible(job[w].technician, job[w].booking)
    /\ Advance(w, "eligible")
    /\ UNCHANGED <<people, diary, locks>>

Assign(w) ==
    /\ job[w].step = "eligible"
    /\ LET b == job[w].booking
           t == job[w].technician
       IN  /\ stage' = [stage EXCEPT ![b] = "assigned"]
           /\ technician' = [technician EXCEPT ![b] = t]
           /\ moved' = [moved EXCEPT ![b] = FALSE]
    /\ Release(w)
    /\ UNCHANGED <<people, slot>>

\* Refused, or interrupted: the transaction rolls back and frees its locks.
Refuse(w) == /\ job[w] # Idle
             /\ Release(w)
             /\ UNCHANGED <<people, diary>>
-----------------------------------------------------------------------------
(* The other handlers of a booking *)

\* Only the slot is checked for room: the booking's technician comes along.
Reschedule(b, s) ==
    /\ bookingLock[b] = Nobody /\ stage[b] \in {"assignable", "assigned"}
    /\ slot' = [slot EXCEPT ![b] = s]
    /\ moved' = [moved EXCEPT ![b] = TRUE]
    /\ UNCHANGED <<people, stage, technician, locks, job>>

HandleBooking(b) ==
    /\ bookingLock[b] = Nobody
    /\ \E st \in {"assignable", "assigned", "working", "out"}, t \in {technician[b], Nobody} :
          /\ stage' = [stage EXCEPT ![b] = st]
          /\ technician' = [technician EXCEPT ![b] = t]
    /\ Claim(b)!Others
    /\ UNCHANGED <<people, slot, moved, locks, job>>
-----------------------------------------------------------------------------
(* Operators: the profile form, the list's bulk actions, leaves *)

\* A technician's row that an assignment has locked cannot be written, nor can a
\* row that refers to it be added.
Writable(t) == technicianLock[t] = Nobody

SetProfile(t, row) ==
    /\ Writable(t)
    /\ profile' = [profile EXCEPT ![t] = row]
    /\ UNCHANGED <<leave, diary, locks, job>>

\* clean() refuses a suspended technician who is active; save() takes an absent one
\* off the list of the available.
Normalised(form) ==
    [form EXCEPT !.available = @ /\ form.availability \notin {"ON_LEAVE", "SUSPENDED"}]
Valid(form) == "SUSPENDED" \in {form.availability, form.verification} => ~form.active

SaveProfile(t) == \E form \in Forms : Valid(form) /\ SetProfile(t, Normalised(form))

\* The bulk actions update columns without clean() and save().
Approve(t) == SetProfile(t, [verification |-> "VERIFIED", availability |-> "AVAILABLE",
                             active |-> TRUE, available |-> TRUE])
Reject(t) == SetProfile(t, [profile[t] EXCEPT !.verification = "REJECTED",
                                              !.active = FALSE, !.available = FALSE])
Suspend(t) == SetProfile(t, [verification |-> "SUSPENDED", availability |-> "SUSPENDED",
                             active |-> FALSE, available |-> FALSE])
Reactivated(t) == [verification |-> "UNDER_REVIEW", availability |-> "OFFLINE",
                   active |-> TRUE, available |-> FALSE]
Reactivate(t) == SetProfile(t, Reactivated(t))

SetLeave(t, status) ==
    /\ leave' = [leave EXCEPT ![t] = status]
    /\ UNCHANGED <<profile, diary, locks, job>>

AddLeave(t) == leave[t] = "NONE" /\ Writable(t) /\ SetLeave(t, "APPROVED")

\* The review locks the leave's row joined with the technician's; the form of the
\* admin site locks neither, and an edit counts as an approval.
ReviewLeave(t, status) == leave[t] # "NONE" /\ Writable(t) /\ SetLeave(t, status)
EditLeave(t, status) == leave[t] # "NONE" /\ SetLeave(t, status)

Operators(t) ==
    \/ SaveProfile(t) \/ Approve(t) \/ Reject(t) \/ Suspend(t) \/ Reactivate(t)
    \/ AddLeave(t)
    \/ \E status \in {"APPROVED", "REJECTED"} : ReviewLeave(t, status) \/ EditLeave(t, status)
-----------------------------------------------------------------------------
Step(w) == LockBooking(w) \/ LockTechnician(w) \/ CheckEligibility(w) \/ Assign(w)

Next ==
    \/ \E w \in Workers :
          \/ \E b \in Bookings, t \in Technicians : AssignRequest(w, b, t)
          \/ Step(w) \/ Refuse(w)
    \/ \E b \in Bookings : HandleBooking(b) \/ \E s \in Slots : Reschedule(b, s)
    \/ \E t \in Technicians : Operators(t)

Spec == Init /\ [][Next]_vars
-----------------------------------------------------------------------------
(* Properties *)

\* The state space; a row lock belongs to an assignment at work behind it.
TypeOK ==
    /\ profile \in [Technicians -> Profile]
    /\ leave \in [Technicians -> {"NONE", "APPROVED", "REJECTED"}]
    /\ stage \in [Bookings -> {"assignable", "assigned", "working", "out"}]
    /\ technician \in [Bookings -> Technicians \cup {Nobody}]
    /\ slot \in [Bookings -> Slots]
    /\ moved \in [Bookings -> BOOLEAN]
    /\ bookingLock \in [Bookings -> Workers \cup {Nobody}]
    /\ technicianLock \in [Technicians -> Workers \cup {Nobody}]
    /\ job \in [Workers -> {Idle} \cup Requests]
    /\ \A b \in Bookings : bookingLock[b] # Nobody =>
          job[bookingLock[b]] # Idle /\ job[bookingLock[b]].booking = b
    /\ \A t \in Technicians : technicianLock[t] # Nobody =>
          job[technicianLock[t]] # Idle /\ job[technicianLock[t]].technician = t

\* "Technician already has an overlapping booking." (get_technician_eligibility_errors):
\* however many operators assign at once, and whatever payments, refunds and visits do
\* to the bookings, a technician has two jobs at one time only if a customer moved one
\* of them after it was assigned.
DoubleBookedOnlyByMove ==
    \A b, c \in Bookings :
       /\ b # c /\ technician[b] # Nobody /\ stage[b] \in {"assigned", "working"}
       /\ technician[c] = technician[b] /\ stage[c] \in {"assigned", "working"}
       /\ <<slot[b], slot[c]>> \in Overlap
       => moved[b] \/ moved[c]

\* A technician who was fit when the assignment looked still is when it is written:
\* no suspension or rejection slips in between.
AssignedWhileFit ==
    [][\A w \in Workers : Assign(w) => Fit(job[w].technician)]_vars
=============================================================================
