-------------------------- MODULE DispatchProofs --------------------------
(***************************************************************************)
(* For any number of technicians, bookings, slots and operators: whom an   *)
(* assignment found free and fit is so still when it is written, so that a *)
(* technician is double-booked by a customer's move only; and each booking *)
(* moves by JobClaim.  What the checks read is protected by two row locks, *)
(* so the invariant ties every assignment to the locks it has taken.       *)
(***************************************************************************)
EXTENDS Dispatch, TLAPS

\* An assignment past a lock holds it, and its booking waits for it.
LocksAreHeld ==
    \A w \in Workers :
       /\ job[w].step \in {"locked", "checking", "eligible"} =>
             /\ bookingLock[job[w].booking] = w
             /\ stage[job[w].booking] \in {"assignable", "assigned"}
       /\ job[w].step \in {"checking", "eligible"} => technicianLock[job[w].technician] = w

\* What CheckEligibility saw, but for bookings that a customer moved in its way.
StillEligible ==
    \A w \in Workers : job[w].step = "eligible" =>
       /\ Fit(job[w].technician)
       /\ \A c \in Bookings \ {job[w].booking} :
             Occupies(job[w].technician, c, slot[job[w].booking]) => moved[c]

IInv == TypeOK /\ LocksAreHeld /\ StillEligible /\ DoubleBookedOnlyByMove
-----------------------------------------------------------------------------
\* An idle worker's job has no booking; every other is a request for one technician.
LEMMA JobCases ==
    ASSUME TypeOK, NEW w \in Workers
    PROVE  /\ job[w] = Idle \/ job[w] \in Requests
           /\ job[w] = Idle <=> job[w].step = "idle"
           /\ job[w] # Idle => /\ job[w].step \in {"begun", "locked", "checking", "eligible"}
                               /\ job[w].booking \in Bookings
                               /\ job[w].technician \in Technicians
BY DEF TypeOK, Requests, Request, Idle

\* A step within an assignment changes nothing of its job but the step.
LEMMA AdvanceEffect ==
    ASSUME TypeOK, NEW w \in Workers, job[w] # Idle,
           NEW step \in {"begun", "locked", "checking", "eligible"}, Advance(w, step)
    PROVE  /\ job' \in [Workers -> {Idle} \cup Requests]
           /\ job'[w] # Idle /\ job'[w].step = step
           /\ job'[w].booking = job[w].booking /\ job'[w].technician = job[w].technician
           /\ \A v \in Workers \ {w} : job'[v] = job[v]
<1>1. PICK st \in {"begun", "locked", "checking", "eligible"}, b \in Bookings, t \in Technicians :
        job[w] = Request(st, b, t)
  BY DEF TypeOK, Requests
<1>2. [job[w] EXCEPT !.step = step] = Request(step, b, t)
  BY <1>1 DEF Request
<1>3. job' = [job EXCEPT ![w] = Request(step, b, t)]
  BY <1>2 DEF Advance
<1>4. Request(step, b, t) \in Requests
  BY DEF Requests
<1>5. QED BY <1>1, <1>3, <1>4 DEF TypeOK, Request, Idle

\* The end of an assignment frees its locks and nobody else's.
LEMMA ReleaseEffect ==
    ASSUME TypeOK, NEW w \in Workers, Release(w)
    PROVE  /\ job' \in [Workers -> {Idle} \cup Requests]
           /\ job'[w] = Idle
           /\ \A v \in Workers \ {w} : job'[v] = job[v]
           /\ bookingLock' \in [Bookings -> Workers \cup {Nobody}]
           /\ technicianLock' \in [Technicians -> Workers \cup {Nobody}]
           /\ \A b \in Bookings : /\ bookingLock'[b] # w
                                  /\ bookingLock[b] # w => bookingLock'[b] = bookingLock[b]
                                  /\ bookingLock'[b] \in {bookingLock[b], Nobody}
           /\ \A t \in Technicians : /\ technicianLock'[t] # w
                                     /\ technicianLock[t] # w => technicianLock'[t] = technicianLock[t]
                                     /\ technicianLock'[t] \in {technicianLock[t], Nobody}
BY DiaryAssumption DEF TypeOK, Release

\* What an assignment leaves in the three columns it writes.
LEMMA AssignEffect ==
    ASSUME TypeOK, NEW b \in Bookings, NEW t \in Technicians,
           stage' = [stage EXCEPT ![b] = "assigned"],
           technician' = [technician EXCEPT ![b] = t],
           moved' = [moved EXCEPT ![b] = FALSE]
    PROVE  /\ stage'[b] = "assigned" /\ technician'[b] = t
           /\ \A c \in Bookings \ {b} : /\ technician'[c] = technician[c]
                                       /\ stage'[c] = stage[c] /\ moved'[c] = moved[c]
BY DEF TypeOK

LEMMA InitIInv == Init => IInv
<1> SUFFICES ASSUME Init PROVE IInv
  OBVIOUS
<1> USE DiaryAssumption DEF Init
<1>1. TypeOK
  BY DEF TypeOK, NewProfile, Profile, Verification, Availability
<1>2. LocksAreHeld /\ StillEligible
  BY DEF LocksAreHeld, StillEligible, Idle
<1>3. DoubleBookedOnlyByMove
  BY DEF DoubleBookedOnlyByMove
<1>4. QED BY <1>1, <1>2, <1>3 DEF IInv

\* The steps of an assignment.
LEMMA AssignmentStep ==
    ASSUME IInv, NEW w \in Workers,
           \/ \E b \in Bookings, t \in Technicians : AssignRequest(w, b, t)
           \/ Step(w) \/ Refuse(w)
    PROVE  IInv'
<1> USE DiaryAssumption DEF IInv, people, diary, locks
<1>1. ASSUME NEW b \in Bookings, NEW t \in Technicians, AssignRequest(w, b, t) PROVE IInv'
  <2> USE <1>1 DEF AssignRequest
  <2>1. /\ job' \in [Workers -> {Idle} \cup Requests]
        /\ job'[w].step = "begun"
        /\ \A v \in Workers \ {w} : job'[v] = job[v]
    BY DEF TypeOK, Requests, Request
  <2>2. TypeOK'
    BY <2>1 DEF TypeOK
  <2>3. LocksAreHeld' /\ StillEligible'
    BY <2>1 DEF LocksAreHeld, StillEligible, Fit, Occupies
  <2>4. DoubleBookedOnlyByMove'
    BY DEF DoubleBookedOnlyByMove
  <2>5. QED BY <2>2, <2>3, <2>4
<1>2. CASE LockBooking(w)
  <2> USE <1>2 DEF LockBooking
  <2>1. job[w] # Idle /\ job[w].booking \in Bookings
    BY JobCases DEF Idle
  <2>2. TypeOK'
    BY <2>1, AdvanceEffect DEF TypeOK
  <2>3. LocksAreHeld'
    BY <2>1, AdvanceEffect, JobCases DEF LocksAreHeld, TypeOK
  <2>4. StillEligible'
    BY <2>1, AdvanceEffect, JobCases DEF StillEligible, Fit, Occupies
  <2>5. DoubleBookedOnlyByMove'
    BY DEF DoubleBookedOnlyByMove
  <2>6. QED BY <2>2, <2>3, <2>4, <2>5
<1>3. CASE LockTechnician(w)
  <2> USE <1>3 DEF LockTechnician, TakeTechnician
  <2>1. job[w] # Idle /\ job[w].technician \in Technicians
    BY JobCases DEF Idle
  <2>2. TypeOK'
    BY <2>1, AdvanceEffect DEF TypeOK
  <2>3. LocksAreHeld'
    BY <2>1, AdvanceEffect, JobCases DEF LocksAreHeld, TypeOK
  <2>4. StillEligible'
    BY <2>1, AdvanceEffect, JobCases DEF StillEligible, Fit, Occupies
  <2>5. DoubleBookedOnlyByMove'
    BY DEF DoubleBookedOnlyByMove
  <2>6. QED BY <2>2, <2>3, <2>4, <2>5
<1>4. CASE CheckEligibility(w)
  <2> USE <1>4 DEF CheckEligibility
  <2>1. job[w] # Idle
    BY JobCases DEF Idle
  <2>2. TypeOK'
    BY <2>1, AdvanceEffect DEF TypeOK
  <2>3. LocksAreHeld'
    BY <2>1, AdvanceEffect, JobCases DEF LocksAreHeld, TypeOK
  <2>4. StillEligible'
    BY <2>1, AdvanceEffect, JobCases DEF StillEligible, Fit, Occupies, Eligible, HasOverlap
  <2>5. DoubleBookedOnlyByMove'
    BY DEF DoubleBookedOnlyByMove
  <2>6. QED BY <2>2, <2>3, <2>4, <2>5
<1>5. CASE Assign(w)
  <2> DEFINE b == job[w].booking
             t == job[w].technician
  <2> USE <1>5 DEF Assign
  <2>1. job[w] # Idle /\ b \in Bookings /\ t \in Technicians
    BY JobCases DEF Idle
  <2>2. /\ stage' = [stage EXCEPT ![b] = "assigned"]
        /\ technician' = [technician EXCEPT ![b] = t]
        /\ moved' = [moved EXCEPT ![b] = FALSE]
    OBVIOUS
  <2>3. TypeOK'
    BY <2>1, <2>2, ReleaseEffect DEF TypeOK
  <2>4. LocksAreHeld'
    <3> SUFFICES ASSUME NEW v \in Workers, job'[v].step \in {"locked", "checking", "eligible"}
                 PROVE  /\ bookingLock'[job'[v].booking] = v
                        /\ stage'[job'[v].booking] \in {"assignable", "assigned"}
                        /\ job'[v].step \in {"checking", "eligible"} =>
                              technicianLock'[job'[v].technician] = v
      BY DEF LocksAreHeld
    <3>1. v # w /\ job'[v] = job[v]
      BY ReleaseEffect DEF Idle
    <3>2. job[v].booking \in Bookings /\ job[v].technician \in Technicians
      BY <3>1, JobCases DEF Idle
    <3>3. QED BY <2>1, <2>2, <3>1, <3>2, ReleaseEffect DEF LocksAreHeld, TypeOK
  <2>5. StillEligible'
    <3> SUFFICES ASSUME NEW v \in Workers, job'[v].step = "eligible"
                 PROVE  /\ Fit(job[v].technician)'
                        /\ \A c \in Bookings \ {job'[v].booking} :
                              Occupies(job[v].technician, c, slot[job[v].booking])' => moved'[c]
      BY DEF StillEligible
    <3>1. v # w /\ job'[v] = job[v]
      BY ReleaseEffect DEF Idle
    <3>2. job[v].booking \in Bookings /\ job[v].technician \in Technicians
      BY <3>1, JobCases DEF Idle
    <3>3. job[v].technician # t   \* its row is locked by w
      BY <3>1, <3>2, <2>1 DEF LocksAreHeld
    <3>4. Fit(job[v].technician)'
      BY <3>1 DEF StillEligible, Fit
    <3>5. technician'[b] = t /\ \A c \in Bookings \ {b} : technician'[c] = technician[c]
                                                      /\ stage'[c] = stage[c] /\ moved'[c] = moved[c]
      BY <2>1, <2>2, AssignEffect
    <3>6. ASSUME NEW c \in Bookings \ {job[v].booking},
                 Occupies(job[v].technician, c, slot[job[v].booking])'
          PROVE  moved'[c]
      <4>1. technician'[c] = job[v].technician
        BY <3>1, <3>6 DEF Occupies
      <4>2. c # b
        BY <3>3, <3>5, <4>1
      <4>3. Occupies(job[v].technician, c, slot[job[v].booking]) /\ moved'[c] = moved[c]
        BY <3>1, <3>6, <3>5, <4>2 DEF Occupies
      <4>4. QED BY <3>1, <3>6, <4>3 DEF StillEligible
    <3>7. QED BY <3>1, <3>4, <3>6
  <2>6. DoubleBookedOnlyByMove'
    <3>1. ASSUME NEW c \in Bookings \ {b}, technician'[c] = t, stage'[c] \in Busy,
                 <<slot[c], slot[b]>> \in Overlap
          PROVE  moved'[c]
      BY <2>1, <2>2, <3>1 DEF StillEligible, Occupies, TypeOK
    <3>2. \A c \in Bookings : <<slot[b], slot[c]>> \in Overlap => <<slot[c], slot[b]>> \in Overlap
      OBVIOUS
    <3>3. technician'[b] = t /\ \A c \in Bookings \ {b} : technician'[c] = technician[c]
                                                      /\ stage'[c] = stage[c] /\ moved'[c] = moved[c]
      BY <2>1, <2>2, AssignEffect
    <3>4. SUFFICES ASSUME NEW c \in Bookings, NEW d \in Bookings, c # d,
                          stage'[c] \in Busy, stage'[d] \in Busy,
                          technician'[c] # Nobody, technician'[c] = technician'[d],
                          <<slot[c], slot[d]>> \in Overlap
                   PROVE  moved'[c] \/ moved'[d]
      BY DEF DoubleBookedOnlyByMove, Busy
    <3>5. CASE c = b
      BY <3>1, <3>2, <3>3, <3>4, <3>5
    <3>6. CASE d = b
      BY <3>1, <3>3, <3>4, <3>6
    <3>7. CASE b \notin {c, d}
      BY <3>3, <3>4, <3>7 DEF DoubleBookedOnlyByMove, Busy
    <3>8. QED BY <3>5, <3>6, <3>7
  <2>7. QED BY <2>3, <2>4, <2>5, <2>6
<1>6. CASE Refuse(w)
  <2> USE <1>6 DEF Refuse
  <2>1. TypeOK'
    BY ReleaseEffect DEF TypeOK
  <2>2. LocksAreHeld' /\ StillEligible'
    BY ReleaseEffect, JobCases DEF LocksAreHeld, StillEligible, Fit, Occupies, Idle
  <2>3. DoubleBookedOnlyByMove'
    BY DEF DoubleBookedOnlyByMove
  <2>4. QED BY <2>1, <2>2, <2>3
<1>7. QED BY <1>1, <1>2, <1>3, <1>4, <1>5, <1>6 DEF Step
-----------------------------------------------------------------------------
\* No handler but an assignment makes a booking a busy job or names a technician.
LEMMA OthersEffect ==
    ASSUME TypeOK, NEW b \in Bookings, HandleBooking(b)
    PROVE  /\ stage' \in [Bookings -> {"assignable", "assigned", "working", "out"}]
           /\ technician' \in [Bookings -> Technicians \cup {Nobody}]
           /\ stage'[b] \in Busy => stage[b] \in Busy
           /\ technician'[b] \in {technician[b], Nobody}
           /\ \A c \in Bookings \ {b} : stage'[c] = stage[c] /\ technician'[c] = technician[c]
<1>1. PICK st \in {"assignable", "assigned", "working", "out"}, t \in {technician[b], Nobody} :
        stage' = [stage EXCEPT ![b] = st] /\ technician' = [technician EXCEPT ![b] = t]
  BY DEF HandleBooking
<1>2. stage'[b] \in Busy => stage[b] \in Busy
  BY DEF HandleBooking, Claim!Others, Claim!Remove, Claim!Proceed, Claim!Withdraw, Busy
<1>3. QED BY <1>1, <1>2 DEF TypeOK

\* The other handlers of a booking; none touches one that an assignment has locked.
LEMMA BookingStep ==
    ASSUME IInv, NEW b \in Bookings, HandleBooking(b) \/ \E s \in Slots : Reschedule(b, s)
    PROVE  IInv'
<1> USE DEF IInv, people, diary, locks
<1>0. ASSUME NEW w \in Workers, job[w].step \in {"locked", "checking", "eligible"}
      PROVE  job[w].booking \in Bookings \ {b} /\ job[w].technician \in Technicians
  <2>1. job[w].booking \in Bookings /\ job[w].technician \in Technicians
    BY <1>0, JobCases
  <2>2. bookingLock[job[w].booking] = w /\ bookingLock[b] = Nobody
    BY <1>0 DEF LocksAreHeld, HandleBooking, Reschedule
  <2>3. QED BY <2>1, <2>2, DiaryAssumption
<1>1. CASE HandleBooking(b)
  <2>1. UNCHANGED <<people, slot, moved, locks, job>>
    BY <1>1 DEF HandleBooking
  <2>2. TypeOK'
    BY <1>1, <2>1, OthersEffect DEF TypeOK
  <2>3. LocksAreHeld'
    BY <1>0, <1>1, <2>1, OthersEffect DEF LocksAreHeld
  <2>4. StillEligible'
    <3>1. ASSUME NEW t \in Technicians, NEW c \in Bookings, NEW s \in Slots,
                 Occupies(t, c, s)'
          PROVE  Occupies(t, c, s)
      BY <1>1, <2>1, <3>1, DiaryAssumption, OthersEffect DEF Occupies
    <3>2. QED BY <1>0, <2>1, <3>1 DEF StillEligible, Fit, TypeOK
  <2>5. DoubleBookedOnlyByMove'
    BY <1>1, <2>1, OthersEffect DEF DoubleBookedOnlyByMove, Busy
  <2>6. QED BY <2>2, <2>3, <2>4, <2>5
<1>2. ASSUME NEW s \in Slots, Reschedule(b, s) PROVE IInv'
  <2> USE <1>2 DEF Reschedule
  <2>1. TypeOK'
    BY DEF TypeOK
  <2>2. moved'[b] /\ \A c \in Bookings \ {b} : moved'[c] = moved[c] /\ slot'[c] = slot[c]
    BY DEF TypeOK
  <2>3. LocksAreHeld'
    BY DEF LocksAreHeld
  <2>4. StillEligible'
    BY <1>0, <2>2 DEF StillEligible, Fit, Occupies
  <2>5. DoubleBookedOnlyByMove'
    BY <2>2 DEF DoubleBookedOnlyByMove
  <2>6. QED BY <2>1, <2>3, <2>4, <2>5
<1>3. QED BY <1>1, <1>2

\* Operators write profiles only while no assignment has the technician locked.
LEMMA OperatorStep ==
    ASSUME IInv, NEW t \in Technicians, Operators(t)
    PROVE  IInv'
<1> USE DiaryAssumption, FormsAssumption DEF IInv, people, diary, locks
<1>1. ASSUME NEW row \in Profile, SetProfile(t, row) PROVE IInv'
  <2> USE <1>1 DEF SetProfile, Writable
  <2>1. TypeOK'
    BY DEF TypeOK
  <2>2. LocksAreHeld' /\ DoubleBookedOnlyByMove'
    BY DEF LocksAreHeld, DoubleBookedOnlyByMove
  <2>3. ASSUME NEW w \in Workers, job[w].step = "eligible"
        PROVE  job[w].technician \in Technicians \ {t}
    BY <2>3, JobCases DEF LocksAreHeld
  <2>4. StillEligible'
    BY <2>3 DEF StillEligible, Fit, Occupies, TypeOK
  <2>5. QED BY <2>1, <2>2, <2>4
<1>2. ASSUME NEW status \in {"APPROVED", "REJECTED"}, SetLeave(t, status) PROVE IInv'
  BY <1>2 DEF SetLeave, TypeOK, LocksAreHeld, StillEligible, DoubleBookedOnlyByMove, Fit, Occupies
<1>3. CASE SaveProfile(t)
  <2>1. PICK form \in Forms : SetProfile(t, Normalised(form))
    BY <1>3 DEF SaveProfile
  <2>2. Normalised(form) \in Profile
    BY DEF Normalised, Profile
  <2>3. QED BY <1>1, <2>1, <2>2
<1>4. CASE Approve(t) \/ Suspend(t) \/ Reactivate(t)
  BY <1>1, <1>4 DEF Approve, Suspend, Reactivate, Reactivated, Profile, Verification, Availability
<1>5. CASE Reject(t)
  <2>1. \A row \in Profile :
          [row EXCEPT !.verification = "REJECTED", !.active = FALSE, !.available = FALSE] \in Profile
    BY DEF Profile, Verification
  <2>2. QED BY <1>1, <1>5, <2>1 DEF Reject, TypeOK
<1>6. CASE AddLeave(t) \/ \E status \in {"APPROVED", "REJECTED"} :
                             ReviewLeave(t, status) \/ EditLeave(t, status)
  BY <1>2, <1>6 DEF AddLeave, ReviewLeave, EditLeave
<1>7. QED BY <1>3, <1>4, <1>5, <1>6 DEF Operators

LEMMA StepIInv == IInv /\ [Next]_vars => IInv'
<1> SUFFICES ASSUME IInv, [Next]_vars PROVE IInv'
  OBVIOUS
<1>1. CASE UNCHANGED vars
  BY <1>1 DEF vars, IInv, TypeOK, LocksAreHeld, StillEligible, DoubleBookedOnlyByMove, Fit, Occupies
<1>2. QED BY <1>1, AssignmentStep, BookingStep, OperatorStep DEF Next

LEMMA Invariance == Spec => []IInv
<1>1. QED BY InitIInv, StepIInv, PTL DEF Spec
-----------------------------------------------------------------------------
\* The state of the diary stays within its types, and a row lock is held by an
\* assignment at work behind it (assign_technician).
THEOREM TypeCorrect == Spec => []TypeOK
<1>1. IInv => TypeOK
  BY DEF IInv
<1>2. QED BY <1>1, Invariance, PTL

\* Assignments never double-book a technician (get_technician_eligibility_errors), for
\* any number of operators assigning at once: a customer's reschedule only does.
THEOREM NoDoubleBooking == Spec => []DoubleBookedOnlyByMove
<1>1. IInv => DoubleBookedOnlyByMove
  BY DEF IInv
<1>2. QED BY <1>1, Invariance, PTL

\* The technician an assignment writes is verified and available at that moment, not
\* only when the assignment looked.
THEOREM FitWhenAssigned == Spec => AssignedWhileFit
<1>1. IInv /\ [Next]_vars => [\A w \in Workers : Assign(w) => Fit(job[w].technician)]_vars
  BY DEF IInv, StillEligible, Assign
<1>2. QED BY <1>1, Invariance, PTL DEF Spec, AssignedWhileFit

\* Every booking of the diary moves as JobClaim says, so assign_technician, written in
\* four steps here, is one step of the booking.
THEOREM BookingsFollowJobClaim == Spec => \A b \in Bookings : Claim(b)!Spec
<1> SUFFICES ASSUME NEW b \in Bookings PROVE Spec => Claim(b)!Spec
  OBVIOUS
<1>1. Init => Claim(b)!Init
  BY DEF Init, Claim!Init
<1>2. IInv /\ [Next]_vars => [Claim(b)!Next]_(Claim(b)!vars)
  <2> SUFFICES ASSUME IInv, [Next]_vars
               PROVE  Claim(b)!Next \/ UNCHANGED <<stage[b], technician[b]>>
    BY DEF Claim!vars
  <2> USE DEF IInv, people, diary, locks
  <2>1. ASSUME NEW w \in Workers, Assign(w)
        PROVE  Claim(b)!Next \/ UNCHANGED <<stage[b], technician[b]>>
    <3>1. CASE job[w].booking = b
      <4>1. job[w].technician \in Technicians /\ stage[b] \in {"assignable", "assigned"}
        BY <2>1, <3>1, JobCases DEF Assign, LocksAreHeld
      <4>2. stage'[b] = "assigned" /\ technician'[b] = job[w].technician
        BY <2>1, <3>1 DEF Assign, TypeOK
      <4>3. QED BY <4>1, <4>2 DEF Claim!Next, Claim!Assign
    <3>2. CASE job[w].booking # b
      BY <2>1, <3>2 DEF Assign, TypeOK
    <3>3. QED BY <3>1, <3>2
  <2>2. ASSUME NEW c \in Bookings, HandleBooking(c)
        PROVE  Claim(b)!Next \/ UNCHANGED <<stage[b], technician[b]>>
    <3>1. CASE c = b
      BY <2>2, <3>1 DEF HandleBooking, Claim!Next
    <3>2. CASE c # b
      BY <2>2, <3>2, OthersEffect
    <3>3. QED BY <3>1, <3>2
  <2>3. ASSUME UNCHANGED <<stage, technician>>
        PROVE  UNCHANGED <<stage[b], technician[b]>>
    BY <2>3
  <2>4. QED
    BY <2>1, <2>2, <2>3 DEF Next, vars, AssignRequest, Step, LockBooking, LockTechnician,
       CheckEligibility, Refuse, Reschedule, Operators, SaveProfile, Approve, Reject, Suspend,
       Reactivate, SetProfile, AddLeave, ReviewLeave, EditLeave, SetLeave
<1>3. QED BY <1>1, <1>2, Invariance, PTL DEF Spec, Claim!Spec
=============================================================================
