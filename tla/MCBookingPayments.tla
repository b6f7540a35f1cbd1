------------------------ MODULE MCBookingPayments ------------------------
(* The instance of BookingPayments that TLC checks. *)
EXTENDS BookingPayments, TLC

Interchangeable ==
    Permutations(Orders) \cup Permutations(Refunds) \cup Permutations(Technicians)
=============================================================================
