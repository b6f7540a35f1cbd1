------------------------------- MODULE MCLead -------------------------------
(* Leads of one customer and service: instances for TLC. *)
EXTENDS Lead, TLC

Symmetry == Permutations(Leads) \cup Permutations(Bookings) \cup Permutations(Workers)
=============================================================================
