---------------------------- MODULE MCStorefront ----------------------------
(* Catalogue, bookings and reviews: instances for TLC. *)
EXTENDS Storefront, TLC

\* One seed is cheaper than a percentage edited meanwhile expects.
MCSeeds == {[base |-> 3, selling |-> None, amount |-> 1], [base |-> 3, selling |-> 0, amount |-> 0]}
MCCoreSeed == [base |-> 3, selling |-> None, amount |-> 1]
MCItemSets == {{"this"}, {"other"}}

Symmetry == Permutations(Bookings) \cup Permutations(Workers)
=============================================================================
