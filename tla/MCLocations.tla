---------------------------- MODULE MCLocations -----------------------------
(* Addresses, one service area and lookups: the instance that TLC checks. *)
EXTENDS Locations, TLC
=============================================================================
