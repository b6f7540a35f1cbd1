------------------------ MODULE MCSlotReservation ------------------------
(* The instance of SlotReservation that TLC checks. *)
EXTENDS SlotReservation, TLC
=============================================================================
