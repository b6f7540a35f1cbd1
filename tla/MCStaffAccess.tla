--------------------------- MODULE MCStaffAccess ----------------------------
(* Staff accounts and their profiles: instances for TLC. *)
EXTENDS StaffAccess, TLC

Symmetry == Permutations(Users \ {Root}) \cup Permutations(Workers)
=============================================================================
