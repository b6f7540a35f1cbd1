---------------------------- MODULE MCDispatch ----------------------------
(* The instance of Dispatch that TLC checks. *)
EXTENDS Dispatch, TLC

CONSTANTS morning, noon, evening

\* The morning slot and the noon slot (of two areas) overlap.
MCOverlap == {<<s, s>> : s \in Slots} \cup {<<morning, noon>>, <<noon, morning>>}
MCCovers == Technicians \X {morning, noon}   \* nobody works in the evening
MCAbsence == {noon}

Form(verification, availability, active) ==
    [verification |-> verification, availability |-> availability,
     active |-> active, available |-> TRUE]
MCForms == {Form("VERIFIED", "AVAILABLE", TRUE), Form("VERIFIED", "ON_LEAVE", TRUE),
            Form("VERIFIED", "SUSPENDED", FALSE), Form("SUSPENDED", "AVAILABLE", TRUE)}

Interchangeable == Permutations(Bookings) \cup Permutations(Workers)
=============================================================================
