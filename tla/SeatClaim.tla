----------------------------- MODULE SeatClaim -----------------------------
(***************************************************************************)
(* A booking as its time slot sees it: the classes of its status that slot *)
(* capacity depends on and the moves between them.  BookingPayments        *)
(* implements it; SlotReservation uses it for each of its bookings.        *)
(***************************************************************************)

\* "fixed" and "movable": the booking holds a place, and in the second case may be
\* rescheduled; "out": it holds none.
VARIABLE claim

\* A booking that holds no place comes back as CONFIRMED only; every other move
\* is possible.
Moves == {<<"fixed", "movable">>, <<"fixed", "out">>, <<"movable", "fixed">>,
          <<"movable", "out">>, <<"out", "movable">>}

Init == claim \in {"fixed", "movable"}
Next == <<claim, claim'>> \in Moves
Spec == Init /\ [][Next]_claim
=============================================================================
