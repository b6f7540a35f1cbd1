---------------------------- MODULE MCCheckout ----------------------------
(* The instance of Checkout that TLC checks. *)
EXTENDS Checkout, TLC

CONSTANTS ann, bob, clean, paint, north, south

\* Slot 1 is in the north, the others are in the south.
MCAreaOf == [s \in Slots |-> IF s = 1 THEN north ELSE south]

Pick(service, slot) == [service |-> service, slot |-> slot]
Ask(kind, customer, key, items) ==
    [kind |-> kind, customer |-> customer, key |-> key, items |-> items]

\* Ann checks out both services, from two devices; Bob selects the slots the other
\* way round; single bookings; an operator converts Ann's lead.
MCRequests ==
    {Ask("cart", ann, "k1", <<Pick(clean, 1), Pick(paint, 2)>>),
     Ask("cart", ann, "k2", <<Pick(clean, 2)>>),
     Ask("cart", bob, "k1", <<Pick(paint, 2), Pick(clean, 1)>>),
     Ask("single", ann, "k1", <<Pick(clean, 1)>>),
     Ask("lead", ann, "k1", <<Pick(clean, 2)>>)}

Interchangeable == Permutations(Workers)
=============================================================================
