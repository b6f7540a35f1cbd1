-------------------------- MODULE MCNotification --------------------------
(* One request that emits two events, and one notification made by hand. *)
EXTENDS Notification

CONSTANTS n1, n2

TwoEvents == [r \in Requests |-> <<n1, n2>>]
=============================================================================
