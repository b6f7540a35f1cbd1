------------------------------ MODULE Requests ------------------------------
(***************************************************************************)
(* The workers of the backend and the requests they serve, for the         *)
(* components whose requests span several transactions: what a request     *)
(* has read waits in its worker until a later transaction writes it.       *)
(***************************************************************************)
EXTENDS Naturals

CONSTANTS Workers,
          MaxRequests   \* a bound: how many requests begin

ASSUME RequestsAssumption == MaxRequests \in Nat

VARIABLES job,        \* the request each worker serves, with what it has read
          requests    \* how many have begun

Idle == [op |-> "none"]

\* get_queryset, get_object: a request begins with the row it reads.
Free(w) == job[w] = Idle /\ requests < MaxRequests
Begin(w, j) == /\ Free(w)
               /\ job' = [job EXCEPT ![w] = j]
               /\ requests' = requests + 1

Go(w, j) == job' = [job EXCEPT ![w] = j] /\ UNCHANGED requests
Done(w) == Go(w, Idle)
=============================================================================
