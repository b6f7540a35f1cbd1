-------------------------- MODULE WebhookRecord --------------------------
(***************************************************************************)
(* One webhook payload and its PaymentWebhookEvent row: the provider posts *)
(* it until it gets an answer it takes for a success, and any worker may   *)
(* get any of the copies.  A worker claims the row in one transaction,     *)
(* applies the event in a second, and notes the outcome in a third; it can *)
(* be killed between any two.  What applying does is BookingPayments.      *)
(***************************************************************************)
EXTENDS Naturals

CONSTANTS Workers, MaxAttempts   \* bound on record.attempts

ASSUME AttemptsAssumption == MaxAttempts \in Nat \ {0}

VARIABLES record,    \* the row: [status, attempts]; "NONE": no row yet
          fresh,     \* it was claimed within the last five minutes
          worker,    \* where each worker is with its copy
          applied,   \* how often the event was applied
          acked      \* the provider has had an answer below 300

webhookVars == <<record, fresh, worker, applied, acked>>

WebhookInit == /\ record = [status |-> "NONE", attempts |-> 0]
               /\ fresh = FALSE
               /\ worker = [w \in Workers |-> "idle"]
               /\ applied = 0
               /\ acked = FALSE

Stop(w) == worker' = [worker EXCEPT ![w] = "idle"]
-----------------------------------------------------------------------------
(* The claim.  get_or_create leaves a row it has just made PROCESSING with no
   attempt; nobody else sees it before the claim commits.                    *)

ProcessingIsFresh_Dropped == FALSE
ProcessingIsFresh == record.status = "PROCESSING" /\ fresh

Claim(w) ==
    /\ worker[w] = "idle" /\ record.attempts < MaxAttempts
    /\ record.status # "PROCESSED" /\ ~ProcessingIsFresh
    /\ record' = [status |-> "PROCESSING", attempts |-> record.attempts + 1]
    /\ fresh' = TRUE
    /\ worker' = [worker EXCEPT ![w] = "dispatching"]
    /\ UNCHANGED <<applied, acked>>

\* A copy of an event that is processed, or that another worker has claimed, is
\* answered with success; the provider may miss the answer.
AnswerDuplicate(w) ==
    /\ worker[w] = "idle"
    /\ record.status = "PROCESSED" \/ ProcessingIsFresh
    /\ acked' = TRUE
    /\ UNCHANGED <<record, fresh, worker, applied>>
-----------------------------------------------------------------------------
(* The dispatch *)

Dispatch(w) ==
    /\ worker[w] = "dispatching"
    /\ worker' = [worker EXCEPT ![w] = "applied"]
    /\ applied' = applied + 1
    /\ UNCHANGED <<record, fresh, acked>>

\* The dispatch raised, and so rolled back, unless it is the answer to its commit
\* that was lost.
Raise(w) ==
    /\ worker[w] \in {"dispatching", "applied"}
    /\ worker' = [worker EXCEPT ![w] = "raised"]
    /\ UNCHANGED <<record, fresh, applied, acked>>

\* These two write the row without reading or locking it, and leave updated_at alone.
RecordFailed(w) ==
    /\ worker[w] = "raised"
    /\ record' = [record EXCEPT !.status = "FAILED"]
    /\ Stop(w)
    /\ UNCHANGED <<fresh, applied, acked>>

MayRecordProcessed(w) == worker[w] = "applied"

RecordProcessed(w) ==
    /\ MayRecordProcessed(w)
    /\ record' = [record EXCEPT !.status = "PROCESSED"]
    /\ Stop(w)
    /\ acked' \in {acked, TRUE}
    /\ UNCHANGED <<fresh, applied>>

Kill(w) ==
    /\ worker[w] # "idle"
    /\ Stop(w)
    /\ UNCHANGED <<record, fresh, applied, acked>>

\* gunicorn kills a worker that is 120 seconds on one request, so nobody who
\* claimed the row is still at work five minutes after its last claim.
FiveMinutesPass ==
    /\ fresh /\ \A w \in Workers : worker[w] = "idle"
    /\ fresh' = FALSE
    /\ UNCHANGED <<record, worker, applied, acked>>
-----------------------------------------------------------------------------
WebhookNext ==
    \/ \E w \in Workers : \/ Claim(w) \/ AnswerDuplicate(w) \/ Dispatch(w) \/ Raise(w)
                          \/ RecordFailed(w) \/ RecordProcessed(w) \/ Kill(w)
    \/ FiveMinutesPass

WebhookSpec == WebhookInit /\ [][WebhookNext]_webhookVars
-----------------------------------------------------------------------------
(* Properties *)

Busy == {w \in Workers : worker[w] # "idle"}

\* The row says PROCESSING whenever a worker is at work on the event.
WebhookTypeOK ==
    /\ record \in [status : {"NONE", "PROCESSING", "PROCESSED", "FAILED"},
                   attempts : 0..MaxAttempts]
    /\ fresh \in BOOLEAN
    /\ worker \in [Workers -> {"idle", "dispatching", "applied", "raised"}]
    /\ applied \in 0..record.attempts
    /\ acked \in BOOLEAN
    /\ Busy # {} => record.status = "PROCESSING"

\* However many copies arrive and whoever dies, one worker at most is at work on
\* the event, although its claim is no lock: the row is locked only while the
\* claim is written.
OneDispatcher == \A v, w \in Busy : v = w

\* "successfully processed duplicate payloads are acknowledged without applying
\* state twice" (DEPLOYMENT.md, "Payment Safety and Refund Operations"): once
\* PROCESSED the row stays so, and the event is not applied again.  The updates that
\* end an attempt would break it if two attempts overlapped.
ProcessedIsFinal ==
    [][record.status = "PROCESSED" =>
          record'.status = "PROCESSED" /\ applied' = applied]_webhookVars

\* A row that says PROCESSED tells the truth, and an event the provider has been
\* thanked for was taken up at least once.
ProcessedWasApplied ==
    /\ record.status = "PROCESSED" => applied > 0
    /\ acked => record.attempts > 0
=============================================================================
