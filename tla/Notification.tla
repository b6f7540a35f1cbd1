--------------------------- MODULE Notification ---------------------------
(***************************************************************************)
(* The notifications of the application's events: the hooks that create    *)
(* and deliver them once the transaction of the event has committed, the   *)
(* operators who send, retry and cancel them from rows they read without a *)
(* lock, and the provider's delivery callbacks, which come in any order,   *)
(* more than once, and while a delivery still waits for its answer.        *)
(***************************************************************************)
EXTENDS Integers, Sequences

CONSTANTS Requests,      \* requests whose transactions emit events
          Notifications, \* Notification rows
          EventsOf,      \* the notifications of a request's events, in order
          Operators,
          Nobody,        \* the row is not locked
          MaxAttempts    \* operators send a row this often at most

ASSUME EventsAssumption ==
    /\ EventsOf \in [Requests -> Seq(Notifications)]
    /\ MaxAttempts \in Nat
    /\ Nobody \notin Requests
    \* an event belongs to one request, and to one place in it
    /\ \A r, q \in Requests : \A i \in DOMAIN EventsOf[r], j \in DOMAIN EventsOf[q] :
          EventsOf[r][i] = EventsOf[q][j] => r = q /\ i = j

VARIABLES row,      \* Notification rows
          lock,     \* who locked the row
          request,  \* where each request is, and the hooks it has left
          operator, \* what each operator's request has read
          calls     \* the calls of the provider, by row: "deliver" or "send" each

vars == <<row, lock, request, operator, calls>>

Statuses == {"QUEUED", "SENT", "DELIVERED", "READ", "FAILED", "CANCELLED"}
NoRow == [status |-> "none"]
NewRow(status) == [status |-> status, known |-> FALSE, attempts |-> 0]
Exists(n) == row[n] # NoRow
Emitted == UNION {{EventsOf[r][i] : i \in DOMAIN EventsOf[r]} : r \in Requests}

Idle == [step |-> "idle"]

Init ==
    /\ row = [n \in Notifications |-> NoRow]
    /\ lock = [n \in Notifications |-> Nobody]
    /\ request = [r \in Requests |-> [step |-> "open", hooks |-> <<>>]]
    /\ operator = [o \in Operators |-> Idle]
    /\ calls = [n \in Notifications |-> <<>>]
-----------------------------------------------------------------------------
(* A request.  emit_notification_event leaves a hook with the transaction, which *)
(* runs the hooks once it has committed and forgets them when it is rolled back. *)

Event(r) == EventsOf[r][Len(request[r].hooks) + 1]
Hook(r) == Head(request[r].hooks)

EmitNotificationEvent_AtOnce(r) ==
    /\ request[r].step = "open" /\ Len(request[r].hooks) < Len(EventsOf[r])
    /\ request' = [request EXCEPT ![r].hooks = Append(@, Event(r))]
    /\ row' = [row EXCEPT ![Event(r)] = NewRow("QUEUED")]
    /\ UNCHANGED <<lock, operator, calls>>

EmitNotificationEvent(r) ==
    /\ request[r].step = "open" /\ Len(request[r].hooks) < Len(EventsOf[r])
    /\ request' = [request EXCEPT ![r].hooks = Append(@, Event(r))]
    /\ UNCHANGED <<row, lock, operator, calls>>

Commit(r) ==
    /\ request[r].step = "open"
    /\ request' = [request EXCEPT ![r].step = "committed"]
    /\ UNCHANGED <<row, lock, operator, calls>>

Rollback(r) ==
    /\ request[r].step = "open"
    /\ request' = [request EXCEPT ![r] = [step |-> "rolled back", hooks |-> <<>>]]
    /\ UNCHANGED <<row, lock, operator, calls>>

CreateAndEnqueue(r) ==
    /\ request[r].step = "committed" /\ request[r].hooks # <<>>
    /\ row' = [row EXCEPT ![Hook(r)] = NewRow("QUEUED")]
    /\ request' = [request EXCEPT ![r].step = "delivering"]
    /\ UNCHANGED <<lock, operator, calls>>

\* The next hook runs whatever became of this one: the exceptions of a hook are caught.
HooksAfterFailure_None(r) == <<>>
HooksAfterFailure(r) == Tail(request[r].hooks)

Over(r, hooks) ==
    /\ request' = [request EXCEPT ![r] = [step |-> "committed", hooks |-> hooks]]
    /\ lock' = [lock EXCEPT ![Hook(r)] = Nobody]
-----------------------------------------------------------------------------
(* deliver_notification: one transaction around the call of the provider *)

TakeRow_Unlocked(r) == UNCHANGED lock
TakeRow(r) == /\ lock[Hook(r)] = Nobody
              /\ lock' = [lock EXCEPT ![Hook(r)] = r]

Deliverable == {"QUEUED", "FAILED"}

CallProvider(n, sender) == calls' = [calls EXCEPT ![n] = Append(@, sender)]

DeliverNotification(r) ==
    /\ request[r].step = "delivering"
    /\ TakeRow(r)
    /\ row[Hook(r)].status \in Deliverable
    /\ CallProvider(Hook(r), "deliver")
    /\ request' = [request EXCEPT ![r].step = "calling"]
    /\ UNCHANGED <<row, operator>>

SkipDelivery(r) ==
    /\ request[r].step = "delivering" /\ lock[Hook(r)] = Nobody
    /\ row[Hook(r)].status \notin Deliverable
    /\ Over(r, Tail(request[r].hooks))
    /\ UNCHANGED <<row, operator, calls>>

Sent(n, attempts) == [n EXCEPT !.status = "SENT", !.known = TRUE, !.attempts = attempts]

DeliverySucceeds(r) ==
    /\ request[r].step = "calling"
    /\ row' = [row EXCEPT ![Hook(r)] = Sent(@, @.attempts + 1)]
    /\ Over(r, Tail(request[r].hooks))
    /\ UNCHANGED <<operator, calls>>

\* The exception that reports the failure rolls back the FAILED status with it.
DeliveryFails(r) ==
    /\ request[r].step = "calling"
    /\ Over(r, HooksAfterFailure(r))
    /\ UNCHANGED <<row, operator, calls>>

\* The process ends: what was not committed and the hooks left are lost.
Crash(r) ==
    /\ request[r].step \in {"committed", "delivering", "calling"} /\ request[r].hooks # <<>>
    /\ request' = [request EXCEPT ![r] = [step |-> "crashed", hooks |-> <<>>]]
    /\ lock' = [n \in Notifications |-> IF lock[n] = r THEN Nobody ELSE lock[n]]
    /\ UNCHANGED <<row, operator, calls>>
-----------------------------------------------------------------------------
(* Operators.  Their requests read the row, without a lock, and write it later; *)
(* an UPDATE waits for a row that a delivery has locked.                        *)

CreateManually(n, status) ==
    /\ n \notin Emitted /\ ~Exists(n)
    /\ row' = [row EXCEPT ![n] = NewRow(status)]
    /\ UNCHANGED <<lock, request, operator, calls>>

Sendable == [retry |-> {"FAILED"}, send |-> {"QUEUED", "FAILED"}, cancel |-> {"QUEUED"}]

Read(o, action, n) ==
    /\ operator[o] = Idle /\ Exists(n)
    /\ row[n].status \in Sendable[action]
    /\ action # "cancel" => row[n].attempts < MaxAttempts
    /\ operator' = [operator EXCEPT ![o] =
          [step |-> action, notification |-> n, attempts |-> row[n].attempts]]
    /\ UNCHANGED <<row, lock, request, calls>>

Target(o) == operator[o].notification

SendNotification(o) ==
    /\ operator[o].step \in {"retry", "send"}
    /\ CallProvider(Target(o), "send")
    /\ operator' = [operator EXCEPT ![o].step = "calling"]
    /\ UNCHANGED <<row, lock, request>>

Save(o, new) ==
    /\ lock[Target(o)] = Nobody
    /\ row' = [row EXCEPT ![Target(o)] = new]
    /\ operator' = [operator EXCEPT ![o] = Idle]
    /\ UNCHANGED <<lock, request, calls>>

SendingSucceeds(o) ==
    /\ operator[o].step = "calling"
    /\ Save(o, Sent(row[Target(o)], operator[o].attempts + 1))

SendingFails(o) ==
    /\ operator[o].step = "calling"
    /\ Save(o, [row[Target(o)] EXCEPT !.status = "FAILED", !.attempts = operator[o].attempts + 1])

Cancel(o) ==
    /\ operator[o].step = "cancel"
    /\ Save(o, [row[Target(o)] EXCEPT !.status = "CANCELLED"])

\* The action of the admin pages is one UPDATE with its condition.
CancelQueuedNotifications ==
    /\ \A n \in Notifications : Exists(n) /\ row[n].status = "QUEUED" => lock[n] = Nobody
    /\ row' = [n \in Notifications |->
          IF Exists(n) /\ row[n].status = "QUEUED" THEN [row[n] EXCEPT !.status = "CANCELLED"] ELSE row[n]]
    /\ UNCHANGED <<lock, request, operator, calls>>
-----------------------------------------------------------------------------
(* msg91_delivery_webhook *)

MappedStatus == [submitted |-> "SENT", sent |-> "SENT", delivered |-> "DELIVERED",
                 read |-> "READ", failed |-> "FAILED", unknown |-> "none"]
DeliveryRank(status) ==
    CASE status = "SENT" -> 1 [] status = "DELIVERED" -> 2 [] status = "READ" -> 3 [] OTHER -> 0

Outranks_Always(mapped, status) == TRUE
Outranks(mapped, status) == DeliveryRank(mapped) >= DeliveryRank(status)

AfterCallback(status, report) ==
    LET mapped == MappedStatus[report] IN
    CASE mapped = "FAILED" -> IF status \in {"DELIVERED", "READ"} THEN status ELSE "FAILED"
      [] mapped = "none" -> status
      [] OTHER -> IF Outranks(mapped, status) THEN mapped ELSE status

\* The message is named by the row's id, by the provider's own id, or by both; by the
\* provider's id alone it is found only once the row has it.
Callback(n, report, named) ==
    /\ calls[n] # <<>>
    /\ Exists(n) /\ (named = "provider id" => row[n].known)
    /\ lock[n] = Nobody
    /\ row' = [row EXCEPT ![n].status = AfterCallback(@, report),
                          ![n].known = @ \/ named # "id"]
    /\ UNCHANGED <<lock, request, operator, calls>>
-----------------------------------------------------------------------------
Work(r) ==
    \/ CreateAndEnqueue(r) \/ DeliverNotification(r) \/ SkipDelivery(r)
    \/ DeliverySucceeds(r) \/ DeliveryFails(r)

Operate(o) ==
    \/ \E n \in Notifications, action \in DOMAIN Sendable : Read(o, action, n)
    \/ SendNotification(o) \/ SendingSucceeds(o) \/ SendingFails(o) \/ Cancel(o)

Next ==
    \/ \E r \in Requests : EmitNotificationEvent(r) \/ Commit(r) \/ Rollback(r) \/ Work(r) \/ Crash(r)
    \/ \E o \in Operators : Operate(o)
    \/ CancelQueuedNotifications
    \/ \E n \in Notifications :
          \/ \E status \in Statuses : CreateManually(n, status)
          \/ \E report \in DOMAIN MappedStatus, named \in {"id", "provider id", "both"} :
                Callback(n, report, named)

\* A request goes on with its hooks until they are done: no hook waits for anything but
\* the provider, whose answer is bounded by a timeout of ten seconds.
Spec == Init /\ [][Next]_vars /\ \A r \in Requests : WF_vars(Work(r))
-----------------------------------------------------------------------------
(* Properties *)

Rows == {NoRow} \cup [status : Statuses, known : BOOLEAN, attempts : 0..MaxAttempts + 1]

\* The state space; only a delivery locks a row for longer than a statement.
TypeOK ==
    /\ row \in [Notifications -> Rows]
    /\ lock \in [Notifications -> Requests \cup {Nobody}]
    /\ \A r \in Requests :
          /\ request[r].step \in {"open", "committed", "rolled back", "delivering", "calling", "crashed"}
          /\ \A n \in Notifications : lock[n] = r => request[r].step = "calling" /\ Hook(r) = n
    /\ \A o \in Operators : operator[o] # Idle => Exists(Target(o))
    /\ calls \in [Notifications -> Seq({"deliver", "send"})]

\* emit_notification_event: a customer hears of an event only when the transaction that
\* made it has committed; nothing is created or sent for one rolled back later.
CommittedEventsOnly ==
    \A r \in Requests : request[r].step \in {"open", "rolled back"} =>
       \A i \in DOMAIN EventsOf[r] : ~Exists(EventsOf[r][i]) /\ calls[EventsOf[r][i]] = <<>>

\* deliver_notification: while it calls the provider the notification stays unsent and
\* not cancelled, so what an operator has cancelled is not sent automatically.
CancelledIsNotDelivered ==
    \A r \in Requests : request[r].step = "calling" => row[Hook(r)].status \in Deliverable

\* A report that a message was delivered or read is never undone by an older report that
\* arrives later nor by the delivery whose answer comes after it; only an operator who
\* sends or cancels the message (from a row read before the report) does that.
ReportsAreKept ==
    [][\A n \in Notifications : Exists(n) =>
          \/ row[n].status \in {"DELIVERED", "READ"} =>
                DeliveryRank(row'[n].status) >= DeliveryRank(row[n].status)
          \/ \E o \in Operators : operator[o] # Idle /\ Target(o) = n /\ operator'[o] = Idle]_vars

\* Every event of a committed transaction is delivered or at least tried, or taken off
\* before, also when the delivery of an event before it fails: only the end of the
\* process loses events.
EventsAreTried ==
    \A r \in Requests : \A i \in DOMAIN EventsOf[r] :
       (request[r].step = "committed" /\ Len(request[r].hooks) >= i)
          ~> \/ request[r].step = "crashed"
             \/ /\ Exists(EventsOf[r][i])
                /\ calls[EventsOf[r][i]] # <<>> \/ row[EventsOf[r][i]].status = "CANCELLED"
=============================================================================
