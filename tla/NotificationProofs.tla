------------------------ MODULE NotificationProofs ------------------------
(***************************************************************************)
(* For any number of requests, events and operators: only events of a      *)
(* committed transaction reach a customer, an automatic delivery never     *)
(* sends what was cancelled, and no late answer undoes a delivery report.  *)
(* The argument follows an event: its notification does not exist before   *)
(* its hook has run, is written by one request from then on, and is locked *)
(* for as long as that request waits for the provider.                     *)
(***************************************************************************)
EXTENDS Notification, SequenceTheorems, TLAPS

EventSet(r) == {EventsOf[r][i] : i \in DOMAIN EventsOf[r]}

RequestSteps == {"open", "committed", "rolled back", "delivering", "calling", "crashed"}
Orders == [step : {"retry", "send", "cancel", "calling"}, notification : Notifications,
           attempts : 0..MaxAttempts + 1]

\* The parts of the state that TypeOK leaves to the actions.  An operator sends
\* only what was sent fewer than MaxAttempts times.
Typed ==
    /\ TypeOK
    /\ request \in [Requests -> [step : RequestSteps, hooks : Seq(Notifications)]]
    /\ operator \in [Operators -> {Idle} \cup Orders]
    /\ \A o \in Operators : operator[o].step \in {"retry", "send", "calling"} =>
          operator[o].attempts < MaxAttempts

\* The hooks of a request are events of its own, each once, in the order of
\* emission as long as the transaction is open.
HooksAreEvents ==
    \A r \in Requests : LET hooks == request[r].hooks IN
       /\ request[r].step = "open" => /\ Len(hooks) <= Len(EventsOf[r])
                                      /\ \A i \in DOMAIN hooks : hooks[i] = EventsOf[r][i]
       /\ \A i \in DOMAIN hooks : hooks[i] \in EventSet(r)
       /\ \A i, j \in DOMAIN hooks : hooks[i] = hooks[j] => i = j
       /\ request[r].step \in {"delivering", "calling"} => hooks # <<>>

\* No notification exists before its hook has run.
NotYetCreated ==
    \A r \in Requests : \A i \in DOMAIN request[r].hooks :
       \/ request[r].step \in {"open", "committed"}
       \/ i > 1
       => ~Exists(request[r].hooks[i])

\* The notification in delivery: it was created, operators alone have sent it
\* so far, and it is locked during the call.
InDelivery ==
    \A r \in Requests :
       /\ request[r].step \in {"delivering", "calling"} =>
             Exists(Hook(r)) /\ row[Hook(r)].attempts <= MaxAttempts
       /\ request[r].step = "calling" => lock[Hook(r)] = r

IInv == Typed /\ HooksAreEvents /\ NotYetCreated /\ InDelivery
        /\ CommittedEventsOnly /\ CancelledIsNotDelivered
-----------------------------------------------------------------------------
LEMMA EventFacts ==
    ASSUME NEW r \in Requests
    PROVE  /\ EventsOf[r] \in Seq(Notifications) /\ Len(EventsOf[r]) \in Nat
           /\ DOMAIN EventsOf[r] = 1..Len(EventsOf[r])
           /\ EventSet(r) \subseteq Notifications \cap Emitted
           /\ \A q \in Requests : \A n \in EventSet(r) : n \in EventSet(q) => q = r
<1>1. /\ EventsOf[r] \in Seq(Notifications) /\ Len(EventsOf[r]) \in Nat
      /\ DOMAIN EventsOf[r] = 1..Len(EventsOf[r])
  BY EventsAssumption, LenProperties
<1>2. EventSet(r) \subseteq Emitted
  BY DEF EventSet, Emitted
<1>3. EventSet(r) \subseteq Notifications
  BY <1>1, ElementOfSeq DEF EventSet
<1>4. ASSUME NEW q \in Requests, NEW n \in EventSet(r), n \in EventSet(q)
      PROVE  q = r
  <2>1. PICK i \in DOMAIN EventsOf[r] : n = EventsOf[r][i]
    BY DEF EventSet
  <2>2. PICK j \in DOMAIN EventsOf[q] : n = EventsOf[q][j]
    BY <1>4 DEF EventSet
  <2>3. QED BY <2>1, <2>2, EventsAssumption
<1>5. QED BY <1>1, <1>2, <1>3, <1>4

LEMMA Bounds ==
    /\ MaxAttempts \in Nat /\ 0 \in 0..MaxAttempts /\ 0 \in 0..MaxAttempts + 1
    /\ Nobody \notin Requests
    /\ {"QUEUED", "SENT", "FAILED", "CANCELLED"} \subseteq Statuses
<1>1. MaxAttempts \in Nat /\ Nobody \notin Requests
  BY EventsAssumption
<1>2. QED BY <1>1 DEF Statuses

\* The first hook of a request and the hooks after it.
LEMMA HookFacts ==
    ASSUME Typed, HooksAreEvents, NEW r \in Requests, request[r].hooks # <<>>
    PROVE  /\ 1 \in DOMAIN request[r].hooks
           /\ Hook(r) = request[r].hooks[1] /\ Hook(r) \in EventSet(r) /\ Hook(r) \in Notifications
           /\ Tail(request[r].hooks) \in Seq(Notifications)
           /\ \A i \in DOMAIN Tail(request[r].hooks) :
                 /\ i + 1 \in DOMAIN request[r].hooks
                 /\ i \in Nat \ {0}
                 /\ Tail(request[r].hooks)[i] = request[r].hooks[i + 1]
<1> DEFINE hooks == request[r].hooks
<1>1. hooks \in Seq(Notifications) /\ hooks # <<>>
  BY DEF Typed
<1>2. /\ Head(hooks) = hooks[1] /\ Tail(hooks) \in Seq(Notifications)
      /\ Len(hooks) \in Nat \ {0} /\ DOMAIN hooks = 1..Len(hooks)
      /\ Len(Tail(hooks)) = Len(hooks) - 1
      /\ \A i \in 1..Len(Tail(hooks)) : Tail(hooks)[i] = hooks[i + 1]
  BY <1>1, HeadTailProperties, EmptySeq, LenProperties
<1>3. DOMAIN Tail(hooks) = 1..Len(Tail(hooks))
  BY <1>2, LenProperties
<1>4. Hook(r) \in EventSet(r)
  BY <1>2 DEF HooksAreEvents, Hook
<1>5. QED BY <1>2, <1>3, <1>4, EventFacts DEF Hook

LEMMA InitIInv == Init => IInv
<1> SUFFICES ASSUME Init PROVE IInv
  OBVIOUS
<1> USE EventsAssumption DEF Init
<1>1. TypeOK
  <2>1. <<>> \in Seq({"deliver", "send"})
    OBVIOUS
  <2>2. calls \in [Notifications -> Seq({"deliver", "send"})]
    BY <2>1
  <2>3. QED BY <2>2 DEF TypeOK, Rows
<1>2. Typed
  BY <1>1 DEF Typed, RequestSteps, Idle
<1>3. HooksAreEvents
  <2>1. ASSUME NEW r \in Requests
        PROVE  /\ request[r].hooks = <<>> /\ request[r].step = "open"
               /\ DOMAIN request[r].hooks = {} /\ Len(request[r].hooks) <= Len(EventsOf[r])
    BY EventFacts
  <2>2. \A r \in Requests : request[r].step \notin {"delivering", "calling"}
    BY <2>1
  <2> HIDE DEF Init
  <2>3. QED BY <2>1, <2>2 DEF HooksAreEvents
<1>4. NotYetCreated /\ InDelivery /\ CancelledIsNotDelivered
  BY DEF NotYetCreated, InDelivery, CancelledIsNotDelivered
<1>5. CommittedEventsOnly
  <2>1. \A r \in Requests : \A i \in DOMAIN EventsOf[r] : EventsOf[r][i] \in Notifications
    BY EventFacts, ElementOfSeq
  <2>2. QED BY <2>1 DEF CommittedEventsOnly, Exists
<1>6. QED BY <1>2, <1>3, <1>4, <1>5 DEF IInv

\* The steps of the operators and of the provider write no locked row and no
\* row of an event that was not created yet.
OutsideWrites ==
    \A n \in Notifications :
       /\ Exists(n) => Exists(n)' /\ row'[n].attempts \in {row[n].attempts} \cup 0..MaxAttempts
       /\ n \in Emitted /\ ~Exists(n) => row'[n] = row[n] /\ calls'[n] = calls[n]
       /\ lock[n] # Nobody => row'[n] = row[n]

LEMMA OutsideStep ==
    ASSUME IInv, Typed', OutsideWrites, UNCHANGED <<lock, request>>
    PROVE  IInv'
<1> USE DEF IInv
<1>1. \A r \in Requests : Hook(r)' = Hook(r)
  BY DEF Hook
<1>2. HooksAreEvents'
  BY DEF HooksAreEvents, EventSet
<1>3. ASSUME NEW r \in Requests, NEW i \in DOMAIN request[r].hooks, ~Exists(request[r].hooks[i])
      PROVE  row'[request[r].hooks[i]] = NoRow
  <2>1. request[r].hooks[i] \in EventSet(r)
    BY DEF HooksAreEvents
  <2>2. QED BY <1>3, <2>1, EventFacts DEF OutsideWrites, Exists
<1>4. NotYetCreated'
  BY <1>3 DEF NotYetCreated, Exists
<1>5. InDelivery'
  <2>1. ASSUME NEW r \in Requests, request[r].step \in {"delivering", "calling"}
        PROVE  Exists(Hook(r))' /\ row'[Hook(r)].attempts <= MaxAttempts
    <3>1. request[r].hooks # <<>> /\ Hook(r) \in Notifications
      BY <2>1, HookFacts DEF HooksAreEvents
    <3>2. row[Hook(r)].attempts <= MaxAttempts /\ Exists(Hook(r))
      BY <2>1 DEF InDelivery
    <3>3. QED BY <1>1, <3>1, <3>2, EventsAssumption DEF OutsideWrites, Exists
  <2>2. QED BY <1>1, <2>1 DEF InDelivery, Exists
<1>6. CommittedEventsOnly'
  BY EventFacts DEF CommittedEventsOnly, OutsideWrites, Exists, EventSet
<1>7. CancelledIsNotDelivered'
  <2>1. ASSUME NEW r \in Requests, request[r].step = "calling"
        PROVE  row'[Hook(r)].status \in Deliverable
    <3>1. Hook(r) \in Notifications
      BY <2>1, HookFacts DEF HooksAreEvents
    <3>2. lock[Hook(r)] # Nobody
      BY <2>1, EventsAssumption DEF InDelivery
    <3>3. QED BY <2>1, <3>1, <3>2 DEF OutsideWrites, CancelledIsNotDelivered
  <2>2. QED BY <1>1, <2>1 DEF CancelledIsNotDelivered
<1>8. QED BY <1>2, <1>4, <1>5, <1>6, <1>7
-----------------------------------------------------------------------------
Row == [status : Statuses, known : BOOLEAN, attempts : 0..MaxAttempts + 1]

LEMMA RowFacts ==
    ASSUME TypeOK, NEW n \in Notifications
    PROVE  /\ Exists(n) => row[n] \in Row
           /\ ~Exists(n) => row[n].status \notin Statuses
           /\ \A new \in Row : new # NoRow
           /\ Row \subseteq Rows /\ NoRow \in Rows
<1>1. NoRow.status \notin Statuses
  BY DEF NoRow, Statuses
<1>2. \A new \in Row : new.status \in Statuses
  BY DEF Row
<1>3. Rows = {NoRow} \cup Row
  BY DEF Rows, Row
<1>4. QED BY <1>1, <1>2, <1>3 DEF TypeOK, Exists

\* What a step of an operator or of the provider writes in place of a row.
LEMMA NewRowFacts ==
    ASSUME NEW r \in Row, NEW attempts \in 0..MaxAttempts, NEW status \in Statuses,
           NEW known \in BOOLEAN
    PROVE  /\ Sent(r, attempts) \in Row /\ Sent(r, attempts).attempts = attempts
           /\ LET s == [r EXCEPT !.status = status, !.attempts = attempts]
              IN s \in Row /\ s.attempts = attempts
           /\ LET s == [r EXCEPT !.status = status]
              IN s \in Row /\ s.attempts = r.attempts
           /\ LET s == [r EXCEPT !.status = status, !.known = known]
              IN s \in Row /\ s.attempts = r.attempts /\ s.status = status
           /\ NewRow(status) \in Row /\ NewRow(status).attempts = 0
<1>1. attempts \in 0..MaxAttempts + 1 /\ 0 \in 0..MaxAttempts + 1
  BY EventsAssumption
<1>2. "SENT" \in Statuses
  BY DEF Statuses
<1>3. NewRow(status) \in Row /\ NewRow(status).attempts = 0
  BY <1>1 DEF NewRow, Row
<1>4. LET s == [r EXCEPT !.status = status]
      IN s \in Row /\ s.attempts = r.attempts
  BY DEF Row
<1>5. LET s == [r EXCEPT !.status = status, !.attempts = attempts]
      IN s \in Row /\ s.attempts = attempts
  BY <1>1 DEF Row
<1>6. LET s == [r EXCEPT !.status = status, !.known = known]
      IN s \in Row /\ s.attempts = r.attempts /\ s.status = status
  BY DEF Row
<1>7. Sent(r, attempts) \in Row /\ Sent(r, attempts).attempts = attempts
  BY <1>1, <1>2 DEF Row, Sent
<1>8. QED BY <1>3, <1>4, <1>5, <1>6, <1>7

\* One row written by someone who does not hold it.
LEMMA OneRowWritten ==
    ASSUME TypeOK, NEW n \in Notifications, NEW new \in Row, row' = [row EXCEPT ![n] = new],
           lock[n] = Nobody,
           \/ Exists(n) /\ new.attempts \in {row[n].attempts} \cup 0..MaxAttempts
           \/ n \notin Emitted /\ ~Exists(n),
           UNCHANGED calls
    PROVE  OutsideWrites /\ row' \in [Notifications -> Rows]
<1>1. row' \in [Notifications -> Rows] /\ Exists(n)'
  BY RowFacts DEF TypeOK, Exists
<1>2. \A m \in Notifications : row'[m] = IF m = n THEN new ELSE row[m]
  BY DEF TypeOK
<1>3. QED BY <1>1, <1>2 DEF OutsideWrites, Exists

\* Typed holds after a step outside the requests that keeps the operators' orders.
LEMMA OutsideTyped ==
    ASSUME Typed, OutsideWrites, row' \in [Notifications -> Rows],
           calls' \in [Notifications -> Seq({"deliver", "send"})],
           UNCHANGED <<lock, request>>,
           operator' \in [Operators -> {Idle} \cup Orders],
           \A o \in Operators : operator'[o] # Idle =>
              /\ Exists(operator'[o].notification)
              /\ operator'[o].step \in {"retry", "send", "calling"} => operator'[o].attempts < MaxAttempts
    PROVE  Typed'
<1>1. \A o \in Operators : operator'[o] # Idle => operator'[o].notification \in Notifications
  BY DEF Orders
<1>2. \A o \in Operators : operator'[o] # Idle => Exists(Target(o))'
  BY <1>1 DEF OutsideWrites, Target, Exists
<1>3. TypeOK'
  BY <1>2 DEF Typed, TypeOK, Hook
<1>4. QED BY <1>3 DEF Typed, Idle

\* An operator's order, and the orders once this one is over.
LEMMA OrderFacts ==
    ASSUME Typed, NEW o \in Operators
    PROVE  /\ operator[o] = Idle <=> operator[o].step = "idle"
           /\ operator[o] # Idle => /\ operator[o] \in Orders
                                    /\ Target(o) \in Notifications
                                    /\ Exists(Target(o))
           /\ \A p \in Operators : operator[p] # Idle =>
                 /\ Exists(operator[p].notification)
                 /\ operator[p].step \in {"retry", "send", "calling"} => operator[p].attempts < MaxAttempts
<1>1. operator[o] \in {Idle} \cup Orders /\ Idle.step = "idle"
  BY DEF Typed, Idle
<1>2. \A order \in Orders : order.step # "idle" /\ order.notification \in Notifications
  BY DEF Orders
<1>3. \A p \in Operators : operator[p] # Idle => Exists(operator[p].notification)
  BY DEF Typed, TypeOK, Target
<1>4. QED BY <1>1, <1>2, <1>3 DEF Typed, Target

LEMMA SaveKeeps ==
    ASSUME IInv, NEW o \in Operators, operator[o] # Idle, NEW new \in Row, Save(o, new),
           new.attempts \in {row[Target(o)].attempts} \cup 0..MaxAttempts
    PROVE  IInv'
<1> USE DEF IInv, Save
<1>1. OutsideWrites /\ row' \in [Notifications -> Rows]
  BY OrderFacts, OneRowWritten DEF Typed
<1>2. /\ operator' \in [Operators -> {Idle} \cup Orders]
      /\ operator'[o] = Idle /\ \A p \in Operators \ {o} : operator'[p] = operator[p]
  BY DEF Typed
<1>3. Typed'
  BY <1>1, <1>2, OrderFacts, OutsideTyped DEF Typed, TypeOK
<1>4. QED BY <1>1, <1>3, OutsideStep

LEMMA OperatorStep == ASSUME IInv, NEW o \in Operators, Operate(o) PROVE IInv'
<1> USE DEF IInv
<1>1. ASSUME NEW n \in Notifications, NEW action \in DOMAIN Sendable, Read(o, action, n)
      PROVE  IInv'
  <2> USE <1>1 DEF Read
  <2> DEFINE order == [step |-> action, notification |-> n, attempts |-> row[n].attempts]
  <2>1. action \in {"retry", "send", "cancel"} /\ row[n] \in Row
    BY RowFacts DEF Sendable, Typed
  <2>2. order \in Orders /\ (action # "cancel" => order.attempts < MaxAttempts)
    BY <2>1 DEF Orders, Row
  <2>3. /\ operator' \in [Operators -> {Idle} \cup Orders]
        /\ operator'[o] = order /\ \A p \in Operators \ {o} : operator'[p] = operator[p]
    BY <2>2 DEF Typed
  <2>4. OutsideWrites
    BY DEF OutsideWrites, Exists
  <2>5. \A p \in Operators : operator'[p] # Idle =>
              /\ Exists(operator'[p].notification)
              /\ operator'[p].step \in {"retry", "send", "calling"} => operator'[p].attempts < MaxAttempts
    BY <2>1, <2>2, <2>3, OrderFacts
  <2>6. Typed'
    BY <2>3, <2>4, <2>5, OutsideTyped DEF Typed, TypeOK
  <2>7. QED BY <2>4, <2>6, OutsideStep
<1>2. CASE SendNotification(o)
  <2> USE <1>2 DEF SendNotification, CallProvider
  <2>1. operator[o] # Idle /\ operator[o] \in Orders /\ Target(o) \in Notifications /\ Exists(Target(o))
    BY OrderFacts DEF Idle
  <2>2. \A m \in Notifications :
           calls'[m] = IF m = Target(o) THEN Append(calls[m], "send") ELSE calls[m]
    BY <2>1 DEF Typed, TypeOK
  <2>3. calls' \in [Notifications -> Seq({"deliver", "send"})]
    BY <2>1, AppendProperties DEF Typed, TypeOK
  <2>4. OutsideWrites
    BY <2>1, <2>2 DEF OutsideWrites, Exists
  <2>5. /\ operator' \in [Operators -> {Idle} \cup Orders]
        /\ operator'[o].notification = Target(o) /\ operator'[o].attempts = operator[o].attempts
        /\ \A p \in Operators \ {o} : operator'[p] = operator[p]
    <3>1. \A order \in Orders : [order EXCEPT !.step = "calling"] \in Orders
      BY DEF Orders
    <3>2. [operator[o] EXCEPT !.step = "calling"].notification = Target(o)
      BY <2>1 DEF Orders, Target
    <3>3. [operator[o] EXCEPT !.step = "calling"].attempts = operator[o].attempts
      BY <2>1 DEF Orders
    <3>4. QED BY <2>1, <3>1, <3>2, <3>3 DEF Typed
  <2>6. \A p \in Operators : operator'[p] # Idle =>
              /\ Exists(operator'[p].notification)
              /\ operator'[p].step \in {"retry", "send", "calling"} => operator'[p].attempts < MaxAttempts
    BY <2>1, <2>5, OrderFacts
  <2>7. row' \in [Notifications -> Rows]
    BY DEF Typed, TypeOK
  <2>8. Typed'
    BY <2>3, <2>4, <2>5, <2>6, <2>7, OutsideTyped
  <2>9. QED BY <2>4, <2>8, OutsideStep
<1>3. CASE SendingSucceeds(o)
  <2>1. operator[o].step = "calling" /\ operator[o] # Idle /\ row[Target(o)] \in Row
    BY <1>3, OrderFacts, RowFacts DEF SendingSucceeds, Typed, Idle
  <2>2. operator[o].attempts + 1 \in 0..MaxAttempts
    BY <2>1, OrderFacts, EventsAssumption DEF Orders
  <2> DEFINE new == Sent(row[Target(o)], operator[o].attempts + 1)
  <2>3. new \in Row /\ new.attempts \in 0..MaxAttempts
    <3>1. "SENT" \in Statuses
      BY DEF Statuses
    <3>2. QED BY <2>1, <2>2, <3>1, NewRowFacts
  <2>4. Save(o, new)
    BY <1>3 DEF SendingSucceeds
  <2> HIDE DEF new
  <2>5. QED BY <2>1, <2>3, <2>4, SaveKeeps
<1>4. CASE SendingFails(o)
  <2>1. operator[o].step = "calling" /\ operator[o] # Idle /\ row[Target(o)] \in Row
    BY <1>4, OrderFacts, RowFacts DEF SendingFails, Typed, Idle
  <2>2. operator[o].attempts + 1 \in 0..MaxAttempts
    BY <2>1, OrderFacts, EventsAssumption DEF Orders
  <2> DEFINE r == row[Target(o)]
             attempts == operator[o].attempts + 1
             new == [r EXCEPT !.status = "FAILED", !.attempts = attempts]
  <2>3. new \in Row /\ new.attempts \in 0..MaxAttempts
    <3>1. "FAILED" \in Statuses
      BY DEF Statuses
    <3>2. r \in Row /\ attempts \in 0..MaxAttempts
      BY <2>1, <2>2
    <3> HIDE DEF r, attempts
    <3>3. QED BY <3>1, <3>2, NewRowFacts
  <2>4. Save(o, new)
    BY <1>4 DEF SendingFails
  <2> HIDE DEF new
  <2>5. QED BY <2>1, <2>3, <2>4, SaveKeeps
<1>5. CASE Cancel(o)
  <2>1. operator[o] # Idle /\ row[Target(o)] \in Row
    BY <1>5, OrderFacts, RowFacts DEF Cancel, Typed, Idle
  <2> DEFINE new == [row[Target(o)] EXCEPT !.status = "CANCELLED"]
  <2>2. new \in Row /\ new.attempts = row[Target(o)].attempts
    <3>1. "CANCELLED" \in Statuses /\ 0 \in 0..MaxAttempts
      BY EventsAssumption DEF Statuses
    <3>2. QED BY <2>1, <3>1, NewRowFacts
  <2>3. Save(o, new)
    BY <1>5 DEF Cancel
  <2> HIDE DEF new
  <2>4. QED BY <2>1, <2>2, <2>3, SaveKeeps
<1>6. QED BY <1>1, <1>2, <1>3, <1>4, <1>5 DEF Operate

\* What a report means, and what is left of a status after it.
LEMMA CallbackStatus ==
    ASSUME NEW status \in Statuses, NEW report \in DOMAIN MappedStatus
    PROVE  /\ AfterCallback(status, report) \in Statuses
           /\ status \in {"DELIVERED", "READ"} =>
                 DeliveryRank(AfterCallback(status, report)) >= DeliveryRank(status)
<1> DEFINE mapped == MappedStatus[report]
<1>1. mapped \in {"SENT", "DELIVERED", "READ", "FAILED", "none"}
  BY DEF MappedStatus
<1>2. \A st : DeliveryRank(st) \in 0..3
  BY DEF DeliveryRank
<1> HIDE DEF mapped
<1>3. AfterCallback(status, report) \in Statuses
  BY <1>1 DEF AfterCallback, mapped, Statuses
<1>4. ASSUME status \in {"DELIVERED", "READ"}
      PROVE  DeliveryRank(AfterCallback(status, report)) >= DeliveryRank(status)
  <2>1. CASE mapped = "FAILED" \/ mapped = "none"
    BY <1>2, <1>4, <2>1 DEF AfterCallback, mapped
  <2>2. CASE mapped \notin {"FAILED", "none"}
    BY <1>2, <2>2 DEF AfterCallback, mapped, Outranks
  <2>3. QED BY <2>1, <2>2
<1>5. QED BY <1>3, <1>4

\* Notifications made by hand, the bulk cancellation and the provider's callbacks.
LEMMA OtherStep ==
    ASSUME IInv,
           \/ CancelQueuedNotifications
           \/ \E n \in Notifications :
                 \/ \E status \in Statuses : CreateManually(n, status)
                 \/ \E report \in DOMAIN MappedStatus, named \in {"id", "provider id", "both"} :
                       Callback(n, report, named)
    PROVE  IInv'
<1> USE DEF IInv
<1>1. ASSUME OutsideWrites, row' \in [Notifications -> Rows], UNCHANGED <<lock, request, operator, calls>>
      PROVE  IInv'
  <2>1. Typed'
    BY <1>1, OrderFacts, OutsideTyped DEF Typed, TypeOK
  <2>2. QED BY <1>1, <2>1, OutsideStep
<1>2. CASE CancelQueuedNotifications
  <2> USE <1>2 DEF CancelQueuedNotifications
  <2>1. "CANCELLED" \in Statuses /\ 0 \in 0..MaxAttempts
    BY Bounds
  <2>2. ASSUME NEW n \in Notifications, Exists(n)
        PROVE  LET new == [row[n] EXCEPT !.status = "CANCELLED"]
               IN new \in Row /\ new.attempts = row[n].attempts
    BY <2>1, <2>2, RowFacts, NewRowFacts DEF Typed
  <2>3. \A n \in Notifications :
           /\ row'[n] \in Rows
           /\ Exists(n) => Exists(n)' /\ row'[n].attempts = row[n].attempts
           /\ ~Exists(n) => row'[n] = row[n]
           /\ lock[n] # Nobody => row'[n] = row[n]
    BY <2>2, RowFacts DEF Typed, TypeOK, Exists
  <2>4. row' \in [Notifications -> Rows]
    BY <2>3
  <2>5. QED BY <1>1, <2>3, <2>4 DEF OutsideWrites
<1>3. ASSUME NEW n \in Notifications, NEW status \in Statuses, CreateManually(n, status)
      PROVE  IInv'
  <2> USE <1>3 DEF CreateManually
  <2>1. lock[n] = Nobody
    <3>1. ASSUME NEW r \in Requests, lock[n] = r PROVE FALSE
      <4>1. request[r].step = "calling" /\ Hook(r) = n
        BY <3>1 DEF Typed, TypeOK
      <4>2. n \in EventSet(r)
        BY <4>1, HookFacts DEF HooksAreEvents
      <4>3. QED BY <4>2, EventFacts
    <3>2. QED BY <3>1 DEF Typed, TypeOK
  <2>2. NewRow(status) \in Row
    BY Bounds DEF NewRow, Row
  <2>3. OutsideWrites /\ row' \in [Notifications -> Rows]
    BY <2>1, <2>2, OneRowWritten DEF Typed
  <2>4. QED BY <1>1, <2>3
<1>4. ASSUME NEW n \in Notifications, NEW report \in DOMAIN MappedStatus,
             NEW named \in {"id", "provider id", "both"}, Callback(n, report, named)
      PROVE  IInv'
  <2> DEFINE status == AfterCallback(row[n].status, report)
             known == row[n].known \/ named # "id"
             new == [row[n] EXCEPT !.status = status, !.known = known]
  <2>1. row[n] \in Row
    BY <1>4, RowFacts DEF Typed, Callback
  <2>2. row[n].status \in Statuses /\ row[n].known \in BOOLEAN
    BY <2>1 DEF Row
  <2>3. status \in Statuses /\ known \in BOOLEAN
    BY <2>2, CallbackStatus
  <2>4. row' = [row EXCEPT ![n] = new]
    BY <1>4 DEF Callback
  <2> HIDE DEF status, known
  <2>5. new \in Row /\ new.attempts = row[n].attempts
    BY <2>1, <2>3 DEF Row
  <2> HIDE DEF new
  <2>6. OutsideWrites /\ row' \in [Notifications -> Rows]
    BY <1>4, <2>4, <2>5, OneRowWritten DEF Typed, Callback
  <2>7. QED BY <1>1, <1>4, <2>6 DEF Callback
<1>5. QED BY <1>2, <1>3, <1>4
-----------------------------------------------------------------------------
\* What the invariant says of one request.
Lifecycle(r) ==
    LET hooks == request[r].hooks
        step == request[r].step
    IN /\ \A n \in Notifications : lock[n] = r => step = "calling" /\ Hook(r) = n
       /\ step = "open" => /\ Len(hooks) <= Len(EventsOf[r])
                           /\ \A i \in DOMAIN hooks : hooks[i] = EventsOf[r][i]
       /\ \A i \in DOMAIN hooks : hooks[i] \in EventSet(r)
       /\ \A i, j \in DOMAIN hooks : hooks[i] = hooks[j] => i = j
       /\ \A i \in DOMAIN hooks : step \in {"open", "committed"} \/ i > 1 => ~Exists(hooks[i])
       /\ step \in {"delivering", "calling"} =>
             hooks # <<>> /\ Exists(Hook(r)) /\ row[Hook(r)].attempts <= MaxAttempts
       /\ step = "calling" => lock[Hook(r)] = r /\ row[Hook(r)].status \in Deliverable
       /\ step \in {"open", "rolled back"} =>
             \A n \in EventSet(r) : ~Exists(n) /\ calls[n] = <<>>

EveryLifecycle == \A r \in Requests : Lifecycle(r)

LEMMA LifecycleDef == IInv <=> Typed /\ EveryLifecycle
<1> USE DEF EveryLifecycle
<1>1. ASSUME IInv, NEW r \in Requests PROVE Lifecycle(r)
  <2>1. HooksAreEvents /\ NotYetCreated /\ InDelivery /\ CancelledIsNotDelivered
        /\ \A n \in Notifications : lock[n] = r => request[r].step = "calling" /\ Hook(r) = n
    BY <1>1 DEF IInv, Typed, TypeOK
  <2>2. request[r].step \in {"open", "rolled back"} =>
           \A n \in EventSet(r) : ~Exists(n) /\ calls[n] = <<>>
    BY <1>1 DEF IInv, CommittedEventsOnly, EventSet
  <2>3. QED BY <2>1, <2>2 DEF HooksAreEvents, NotYetCreated, InDelivery, CancelledIsNotDelivered, Lifecycle
<1>2. ASSUME Typed, \A r \in Requests : Lifecycle(r) PROVE IInv
  <2>1. HooksAreEvents
    BY <1>2 DEF HooksAreEvents, Lifecycle
  <2>2. NotYetCreated
    BY <1>2 DEF NotYetCreated, Lifecycle
  <2>3. InDelivery
    BY <1>2 DEF InDelivery, Lifecycle
  <2>4. CommittedEventsOnly
    <3>1. ASSUME NEW r \in Requests, request[r].step \in {"open", "rolled back"},
                 NEW i \in DOMAIN EventsOf[r]
          PROVE  ~Exists(EventsOf[r][i]) /\ calls[EventsOf[r][i]] = <<>>
      <4>1. EventsOf[r][i] \in EventSet(r)
        BY DEF EventSet
      <4>2. Lifecycle(r)
        BY <1>2
      <4>3. QED BY <3>1, <4>1, <4>2 DEF Lifecycle
    <3>2. QED BY <3>1 DEF CommittedEventsOnly
  <2>5. CancelledIsNotDelivered
    BY <1>2 DEF CancelledIsNotDelivered, Lifecycle
  <2>6. QED BY <1>2, <2>1, <2>2, <2>3, <2>4, <2>5 DEF IInv
<1>3. QED BY <1>1, <1>2 DEF IInv

\* A request writes and locks only the notifications of its own events, which
\* are no other request's.
LEMMA OwnStep ==
    ASSUME IInv, NEW r \in Requests,
           request' \in [Requests -> [step : RequestSteps, hooks : Seq(Notifications)]],
           row' \in [Notifications -> Rows],
           lock' \in [Notifications -> Requests \cup {Nobody}],
           calls' \in [Notifications -> Seq({"deliver", "send"})],
           UNCHANGED operator,
           \A q \in Requests \ {r} : request'[q] = request[q],
           \A n \in Notifications :
              /\ n \notin EventSet(r) => row'[n] = row[n] /\ calls'[n] = calls[n]
              /\ lock'[n] # lock[n] => n \in EventSet(r) /\ lock'[n] \in {r, Nobody}
              /\ Exists(n) => Exists(n)',
           Lifecycle(r)'
    PROVE  IInv'
<1>1. ASSUME NEW q \in Requests, q # r PROVE Lifecycle(q)'
  <2>1. Lifecycle(q) /\ request'[q] = request[q] /\ Hook(q)' = Hook(q)
    BY <1>1, LifecycleDef DEF Hook, EveryLifecycle
  <2>2. \A n \in EventSet(q) :
           /\ n \in Notifications /\ row'[n] = row[n] /\ calls'[n] = calls[n] /\ lock'[n] = lock[n]
    BY <1>1, EventFacts
  <2>3. EventSet(q)' = EventSet(q)
    BY DEF EventSet
  <2>4. \A n \in Notifications : lock'[n] = q => lock[n] = q
    BY <1>1, EventsAssumption
  <2>5. request[q].hooks # <<>> => Hook(q) \in EventSet(q)
    BY HookFacts DEF IInv
  <2>6. \A i \in DOMAIN request[q].hooks : request[q].hooks[i] \in EventSet(q)
    BY <2>1 DEF Lifecycle
  <2>7. \A i \in DOMAIN request[q].hooks :
           request[q].step \in {"open", "committed"} \/ i > 1 => row'[request[q].hooks[i]] = NoRow
    BY <2>1, <2>2, <2>6 DEF Lifecycle, Exists
  <2>8. request[q].step \in {"delivering", "calling"} =>
           /\ request[q].hooks # <<>> /\ row'[Hook(q)] # NoRow /\ row'[Hook(q)].attempts <= MaxAttempts
    BY <2>1, <2>2, <2>5 DEF Lifecycle, Exists
  <2>9. request[q].step = "calling" => lock'[Hook(q)] = q /\ row'[Hook(q)].status \in Deliverable
    BY <2>1, <2>2, <2>5 DEF Lifecycle
  <2>10. request[q].step \in {"open", "rolled back"} =>
           \A n \in EventSet(q) : row'[n] = NoRow /\ calls'[n] = <<>>
    BY <2>1, <2>2 DEF Lifecycle, Exists
  <2>11. /\ \A n \in Notifications : lock'[n] = q => request[q].step = "calling" /\ Hook(q) = n
         /\ request[q].step = "open" =>
               /\ Len(request[q].hooks) <= Len(EventsOf[q])
               /\ \A i \in DOMAIN request[q].hooks : request[q].hooks[i] = EventsOf[q][i]
         /\ \A i, j \in DOMAIN request[q].hooks : request[q].hooks[i] = request[q].hooks[j] => i = j
    BY <2>1, <2>4 DEF Lifecycle
  <2> DEFINE hooks == request[q].hooks
             step == request[q].step
             hook == Hook(q)
             events == EventSet(q)
  <2>12. /\ request'[q].hooks = hooks /\ request'[q].step = step
         /\ Hook(q)' = hook /\ EventSet(q)' = events
    BY <2>1, <2>3
  <2>13. /\ \A n \in Notifications : lock'[n] = q => step = "calling" /\ hook = n
         /\ step = "open" => /\ Len(hooks) <= Len(EventsOf[q])
                             /\ \A i \in DOMAIN hooks : hooks[i] = EventsOf[q][i]
         /\ \A i \in DOMAIN hooks : hooks[i] \in events
         /\ \A i, j \in DOMAIN hooks : hooks[i] = hooks[j] => i = j
         /\ \A i \in DOMAIN hooks : step \in {"open", "committed"} \/ i > 1 => row'[hooks[i]] = NoRow
         /\ step \in {"delivering", "calling"} =>
               hooks # <<>> /\ row'[hook] # NoRow /\ row'[hook].attempts <= MaxAttempts
         /\ step = "calling" => lock'[hook] = q /\ row'[hook].status \in Deliverable
         /\ step \in {"open", "rolled back"} =>
               \A n \in events : row'[n] = NoRow /\ calls'[n] = <<>>
    BY <2>6, <2>7, <2>8, <2>9, <2>10, <2>11
  <2> HIDE DEF hooks, step, hook, events
  <2>14. QED BY <2>12, <2>13 DEF Lifecycle, Exists
<1>2. \A q \in Requests : Lifecycle(q)'
  BY <1>1
<1>3. Typed'
  <2>1. \A q \in Requests : /\ request'[q].step \in RequestSteps
                            /\ \A n \in Notifications : lock'[n] = q => request'[q].step = "calling" /\ Hook(q)' = n
    BY <1>2 DEF Lifecycle
  <2>2. \A o \in Operators : operator'[o] # Idle => Exists(Target(o))'
    BY OrderFacts DEF Target, IInv
  <2>3. TypeOK'
    BY <2>1, <2>2 DEF TypeOK, RequestSteps
  <2>4. QED BY <2>3 DEF Typed, IInv
<1>4. (IInv <=> Typed /\ EveryLifecycle)'
  BY LifecycleDef, PTL
<1>5. QED BY <1>2, <1>3, <1>4 DEF EveryLifecycle

\* A request that goes on with other hooks, or to another step.
LEMMA RequestEffect ==
    ASSUME Typed, NEW r \in Requests, NEW step \in RequestSteps, NEW hooks \in Seq(Notifications),
           \/ request' = [request EXCEPT ![r] = [step |-> step, hooks |-> hooks]]
           \/ request' = [request EXCEPT ![r].step = step] /\ hooks = request[r].hooks
           \/ request' = [request EXCEPT ![r].hooks = hooks] /\ step = request[r].step
    PROVE  /\ request' \in [Requests -> [step : RequestSteps, hooks : Seq(Notifications)]]
           /\ request'[r].step = step /\ request'[r].hooks = hooks
           /\ \A q \in Requests \ {r} : request'[q] = request[q]
<1> DEFINE Recs == [step : RequestSteps, hooks : Seq(Notifications)]
<1>1. \A q \in Recs : /\ [q EXCEPT !.step = step] \in Recs
                      /\ [q EXCEPT !.step = step].step = step
                      /\ [q EXCEPT !.step = step].hooks = q.hooks
  OBVIOUS
<1>2. \A q \in Recs : /\ [q EXCEPT !.hooks = hooks] \in Recs
                      /\ [q EXCEPT !.hooks = hooks].step = q.step
                      /\ [q EXCEPT !.hooks = hooks].hooks = hooks
  OBVIOUS
<1>3. [step |-> step, hooks |-> hooks] \in Recs
  OBVIOUS
<1>4. request[r] \in Recs /\ request \in [Requests -> Recs]
  BY DEF Typed
<1> HIDE DEF Recs
<1>5. PICK new \in Recs : /\ request' = [request EXCEPT ![r] = new]
                          /\ new.step = step /\ new.hooks = hooks
  <2>1. CASE request' = [request EXCEPT ![r] = [step |-> step, hooks |-> hooks]]
    BY <1>3, <2>1
  <2>2. CASE request' = [request EXCEPT ![r].step = step] /\ hooks = request[r].hooks
    BY <1>1, <1>4, <2>2
  <2>3. CASE request' = [request EXCEPT ![r].hooks = hooks] /\ step = request[r].step
    BY <1>2, <1>4, <2>3
  <2>4. QED BY <2>1, <2>2, <2>3
<1>6. QED BY <1>4, <1>5 DEF Recs

\* Nothing is written of a request whose transaction is open or was rolled back.
LEMMA TransactionStep ==
    ASSUME IInv, NEW r \in Requests, EmitNotificationEvent(r) \/ Commit(r) \/ Rollback(r)
    PROVE  IInv'
<1> DEFINE hooks == request[r].hooks
<1>1. /\ request[r].step = "open" /\ UNCHANGED <<row, lock, operator, calls>>
      /\ hooks \in Seq(Notifications) /\ Typed /\ Lifecycle(r)
  BY LifecycleDef DEF EmitNotificationEvent, Commit, Rollback, IInv, Typed, EveryLifecycle
<1>2. \A n \in Notifications : lock[n] # r
  BY <1>1 DEF Lifecycle
<1>3. \A n \in EventSet(r) : ~Exists(n) /\ calls[n] = <<>>
  BY <1>1 DEF Lifecycle
<1>4. SUFFICES /\ request' \in [Requests -> [step : RequestSteps, hooks : Seq(Notifications)]]
               /\ \A q \in Requests \ {r} : request'[q] = request[q]
               /\ Lifecycle(r)'
  <2>1. /\ row' \in [Notifications -> Rows]
        /\ lock' \in [Notifications -> Requests \cup {Nobody}]
        /\ calls' \in [Notifications -> Seq({"deliver", "send"})]
    BY <1>1 DEF Typed, TypeOK
  <2>2. \A n \in Notifications : Exists(n)' = Exists(n)
    BY <1>1 DEF Exists
  <2>3. QED BY <1>1, <1>4, <2>1, <2>2, OwnStep
<1>5. CASE EmitNotificationEvent(r)
  <2> DEFINE new == Append(hooks, Event(r))
  <2>1. Len(hooks) \in Nat /\ Len(hooks) < Len(EventsOf[r]) /\ DOMAIN hooks = 1..Len(hooks)
    BY <1>1, <1>5, LenProperties DEF EmitNotificationEvent
  <2>2. Len(hooks) + 1 \in DOMAIN EventsOf[r]
    BY <2>1, EventFacts
  <2>3. Event(r) \in EventSet(r) /\ Event(r) \in Notifications
    BY <2>2, EventFacts DEF Event, EventSet
  <2>4. /\ new \in Seq(Notifications) /\ Len(new) = Len(hooks) + 1 /\ DOMAIN new = 1..Len(hooks) + 1
        /\ \A i \in 1..Len(hooks) : new[i] = hooks[i]
        /\ new[Len(hooks) + 1] = EventsOf[r][Len(hooks) + 1]
    BY <1>1, <2>1, <2>3, AppendProperties, LenProperties DEF Event
  <2>5. \A i \in DOMAIN new : new[i] = EventsOf[r][i] /\ i \in DOMAIN EventsOf[r]
    BY <1>1, <2>1, <2>4, EventFacts DEF Lifecycle
  <2>6. /\ \A i \in DOMAIN new : new[i] \in EventSet(r)
        /\ \A i, j \in DOMAIN new : new[i] = new[j] => i = j
    BY <2>5, EventsAssumption DEF EventSet
  <2>7. request' = [request EXCEPT ![r].hooks = new]
    BY <1>5 DEF EmitNotificationEvent
  <2> HIDE DEF new
  <2>8. /\ request' \in [Requests -> [step : RequestSteps, hooks : Seq(Notifications)]]
        /\ request'[r].step = "open" /\ request'[r].hooks = new
        /\ \A q \in Requests \ {r} : request'[q] = request[q]
    BY <1>1, <2>4, <2>7, RequestEffect DEF RequestSteps
  <2>9. Lifecycle(r)'
    <3>1. Len(new) <= Len(EventsOf[r])
      BY <2>1, <2>4, EventFacts
    <3>2. \A i \in DOMAIN new : row'[new[i]] = NoRow
      BY <1>1, <1>3, <2>6 DEF Exists
    <3>3. QED BY <1>1, <1>2, <1>3, <2>5, <2>6, <2>8, <3>1, <3>2 DEF Lifecycle, Exists, EventSet
  <2>10. QED BY <2>8, <2>9
<1>6. CASE Commit(r)
  <2>1. request' = [request EXCEPT ![r].step = "committed"]
    BY <1>6 DEF Commit
  <2>2. /\ request' \in [Requests -> [step : RequestSteps, hooks : Seq(Notifications)]]
        /\ request'[r].step = "committed" /\ request'[r].hooks = hooks
        /\ \A q \in Requests \ {r} : request'[q] = request[q]
    BY <1>1, <2>1, RequestEffect DEF RequestSteps
  <2>3. Lifecycle(r)'
    BY <1>1, <1>2, <2>2 DEF Lifecycle, Exists, EventSet
  <2>4. QED BY <2>2, <2>3
<1>7. CASE Rollback(r)
  <2>1. request' = [request EXCEPT ![r] = [step |-> "rolled back", hooks |-> <<>>]]
    BY <1>7 DEF Rollback
  <2>2. /\ request' \in [Requests -> [step : RequestSteps, hooks : Seq(Notifications)]]
        /\ request'[r].step = "rolled back" /\ request'[r].hooks = <<>>
        /\ \A q \in Requests \ {r} : request'[q] = request[q]
    <3>1. <<>> \in Seq(Notifications) /\ "rolled back" \in RequestSteps
      BY DEF RequestSteps
    <3>2. QED BY <1>1, <2>1, <3>1, RequestEffect
  <2>3. Lifecycle(r)'
    <3>1. DOMAIN <<>> = {}
      OBVIOUS
    <3>2. QED BY <1>1, <1>2, <1>3, <2>2, <3>1 DEF Lifecycle, Exists, EventSet
  <2>4. QED BY <2>2, <2>3
<1>8. QED BY <1>5, <1>6, <1>7

\* The hook is over, and the notification it delivered unlocked.
LEMMA HookOver ==
    ASSUME IInv, NEW r \in Requests, request[r].step \in {"delivering", "calling"},
           Over(r, Tail(request[r].hooks)), UNCHANGED <<operator, calls>>,
           row' \in [Notifications -> Rows], Exists(Hook(r)) => row'[Hook(r)] # NoRow,
           \A n \in Notifications \ {Hook(r)} : row'[n] = row[n]
    PROVE  IInv'
<1> DEFINE hooks == request[r].hooks
           new == Tail(hooks)
<1>1. /\ Lifecycle(r) /\ Typed /\ HooksAreEvents /\ hooks # <<>>
  BY LifecycleDef DEF IInv, EveryLifecycle, HooksAreEvents
<1>2. /\ 1 \in DOMAIN hooks /\ Hook(r) = hooks[1]
      /\ Hook(r) \in EventSet(r) /\ Hook(r) \in Notifications
      /\ new \in Seq(Notifications)
      /\ \A i \in DOMAIN new : i + 1 \in DOMAIN hooks /\ i \in Nat \ {0} /\ new[i] = hooks[i + 1]
  BY <1>1, HookFacts
<1>3. \A i \in DOMAIN new : /\ new[i] \in EventSet(r) /\ new[i] # Hook(r)
                            /\ ~Exists(new[i])
  <2>1. ASSUME NEW i \in DOMAIN new
        PROVE  new[i] \in EventSet(r) /\ new[i] # Hook(r) /\ ~Exists(new[i])
    <3>1. i + 1 \in DOMAIN hooks /\ i + 1 # 1 /\ i + 1 > 1 /\ new[i] = hooks[i + 1]
      BY <1>2
    <3>2. QED BY <1>1, <1>2, <3>1 DEF Lifecycle
  <2>2. QED BY <2>1
<1>4. \A i, j \in DOMAIN new : new[i] = new[j] => i = j
  <2>1. ASSUME NEW i \in DOMAIN new, NEW j \in DOMAIN new, new[i] = new[j]
        PROVE  i = j
    <3>1. /\ i + 1 \in DOMAIN hooks /\ j + 1 \in DOMAIN hooks
          /\ hooks[i + 1] = hooks[j + 1] /\ i \in Nat /\ j \in Nat
      BY <1>2, <2>1
    <3>2. i + 1 = j + 1
      BY <1>1, <3>1 DEF Lifecycle
    <3>3. QED BY <3>1, <3>2
  <2>2. QED BY <2>1
<1>5. /\ request' \in [Requests -> [step : RequestSteps, hooks : Seq(Notifications)]]
      /\ request'[r].step = "committed" /\ request'[r].hooks = new
      /\ \A q \in Requests \ {r} : request'[q] = request[q]
  <2>1. request' = [request EXCEPT ![r] = [step |-> "committed", hooks |-> new]]
    BY DEF Over
  <2>2. "committed" \in RequestSteps
    BY DEF RequestSteps
  <2> HIDE DEF new
  <2>3. QED BY <1>1, <1>2, <2>1, <2>2, RequestEffect
<1> HIDE DEF new
<1>6. \A i \in DOMAIN new : row'[new[i]] = NoRow
  BY <1>3, EventFacts DEF Exists
<1>7. /\ lock' \in [Notifications -> Requests \cup {Nobody}]
      /\ \A n \in Notifications : lock'[n] = IF n = Hook(r) THEN Nobody ELSE lock[n]
  BY <1>1, <1>2 DEF Over, Typed, TypeOK
<1>8. \A n \in Notifications : lock'[n] # r
  BY <1>1, <1>7, Bounds DEF Lifecycle
<1>9. Lifecycle(r)'
  BY <1>3, <1>4, <1>5, <1>6, <1>8 DEF Lifecycle, Exists, EventSet
<1>10. \A n \in Notifications : Exists(n) => Exists(n)'
  BY <1>2 DEF Exists
<1>11. calls' \in [Notifications -> Seq({"deliver", "send"})]
  BY <1>1 DEF Typed, TypeOK
<1>12. QED BY <1>2, <1>5, <1>7, <1>9, <1>10, <1>11, OwnStep

\* The hooks of a committed transaction.
LEMMA WorkStep == ASSUME IInv, NEW r \in Requests, Work(r) PROVE IInv'
<1> DEFINE hooks == request[r].hooks
<1>1. /\ Lifecycle(r) /\ Typed /\ TypeOK /\ HooksAreEvents
  BY LifecycleDef DEF IInv, EveryLifecycle, Typed
<1>2. hooks # <<>> => /\ Hook(r) = hooks[1] /\ Hook(r) \in EventSet(r)
                      /\ Hook(r) \in Notifications /\ hooks \in Seq(Notifications)
                      /\ 1 \in DOMAIN hooks
                      /\ \A i \in DOMAIN hooks : i = 1 \/ i > 1
  BY <1>1, HookFacts, LenProperties DEF Typed
<1>3. CASE CreateAndEnqueue(r)
  <2>1. /\ request[r].step = "committed" /\ hooks # <<>> /\ UNCHANGED <<lock, operator, calls>>
        /\ request' = [request EXCEPT ![r].step = "delivering"]
        /\ row' = [row EXCEPT ![Hook(r)] = NewRow("QUEUED")]
    BY <1>3 DEF CreateAndEnqueue
  <2>2. NewRow("QUEUED") \in Row /\ NewRow("QUEUED").attempts = 0
    BY Bounds DEF NewRow, Row
  <2>3. /\ row' \in [Notifications -> Rows] /\ row'[Hook(r)] # NoRow
        /\ row'[Hook(r)].attempts <= MaxAttempts
        /\ \A n \in Notifications \ {Hook(r)} : row'[n] = row[n]
    <3> DEFINE new == NewRow("QUEUED")
    <3>1. new \in Rows /\ new # NoRow
      BY <1>1, <1>2, <2>1, <2>2, RowFacts
    <3>2. row' = [row EXCEPT ![Hook(r)] = new] /\ new.attempts <= MaxAttempts
      BY <2>1, <2>2, Bounds
    <3> DEFINE h == Hook(r)
    <3>3. row \in [Notifications -> Rows] /\ h \in Notifications /\ row' = [row EXCEPT ![h] = new]
      BY <1>1, <1>2, <2>1, <3>2 DEF TypeOK
    <3> HIDE DEF new, h
    <3>4. row' \in [Notifications -> Rows] /\ row'[h] = new
          /\ \A n \in Notifications \ {h} : row'[n] = row[n]
      BY <3>1, <3>3
    <3>5. QED BY <3>1, <3>2, <3>4 DEF h
  <2>4. /\ request' \in [Requests -> [step : RequestSteps, hooks : Seq(Notifications)]]
        /\ request'[r].step = "delivering" /\ request'[r].hooks = hooks
        /\ \A q \in Requests \ {r} : request'[q] = request[q]
    BY <1>1, <1>2, <2>1, RequestEffect DEF RequestSteps
  <2>5. \A i \in DOMAIN hooks : i > 1 => row'[hooks[i]] = NoRow
    <3>1. ASSUME NEW i \in DOMAIN hooks, i > 1 PROVE row'[hooks[i]] = NoRow
      <4>1. hooks[i] # Hook(r) /\ hooks[i] \in Notifications /\ row[hooks[i]] = NoRow
        BY <1>1, <1>2, <2>1, <3>1, EventFacts DEF Lifecycle, Exists
      <4>2. QED BY <2>3, <4>1
    <3>2. QED BY <3>1
  <2>6. Hook(r)' = Hook(r)
    BY <2>4 DEF Hook
  <2>7. Lifecycle(r)'
    BY <1>1, <2>1, <2>3, <2>4, <2>5, <2>6 DEF Lifecycle, Exists, EventSet
  <2>8. /\ lock' \in [Notifications -> Requests \cup {Nobody}]
        /\ calls' \in [Notifications -> Seq({"deliver", "send"})]
        /\ \A n \in Notifications : Exists(n) => Exists(n)'
    BY <1>1, <2>1, <2>3 DEF TypeOK, Exists
  <2>9. QED BY <1>2, <2>1, <2>3, <2>4, <2>7, <2>8, OwnStep
<1>4. CASE DeliverNotification(r)
  <2>1. /\ request[r].step = "delivering" /\ UNCHANGED <<row, operator>>
        /\ request' = [request EXCEPT ![r].step = "calling"]
        /\ row[Hook(r)].status \in Deliverable
        /\ lock[Hook(r)] = Nobody /\ lock' = [lock EXCEPT ![Hook(r)] = r]
        /\ calls' = [calls EXCEPT ![Hook(r)] = Append(@, "deliver")]
    BY <1>4 DEF DeliverNotification, TakeRow, CallProvider
  <2>2. hooks # <<>>
    BY <1>1, <2>1 DEF Lifecycle
  <2>3. /\ request' \in [Requests -> [step : RequestSteps, hooks : Seq(Notifications)]]
        /\ request'[r].step = "calling" /\ request'[r].hooks = hooks
        /\ \A q \in Requests \ {r} : request'[q] = request[q]
    BY <1>1, <1>2, <2>1, <2>2, RequestEffect DEF RequestSteps
  <2>4. /\ lock' \in [Notifications -> Requests \cup {Nobody}]
        /\ \A n \in Notifications : lock'[n] = IF n = Hook(r) THEN r ELSE lock[n]
    BY <1>1, <1>2, <2>1, <2>2 DEF TypeOK
  <2>5. /\ calls' \in [Notifications -> Seq({"deliver", "send"})]
        /\ \A n \in Notifications \ {Hook(r)} : calls'[n] = calls[n]
    BY <1>1, <1>2, <2>1, <2>2, AppendProperties DEF TypeOK
  <2>6. Hook(r)' = Hook(r)
    BY <2>3 DEF Hook
  <2>7. Lifecycle(r)'
    BY <1>1, <1>2, <2>1, <2>2, <2>3, <2>4, <2>6 DEF Lifecycle, Exists, EventSet
  <2>8. /\ row' \in [Notifications -> Rows]
        /\ \A n \in Notifications : Exists(n) => Exists(n)'
    BY <1>1, <2>1 DEF TypeOK, Exists
  <2>9. QED BY <1>2, <2>1, <2>2, <2>3, <2>4, <2>5, <2>7, <2>8, OwnStep
<1>5. CASE SkipDelivery(r)
  <2>1. row' \in [Notifications -> Rows]
    BY <1>1, <1>5 DEF SkipDelivery, TypeOK
  <2>2. QED BY <1>5, <2>1, HookOver DEF SkipDelivery, Exists
<1>6. CASE DeliverySucceeds(r)
  <2>1. /\ request[r].step = "calling" /\ Over(r, Tail(hooks)) /\ UNCHANGED <<operator, calls>>
        /\ row' = [row EXCEPT ![Hook(r)] = Sent(row[Hook(r)], row[Hook(r)].attempts + 1)]
    BY <1>6 DEF DeliverySucceeds
  <2>2. /\ Hook(r) \in Notifications /\ Exists(Hook(r)) /\ row[Hook(r)].attempts <= MaxAttempts
        /\ row[Hook(r)] \in Row
    BY <1>1, <1>2, <2>1, RowFacts DEF Lifecycle
  <2>3. Sent(row[Hook(r)], row[Hook(r)].attempts + 1) \in Row
    <3>1. row[Hook(r)].attempts + 1 \in 0..MaxAttempts + 1
      BY <2>2, EventsAssumption DEF Row
    <3>2. "SENT" \in Statuses
      BY Bounds
    <3>3. \A old \in Row, attempts \in 0..MaxAttempts + 1 : Sent(old, attempts) \in Row
      BY <3>2 DEF Sent, Row
    <3>4. QED BY <2>2, <3>1, <3>3
  <2>4. /\ row' \in [Notifications -> Rows] /\ row'[Hook(r)] # NoRow
        /\ \A n \in Notifications \ {Hook(r)} : row'[n] = row[n]
    BY <1>1, <2>1, <2>2, <2>3, RowFacts DEF TypeOK
  <2>5. QED BY <2>1, <2>4, HookOver
<1>7. CASE DeliveryFails(r)
  <2>1. row' \in [Notifications -> Rows]
    BY <1>1, <1>7 DEF DeliveryFails, TypeOK
  <2>2. QED BY <1>7, <2>1, HookOver DEF DeliveryFails, Exists, HooksAfterFailure
<1>8. QED BY <1>3, <1>4, <1>5, <1>6, <1>7 DEF Work

\* The end of a process takes its hooks and its lock with it.
LEMMA CrashStep == ASSUME IInv, NEW r \in Requests, Crash(r) PROVE IInv'
<1>1. /\ Lifecycle(r) /\ Typed /\ TypeOK /\ HooksAreEvents
      /\ request[r].step \in {"committed", "delivering", "calling"} /\ request[r].hooks # <<>>
      /\ request' = [request EXCEPT ![r] = [step |-> "crashed", hooks |-> <<>>]]
      /\ lock' = [n \in Notifications |-> IF lock[n] = r THEN Nobody ELSE lock[n]]
      /\ UNCHANGED <<row, operator, calls>>
  BY LifecycleDef DEF IInv, EveryLifecycle, Typed, Crash
<1>2. Hook(r) \in EventSet(r)
  BY <1>1, HookFacts
<1>3. /\ request' \in [Requests -> [step : RequestSteps, hooks : Seq(Notifications)]]
      /\ request'[r].step = "crashed" /\ request'[r].hooks = <<>>
      /\ \A q \in Requests \ {r} : request'[q] = request[q]
  <2>1. <<>> \in Seq(Notifications) /\ "crashed" \in RequestSteps
    BY DEF RequestSteps
  <2>2. QED BY <1>1, <2>1, RequestEffect
<1>4. /\ lock' \in [Notifications -> Requests \cup {Nobody}]
      /\ \A n \in Notifications : lock'[n] # r
      /\ \A n \in Notifications : lock'[n] # lock[n] => n \in EventSet(r) /\ lock'[n] = Nobody
  BY <1>1, <1>2, Bounds DEF TypeOK, Lifecycle
<1>5. Lifecycle(r)'
  <2>1. DOMAIN <<>> = {}
    OBVIOUS
  <2>2. QED BY <1>3, <1>4, <2>1 DEF Lifecycle
<1>6. /\ row' \in [Notifications -> Rows]
      /\ calls' \in [Notifications -> Seq({"deliver", "send"})]
      /\ \A n \in Notifications : Exists(n) => Exists(n)'
  BY <1>1 DEF TypeOK, Exists
<1>7. QED BY <1>1, <1>3, <1>4, <1>5, <1>6, OwnStep
-----------------------------------------------------------------------------
LEMMA StepIInv == IInv /\ [Next]_vars => IInv'
<1> SUFFICES ASSUME IInv, [Next]_vars PROVE IInv'
  OBVIOUS
<1>1. CASE UNCHANGED vars
  <2> USE <1>1 DEF vars
  <2>1. \A r \in Requests : Hook(r)' = Hook(r)
    BY DEF Hook
  <2>2. Typed'
    BY <2>1 DEF IInv, Typed, TypeOK, Exists, Target
  <2>3. HooksAreEvents' /\ NotYetCreated'
    BY DEF IInv, HooksAreEvents, NotYetCreated, EventSet, Exists
  <2>4. InDelivery' /\ CancelledIsNotDelivered'
    BY <2>1 DEF IInv, InDelivery, CancelledIsNotDelivered, Exists
  <2>5. CommittedEventsOnly'
    BY DEF IInv, CommittedEventsOnly, Exists
  <2>6. QED BY <2>2, <2>3, <2>4, <2>5 DEF IInv
<1>2. CASE Next
  BY <1>2, TransactionStep, WorkStep, CrashStep, OperatorStep, OtherStep DEF Next
<1>3. QED BY <1>1, <1>2

LEMMA Invariance == Spec => []IInv
BY InitIInv, StepIInv, PTL DEF Spec

\* The rows, locks and requests stay within their types, and only a delivery that waits
\* for the provider holds a row (deliver_notification).
THEOREM TypeCorrect == Spec => []TypeOK
<1>1. IInv => TypeOK
  BY DEF IInv, Typed
<1>2. QED BY <1>1, Invariance, PTL

\* emit_notification_event: nothing is created or sent for a transaction that is open or
\* was rolled back, whatever operators, callbacks and other requests do meanwhile.
THEOREM OnlyCommittedEvents == Spec => []CommittedEventsOnly
<1>1. IInv => CommittedEventsOnly
  BY DEF IInv
<1>2. QED BY <1>1, Invariance, PTL

\* deliver_notification calls the provider only for a row that is and stays unsent and
\* not cancelled during the call.
THEOREM CancelledStaysUnsent == Spec => []CancelledIsNotDelivered
<1>1. IInv => CancelledIsNotDelivered
  BY DEF IInv
<1>2. QED BY <1>1, Invariance, PTL

\* A report of delivery is undone by an operator's own order only: not by an older
\* report (msg91_delivery_webhook), nor by the answer of a delivery or a later hook.
THEOREM KeepsReports == Spec => ReportsAreKept
<1> DEFINE Kept == \A n \in Notifications : Exists(n) =>
             \/ row[n].status \in {"DELIVERED", "READ"} =>
                   DeliveryRank(row'[n].status) >= DeliveryRank(row[n].status)
             \/ \E o \in Operators : operator[o] # Idle /\ Target(o) = n /\ operator'[o] = Idle
<1>1. IInv /\ [Next]_vars => [Kept]_vars
  <2> SUFFICES ASSUME IInv, Next, NEW n \in Notifications, Exists(n),
                      row[n].status \in {"DELIVERED", "READ"}, row'[n] # row[n]
               PROVE  \/ DeliveryRank(row'[n].status) >= DeliveryRank(row[n].status)
                      \/ \E o \in Operators : operator[o] # Idle /\ Target(o) = n /\ operator'[o] = Idle
    <3>1. \A st : DeliveryRank(st) \in 0..3
      BY DEF DeliveryRank
    <3>2. QED BY <3>1
  <2>1. TypeOK /\ Typed
    BY DEF IInv, Typed
  <2>2. ASSUME NEW r \in Requests,
               EmitNotificationEvent(r) \/ Commit(r) \/ Rollback(r) \/ Work(r) \/ Crash(r)
        PROVE  FALSE
    <3>1. Lifecycle(r)
      BY LifecycleDef DEF EveryLifecycle
    <3>2. CASE CreateAndEnqueue(r)
      <4>1. n = Hook(r)
        BY <2>1, <3>2 DEF CreateAndEnqueue, TypeOK
      <4>2. Hook(r) = request[r].hooks[1] /\ 1 \in DOMAIN request[r].hooks
        BY <2>1, <3>2, HookFacts DEF CreateAndEnqueue, IInv
      <4>3. QED BY <3>1, <3>2, <4>1, <4>2 DEF CreateAndEnqueue, Lifecycle
    <3>3. CASE DeliverySucceeds(r)
      <4>1. n = Hook(r)
        BY <2>1, <3>3 DEF DeliverySucceeds, TypeOK
      <4>2. row[Hook(r)].status \in Deliverable
        BY <3>1, <3>3 DEF DeliverySucceeds, Lifecycle
      <4>3. QED BY <4>1, <4>2 DEF Deliverable
    <3>4. QED BY <2>2, <3>2, <3>3 DEF EmitNotificationEvent, Commit, Rollback, Work, Crash,
                 DeliverNotification, SkipDelivery, DeliveryFails
  <2>3. ASSUME NEW o \in Operators, Operate(o)
        PROVE  operator[o] # Idle /\ Target(o) = n /\ operator'[o] = Idle
    <3>1. PICK new : operator[o] # Idle /\ Save(o, new)
      BY <2>3 DEF Operate, Read, SendNotification, SendingSucceeds, SendingFails, Cancel, Idle
    <3>2. QED BY <2>1, <3>1 DEF Save, TypeOK, Typed
  <2>4. CASE CancelQueuedNotifications
    BY <2>4 DEF CancelQueuedNotifications
  <2>5. ASSUME NEW m \in Notifications, NEW status \in Statuses, CreateManually(m, status)
        PROVE  FALSE
    BY <2>1, <2>5 DEF CreateManually, TypeOK
  <2>6. ASSUME NEW m \in Notifications, NEW report \in DOMAIN MappedStatus,
               NEW named \in {"id", "provider id", "both"}, Callback(m, report, named)
        PROVE  DeliveryRank(row'[n].status) >= DeliveryRank(row[n].status)
    <3>1. n = m /\ row[m] \in Row
      BY <2>1, <2>6, RowFacts DEF Callback, TypeOK
    <3>2. row'[n].status = AfterCallback(row[n].status, report)
      <4> DEFINE status == AfterCallback(row[n].status, report)
                 known == row[n].known \/ named # "id"
                 new == [row[n] EXCEPT !.status = status, !.known = known]
      <4>1. row' = [row EXCEPT ![n] = new]
        BY <2>6, <3>1 DEF Callback
      <4> HIDE DEF status, known
      <4>2. new.status = status
        BY <3>1 DEF Row
      <4> HIDE DEF new
      <4>3. row'[n].status = status
        BY <2>1, <3>1, <4>1, <4>2 DEF TypeOK
      <4>4. QED BY <4>3 DEF status
    <3>3. row[n].status \in Statuses
      BY <3>1 DEF Row
    <3>4. QED BY <3>2, <3>3, CallbackStatus
  <2>7. QED BY <2>2, <2>3, <2>4, <2>5, <2>6 DEF Next
<1>2. QED BY <1>1, Invariance, PTL DEF Spec, ReportsAreKept
=============================================================================
