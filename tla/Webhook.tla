------------------------------ MODULE Webhook ------------------------------
(***************************************************************************)
(* Webhooks: Emit queues one delivery for every enabled hook whose filter  *)
(* accepts the event, and a background job posts the queued deliveries,    *)
(* with exponential backoff, until one is answered with 2xx or its         *)
(* attempts are used up.  Nothing in the repository calls Emit: its caller *)
(* is the environment, as are the receivers.  Payloads, secrets and the    *)
(* field mapping do not influence the control and are left out.            *)
(***************************************************************************)
EXTENDS Integers, Sequences, FiniteSets

CONSTANTS
    Hooks,
    EventTypes,
    Filter,              \* the event types each hook's filter names; none accepts all
    Deliveries,          \* ids of deliveries (a bound)
    WebhookMaxAttempts,
    Limit,               \* deliveries dequeued per cycle
    MaxFaults            \* bound on failed statements, moved targets and restarts

ASSUME WebhookAssumption ==
    /\ Filter \in [Hooks -> SUBSET EventTypes]
    /\ {WebhookMaxAttempts, Limit} \subseteq Nat \ {0}
    /\ MaxFaults \in Nat

VARIABLES
    hook,        \* webhooks
    delivery,    \* webhook_deliveries
    queue,       \* the pending deliveries in the order of next_attempt_at
    emit,        \* the hooks a running Emit has listed and not come to
    job,         \* the delivery cycle
    posts,       \* history: POSTs made for each delivery
    acked,       \* history: deliveries a receiver has answered with 2xx
    unrecorded,  \* history: attempts of each delivery whose outcome was lost
    faults       \* history: failed statements, moved targets and restarts

vars == <<hook, delivery, queue, emit, job, posts, acked, unrecorded, faults>>

Absent == [status |-> "absent"]

Hook == [status : {"enabled", "disabled"}, target : {"local", "foreign"}]

\* "wait" is what is left of next_attempt_at; 0 once it has passed.
Delivery == [status : {"pending", "delivered", "dead", "failed"}, hook : Hooks,
             attempts : Nat, wait : Nat]

Final == {"delivered", "dead", "failed"}

\* What a POST comes to; "lost" is no answer, a timeout or a transport error.
Outcomes == {"2xx", "other", "lost"}

Idle == [pc |-> "idle"]

-----------------------------------------------------------------------------
(* Plausible faults of the operators defined below, for checking that the  *)
(* properties notice; no specification uses them.                          *)

\* One attempt too many.
NextWebhookStatusLate(n) == IF n > WebhookMaxAttempts THEN "dead" ELSE "pending"

\* A retry is filed under a status that no cycle selects.
NextWebhookStatusOther(n) == IF n >= WebhookMaxAttempts THEN "dead" ELSE "retry"

\* Any answer counts as delivered.
SucceededAny(outcome) == outcome # "lost"

\* A cycle that selects on the time alone.
DequeuePendingAny ==
    LET due(d) == delivery[d].status # "absent" /\ delivery[d].wait = 0
    IN  {<<d>> : d \in {d \in Deliveries : due(d)}}

-----------------------------------------------------------------------------
(* Rules and statements.                                                   *)

filterAccepts(h, type) == Filter[h] = {} \/ type \in Filter[h]

WebhookBackoff(n) == IF n <= 0 THEN 0 ELSE 2^(n - 1)

\* The shift of WebhookBackoff does not overflow for the attempts that are made.
ASSUME BackoffAssumption == \A n \in 1..WebhookMaxAttempts : WebhookBackoff(n) \in Nat

NextWebhookStatus(n) == IF n >= WebhookMaxAttempts THEN "dead" ELSE "pending"

Succeeded(outcome) == outcome = "2xx"

\* ValidateWebhookTargetURL on the row as it is now.
TargetAllowed(h) == hook[h].target = "local"

\* The lists a cycle may get: the first Limit of the pending deliveries that are
\* due, by next_attempt_at.
DequeuePending ==
    LET due(i)  == delivery[queue[i]].wait = 0
        last(n) == n = Limit \/ n = Len(queue) \/ ~due(n + 1)
    IN  {SubSeq(queue, 1, n) : n \in {m \in 1..Len(queue) : m <= Limit /\ (\A i \in 1..m : due(i)) /\ last(m)}}

RemovedAt(q, i) == [j \in 1..(Len(q) - 1) |-> IF j < i THEN q[j] ELSE q[j + 1]]

InsertedAt(q, i, d) == [j \in 1..(Len(q) + 1) |-> IF j <= i THEN q[j] ELSE IF j = i + 1 THEN d ELSE q[j - 1]]

\* The pending deliveries without d, and with d where the order of next_attempt_at
\* puts it when that is w from now: after those that come no later.
Without(d) == {RemovedAt(queue, i) : i \in {k \in DOMAIN queue : queue[k] = d}}

Queued(q, d, w) ==
    {InsertedAt(q, i, d) : i \in {k \in 0..Len(q) : \A j \in DOMAIN q : j <= k <=> delivery[q[j]].wait <= w}}

UpdateDeliveryAttempt(d, n, status, w) ==
    /\ delivery' = [delivery EXCEPT ![d].attempts = n, ![d].status = status, ![d].wait = w]
    /\ \E q \in Without(d) : IF status = "pending" THEN queue' \in Queued(q, d, w) ELSE queue' = q

\* handleFailure, for the n-th attempt.
HandleFailure(d, n) ==
    IF NextWebhookStatus(n) = "dead"
    THEN UpdateDeliveryAttempt(d, n, "dead", 0)
    ELSE UpdateDeliveryAttempt(d, n, NextWebhookStatus(n), WebhookBackoff(n))

-----------------------------------------------------------------------------
Init ==
    /\ hook = [h \in Hooks |-> Absent]
    /\ delivery = [d \in Deliveries |-> Absent]
    /\ queue = <<>>
    /\ emit = {}
    /\ job = Idle
    /\ posts = [d \in Deliveries |-> 0]
    /\ acked = {}
    /\ unrecorded = [d \in Deliveries |-> 0]
    /\ faults = 0

\* Time passes: what is scheduled comes nearer.
Tick ==
    /\ \E d \in Deliveries : delivery[d].status = "pending" /\ delivery[d].wait > 0
    /\ delivery' = [d \in Deliveries |->
           IF delivery[d].status = "pending" /\ delivery[d].wait > 0
           THEN [delivery[d] EXCEPT !.wait = @ - 1] ELSE delivery[d]]
    /\ UNCHANGED <<hook, queue, emit, job, posts, acked, unrecorded, faults>>

\* An admin creates a hook; its target is validated.
Create(h) ==
    /\ hook[h] = Absent
    /\ hook' = [hook EXCEPT ![h] = [status |-> "enabled", target |-> "local"]]
    /\ UNCHANGED <<delivery, queue, emit, job, posts, acked, unrecorded, faults>>

Disable(h) ==
    /\ hook[h].status = "enabled"
    /\ hook' = [hook EXCEPT ![h].status = "disabled"]
    /\ UNCHANGED <<delivery, queue, emit, job, posts, acked, unrecorded, faults>>

\* The row is edited in the database, or its host name resolves differently: what
\* the second validation is for.
TargetMoves(h) ==
    /\ faults < MaxFaults
    /\ faults' = faults + 1
    /\ hook[h] # Absent
    /\ hook' = [hook EXCEPT ![h].target = "foreign"]
    /\ UNCHANGED <<delivery, queue, emit, job, posts, acked, unrecorded>>

\* Emit lists the hooks, then queues one delivery after another; a delivery
\* that cannot be inserted is dropped.
Emit(type) ==
    /\ emit = {}
    /\ emit' = {h \in Hooks : hook[h].status = "enabled" /\ filterAccepts(h, type)}
    /\ UNCHANGED <<hook, delivery, queue, job, posts, acked, unrecorded, faults>>

EnqueueDelivery(h, d) ==
    /\ h \in emit
    /\ delivery[d] = Absent
    /\ emit' = emit \ {h}
    /\ delivery' = [delivery EXCEPT ![d] = [status |-> "pending", hook |-> h, attempts |-> 0, wait |-> 0]]
    /\ queue' \in Queued(queue, d, 0)
    /\ UNCHANGED <<hook, job, posts, acked, unrecorded, faults>>

EnqueueDropped(h) ==
    /\ h \in emit
    /\ \/ faults < MaxFaults /\ faults' = faults + 1
       \/ UNCHANGED faults /\ \A d \in Deliveries : delivery[d] # Absent
    /\ emit' = emit \ {h}
    /\ UNCHANGED <<hook, delivery, queue, job, posts, acked, unrecorded>>

-----------------------------------------------------------------------------
(* The delivery cycle.                                                     *)

\* The cycle goes on with the next delivery of its list, or ends.
Continue(list) == job' = IF list = <<>> THEN Idle ELSE [pc |-> "get", list |-> list]

RunDeliveryCycle ==
    /\ job = Idle
    /\ \E list \in DequeuePending : Continue(list)
    /\ UNCHANGED <<hook, delivery, queue, emit, posts, acked, unrecorded, faults>>

\* attempt's read of the hook: whether it is enabled is not asked.
AttemptGet ==
    /\ job.pc = "get"
    /\ LET d == Head(job.list)
       IN  IF TargetAllowed(delivery[d].hook)
           THEN job' = [job EXCEPT !.pc = "post"] /\ UNCHANGED <<delivery, queue>>
           ELSE HandleFailure(d, delivery[d].attempts + 1) /\ Continue(Tail(job.list))
    /\ UNCHANGED <<hook, emit, posts, acked, unrecorded, faults>>

AttemptPost(outcome) ==
    /\ job.pc = "post"
    /\ LET d == Head(job.list)
       IN  /\ posts' = [posts EXCEPT ![d] = @ + 1]
           /\ acked' = IF outcome = "2xx" THEN acked \cup {d} ELSE acked
    /\ job' = [pc |-> "record", list |-> job.list, outcome |-> outcome]
    /\ UNCHANGED <<hook, delivery, queue, emit, unrecorded, faults>>

AttemptRecord ==
    /\ job.pc = "record"
    /\ LET d == Head(job.list)
           n == delivery[d].attempts + 1
       IN  IF Succeeded(job.outcome) THEN UpdateDeliveryAttempt(d, n, "delivered", 0)
           ELSE HandleFailure(d, n)
    /\ Continue(Tail(job.list))
    /\ UNCHANGED <<hook, emit, posts, acked, unrecorded, faults>>

-----------------------------------------------------------------------------
(* Failures.                                                               *)

\* The hook cannot be read: the delivery is given up as "failed".
GetFails ==
    /\ faults < MaxFaults
    /\ faults' = faults + 1
    /\ job.pc = "get"
    /\ UpdateDeliveryAttempt(Head(job.list), delivery[Head(job.list)].attempts + 1, "failed", 0)
    /\ Continue(Tail(job.list))
    /\ UNCHANGED <<hook, emit, posts, acked, unrecorded>>

\* The history of an attempt that was made and whose outcome is not stored.
AttemptLost == unrecorded' = IF job.pc = "record" THEN [unrecorded EXCEPT ![Head(job.list)] = @ + 1]
                             ELSE unrecorded

\* The UPDATE of an attempt fails, and the error is dropped.
UpdateFails ==
    /\ faults < MaxFaults
    /\ faults' = faults + 1
    /\ job.pc = "record"
    /\ AttemptLost
    /\ Continue(Tail(job.list))
    /\ UNCHANGED <<hook, delivery, queue, emit, posts, acked>>

Restart ==
    /\ faults < MaxFaults
    /\ faults' = faults + 1
    /\ AttemptLost
    /\ job' = Idle
    /\ emit' = {}
    /\ UNCHANGED <<hook, delivery, queue, posts, acked>>

Cycle == RunDeliveryCycle \/ AttemptGet \/ (\E o \in Outcomes : AttemptPost(o)) \/ AttemptRecord

Next ==
    \/ Tick
    \/ \E h \in Hooks : Create(h)
    \/ \E h \in Hooks : Disable(h)
    \/ \E h \in Hooks : TargetMoves(h)
    \/ \E t \in EventTypes : Emit(t)
    \/ \E h \in Hooks, d \in Deliveries : EnqueueDelivery(h, d)
    \/ \E h \in Hooks : EnqueueDropped(h)
    \/ Cycle
    \/ GetFails
    \/ UpdateFails
    \/ Restart

\* The cycle is a goroutine on a ticker whose POSTs time out; time passes.
Spec == Init /\ [][Next]_vars /\ WF_vars(Cycle) /\ WF_vars(Tick)

-----------------------------------------------------------------------------
(* Properties.                                                             *)

\* Rows are of their types, and the queue lists the pending deliveries once each
\* in the order they come due.
TypeOK ==
    /\ hook \in [Hooks -> {Absent} \cup Hook]
    /\ delivery \in [Deliveries -> {Absent} \cup Delivery]
    /\ queue \in Seq(Deliveries)
    /\ {queue[i] : i \in DOMAIN queue} = {d \in Deliveries : delivery[d].status = "pending"}
    /\ \A i, j \in DOMAIN queue :
           i < j => queue[i] # queue[j] /\ delivery[queue[i]].wait <= delivery[queue[j]].wait
    /\ emit \subseteq Hooks
    /\ job.pc \in {"idle", "get", "post", "record"}
    /\ posts \in [Deliveries -> Nat] /\ unrecorded \in [Deliveries -> Nat]
    /\ acked \subseteq Deliveries /\ faults \in Nat

\* "up to 5 attempts before marking 'dead'": a receiver sees a delivery no more
\* often than that, but for attempts whose outcome a crash or a failed UPDATE lost,
\* and a delivery is dead only after the last attempt.
AttemptsBounded ==
    \A d \in Deliveries :
        /\ posts[d] <= WebhookMaxAttempts + unrecorded[d]
        /\ delivery[d].status = "dead" => delivery[d].attempts = WebhookMaxAttempts

\* The status tells what happened: "delivered" means that a receiver has accepted
\* the delivery, and one it has accepted is retried, or given up, only when the
\* acceptance was lost on the way to the table.
OutcomeTrue ==
    \A d \in Deliveries :
        /\ delivery[d].status = "delivered" => d \in acked
        /\ d \in acked /\ unrecorded[d] = 0 /\ (job.pc = "record" => Head(job.list) # d)
              => delivery[d].status = "delivered"

\* A delivery that has ended is neither posted again nor changed.
FinalStays ==
    [][\A d \in Deliveries : delivery[d].status \in Final =>
          delivery'[d] = delivery[d] /\ posts'[d] = posts[d]]_vars

\* Every queued delivery is delivered, dead, or given up because its hook could
\* not be read, whatever receivers answer and however deliveries crowd a cycle.
EveryDeliveryEnds ==
    \A d \in Deliveries : delivery[d].status # "absent" ~> delivery[d].status \in Final
=============================================================================
