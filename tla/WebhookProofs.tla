--------------------------- MODULE WebhookProofs ---------------------------
(***************************************************************************)
(* The attempts of a webhook delivery and what its status says, for any    *)
(* numbers of hooks and deliveries, any limit of attempts and any failures *)
(* of statements, receivers and the process.                               *)
(*                                                                         *)
(* The cycle works on a list it dequeued long before.  It may trust the    *)
(* list because nothing but the cycle settles a delivery: its entries are  *)
(* distinct and still pending.  A POST that is not recorded yet is the one *)
(* at the head of the list, and it is the only one.                        *)
(***************************************************************************)
EXTENDS Webhook, SequenceTheorems, TLAPS

\* The cycle between two steps: entries of its list are distinct and pending.
JobInv ==
    /\ job \in {Idle} \cup [pc : {"get", "post"}, list : Seq(Deliveries)]
                      \cup [pc : {"record"}, list : Seq(Deliveries), outcome : Outcomes]
    /\ job # Idle =>
           /\ job.list # <<>>
           /\ \A i \in DOMAIN job.list : delivery[job.list[i]].status = "pending"
           /\ \A i, j \in DOMAIN job.list : i < j => job.list[i] # job.list[j]

\* The outcome of a POST for d is known to the cycle and not yet stored.
Recording(d) == job.pc = "record" /\ Head(job.list) = d

Attempts(d) == IF delivery[d] = Absent THEN 0 ELSE delivery[d].attempts

\* Attempts count the POSTs but for those that were lost and the one in hand.
CountInv ==
    \A d \in Deliveries :
        /\ delivery[d].status = "pending" => delivery[d].attempts < WebhookMaxAttempts
        /\ delivery[d].status = "dead" => delivery[d].attempts = WebhookMaxAttempts
        /\ Attempts(d) <= WebhookMaxAttempts
        /\ ~Recording(d) => posts[d] <= Attempts(d) + unrecorded[d]
        /\ Recording(d) => posts[d] <= Attempts(d) + unrecorded[d] + 1

\* An acceptance is stored, lost, or in hand.
AckInv ==
    \A d \in Deliveries :
        /\ delivery[d].status = "delivered" => d \in acked
        /\ d \in acked /\ unrecorded[d] = 0 /\ ~Recording(d) => delivery[d].status = "delivered"
        /\ Recording(d) => /\ job.outcome = "2xx" => d \in acked
                           /\ d \in acked /\ unrecorded[d] = 0 => job.outcome = "2xx"

\* The parts of TypeOK: the tables, and the queue, which holds the pending deliveries
\* once each in the order of their waits.
Tables ==
    /\ hook \in [Hooks -> {Absent} \cup Hook]
    /\ delivery \in [Deliveries -> {Absent} \cup Delivery]
    /\ emit \subseteq Hooks
    /\ posts \in [Deliveries -> Nat] /\ unrecorded \in [Deliveries -> Nat]
    /\ acked \subseteq Deliveries /\ faults \in Nat

Ordered(q, wait) == \A i, j \in DOMAIN q : i < j => q[i] # q[j] /\ wait[q[i]] <= wait[q[j]]

Members(q) == {q[i] : i \in DOMAIN q}

Pending == {d \in Deliveries : delivery[d].status = "pending"}

Wait == [d \in Deliveries |-> delivery[d].wait]

QueueInv == queue \in Seq(Deliveries) /\ Ordered(queue, Wait) /\ Members(queue) = Pending

IInv == Tables /\ QueueInv /\ JobInv /\ CountInv /\ AckInv

-----------------------------------------------------------------------------
(* Queues.                                                                 *)

\* A queue without the delivery at one place.
LEMMA RemovedFacts ==
    ASSUME NEW D, NEW wait, NEW q \in Seq(D), Ordered(q, wait), NEW i \in DOMAIN q,
           NEW r, r = RemovedAt(q, i)
    PROVE  r \in Seq(D) /\ Len(r) = Len(q) - 1 /\ Ordered(r, wait) /\ Members(r) = Members(q) \ {q[i]}
  <1>1. Len(q) \in Nat /\ DOMAIN q = 1..Len(q) /\ i \in 1..Len(q) /\ Len(q) - 1 \in Nat
    OBVIOUS
  <1> DEFINE n == Len(q) - 1
  <1>2. \A j \in 1..n : r[j] \in D /\ r[j] = IF j < i THEN q[j] ELSE q[j + 1]
    BY <1>1 DEF RemovedAt
  <1>3. r \in Seq(D) /\ Len(r) = n /\ DOMAIN r = 1..n
    BY <1>1, <1>2 DEF RemovedAt
  <1>4. Ordered(r, wait)
    <2>1. ASSUME NEW j \in 1..n, NEW k \in 1..n, j < k
          PROVE  r[j] # r[k] /\ wait[r[j]] <= wait[r[k]]
      <3> DEFINE j1 == IF j < i THEN j ELSE j + 1
                 k1 == IF k < i THEN k ELSE k + 1
      <3>1. j1 \in 1..Len(q) /\ k1 \in 1..Len(q) /\ j1 < k1
        BY <1>1, <2>1
      <3>2. r[j] = q[j1] /\ r[k] = q[k1]
        BY <1>2
      <3> HIDE DEF j1, k1
      <3>3. QED BY <1>1, <3>1, <3>2 DEF Ordered
    <2>2. QED BY <1>3, <2>1 DEF Ordered
  <1>5. Members(r) = Members(q) \ {q[i]}
    <2>1. ASSUME NEW j \in 1..n
          PROVE  r[j] \in Members(q) /\ r[j] # q[i]
      <3>1. CASE j < i
        BY <1>1, <1>2, <3>1 DEF Members, Ordered
      <3>2. CASE ~(j < i)
        <4>1. j + 1 \in 1..Len(q) /\ i < j + 1 /\ r[j] = q[j + 1]
          BY <1>1, <1>2, <3>2
        <4>2. QED BY <1>1, <4>1 DEF Members, Ordered
      <3>3. QED BY <3>1, <3>2
    <2>2. ASSUME NEW k \in 1..Len(q), q[k] # q[i]
          PROVE  q[k] \in Members(r)
      <3>1. CASE k < i
        <4>1. k \in 1..n /\ r[k] = q[k]
          BY <1>1, <1>2, <3>1
        <4>2. QED BY <1>3, <4>1 DEF Members
      <3>2. CASE k > i
        <4>1. k - 1 \in 1..n /\ ~(k - 1 < i) /\ (k - 1) + 1 = k
          BY <1>1, <3>2
        <4>2. r[k - 1] = q[k]
          BY <1>2, <4>1
        <4>3. QED BY <1>3, <4>1, <4>2 DEF Members
      <3>3. QED BY <1>1, <2>2, <3>1, <3>2
    <2>3. Members(r) \subseteq Members(q) \ {q[i]}
      BY <1>3, <2>1 DEF Members
    <2>4. Members(q) \ {q[i]} \subseteq Members(r)
      <3>1. ASSUME NEW x \in Members(q), x # q[i]
            PROVE  x \in Members(r)
        <4>1. PICK k \in 1..Len(q) : x = q[k]
          BY <1>1 DEF Members
        <4>2. QED BY <2>2, <3>1, <4>1
      <3>2. QED BY <3>1
    <2>5. QED BY <2>3, <2>4
  <1>6. QED BY <1>3, <1>4, <1>5

\* A queue with one more delivery, at the place its wait gives it.
LEMMA InsertedFacts ==
    ASSUME NEW D, NEW wait, NEW wait1, NEW q \in Seq(D), Ordered(q, wait), NEW d \in D, d \notin Members(q),
           NEW w \in Nat, wait1[d] = w, \A x \in Members(q) : wait1[x] = wait[x] /\ wait[x] \in Nat,
           NEW i \in 0..Len(q), \A j \in DOMAIN q : j <= i <=> wait[q[j]] <= w,
           NEW r, r = InsertedAt(q, i, d)
    PROVE  r \in Seq(D) /\ Ordered(r, wait1) /\ Members(r) = Members(q) \cup {d}
  <1> DEFINE n == Len(q) + 1
  <1>1. Len(q) \in Nat /\ DOMAIN q = 1..Len(q) /\ i \in Nat /\ n \in Nat
    OBVIOUS
  <1>2. \A j \in 1..n : r[j] = IF j <= i THEN q[j] ELSE IF j = i + 1 THEN d ELSE q[j - 1]
    BY <1>1 DEF InsertedAt
  <1>3. \A j \in 1..n : r[j] \in D
    <2>1. ASSUME NEW j \in 1..n
          PROVE  r[j] \in D
      <3>1. j <= i => j \in 1..Len(q)
        BY <1>1
      <3>2. j > i + 1 => j - 1 \in 1..Len(q)
        BY <1>1
      <3>3. QED BY <1>1, <1>2, <3>1, <3>2
    <2>2. QED BY <2>1
  <1>4. r \in Seq(D) /\ Len(r) = n /\ DOMAIN r = 1..n
    BY <1>1, <1>3 DEF InsertedAt
  <1>5. \A j \in 1..Len(q) : q[j] \in Members(q) /\ q[j] # d /\ wait[q[j]] \in Nat /\ wait1[q[j]] = wait[q[j]]
    BY <1>1 DEF Members
  <1>6. Ordered(r, wait1)
    <2>1. ASSUME NEW j \in 1..n, NEW k \in 1..n, j < k
          PROVE  r[j] # r[k] /\ wait1[r[j]] <= wait1[r[k]]
      <3>1. CASE j = i + 1
        <4>1. r[j] = d /\ k - 1 \in 1..Len(q) /\ ~(k - 1 <= i) /\ r[k] = q[k - 1]
          BY <1>1, <1>2, <2>1, <3>1
        <4>2. wait[q[k - 1]] > w
          BY <1>1, <1>5, <4>1
        <4>3. QED BY <1>5, <4>1, <4>2
      <3>2. CASE k = i + 1
        <4>1. r[k] = d /\ j \in 1..Len(q) /\ j <= i /\ r[j] = q[j]
          BY <1>1, <1>2, <2>1, <3>2
        <4>2. wait[q[j]] <= w
          BY <1>1, <4>1
        <4>3. QED BY <1>5, <4>1, <4>2
      <3>3. CASE j # i + 1 /\ k # i + 1
        <4> DEFINE j1 == IF j <= i THEN j ELSE j - 1
                   k1 == IF k <= i THEN k ELSE k - 1
        <4>1. j1 \in 1..Len(q) /\ k1 \in 1..Len(q) /\ j1 < k1
          BY <1>1, <2>1, <3>3
        <4>2. r[j] = q[j1] /\ r[k] = q[k1]
          BY <1>1, <1>2, <3>3
        <4> HIDE DEF j1, k1
        <4>3. q[j1] # q[k1] /\ wait[q[j1]] <= wait[q[k1]]
          BY <1>1, <4>1 DEF Ordered
        <4>4. QED BY <1>5, <4>1, <4>2, <4>3
      <3>4. QED BY <3>1, <3>2, <3>3
    <2>2. QED BY <1>4, <2>1 DEF Ordered
  <1>7. Members(r) = Members(q) \cup {d}
    <2>1. ASSUME NEW j \in 1..n
          PROVE  r[j] \in Members(q) \cup {d}
      <3>1. j <= i => j \in 1..Len(q)
        BY <1>1
      <3>2. j > i + 1 => j - 1 \in 1..Len(q)
        BY <1>1
      <3>3. QED BY <1>1, <1>2, <1>5, <3>1, <3>2
    <2>2. ASSUME NEW k \in 1..Len(q)
          PROVE  q[k] \in Members(r)
      <3>1. CASE k <= i
        <4>1. k \in 1..n /\ r[k] = q[k]
          BY <1>1, <1>2, <3>1
        <4>2. QED BY <1>4, <4>1 DEF Members
      <3>2. CASE ~(k <= i)
        <4>1. k + 1 \in 1..n /\ ~(k + 1 <= i) /\ k + 1 # i + 1 /\ (k + 1) - 1 = k
          BY <1>1, <3>2
        <4>2. r[k + 1] = q[k]
          BY <1>2, <4>1
        <4>3. QED BY <1>4, <4>1, <4>2 DEF Members
      <3>3. QED BY <3>1, <3>2
    <2>3. d \in Members(r)
      <3>1. i + 1 \in 1..n /\ ~(i + 1 <= i)
        BY <1>1
      <3>2. r[i + 1] = d
        BY <1>2, <3>1
      <3>3. QED BY <1>4, <3>1, <3>2 DEF Members
    <2>4. Members(r) \subseteq Members(q) \cup {d}
      BY <1>4, <2>1 DEF Members
    <2>5. Members(q) \subseteq Members(r)
      <3>1. ASSUME NEW x \in Members(q)
            PROVE  x \in Members(r)
        <4>1. PICK k \in 1..Len(q) : x = q[k]
          BY <1>1 DEF Members
        <4>2. QED BY <2>2, <4>1
      <3>2. QED BY <3>1
    <2>6. QED BY <2>3, <2>4, <2>5
  <1>8. QED BY <1>4, <1>6, <1>7

-----------------------------------------------------------------------------
(* Rows and lists.                                                         *)

\* What a stored delivery is.
LEMMA DeliveryFields ==
    ASSUME Tables, NEW d \in Deliveries
    PROVE  /\ delivery[d].status = "absent" <=> delivery[d] = Absent
           /\ delivery[d] # Absent =>
                  /\ delivery[d] \in Delivery /\ delivery[d].attempts \in Nat /\ delivery[d].wait \in Nat
                  /\ delivery[d].status \in {"pending", "delivered", "dead", "failed"}
           /\ Attempts(d) \in Nat
           /\ d \in Pending => delivery[d] # Absent
  <1>1. delivery[d] \in {Absent} \cup Delivery
    BY DEF Tables
  <1>2. Absent.status = "absent"
    BY DEF Absent
  <1>3. delivery[d] \in Delivery =>
            /\ delivery[d].attempts \in Nat /\ delivery[d].wait \in Nat
            /\ delivery[d].status \in {"pending", "delivered", "dead", "failed"}
    BY DEF Delivery
  <1>4. QED BY <1>1, <1>2, <1>3 DEF Attempts, Pending

\* The list of a running cycle, its head and its tail.
LEMMA ListFacts ==
    ASSUME JobInv, job # Idle
    PROVE  /\ job.pc # "idle" /\ job.list \in Seq(Deliveries) /\ job.list # <<>>
           /\ Head(job.list) \in Deliveries /\ delivery[Head(job.list)].status = "pending"
           /\ Tail(job.list) \in Seq(Deliveries)
           /\ \A i \in DOMAIN Tail(job.list) :
                  Tail(job.list)[i] # Head(job.list) /\ delivery[Tail(job.list)[i]].status = "pending"
           /\ \A i, j \in DOMAIN Tail(job.list) : i < j => Tail(job.list)[i] # Tail(job.list)[j]
  <1> DEFINE list == job.list
  <1>1. job.pc # "idle" /\ list \in Seq(Deliveries) /\ list # <<>>
    BY DEF JobInv
  <1>2. /\ \A i \in DOMAIN list : delivery[list[i]].status = "pending"
        /\ \A i, j \in DOMAIN list : i < j => list[i] # list[j]
    BY DEF JobInv
  <1> HIDE DEF list
  <1>3. 1 \in DOMAIN list /\ Head(list) = list[1] /\ Tail(list) \in Seq(Deliveries) /\ Len(Tail(list)) = Len(list) - 1
          /\ Len(list) \in Nat /\ DOMAIN list = 1..Len(list) /\ list[1] \in Deliveries
    BY <1>1
  <1>4. \A i \in DOMAIN Tail(list) : i + 1 \in DOMAIN list /\ 1 < i + 1 /\ i \in Int /\ Tail(list)[i] = list[i + 1]
    BY <1>1, <1>3
  <1>5. \A i \in DOMAIN Tail(list) : Tail(list)[i] # Head(list) /\ delivery[Tail(list)[i]].status = "pending"
    BY <1>2, <1>3, <1>4
  <1>6. \A i, j \in DOMAIN Tail(list) : i < j => Tail(list)[i] # Tail(list)[j]
    <2>1. ASSUME NEW i \in DOMAIN Tail(list), NEW j \in DOMAIN Tail(list), i < j
          PROVE  Tail(list)[i] # Tail(list)[j]
      <3>1. i + 1 < j + 1
        BY <1>4, <2>1
      <3>2. QED BY <1>2, <1>4, <3>1
    <2>2. QED BY <2>1
  <1>7. QED BY <1>1, <1>2, <1>3, <1>5, <1>6 DEF list

\* Only the head of the list can be in the cycle's hands.
LEMMA RecordingFacts ==
    ASSUME JobInv, NEW d, Recording(d)
    PROVE  job # Idle /\ d = Head(job.list) /\ d \in Deliveries /\ delivery[d].status = "pending"
  <1>1. job # Idle
    BY DEF Recording, Idle
  <1>2. QED BY <1>1, ListFacts DEF Recording

\* The cycle goes on to the rest of its list once the head is dealt with.
LEMMA Continues ==
    ASSUME JobInv, job # Idle, Continue(Tail(job.list)), \A d \in Deliveries : d # Head(job.list) => delivery'[d] = delivery[d]
    PROVE  JobInv' /\ job'.pc # "record"
  <1> DEFINE list == Tail(job.list)
  <1>1. /\ list \in Seq(Deliveries)
        /\ \A i \in DOMAIN list : list[i] # Head(job.list) /\ delivery[list[i]].status = "pending"
        /\ \A i, j \in DOMAIN list : i < j => list[i] # list[j]
    BY ListFacts
  <1>2. job' = IF list = <<>> THEN Idle ELSE [pc |-> "get", list |-> list]
    BY DEF Continue
  <1> HIDE DEF list
  <1>3. CASE list = <<>>
    <2>1. job' = Idle
      BY <1>2, <1>3
    <2>2. QED BY <2>1 DEF JobInv, Idle
  <1>4. CASE list # <<>>
    <2>1. job' = [pc |-> "get", list |-> list]
      BY <1>2, <1>4
    <2>2. job'.list = list /\ job'.pc = "get" /\ job' \in [pc : {"get", "post"}, list : Seq(Deliveries)]
      BY <1>1, <2>1
    <2>3. \A i \in DOMAIN list : list[i] \in Deliveries /\ delivery'[list[i]].status = "pending"
      BY <1>1
    <2>4. QED BY <1>1, <1>4, <2>2, <2>3 DEF JobInv
  <1>5. QED BY <1>3, <1>4

\* UpdateDeliveryAttempt on a pending delivery.
LEMMA Updated ==
    ASSUME Tables, QueueInv, NEW d \in Deliveries, delivery[d].status = "pending", NEW n \in Nat,
           NEW status \in {"pending", "delivered", "dead", "failed"}, NEW w \in Nat, UpdateDeliveryAttempt(d, n, status, w)
    PROVE  /\ delivery' \in [Deliveries -> {Absent} \cup Delivery]
           /\ delivery'[d] # Absent /\ delivery'[d].status = status /\ delivery'[d].attempts = n
           /\ \A x \in Deliveries : x # d => delivery'[x] = delivery[x]
           /\ QueueInv'
  <1> DEFINE new == [delivery[d] EXCEPT !.attempts = n, !.status = status, !.wait = w]
  <1>1. delivery[d] \in Delivery
    BY DeliveryFields DEF Pending
  <1>2. new \in Delivery /\ new.status = status /\ new.attempts = n /\ new.wait = w
    BY <1>1 DEF Delivery
  <1>3. delivery' = [delivery EXCEPT ![d] = new] /\ delivery \in [Deliveries -> {Absent} \cup Delivery]
    BY DEF UpdateDeliveryAttempt, Tables
  <1>4. new # Absent
    BY <1>2 DEF Absent
  <1> HIDE DEF new
  <1>5. /\ delivery' \in [Deliveries -> {Absent} \cup Delivery] /\ delivery'[d] = new
        /\ \A x \in Deliveries : x # d => delivery'[x] = delivery[x]
    BY <1>2, <1>3
  <1>6. PICK q \in Without(d) : IF status = "pending" THEN queue' \in Queued(q, d, w) ELSE queue' = q
    BY DEF UpdateDeliveryAttempt
  <1>7. q \in Seq(Deliveries) /\ Ordered(q, Wait) /\ Members(q) = Pending \ {d}
    <2>1. PICK i \in DOMAIN queue : queue[i] = d /\ q = RemovedAt(queue, i)
      BY DEF Without
    <2>2. queue \in Seq(Deliveries) /\ Ordered(queue, Wait) /\ Members(queue) = Pending
      BY DEF QueueInv
    <2>3. q \in Seq(Deliveries) /\ Ordered(q, Wait) /\ Members(q) = Members(queue) \ {queue[i]}
      BY <2>1, <2>2, RemovedFacts
    <2>4. QED BY <2>1, <2>2, <2>3
  <1>8. \A x \in Members(q) : x \in Deliveries /\ x # d /\ Wait'[x] = Wait[x] /\ Wait[x] \in Nat
    BY <1>5, <1>7, DeliveryFields DEF Pending, Wait
  <1>9. Pending' = (Pending \ {d}) \cup (IF status = "pending" THEN {d} ELSE {})
    BY <1>2, <1>5 DEF Pending
  <1>10. CASE status = "pending"
    <2>1. PICK i \in 0..Len(q) :
              /\ \A j \in DOMAIN q : j <= i <=> delivery[q[j]].wait <= w
              /\ queue' = InsertedAt(q, i, d)
      BY <1>6, <1>10 DEF Queued
    <2>2. \A j \in DOMAIN q : j <= i <=> Wait[q[j]] <= w
      BY <1>7, <2>1 DEF Wait
    <2>3. Wait'[d] = w /\ d \notin Members(q)
      BY <1>2, <1>5, <1>7 DEF Wait
    <2>4. queue' \in Seq(Deliveries) /\ Ordered(queue', Wait') /\ Members(queue') = Members(q) \cup {d}
      BY <1>7, <1>8, <2>1, <2>2, <2>3, InsertedFacts
    <2>5. QED BY <1>2, <1>4, <1>5, <1>7, <1>9, <1>10, <2>4 DEF QueueInv, Ordered, Members
  <1>11. CASE status # "pending"
    <2>1. queue' = q
      BY <1>6, <1>11
    <2>2. Ordered(q, Wait')
      <3>1. ASSUME NEW i \in DOMAIN q, NEW j \in DOMAIN q, i < j
            PROVE  q[i] # q[j] /\ Wait'[q[i]] <= Wait'[q[j]]
        <4>1. q[i] \in Members(q) /\ q[j] \in Members(q)
          BY DEF Members
        <4>2. q[i] # q[j] /\ Wait[q[i]] <= Wait[q[j]]
          BY <1>7, <3>1 DEF Ordered
        <4>3. QED BY <1>8, <4>1, <4>2
      <3>2. QED BY <3>1 DEF Ordered
    <2>3. QED BY <1>2, <1>4, <1>5, <1>7, <1>9, <1>11, <2>1, <2>2 DEF QueueInv, Ordered, Members
  <1>12. QED BY <1>10, <1>11

-----------------------------------------------------------------------------
(* Steps of the environment.                                               *)

\* Steps on hooks, and on the list of a running Emit.
LEMMA StepHooks ==
    ASSUME IInv, Tables', UNCHANGED <<delivery, queue, job, posts, acked, unrecorded>>
    PROVE  IInv'
  <1>1. QueueInv'
    BY DEF IInv, QueueInv, Ordered, Members, Pending, Wait
  <1>2. JobInv'
    BY DEF IInv, JobInv
  <1>3. CountInv'
    BY DEF IInv, CountInv, Recording, Attempts
  <1>4. AckInv'
    BY DEF IInv, AckInv, Recording
  <1>5. QED BY <1>1, <1>2, <1>3, <1>4 DEF IInv

\* A new hook touches no delivery.
LEMMA StepCreate ==
    ASSUME IInv, NEW h \in Hooks, Create(h)
    PROVE  IInv'
  <1>1. [status |-> "enabled", target |-> "local"] \in Hook
    BY DEF Hook
  <1>2. Tables'
    BY <1>1 DEF Create, IInv, Tables
  <1>3. QED BY <1>2, StepHooks DEF Create

\* A hook that is disabled, or whose target moves, is still a hook.
LEMMA HookFields ==
    ASSUME Tables, NEW h \in Hooks, hook[h] # Absent
    PROVE  /\ [hook[h] EXCEPT !.status = "disabled"] \in Hook
           /\ [hook[h] EXCEPT !.target = "foreign"] \in Hook
  <1>1. hook[h] \in Hook
    BY DEF Tables
  <1>2. QED BY <1>1 DEF Hook

\* Disabling a hook touches no delivery.
LEMMA StepDisable ==
    ASSUME IInv, NEW h \in Hooks, Disable(h)
    PROVE  IInv'
  <1>1. hook[h] # Absent
    BY DEF Disable, Absent
  <1>2. hook' = [hook EXCEPT ![h] = [hook[h] EXCEPT !.status = "disabled"]]
    BY DEF Disable
  <1>3. Tables'
    BY <1>1, <1>2, HookFields DEF Disable, IInv, Tables
  <1>4. QED BY <1>3, StepHooks DEF Disable

\* A target that moves touches no delivery.
LEMMA StepTargetMoves ==
    ASSUME IInv, NEW h \in Hooks, TargetMoves(h)
    PROVE  IInv'
  <1>1. hook' = [hook EXCEPT ![h] = [hook[h] EXCEPT !.target = "foreign"]] /\ hook[h] # Absent
    BY DEF TargetMoves
  <1>2. Tables'
    <2>1. faults' \in Nat /\ UNCHANGED <<delivery, emit, posts, unrecorded, acked>>
      BY DEF TargetMoves, IInv, Tables
    <2>2. hook' \in [Hooks -> {Absent} \cup Hook]
      BY <1>1, HookFields DEF IInv, Tables
    <2>3. QED BY <2>1, <2>2 DEF IInv, Tables
  <1>3. QED BY <1>2, StepHooks DEF TargetMoves

\* Emit lists hooks before it stores anything.
LEMMA StepEmit ==
    ASSUME IInv, NEW type \in EventTypes, Emit(type)
    PROVE  IInv'
  <1>1. Tables'
    BY DEF Emit, IInv, Tables
  <1>2. QED BY <1>1, StepHooks DEF Emit

\* An INSERT that fails leaves nothing behind.
LEMMA StepEnqueueDropped ==
    ASSUME IInv, NEW h \in Hooks, EnqueueDropped(h)
    PROVE  IInv'
  <1>1. UNCHANGED <<hook, delivery, queue, job, posts, acked, unrecorded>> /\ emit' = emit \ {h}
    BY DEF EnqueueDropped
  <1>2. faults \in Nat /\ faults' \in {faults, faults + 1}
    <2>1. CASE faults' = faults + 1
      BY <2>1 DEF IInv, Tables
    <2>2. CASE UNCHANGED faults
      BY <2>2 DEF IInv, Tables
    <2>3. QED BY <2>1, <2>2 DEF EnqueueDropped
  <1>3. Tables'
    BY <1>1, <1>2 DEF IInv, Tables
  <1>4. QED BY <1>1, <1>3, StepHooks

\* Time passes: waits shrink alike, so the order stays.
LEMMA StepTick ==
    ASSUME IInv, Tick
    PROVE  IInv'
  <1>1. UNCHANGED <<hook, queue, emit, job, posts, acked, unrecorded, faults>> /\ Tables
    BY DEF Tick, IInv
  <1>2. ASSUME NEW d \in Deliveries
        PROVE  /\ delivery'[d] \in {Absent} \cup Delivery
               /\ delivery'[d].status = delivery[d].status /\ (delivery'[d] = Absent <=> delivery[d] = Absent)
               /\ delivery[d] # Absent => delivery'[d].attempts = delivery[d].attempts
               /\ d \in Pending => delivery'[d].wait = IF delivery[d].wait > 0 THEN delivery[d].wait - 1 ELSE delivery[d].wait
    <2>1. CASE delivery[d].status = "pending" /\ delivery[d].wait > 0
      <3>1. delivery[d] \in Delivery
        BY <1>1, <2>1, DeliveryFields DEF Pending
      <3>2. delivery'[d] = [delivery[d] EXCEPT !.wait = delivery[d].wait - 1]
        BY <2>1 DEF Tick
      <3>3. delivery[d].wait - 1 \in Nat
        BY <2>1, <3>1 DEF Delivery
      <3>4. /\ delivery'[d] \in Delivery /\ delivery'[d].status = delivery[d].status
            /\ delivery'[d].attempts = delivery[d].attempts /\ delivery'[d].wait = delivery[d].wait - 1
        BY <3>1, <3>2, <3>3 DEF Delivery
      <3>5. delivery[d] # Absent /\ delivery'[d] # Absent
        BY <2>1, <3>4 DEF Absent
      <3>6. QED BY <2>1, <3>4, <3>5
    <2>2. CASE ~(delivery[d].status = "pending" /\ delivery[d].wait > 0)
      <3>1. delivery'[d] = delivery[d]
        BY <2>2 DEF Tick
      <3>2. QED BY <1>1, <2>2, <3>1 DEF Tables, Pending
    <2>3. QED BY <2>1, <2>2
  <1>3. Tables'
    <2>1. delivery' = [d \in Deliveries |-> delivery'[d]]
      BY DEF Tick
    <2>2. delivery' \in [Deliveries -> {Absent} \cup Delivery]
      BY <1>2, <2>1
    <2>3. QED BY <1>1, <2>2 DEF Tables
  <1>4. QueueInv'
    <2>1. Pending' = Pending
      BY <1>2 DEF Pending
    <2>2. ASSUME NEW i \in DOMAIN queue, NEW j \in DOMAIN queue, i < j
          PROVE  queue[i] # queue[j] /\ Wait'[queue[i]] <= Wait'[queue[j]]
      <3>1. queue[i] \in Pending /\ queue[j] \in Pending
        BY DEF IInv, QueueInv, Members
      <3>2. queue[i] \in Deliveries /\ queue[j] \in Deliveries
        BY <3>1 DEF Pending
      <3>3. queue[i] # queue[j] /\ delivery[queue[i]].wait <= delivery[queue[j]].wait
        BY <2>2, <3>2 DEF IInv, QueueInv, Ordered, Wait
      <3>4. delivery[queue[i]].wait \in Nat /\ delivery[queue[j]].wait \in Nat
        BY <1>1, <3>1, <3>2, DeliveryFields
      <3>5. delivery'[queue[i]].wait <= delivery'[queue[j]].wait
        BY <1>2, <3>1, <3>2, <3>3, <3>4
      <3>6. QED BY <3>2, <3>3, <3>5 DEF Wait
    <2>3. Ordered(queue, Wait')
      BY <2>2 DEF Ordered
    <2>4. queue \in Seq(Deliveries) /\ Members(queue) = Pending
      BY DEF IInv, QueueInv
    <2>5. QED BY <1>1, <2>1, <2>3, <2>4 DEF QueueInv, Ordered, Members
  <1>5. JobInv'
    <2>1. CASE job = Idle
      BY <1>1, <2>1 DEF JobInv
    <2>2. CASE job # Idle
      <3>1. job.list \in Seq(Deliveries)
        BY <2>2, ListFacts DEF IInv
      <3>2. \A i \in DOMAIN job.list : delivery'[job.list[i]].status = delivery[job.list[i]].status
        BY <1>2, <3>1
      <3>3. QED BY <1>1, <3>2 DEF IInv, JobInv
    <2>3. QED BY <2>1, <2>2
  <1>6. \A d \in Deliveries : /\ Attempts(d)' = Attempts(d) /\ Recording(d)' = Recording(d)
                              /\ delivery[d].status \in {"pending", "dead"} => delivery'[d].attempts = delivery[d].attempts
    BY <1>1, <1>2, DeliveryFields DEF Attempts, Recording
  <1>7. CountInv'
    BY <1>1, <1>2, <1>6 DEF IInv, CountInv
  <1>8. AckInv'
    BY <1>1, <1>2, <1>6 DEF IInv, AckInv, Recording
  <1>9. QED BY <1>3, <1>4, <1>5, <1>7, <1>8 DEF IInv

\* Emit queues a delivery.
LEMMA StepEnqueueDelivery ==
    ASSUME IInv, NEW h \in Hooks, NEW d \in Deliveries, EnqueueDelivery(h, d)
    PROVE  IInv'
  <1> DEFINE new == [status |-> "pending", hook |-> h, attempts |-> 0, wait |-> 0]
  <1>1. /\ delivery[d] = Absent /\ emit' = emit \ {h} /\ delivery' = [delivery EXCEPT ![d] = new]
        /\ queue' \in Queued(queue, d, 0) /\ UNCHANGED <<hook, job, posts, acked, unrecorded, faults>> /\ Tables
    BY DEF EnqueueDelivery, IInv
  <1>2. new \in Delivery /\ new.status = "pending" /\ new.attempts = 0 /\ new.wait = 0
    BY DEF Delivery
  <1>3. new # Absent
    BY <1>2 DEF Absent
  <1> HIDE DEF new
  <1>4. /\ delivery' \in [Deliveries -> {Absent} \cup Delivery] /\ delivery'[d] = new
        /\ \A x \in Deliveries : x # d => delivery'[x] = delivery[x]
    BY <1>1, <1>2 DEF Tables
  <1>5. Tables'
    BY <1>1, <1>4 DEF Tables
  <1>6. d \notin Pending /\ delivery[d].status = "absent"
    BY <1>1, DeliveryFields
  <1>7. QueueInv'
    <2>1. queue \in Seq(Deliveries) /\ Ordered(queue, Wait) /\ Members(queue) = Pending
      BY DEF IInv, QueueInv
    <2>2. PICK i \in 0..Len(queue) : /\ \A j \in DOMAIN queue : j <= i <=> delivery[queue[j]].wait <= 0
                                     /\ queue' = InsertedAt(queue, i, d)
      BY <1>1 DEF Queued
    <2>3. \A j \in DOMAIN queue : j <= i <=> Wait[queue[j]] <= 0
      BY <2>1, <2>2 DEF Wait
    <2>4. \A x \in Members(queue) : Wait'[x] = Wait[x] /\ Wait[x] \in Nat
      BY <1>1, <1>4, <1>6, <2>1, DeliveryFields DEF Pending, Wait
    <2>5. Wait'[d] = 0 /\ d \notin Members(queue) /\ 0 \in Nat
      BY <1>2, <1>4, <1>6, <2>1 DEF Wait
    <2>6. queue' \in Seq(Deliveries) /\ Ordered(queue', Wait') /\ Members(queue') = Members(queue) \cup {d}
      BY <2>1, <2>2, <2>3, <2>4, <2>5, InsertedFacts
    <2>7. Pending' = Pending \cup {d}
      BY <1>2, <1>4 DEF Pending
    <2>8. QED BY <2>1, <2>6, <2>7 DEF QueueInv, Ordered, Members
  <1>8. JobInv'
    <2>1. CASE job = Idle
      BY <1>1, <2>1 DEF JobInv
    <2>2. CASE job # Idle
      <3>1. job.list \in Seq(Deliveries) /\ \A i \in DOMAIN job.list : delivery[job.list[i]].status = "pending"
        BY <2>2, ListFacts DEF IInv, JobInv
      <3>2. \A i \in DOMAIN job.list : delivery'[job.list[i]].status = "pending"
        BY <1>4, <1>6, <3>1
      <3>3. QED BY <1>1, <3>2 DEF IInv, JobInv
    <2>3. QED BY <2>1, <2>2
  <1>9. \A x \in Deliveries : Attempts(x)' = Attempts(x) /\ (Recording(x)' <=> Recording(x))
    BY <1>1, <1>2, <1>3, <1>4 DEF Attempts, Recording
  <1>10. ~Recording(d)
    BY <1>6, RecordingFacts DEF IInv
  <1>11. CountInv'
    <2>1. ASSUME NEW x \in Deliveries
          PROVE  /\ delivery'[x].status = "pending" => delivery'[x].attempts < WebhookMaxAttempts
                 /\ delivery'[x].status = "dead" => delivery'[x].attempts = WebhookMaxAttempts
      <3>1. CASE x = d
        BY <1>2, <1>4, <3>1, WebhookAssumption
      <3>2. CASE x # d
        BY <1>4, <3>2 DEF IInv, CountInv
      <3>3. QED BY <3>1, <3>2
    <2>2. QED BY <1>1, <1>9, <2>1 DEF IInv, CountInv
  <1>12. AckInv'
    <2>1. ASSUME NEW x \in Deliveries
          PROVE  /\ delivery'[x].status = "delivered" => x \in acked
                 /\ x \in acked /\ unrecorded[x] = 0 /\ ~Recording(x) => delivery'[x].status = "delivered"
      <3>1. CASE x = d
        BY <1>2, <1>4, <1>6, <1>10, <3>1 DEF IInv, AckInv
      <3>2. CASE x # d
        BY <1>4, <3>2 DEF IInv, AckInv
      <3>3. QED BY <3>1, <3>2
    <2>2. \A x \in Deliveries : Recording(x) => /\ job.outcome = "2xx" => x \in acked
                                                /\ x \in acked /\ unrecorded[x] = 0 => job.outcome = "2xx"
      BY DEF IInv, AckInv
    <2>3. QED BY <1>1, <2>1, <2>2 DEF AckInv, Recording
  <1>13. QED BY <1>5, <1>7, <1>8, <1>11, <1>12 DEF IInv

-----------------------------------------------------------------------------
(* Steps of the cycle.                                                     *)

\* The rows of a dequeued list are pending and distinct.
LEMMA StepRunDeliveryCycle ==
    ASSUME IInv, RunDeliveryCycle
    PROVE  IInv'
  <1>1. job = Idle /\ UNCHANGED <<hook, delivery, queue, emit, posts, acked, unrecorded, faults>>
    BY DEF RunDeliveryCycle
  <1>2. queue \in Seq(Deliveries) /\ Ordered(queue, Wait) /\ Members(queue) = Pending
    BY DEF IInv, QueueInv
  <1>3. PICK n \in 1..Len(queue) : Continue(SubSeq(queue, 1, n))
    BY DEF RunDeliveryCycle, DequeuePending
  <1> DEFINE list == SubSeq(queue, 1, n)
  <1>4. /\ list \in Seq(Deliveries) /\ Len(list) = n /\ DOMAIN list = 1..n /\ 1..n \subseteq DOMAIN queue
        /\ \A i \in 1..n : list[i] = queue[i]
    BY <1>2, SubSeqProperties
  <1> HIDE DEF list
  <1>5. list # <<>>
    BY <1>3, <1>4
  <1>6. job' = [pc |-> "get", list |-> list]
    BY <1>3, <1>5 DEF Continue, list
  <1>7. job'.list = list /\ job'.pc = "get" /\ job' \in [pc : {"get", "post"}, list : Seq(Deliveries)]
    BY <1>4, <1>6
  <1>8. \A i \in DOMAIN list : delivery[list[i]].status = "pending"
    BY <1>2, <1>4 DEF Members, Pending
  <1>9. \A i, j \in DOMAIN list : i < j => list[i] # list[j]
    BY <1>2, <1>4 DEF Ordered
  <1>10. JobInv'
    BY <1>1, <1>5, <1>7, <1>8, <1>9 DEF JobInv
  <1>11. \A d : ~Recording(d) /\ ~Recording(d)'
    BY <1>1, <1>7 DEF Recording, Idle
  <1>12. Tables' /\ QueueInv'
    BY <1>1 DEF IInv, Tables, QueueInv, Ordered, Members, Pending, Wait
  <1>13. CountInv'
    BY <1>1, <1>11 DEF IInv, CountInv, Attempts
  <1>14. AckInv'
    BY <1>1, <1>11 DEF IInv, AckInv
  <1>15. QED BY <1>10, <1>12, <1>13, <1>14 DEF IInv

\* attempt finds a target it may post to.
LEMMA StepAttemptGet ==
    ASSUME IInv, AttemptGet, TargetAllowed(delivery[Head(job.list)].hook)
    PROVE  IInv'
  <1>1. job.pc = "get" /\ UNCHANGED <<hook, delivery, queue, emit, posts, acked, unrecorded, faults>>
          /\ job' = [job EXCEPT !.pc = "post"]
    BY DEF AttemptGet
  <1>2. job # Idle /\ job \in [pc : {"get", "post"}, list : Seq(Deliveries)]
    BY <1>1 DEF IInv, JobInv, Idle
  <1>3. job'.list = job.list /\ job'.pc = "post" /\ job' \in [pc : {"get", "post"}, list : Seq(Deliveries)]
    BY <1>1, <1>2
  <1>4. JobInv'
    BY <1>1, <1>2, <1>3 DEF IInv, JobInv
  <1>5. \A d : ~Recording(d) /\ ~Recording(d)'
    BY <1>1, <1>3 DEF Recording
  <1>6. Tables' /\ QueueInv'
    BY <1>1 DEF IInv, Tables, QueueInv, Ordered, Members, Pending, Wait
  <1>7. CountInv'
    BY <1>1, <1>5 DEF IInv, CountInv, Attempts
  <1>8. AckInv'
    BY <1>1, <1>5 DEF IInv, AckInv
  <1>9. QED BY <1>4, <1>6, <1>7, <1>8 DEF IInv

\* The POST: its delivery was pending, so any acceptance before it was lost.
LEMMA StepAttemptPost ==
    ASSUME IInv, NEW outcome \in Outcomes, AttemptPost(outcome)
    PROVE  IInv'
  <1> DEFINE d == Head(job.list)
  <1>1. /\ job.pc = "post" /\ UNCHANGED <<hook, delivery, queue, emit, unrecorded, faults>>
        /\ posts' = [posts EXCEPT ![d] = @ + 1] /\ acked' = IF outcome = "2xx" THEN acked \cup {d} ELSE acked
        /\ job' = [pc |-> "record", list |-> job.list, outcome |-> outcome]
    BY DEF AttemptPost
  <1>2. job # Idle
    BY <1>1 DEF Idle
  <1>3. /\ job.list \in Seq(Deliveries) /\ job.list # <<>> /\ d \in Deliveries /\ delivery[d].status = "pending"
    BY <1>2, ListFacts DEF IInv
  <1>4. job'.pc = "record" /\ job'.list = job.list /\ job'.outcome = outcome
    BY <1>1
  <1>5. job' \in [pc : {"record"}, list : Seq(Deliveries), outcome : Outcomes]
    BY <1>1, <1>3
  <1>6. JobInv'
    BY <1>1, <1>2, <1>4, <1>5 DEF IInv, JobInv
  <1>7. /\ \A x : ~Recording(x)
        /\ \A x : Recording(x)' <=> x = d
    BY <1>1, <1>4 DEF Recording
  <1> HIDE DEF d
  <1>8. posts \in [Deliveries -> Nat] /\ posts' \in [Deliveries -> Nat] /\ posts'[d] = posts[d] + 1
          /\ \A x \in Deliveries : x # d => posts'[x] = posts[x]
    BY <1>1, <1>3 DEF IInv, Tables
  <1>9. Tables' /\ QueueInv'
    <2>1. acked' \subseteq Deliveries
      BY <1>1, <1>3 DEF IInv, Tables
    <2>2. Tables'
      BY <1>1, <1>8, <2>1 DEF IInv, Tables
    <2>3. QueueInv'
      BY <1>1 DEF IInv, QueueInv, Ordered, Members, Pending, Wait
    <2>4. QED BY <2>2, <2>3
  <1>10. CountInv'
    <2>1. ASSUME NEW x \in Deliveries
          PROVE  posts'[x] <= Attempts(x) + unrecorded[x] + (IF x = d THEN 1 ELSE 0)
      <3>1. posts[x] <= Attempts(x) + unrecorded[x] /\ Attempts(x) \in Nat /\ unrecorded[x] \in Nat /\ posts[x] \in Nat
        BY <1>7, DeliveryFields DEF IInv, CountInv, Tables
      <3>2. CASE x = d
        BY <1>8, <3>1, <3>2
      <3>3. CASE x # d
        BY <1>8, <3>1, <3>3
      <3>4. QED BY <3>2, <3>3
    <2>2. ASSUME NEW x \in Deliveries
          PROVE  /\ ~Recording(x)' => posts'[x] <= Attempts(x) + unrecorded[x]
                 /\ Recording(x)' => posts'[x] <= Attempts(x) + unrecorded[x] + 1
      <3>1. CASE x = d
        BY <1>7, <2>1, <3>1
      <3>2. CASE x # d
        <4>1. posts[x] <= Attempts(x) + unrecorded[x]
          BY <1>7 DEF IInv, CountInv
        <4>2. QED BY <1>7, <1>8, <3>2, <4>1
      <3>3. QED BY <3>1, <3>2
    <2>3. \A x \in Deliveries : Attempts(x)' = Attempts(x)
      BY <1>1 DEF Attempts
    <2>4. QED BY <1>1, <2>2, <2>3 DEF IInv, CountInv
  <1>11. AckInv'
    <2>1. ASSUME NEW x \in Deliveries
          PROVE  /\ delivery[x].status = "delivered" => x \in acked'
                 /\ x \in acked' /\ unrecorded[x] = 0 /\ x # d => delivery[x].status = "delivered"
                 /\ x = d => /\ outcome = "2xx" => x \in acked'
                             /\ x \in acked' /\ unrecorded[x] = 0 => outcome = "2xx"
      <3>1. /\ delivery[x].status = "delivered" => x \in acked
            /\ x \in acked /\ unrecorded[x] = 0 => delivery[x].status = "delivered"
        BY <1>7 DEF IInv, AckInv
      <3>2. QED BY <1>1, <1>3, <3>1
    <2>2. QED BY <1>1, <1>4, <1>7, <2>1 DEF AckInv
  <1>12. QED BY <1>6, <1>9, <1>10, <1>11 DEF IInv

\* An attempt is stored, and the cycle goes on.
LEMMA StepSettle ==
    ASSUME IInv, job # Idle, NEW status \in {"pending", "delivered", "dead", "failed"}, NEW w \in Nat,
           UpdateDeliveryAttempt(Head(job.list), delivery[Head(job.list)].attempts + 1, status, w),
           Continue(Tail(job.list)), UNCHANGED <<hook, emit, posts, acked, unrecorded>>, faults' \in Nat,
           status = "pending" => delivery[Head(job.list)].attempts + 1 < WebhookMaxAttempts,
           status = "dead" => delivery[Head(job.list)].attempts + 1 = WebhookMaxAttempts,
           status = "delivered" => job.pc = "record" /\ job.outcome = "2xx",
           job.pc = "record" /\ job.outcome = "2xx" => status = "delivered"
    PROVE  IInv'
  <1> DEFINE d == Head(job.list)
             n == delivery[d].attempts + 1
  <1>1. d \in Deliveries /\ delivery[d].status = "pending" /\ Tables /\ QueueInv /\ JobInv
    BY ListFacts DEF IInv
  <1>2. delivery[d] # Absent /\ n \in Nat /\ delivery[d].attempts \in Nat /\ Attempts(d) = delivery[d].attempts
    BY <1>1, DeliveryFields DEF Pending, Attempts
  <1>3. /\ delivery' \in [Deliveries -> {Absent} \cup Delivery]
        /\ delivery'[d] # Absent /\ delivery'[d].status = status /\ delivery'[d].attempts = n
        /\ \A x \in Deliveries : x # d => delivery'[x] = delivery[x]
        /\ QueueInv'
    BY <1>1, <1>2, Updated
  <1>4. JobInv' /\ job'.pc # "record"
    BY <1>1, <1>3, Continues
  <1>5. Tables'
    BY <1>1, <1>3 DEF Tables
  <1>6. /\ \A x : ~Recording(x)'
        /\ \A x : Recording(x) <=> job.pc = "record" /\ x = d
    BY <1>4 DEF Recording
  <1>7. /\ WebhookMaxAttempts \in Nat /\ delivery[d].attempts < WebhookMaxAttempts
        /\ status = "pending" => n < WebhookMaxAttempts
        /\ status = "dead" => n = WebhookMaxAttempts
    BY <1>1, WebhookAssumption DEF IInv, CountInv
  <1> HIDE DEF d, n
  <1>8. ASSUME NEW x \in Deliveries
        PROVE  /\ delivery'[x].status = "pending" => delivery'[x].attempts < WebhookMaxAttempts
               /\ delivery'[x].status = "dead" => delivery'[x].attempts = WebhookMaxAttempts
               /\ Attempts(x)' <= WebhookMaxAttempts
               /\ posts'[x] <= Attempts(x)' + unrecorded'[x]
    <2>1. CASE x = d
      <3>1. posts[d] <= Attempts(d) + unrecorded[d] + 1 /\ posts[d] \in Nat /\ unrecorded[d] \in Nat
        BY <1>1, <1>2 DEF IInv, CountInv, Tables
      <3>2. delivery'[x].attempts = n /\ delivery'[x].status = status /\ delivery'[x] # Absent
        BY <1>3, <2>1
      <3>3. Attempts(x)' = n
        BY <3>2 DEF Attempts
      <3>4. posts'[x] = posts[d] /\ unrecorded'[x] = unrecorded[d]
        BY <2>1
      <3>5. n = Attempts(d) + 1 /\ Attempts(d) < WebhookMaxAttempts
        BY <1>2, <1>7 DEF n
      <3>6. n <= WebhookMaxAttempts /\ posts[d] <= n + unrecorded[d]
        BY <1>2, <1>7, <3>1, <3>5
      <3>7. QED BY <1>7, <3>2, <3>3, <3>4, <3>6
    <2>2. CASE x # d
      <3>1. delivery'[x] = delivery[x] /\ ~Recording(x)
        BY <1>3, <1>6, <2>2
      <3>2. Attempts(x)' = Attempts(x)
        BY <3>1 DEF Attempts
      <3>3. QED BY <3>1, <3>2 DEF IInv, CountInv
    <2>3. QED BY <2>1, <2>2
  <1>9. CountInv'
    BY <1>6, <1>8 DEF CountInv
  <1>10. ASSUME NEW x \in Deliveries
         PROVE  /\ delivery'[x].status = "delivered" => x \in acked
                /\ x \in acked /\ unrecorded[x] = 0 => delivery'[x].status = "delivered"
    <2>1. CASE x = d
      <3>1. CASE job.pc = "record"
        <4>1. Recording(d)
          BY <1>6, <3>1
        <4>2. /\ job.outcome = "2xx" => d \in acked
              /\ d \in acked /\ unrecorded[d] = 0 => job.outcome = "2xx"
          BY <1>1, <4>1 DEF IInv, AckInv
        <4>3. QED BY <1>3, <2>1, <3>1, <4>2
      <3>2. CASE job.pc # "record"
        <4>1. ~Recording(d)
          BY <1>6, <3>2
        <4>2. ~(d \in acked /\ unrecorded[d] = 0)
          BY <1>1, <4>1 DEF IInv, AckInv
        <4>3. QED BY <1>3, <2>1, <3>2, <4>2
      <3>3. QED BY <3>1, <3>2
    <2>2. CASE x # d
      <3>1. delivery'[x] = delivery[x] /\ ~Recording(x)
        BY <1>3, <1>6, <2>2
      <3>2. QED BY <3>1 DEF IInv, AckInv
    <2>3. QED BY <2>1, <2>2
  <1>11. AckInv'
    BY <1>6, <1>10 DEF AckInv
  <1>12. QED BY <1>3, <1>4, <1>5, <1>9, <1>11 DEF IInv

\* handleFailure of the attempt in hand: one more try, or the last.
LEMMA Failed ==
    ASSUME IInv, job # Idle, HandleFailure(Head(job.list), delivery[Head(job.list)].attempts + 1),
           Continue(Tail(job.list)), UNCHANGED <<hook, emit, posts, acked, unrecorded, faults>>,
           ~(job.pc = "record" /\ job.outcome = "2xx")
    PROVE  IInv'
  <1> DEFINE d == Head(job.list)
             n == delivery[d].attempts + 1
  <1>1. d \in Deliveries /\ delivery[d].status = "pending"
    BY ListFacts DEF IInv
  <1>2. delivery[d].attempts \in Nat
    BY <1>1, DeliveryFields DEF IInv, Pending
  <1>3. WebhookMaxAttempts \in Nat /\ delivery[d].attempts < WebhookMaxAttempts
    BY <1>1, WebhookAssumption DEF IInv, CountInv
  <1>4. n \in 1..WebhookMaxAttempts
    BY <1>2, <1>3
  <1>5. faults' \in Nat
    BY DEF IInv, Tables
  <1>6. CASE n >= WebhookMaxAttempts
    <2>1. UpdateDeliveryAttempt(d, n, "dead", 0)
      BY <1>6 DEF HandleFailure, NextWebhookStatus
    <2>2. n = WebhookMaxAttempts
      BY <1>3, <1>4, <1>6
    <2>3. 0 \in Nat /\ "dead" \in {"pending", "delivered", "dead", "failed"}
      OBVIOUS
    <2>4. QED BY <1>5, <2>1, <2>2, <2>3, StepSettle
  <1>7. CASE ~(n >= WebhookMaxAttempts)
    <2>1. UpdateDeliveryAttempt(d, n, "pending", WebhookBackoff(n))
      BY <1>7 DEF HandleFailure, NextWebhookStatus
    <2>2. n < WebhookMaxAttempts
      BY <1>3, <1>4, <1>7
    <2>3. WebhookBackoff(n) \in Nat
      BY <1>4, BackoffAssumption
    <2>4. QED BY <1>5, <2>1, <2>2, <2>3, StepSettle
  <1>8. QED BY <1>6, <1>7

\* A target that is no longer allowed costs an attempt without a POST.
LEMMA StepAttemptRefused ==
    ASSUME IInv, AttemptGet, ~TargetAllowed(delivery[Head(job.list)].hook)
    PROVE  IInv'
  <1>1. /\ job.pc = "get" /\ UNCHANGED <<hook, emit, posts, acked, unrecorded, faults>>
        /\ HandleFailure(Head(job.list), delivery[Head(job.list)].attempts + 1) /\ Continue(Tail(job.list))
    BY DEF AttemptGet
  <1>2. job # Idle
    BY <1>1 DEF Idle
  <1>3. QED BY <1>1, <1>2, Failed

\* The answer is recorded, and the cycle goes on with its list.
LEMMA StepAttemptRecord ==
    ASSUME IInv, AttemptRecord
    PROVE  IInv'
  <1>1. job.pc = "record" /\ Continue(Tail(job.list)) /\ UNCHANGED <<hook, emit, posts, acked, unrecorded, faults>>
    BY DEF AttemptRecord
  <1>2. job # Idle /\ faults' \in Nat
    BY <1>1 DEF Idle, IInv, Tables
  <1>3. CASE job.outcome = "2xx"
    <2>1. UpdateDeliveryAttempt(Head(job.list), delivery[Head(job.list)].attempts + 1, "delivered", 0)
      BY <1>3 DEF AttemptRecord, Succeeded
    <2>2. 0 \in Nat /\ "delivered" \in {"pending", "delivered", "dead", "failed"}
      OBVIOUS
    <2>3. QED BY <1>1, <1>2, <1>3, <2>1, <2>2, StepSettle
  <1>4. CASE job.outcome # "2xx"
    <2>1. HandleFailure(Head(job.list), delivery[Head(job.list)].attempts + 1)
      BY <1>4 DEF AttemptRecord, Succeeded
    <2>2. QED BY <1>1, <1>2, <1>4, <2>1, Failed
  <1>5. QED BY <1>3, <1>4

\* A hook that cannot be read ends its delivery without a POST.
LEMMA StepGetFails ==
    ASSUME IInv, GetFails
    PROVE  IInv'
  <1>1. /\ job.pc = "get" /\ Continue(Tail(job.list)) /\ UNCHANGED <<hook, emit, posts, acked, unrecorded>>
        /\ UpdateDeliveryAttempt(Head(job.list), delivery[Head(job.list)].attempts + 1, "failed", 0)
        /\ faults' = faults + 1
    BY DEF GetFails
  <1>2. job # Idle /\ faults' \in Nat
    BY <1>1 DEF Idle, IInv, Tables
  <1>3. 0 \in Nat /\ "failed" \in {"pending", "delivered", "dead", "failed"}
    OBVIOUS
  <1>4. QED BY <1>1, <1>2, <1>3, StepSettle

\* An attempt that is not stored is counted as lost.
LEMMA StepLost ==
    ASSUME IInv, AttemptLost, JobInv', job'.pc # "record", UNCHANGED <<hook, delivery, queue, posts, acked>>,
           emit' \subseteq Hooks, faults' \in Nat
    PROVE  IInv'
  <1>1. Tables /\ JobInv
    BY DEF IInv
  <1>2. /\ unrecorded' \in [Deliveries -> Nat]
        /\ \A x \in Deliveries : unrecorded'[x] = unrecorded[x] + (IF Recording(x) THEN 1 ELSE 0)
    <2>1. unrecorded \in [Deliveries -> Nat]
      BY <1>1 DEF Tables
    <2>2. CASE job.pc = "record"
      <3>1. job # Idle
        BY <2>2 DEF Idle
      <3>2. Head(job.list) \in Deliveries
        BY <1>1, <3>1, ListFacts
      <3>3. unrecorded' = [unrecorded EXCEPT ![Head(job.list)] = @ + 1]
        BY <2>2 DEF AttemptLost
      <3>4. QED BY <2>1, <2>2, <3>2, <3>3 DEF Recording
    <2>3. CASE job.pc # "record"
      BY <2>1, <2>3 DEF AttemptLost, Recording
    <2>4. QED BY <2>2, <2>3
  <1>3. \A x : ~Recording(x)'
    BY DEF Recording
  <1>4. \A x \in Deliveries : Attempts(x)' = Attempts(x) /\ Attempts(x) \in Nat
    BY <1>1, DeliveryFields DEF Attempts
  <1>5. Tables'
    BY <1>1, <1>2 DEF Tables
  <1>6. QueueInv'
    BY DEF IInv, QueueInv, Ordered, Members, Pending, Wait
  <1>7. CountInv'
    <2>1. ASSUME NEW x \in Deliveries
          PROVE  posts'[x] <= Attempts(x) + unrecorded'[x]
      <3>1. posts[x] \in Nat /\ unrecorded[x] \in Nat
        BY <1>1 DEF Tables
      <3>2. CASE Recording(x)
        BY <1>2, <1>4, <3>1, <3>2 DEF IInv, CountInv
      <3>3. CASE ~Recording(x)
        BY <1>2, <1>4, <3>1, <3>3 DEF IInv, CountInv
      <3>4. QED BY <3>2, <3>3
    <2>2. QED BY <1>3, <1>4, <2>1 DEF IInv, CountInv
  <1>8. AckInv'
    <2>1. ASSUME NEW x \in Deliveries, x \in acked, unrecorded'[x] = 0
          PROVE  delivery[x].status = "delivered"
      <3>1. unrecorded[x] \in Nat
        BY <1>1 DEF Tables
      <3>2. ~Recording(x) /\ unrecorded[x] = 0
        BY <1>2, <2>1, <3>1
      <3>3. QED BY <2>1, <3>2 DEF IInv, AckInv
    <2>2. QED BY <1>3, <2>1 DEF IInv, AckInv
  <1>9. QED BY <1>5, <1>6, <1>7, <1>8 DEF IInv

\* An outcome that cannot be stored is counted as lost.
LEMMA StepUpdateFails ==
    ASSUME IInv, UpdateFails
    PROVE  IInv'
  <1>1. /\ faults' = faults + 1 /\ job.pc = "record" /\ AttemptLost /\ Continue(Tail(job.list))
        /\ UNCHANGED <<hook, delivery, queue, emit, posts, acked>>
    BY DEF UpdateFails
  <1>2. job # Idle /\ faults' \in Nat /\ emit' \subseteq Hooks
    BY <1>1 DEF Idle, IInv, Tables
  <1>3. JobInv' /\ job'.pc # "record"
    BY <1>1, <1>2, Continues DEF IInv
  <1>4. QED BY <1>1, <1>2, <1>3, StepLost

\* A restart forgets the list and the outcome that was not stored.
LEMMA StepRestart ==
    ASSUME IInv, Restart
    PROVE  IInv'
  <1>1. /\ faults' = faults + 1 /\ job' = Idle /\ emit' = {} /\ AttemptLost
        /\ UNCHANGED <<hook, delivery, queue, posts, acked>>
    BY DEF Restart
  <1>2. faults' \in Nat /\ emit' \subseteq Hooks
    BY <1>1 DEF IInv, Tables
  <1>3. job'.pc # "record"
    BY <1>1 DEF Idle
  <1>4. JobInv'
    BY <1>1 DEF JobInv
  <1>5. QED BY <1>1, <1>2, <1>3, <1>4, StepLost

-----------------------------------------------------------------------------
(* The invariant.                                                          *)

\* Nothing is stored at first.
LEMMA Initially ==
    Init => IInv
  <1> SUFFICES ASSUME Init PROVE IInv
    OBVIOUS
  <1>1. job = Idle /\ queue = <<>> /\ acked = {} /\ emit = {} /\ faults = 0
    BY DEF Init
  <1>2. Tables
    BY DEF Init, Tables
  <1>3. \A d \in Deliveries : /\ delivery[d] = Absent /\ delivery[d].status = "absent"
                              /\ posts[d] = 0 /\ unrecorded[d] = 0
    BY DEF Init, Absent
  <1>4. \A d : ~Recording(d)
    BY <1>1 DEF Recording, Idle
  <1>5. QueueInv
    <2>1. Pending = {} /\ DOMAIN queue = {} /\ queue \in Seq(Deliveries)
      BY <1>1, <1>3 DEF Pending
    <2>2. QED BY <2>1 DEF QueueInv, Ordered, Members
  <1>6. JobInv
    BY <1>1 DEF JobInv
  <1>7. CountInv
    BY <1>3, <1>4, WebhookAssumption DEF CountInv, Attempts
  <1>8. AckInv
    BY <1>1, <1>3, <1>4 DEF AckInv
  <1>9. QED BY <1>2, <1>5, <1>6, <1>7, <1>8 DEF IInv

\* Every step preserves the inductive invariant.
LEMMA Preserved ==
    ASSUME IInv, [Next]_vars
    PROVE  IInv'
  <1>1. CASE Tick
    BY <1>1, StepTick
  <1>2. CASE \E h \in Hooks : Create(h) \/ Disable(h) \/ TargetMoves(h) \/ EnqueueDropped(h)
    BY <1>2, StepCreate, StepDisable, StepTargetMoves, StepEnqueueDropped
  <1>3. CASE \E t \in EventTypes : Emit(t)
    BY <1>3, StepEmit
  <1>4. CASE \E h \in Hooks, d \in Deliveries : EnqueueDelivery(h, d)
    BY <1>4, StepEnqueueDelivery
  <1>5. CASE RunDeliveryCycle
    BY <1>5, StepRunDeliveryCycle
  <1>6. CASE AttemptGet
    BY <1>6, StepAttemptGet, StepAttemptRefused
  <1>7. CASE \E o \in Outcomes : AttemptPost(o)
    BY <1>7, StepAttemptPost
  <1>8. CASE AttemptRecord
    BY <1>8, StepAttemptRecord
  <1>9. CASE GetFails
    BY <1>9, StepGetFails
  <1>10. CASE UpdateFails
    BY <1>10, StepUpdateFails
  <1>11. CASE Restart
    BY <1>11, StepRestart
  <1>12. CASE UNCHANGED vars
    <2>1. UNCHANGED <<hook, delivery, queue, emit, job, posts, acked, unrecorded, faults>>
      BY <1>12 DEF vars
    <2>2. Tables'
      BY <2>1 DEF IInv, Tables
    <2>3. QED BY <2>1, <2>2, StepHooks
  <1>13. QED BY <1>1, <1>2, <1>3, <1>4, <1>5, <1>6, <1>7, <1>8, <1>9, <1>10, <1>11, <1>12 DEF Next, Cycle

\* The inductive invariant holds in every state of every behaviour.
THEOREM Inductive == Spec => []IInv
  <1>1. Init => IInv
    BY Initially
  <1>2. IInv /\ [Next]_vars => IInv'
    BY Preserved
  <1>3. QED BY <1>1, <1>2, PTL DEF Spec

\* Rows have their types, and the queue lists the pending deliveries once each in
\* the order they come due, for any numbers of hooks and deliveries.
THEOREM TypeCorrect == Spec => []TypeOK
  <1>1. ASSUME IInv
        PROVE  TypeOK
    <2>1. job.pc \in {"idle", "get", "post", "record"}
      BY <1>1 DEF IInv, JobInv, Idle
    <2>2. queue \in Seq(Deliveries) /\ Members(queue) = Pending
      BY <1>1 DEF IInv, QueueInv
    <2>3. {queue[i] : i \in DOMAIN queue} = {d \in Deliveries : delivery[d].status = "pending"}
      BY <2>2 DEF Members, Pending
    <2>4. \A i, j \in DOMAIN queue :
              i < j => queue[i] # queue[j] /\ delivery[queue[i]].wait <= delivery[queue[j]].wait
      <3>1. \A i \in DOMAIN queue : queue[i] \in Deliveries
        BY <2>2
      <3>2. \A i, j \in DOMAIN queue : i < j => queue[i] # queue[j] /\ Wait[queue[i]] <= Wait[queue[j]]
        BY <1>1 DEF IInv, QueueInv, Ordered
      <3>3. QED BY <3>1, <3>2 DEF Wait
    <2>5. QED BY <1>1, <2>1, <2>2, <2>3, <2>4 DEF TypeOK, IInv, Tables
  <1>2. QED BY <1>1, Inductive, PTL

\* attempt and NextWebhookStatus: a receiver sees a delivery at most
\* WebhookMaxAttempts times, but for the attempts whose outcome was lost, and a
\* delivery is dead only after the last attempt.
THEOREM BoundedAttempts == Spec => []AttemptsBounded
  <1>1. ASSUME IInv
        PROVE  AttemptsBounded
    <2>1. ASSUME NEW d \in Deliveries
          PROVE  posts[d] <= WebhookMaxAttempts + unrecorded[d]
      <3>1. /\ posts[d] \in Nat /\ unrecorded[d] \in Nat /\ Attempts(d) \in Nat /\ WebhookMaxAttempts \in Nat
            /\ Attempts(d) <= WebhookMaxAttempts
        BY <1>1, DeliveryFields, WebhookAssumption DEF IInv, Tables, CountInv
      <3>2. CASE Recording(d)
        <4>1. delivery[d].status = "pending" /\ d \in Pending
          BY <1>1, <3>2, RecordingFacts DEF IInv, Pending
        <4>2. Attempts(d) < WebhookMaxAttempts
          BY <1>1, <4>1, DeliveryFields DEF IInv, CountInv, Attempts
        <4>3. posts[d] <= Attempts(d) + unrecorded[d] + 1
          BY <1>1, <3>2 DEF IInv, CountInv
        <4>4. QED BY <3>1, <4>2, <4>3
      <3>3. CASE ~Recording(d)
        <4>1. posts[d] <= Attempts(d) + unrecorded[d]
          BY <1>1, <3>3 DEF IInv, CountInv
        <4>2. QED BY <3>1, <4>1
      <3>4. QED BY <3>2, <3>3
    <2>2. QED BY <1>1, <2>1 DEF AttemptsBounded, IInv, CountInv
  <1>2. QED BY <1>1, Inductive, PTL

\* attempt: "delivered" means that a receiver accepted, and what was accepted is
\* delivered unless the acceptance was lost before it was stored.
THEOREM TruthfulOutcome == Spec => []OutcomeTrue
  <1>1. IInv => OutcomeTrue
    BY DEF IInv, AckInv, Recording, OutcomeTrue
  <1>2. QED BY <1>1, Inductive, PTL

-----------------------------------------------------------------------------
(* Deliveries that have ended.                                             *)

\* Storing an attempt touches the head of the list only, which is pending.
LEMMA OthersStay ==
    ASSUME IInv, job # Idle, NEW n, NEW status, NEW w, UpdateDeliveryAttempt(Head(job.list), n, status, w),
           NEW d \in Deliveries, delivery[d].status \in Final
    PROVE  delivery'[d] = delivery[d]
  <1>1. d # Head(job.list)
    BY ListFacts DEF IInv, Final
  <1>2. QED BY <1>1 DEF UpdateDeliveryAttempt, IInv, Tables

\* No step touches a delivery that has ended, or posts it again.
LEMMA FinalStep ==
    ASSUME IInv, [Next]_vars, NEW d \in Deliveries, delivery[d].status \in Final
    PROVE  delivery'[d] = delivery[d] /\ posts'[d] = posts[d]
  <1>1. delivery \in [Deliveries -> {Absent} \cup Delivery] /\ posts \in [Deliveries -> Nat]
    BY DEF IInv, Tables
  <1>2. CASE Tick
    BY <1>2 DEF Tick, Final
  <1>3. CASE \E h \in Hooks, e \in Deliveries : EnqueueDelivery(h, e)
    <2>1. PICK h \in Hooks, e \in Deliveries : EnqueueDelivery(h, e)
      BY <1>3
    <2>2. delivery[e] = Absent /\ UNCHANGED posts
      BY <2>1 DEF EnqueueDelivery
    <2>3. e # d
      BY <2>2 DEF Absent, Final
    <2>4. QED BY <1>1, <2>1, <2>2, <2>3 DEF EnqueueDelivery
  <1>4. CASE \E o \in Outcomes : AttemptPost(o)
    <2>1. PICK o \in Outcomes : AttemptPost(o)
      BY <1>4
    <2>2. job.pc = "post" /\ UNCHANGED delivery /\ posts' = [posts EXCEPT ![Head(job.list)] = @ + 1]
      BY <2>1 DEF AttemptPost
    <2>3. Head(job.list) # d
      BY <2>2, ListFacts DEF IInv, Idle, Final
    <2>4. QED BY <1>1, <2>2, <2>3
  <1>5. CASE AttemptGet
    <2>1. job.pc = "get" /\ UNCHANGED posts
      BY <1>5 DEF AttemptGet
    <2>2. job # Idle
      BY <2>1 DEF Idle
    <2>3. QED BY <1>5, <2>1, <2>2, OthersStay DEF AttemptGet, HandleFailure
  <1>6. CASE AttemptRecord
    <2>1. job.pc = "record" /\ UNCHANGED posts
      BY <1>6 DEF AttemptRecord
    <2>2. job # Idle
      BY <2>1 DEF Idle
    <2>3. QED BY <1>6, <2>1, <2>2, OthersStay DEF AttemptRecord, HandleFailure
  <1>7. CASE GetFails
    <2>1. job.pc = "get" /\ UNCHANGED posts
      BY <1>7 DEF GetFails
    <2>2. job # Idle
      BY <2>1 DEF Idle
    <2>3. QED BY <1>7, <2>1, <2>2, OthersStay DEF GetFails
  <1>8. CASE UNCHANGED <<delivery, posts>>
    BY <1>8
  <1>9. \A h \in Hooks : Create(h) \/ Disable(h) \/ TargetMoves(h) \/ EnqueueDropped(h) => UNCHANGED <<delivery, posts>>
    BY DEF Create, Disable, TargetMoves, EnqueueDropped
  <1>10. (\E t \in EventTypes : Emit(t)) \/ RunDeliveryCycle \/ UpdateFails \/ Restart \/ UNCHANGED vars =>
             UNCHANGED <<delivery, posts>>
    BY DEF Emit, RunDeliveryCycle, UpdateFails, Restart, vars
  <1>11. QED BY <1>2, <1>3, <1>4, <1>5, <1>6, <1>7, <1>8, <1>9, <1>10 DEF Next, Cycle

\* attempt and DequeuePending: a delivery that is delivered, dead or failed is
\* neither posted again nor changed, however old the list of the cycle is.
THEOREM FinalForever == Spec => FinalStays
  <1>1. IInv /\ [Next]_vars =>
            \A d \in Deliveries : delivery[d].status \in Final =>
                delivery'[d] = delivery[d] /\ posts'[d] = posts[d]
    BY FinalStep
  <1>2. QED BY <1>1, Inductive, PTL DEF Spec, FinalStays
=============================================================================
