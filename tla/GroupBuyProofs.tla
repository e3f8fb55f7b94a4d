--------------------------- MODULE GroupBuyProofs ---------------------------
(***************************************************************************)
(* Proofs about module GroupBuy, for any number of group buys, users and   *)
(* concurrent requests, any capacities, quantities and retry limits.       *)
(***************************************************************************)
EXTENDS GroupBuy, FiniteSetTheorems, TLAPS

\* The row a join leaves has the columns' types when its UPDATE matched.
LEMMA AfterJoinType ==
    ASSUME NEW rw \in Row, NEW q \in Nat, NEW seen \in Nat, JoinMatches(rw, seen, q)
    PROVE  AfterJoin(rw, q) \in Row
<1>1. /\ rw.remaining - q \in Nat
      /\ rw.version + 1 \in Nat
  BY DEF Row, JoinMatches
<1>2. (IF rw.capacity - (rw.remaining - q) >= rw.threshold THEN "met" ELSE rw.status)
        \in Live \cup Terminal \cup {"absent"}
  BY DEF Row, Live
<1> QED
  BY <1>1, <1>2 DEF AfterJoin, Row

\* Failing a row keeps the columns' types.
LEMMA AfterFailType ==
    ASSUME NEW rw \in Row
    PROVE  AfterFail(rw) \in Row
<1>1. /\ rw.version + 1 \in Nat
      /\ rw.capacity \in Nat
      /\ "failed" \in Live \cup Terminal \cup {"absent"}
  BY DEF Row, Terminal
<1> QED
  BY <1>1 DEF AfterFail, Row

\* A request that is not idle is a join with a group buy and a user.
LEMMA ActiveRequest ==
    ASSUME TypeOK, NEW r \in Requests, req[r].pc # "idle"
    PROVE  req[r] \in Join
  BY DEF TypeOK, Idle

\* The targets SweepExpired can decide on.
LEMMA SweepTargetType ==
    ASSUME NEW rw
    PROVE  SweepTarget(rw) \in Targets
  BY DEF SweepTarget, Targets

\* A notification only adds the pair it names.
LEMMA NotesType ==
    ASSUME TypeOK, NEW g \in GroupBuys, NEW kind \in Targets \cup {"threshold_met"}
    PROVE  Notes(g, kind) \subseteq GroupBuys \X (Targets \cup {"threshold_met"})
  BY DEF Notes, TypeOK

\* The type invariant is inductive by itself: the guards of the UPDATE keep
\* remaining_slots a natural number.
LEMMA TypeStep == TypeOK /\ [Next]_vars => TypeOK'
<1> SUFFICES ASSUME TypeOK, [Next]_vars
             PROVE  TypeOK'
  OBVIOUS
<1> USE ConstantsAssumption
<1>1. ASSUME NEW g \in GroupBuys, NEW u \in Users, NEW c \in Capacities, NEW t \in Thresholds,
             Create(g, u, c, t)
      PROVE  TypeOK'
  <2>1. /\ c \in Nat
        /\ Threshold(t) \in Nat
    BY <1>1 DEF Create, ValidGroupBuy, Threshold
  <2> DEFINE new == [status |-> "open", capacity |-> c, threshold |-> Threshold(t),
                     remaining |-> c, version |-> 0, organizer |-> u]
  <2>2. new \in Row
    BY <2>1 DEF Row, Live
  <2>3. row' \in [GroupBuys -> Row]
    BY <1>1, <2>2 DEF Create, TypeOK
  <2> QED
    BY <1>1, <2>3 DEF Create, TypeOK
<1>2. ASSUME NEW g \in GroupBuys, DeadlinePasses(g)
      PROVE  TypeOK'
  BY <1>2 DEF DeadlinePasses, TypeOK
<1>3. ASSUME NEW r \in Requests, NEW g \in GroupBuys, NEW u \in Users, NEW q \in Quantities,
             JoinStart(r, g, u, q)
      PROVE  TypeOK'
  <2>1. Requested(q) \in Nat \ {0}
    BY DEF Requested
  <2>2. [pc |-> "read", gb |-> g, user |-> u, qty |-> Requested(q),
         attempt |-> 1, seen |-> 0] \in Join
    BY <2>1 DEF Join
  <2>3. req' \in [Requests -> Join \cup {Idle}]
    BY <1>3, <2>2 DEF JoinStart, TypeOK
  <2> QED
    BY <1>3, <2>3 DEF JoinStart, TypeOK
<1>4. ASSUME NEW r \in Requests, JoinRead(r)
      PROVE  TypeOK'
  <2>1. req[r] \in Join
    BY <1>4, ActiveRequest DEF JoinRead
  <2>2. row[req[r].gb].version \in Nat
    BY <2>1 DEF Join, TypeOK, Row
  <2>3. [req[r] EXCEPT !.pc = "commit", !.seen = row[req[r].gb].version] \in Join
    BY <2>1, <2>2 DEF Join
  <2>4. req' \in [Requests -> Join \cup {Idle}]
    BY <1>4, <2>3 DEF JoinRead, TypeOK
  <2> QED
    BY <1>4, <2>4 DEF JoinRead, TypeOK
<1>5. ASSUME NEW r \in Requests, JoinLosesRace(r)
      PROVE  TypeOK'
  <2>1. req[r] \in Join
    BY <1>5, ActiveRequest DEF JoinLosesRace
  <2>2. ASSUME req[r].attempt < MaxRetries
        PROVE  [req[r] EXCEPT !.pc = "read", !.attempt = @ + 1, !.seen = 0] \in Join
    <3>1. req[r].attempt + 1 \in 1 .. MaxRetries
      BY <2>1, <2>2 DEF Join
    <3> QED
      BY <2>1, <3>1 DEF Join
  <2>3. req' \in [Requests -> Join \cup {Idle}]
    BY <1>5, <2>2 DEF JoinLosesRace, TypeOK
  <2> QED
    BY <1>5, <2>3 DEF JoinLosesRace, TypeOK
<1>6. ASSUME NEW r \in Requests, JoinRejected(r)
      PROVE  TypeOK'
  BY <1>6 DEF JoinRejected, TypeOK
<1>7. ASSUME NEW r \in Requests, JoinCommit(r)
      PROVE  TypeOK'
  <2> DEFINE g == req[r].gb
             u == req[r].user
             q == req[r].qty
  <2>1. req[r] \in Join
    BY <1>7, ActiveRequest DEF JoinCommit
  <2>2. /\ g \in GroupBuys
        /\ u \in Users
        /\ q \in Nat
        /\ req[r].seen \in Nat
        /\ row[g] \in Row
    BY <2>1 DEF Join, TypeOK
  <2>3. AfterJoin(row[g], q) \in Row
    BY <1>7, <2>2, AfterJoinType DEF JoinCommit
  <2>4. row' \in [GroupBuys -> Row]
    BY <1>7, <2>2, <2>3 DEF JoinCommit, TypeOK
  <2>5. quantity' \in [GroupBuys -> [Users -> Nat]]
    BY <1>7, <2>2 DEF JoinCommit, TypeOK
  <2>6. [req[r] EXCEPT !.pc = "notify"] \in Join
    BY <2>1 DEF Join
  <2>7. req' \in [Requests -> Join \cup {Idle}]
    BY <1>7, <2>6 DEF JoinCommit, TypeOK
  <2> QED
    BY <1>7, <2>4, <2>5, <2>7 DEF JoinCommit, TypeOK
<1>8. ASSUME NEW r \in Requests, JoinNotify(r)
      PROVE  TypeOK'
  <2>1. req[r].gb \in GroupBuys
    BY <1>8, ActiveRequest DEF JoinNotify, Join
  <2> QED
    BY <1>8, <2>1, NotesType DEF JoinNotify, TypeOK
<1>9. ASSUME NEW r \in Requests, JoinAbort(r)
      PROVE  TypeOK'
  BY <1>9 DEF JoinAbort, TypeOK
<1>10. CASE SweepList
  <2>1. sweep' \in [GroupBuys -> Targets \cup {"none"}]
    BY <1>10, SweepTargetType DEF SweepList
  <2> QED
    BY <1>10, <2>1 DEF SweepList, TypeOK
<1>11. ASSUME NEW g \in GroupBuys, SweepRow(g)
       PROVE  TypeOK'
  <2>1. /\ row[g] \in Row
        /\ sweep[g] \in Targets
    BY <1>11 DEF TypeOK, SweepRow
  <2>2. [row[g] EXCEPT !.status = sweep[g]] \in Row
    BY <2>1 DEF Row, Targets, Terminal
  <2>3. row' \in [GroupBuys -> Row]
    BY <1>11, <2>1, <2>2, AfterFailType DEF SweepRow, TypeOK
  <2>4. tell' \in (GroupBuys \X Targets) \cup {NothingToTell}
    BY <1>11, <2>1 DEF SweepRow, TypeOK
  <2> QED
    BY <1>11, <2>3, <2>4 DEF SweepRow, TypeOK
<1>12. CASE SweepNotify
  <2>1. /\ tell[1] \in GroupBuys
        /\ tell[2] \in Targets
    BY <1>12 DEF SweepNotify, TypeOK
  <2> QED
    BY <1>12, <2>1, NotesType DEF SweepNotify, TypeOK
<1>13. ASSUME NEW g \in GroupBuys, SweepRowError(g)
       PROVE  TypeOK'
  BY <1>13 DEF SweepRowError, TypeOK
<1>14. CASE Crash
  BY <1>14 DEF Crash, TypeOK
<1>15. ASSUME NEW u \in Users, DeleteUser(u)
       PROVE  TypeOK'
  <2>1. ASSUME NEW g \in GroupBuys
        PROVE  [row[g] EXCEPT !.organizer = None] \in Row
    <3>1. row[g] \in Row
      BY DEF TypeOK
    <3> QED
      BY <3>1 DEF Row
  <2>2. row' \in [GroupBuys -> Row]
    BY <1>15, <2>1 DEF DeleteUser, TypeOK
  <2>3. quantity' \in [GroupBuys -> [Users -> Nat]]
    BY <1>15 DEF DeleteUser, TypeOK
  <2> QED
    BY <1>15, <2>2, <2>3 DEF DeleteUser, TypeOK
<1>16. CASE UNCHANGED vars
  BY <1>16 DEF vars, TypeOK
<1> QED
  BY <1>1, <1>2, <1>3, <1>4, <1>5, <1>6, <1>7, <1>8, <1>9, <1>10, <1>11, <1>12, <1>13,
     <1>14, <1>15, <1>16 DEF Next

\* Every reachable state is well typed: remaining_slots never goes negative,
\* an active request always names a group buy and a user, the sweep only ever
\* holds one of its three targets.
THEOREM TypeCorrect == Spec => []TypeOK
<1>1. Init => TypeOK
  BY ConstantsAssumption DEF Init, TypeOK, NoRow, Row, Idle
<1>2. QED
  BY <1>1, TypeStep, PTL DEF Spec

-----------------------------------------------------------------------------
(* Counting seats.                                                         *)

\* The seats of a table without participants.
LEMMA NoSeats ==
    SeatsOf([u \in Users |-> 0]) = {}
  BY DEF SeatsOf

\* A new participant with q seats adds exactly q seats.
LEMMA SeatsAdded ==
    ASSUME NEW held \in [Users -> Nat], NEW u \in Users, held[u] = 0, NEW q \in Nat,
           IsFiniteSet(SeatsOf(held))
    PROVE  /\ IsFiniteSet(SeatsOf([held EXCEPT ![u] = q]))
           /\ Cardinality(SeatsOf([held EXCEPT ![u] = q])) = Cardinality(SeatsOf(held)) + q
<1> DEFINE more == [held EXCEPT ![u] = q]
           new  == {u} \X (1 .. q)
<1>1. SeatsOf(more) = SeatsOf(held) \cup new
  <2>1. \A v \in Users : more[v] = IF v = u THEN q ELSE held[v]
    OBVIOUS
  <2>2. 1 .. held[u] = {}
    OBVIOUS
  <2>3. ASSUME NEW s
        PROVE  s \in SeatsOf(more) <=> s \in SeatsOf(held) \cup new
    <3>1. s \in SeatsOf(more) <=> \E v \in Users : s \in {v} \X (1 .. more[v])
      BY DEF SeatsOf
    <3>2. s \in SeatsOf(held) <=> \E v \in Users : s \in {v} \X (1 .. held[v])
      BY DEF SeatsOf
    <3>3. s \notin {u} \X (1 .. held[u])
      BY <2>2
    <3> QED
      BY <2>1, <3>1, <3>2, <3>3
  <2> QED
    BY <2>3
<1>2. SeatsOf(held) \cap new = {}
  BY DEF SeatsOf
<1>3. /\ IsFiniteSet(new)
      /\ Cardinality(new) = q
  <2>1. IsFiniteSet(1 .. q) /\ Cardinality(1 .. q) = q
    <3>1. /\ IsFiniteSet(1 .. q)
          /\ Cardinality(1 .. q) = IF 1 > q THEN 0 ELSE q - 1 + 1
      <4>1. 1 \in Int /\ q \in Int
        OBVIOUS
      <4> QED
        BY <4>1, FS_Interval, Zenon
    <3>2. (IF 1 > q THEN 0 ELSE q - 1 + 1) = q
      OBVIOUS
    <3> QED
      BY <3>1, <3>2
  <2>2. IsFiniteSet({u}) /\ Cardinality({u}) = 1
    BY FS_Singleton
  <2>3. /\ IsFiniteSet({u} \X (1 .. q))
        /\ Cardinality({u} \X (1 .. q)) = Cardinality({u}) * Cardinality(1 .. q)
    BY <2>1, <2>2, FS_Product
  <2>4. 1 * q = q
    OBVIOUS
  <2> QED
    BY <2>1, <2>2, <2>3, <2>4
<1>4. Cardinality(SeatsOf(held)) \in Nat
  BY FS_CardinalityType
<1>5. Cardinality({}) = 0
  BY FS_EmptySet
<1> HIDE DEF more, new
<1>6. /\ IsFiniteSet(SeatsOf(held) \cup new)
      /\ Cardinality(SeatsOf(held) \cup new)
           = Cardinality(SeatsOf(held)) + Cardinality(new) - Cardinality(SeatsOf(held) \cap new)
  BY <1>3, FS_Union
<1>7. Cardinality(SeatsOf(held) \cap new) = 0
  BY <1>2, <1>5
<1>8. Cardinality(SeatsOf(held) \cup new) = Cardinality(SeatsOf(held)) + q
  BY <1>3, <1>4, <1>6, <1>7
<1> QED
  BY <1>1, <1>6, <1>8 DEF more

\* Deleting a participant only removes seats.
LEMMA SeatsDropped ==
    ASSUME NEW held \in [Users -> Nat], NEW u \in Users, IsFiniteSet(SeatsOf(held))
    PROVE  /\ IsFiniteSet(SeatsOf([held EXCEPT ![u] = 0]))
           /\ Cardinality(SeatsOf([held EXCEPT ![u] = 0])) <= Cardinality(SeatsOf(held))
<1>1. SeatsOf([held EXCEPT ![u] = 0]) \subseteq SeatsOf(held)
  <2>1. \A v \in Users : 1 .. [held EXCEPT ![u] = 0][v] \subseteq 1 .. held[v]
    OBVIOUS
  <2> QED
    BY <2>1 DEF SeatsOf
<1> QED
  BY <1>1, FS_Subset

-----------------------------------------------------------------------------
(* The inductive invariant.                                                *)

\* The seats of one group buy add up.
SeatsInv(g) ==
    /\ IsFiniteSet(Seats(g))
    /\ row[g].remaining <= row[g].capacity
    /\ Cardinality(Seats(g)) <= row[g].capacity
    /\ row[g].status # "failed" => Cardinality(Seats(g)) + row[g].remaining <= row[g].capacity
    /\ row[g].status # "failed" /\ alive = Users
          => Cardinality(Seats(g)) + row[g].remaining = row[g].capacity
    /\ row[g].status = "absent"
          => row[g].capacity = 0 /\ row[g].remaining = 0 /\ row[g].version = 0

\* The status of one group buy agrees with its seats.
StatusInv(g) ==
    /\ row[g].status = "open" => ~ThresholdMet(row[g])
    /\ row[g].status \in {"met", "finalized"} => ThresholdMet(row[g])

\* What the sweep still has on its list is live, and a row it means to finalize
\* has reached its threshold: seats only grow while a row is live.
ListInv(g) ==
    sweep[g] # "none" => /\ row[g].status \in Live
                         /\ sweep[g] = "finalized" => ThresholdMet(row[g])

\* What the organizer has been told, or is about to be told, is the outcome.
NoticeInv(g) ==
    /\ <<g, "failed">> \in notes \cup {tell} => row[g].status = "failed"
    /\ <<g, "finalized">> \in notes \cup {tell}
          => row[g].status \in {"finalized", "met"} /\ sweep[g] \in {"none", "finalized"}

\* The optimistic lock: if the version a join read is still the row's version,
\* the row has not been failed since.
FenceInv(r) ==
    req[r].pc = "commit" =>
        /\ req[r].seen <= row[req[r].gb].version
        /\ req[r].seen = row[req[r].gb].version
             => row[req[r].gb].status \notin {"failed", "absent"}

IInv == /\ TypeOK
        /\ \A g \in GroupBuys : SeatsInv(g) /\ StatusInv(g) /\ ListInv(g) /\ NoticeInv(g)
        /\ \A r \in Requests : FenceInv(r)

-----------------------------------------------------------------------------
(* What a step that leaves a row alone preserves.                          *)

\* Seats and status depend on the row, its participants and alive only.
LEMMA RowFrame ==
    ASSUME NEW g \in GroupBuys, SeatsInv(g), StatusInv(g),
           row'[g] = row[g], quantity'[g] = quantity[g], alive' = alive
    PROVE  SeatsInv(g)' /\ StatusInv(g)'
  BY DEF SeatsInv, StatusInv, Seats, ThresholdMet, Confirmed

\* Taking a row off the list, or leaving the list alone, keeps it truthful.
LEMMA ListFrame ==
    ASSUME NEW g \in GroupBuys, ListInv(g), row'[g] = row[g], sweep'[g] \in {sweep[g], "none"}
    PROVE  ListInv(g)'
  BY DEF ListInv, ThresholdMet, Confirmed

\* Forgetting notifications, or sending the pending one, keeps them truthful.
LEMMA NoticeFrame ==
    ASSUME NEW g \in GroupBuys, NoticeInv(g), row'[g] = row[g], sweep'[g] \in {sweep[g], "none"},
           notes' \cup {tell'} \subseteq notes \cup {tell, NothingToTell} \cup (GroupBuys \X {"threshold_met"})
    PROVE  NoticeInv(g)'
<1>1. /\ <<g, "failed">> # NothingToTell
      /\ <<g, "finalized">> # NothingToTell
      /\ <<g, "failed">> \notin GroupBuys \X {"threshold_met"}
      /\ <<g, "finalized">> \notin GroupBuys \X {"threshold_met"}
  BY DEF NothingToTell
<1> QED
  BY <1>1 DEF NoticeInv

\* The lock of a request that does not move survives every change of the row
\* that bumps the version or leaves a row that is neither failed nor absent.
LEMMA FenceFrame ==
    ASSUME TypeOK, TypeOK', NEW r \in Requests, FenceInv(r), req'[r] \in {req[r], Idle},
           \A g \in GroupBuys :
               \/ row'[g] = row[g]
               \/ row'[g].version > row[g].version
               \/ /\ row'[g].version = row[g].version
                  /\ \/ row'[g].status = row[g].status
                     \/ row'[g].status \notin {"failed", "absent"}
    PROVE  FenceInv(r)'
<1>1. CASE req'[r] = Idle
  BY <1>1 DEF FenceInv, Idle
<1>2. CASE req'[r] = req[r] /\ req[r].pc # "commit"
  BY <1>2 DEF FenceInv
<1>3. CASE req'[r] = req[r] /\ req[r].pc = "commit"
  <2>1. req[r] \in Join
    BY <1>3, ActiveRequest
  <2> DEFINE g == req[r].gb
  <2>2. g \in GroupBuys /\ req[r].seen \in Nat
    BY <2>1 DEF Join
  <2>3. row[g].version \in Nat /\ row'[g].version \in Nat
    BY <2>2 DEF TypeOK, Row
  <2>4. /\ req[r].seen <= row[g].version
        /\ req[r].seen = row[g].version => row[g].status \notin {"failed", "absent"}
    BY <1>3 DEF FenceInv
  <2>5. /\ req[r].seen <= row'[g].version
        /\ req[r].seen = row'[g].version => row'[g].status \notin {"failed", "absent"}
    BY <2>2, <2>3, <2>4
  <2> QED
    BY <1>3, <2>5 DEF FenceInv
<1> QED
  BY <1>1, <1>2, <1>3

\* The columns after a join, one by one.
LEMMA AfterJoinColumns ==
    ASSUME NEW rw \in Row, NEW q \in Nat
    PROVE  /\ AfterJoin(rw, q).capacity = rw.capacity
           /\ AfterJoin(rw, q).threshold = rw.threshold
           /\ AfterJoin(rw, q).remaining = rw.remaining - q
           /\ AfterJoin(rw, q).version = rw.version + 1
           /\ AfterJoin(rw, q).status = IF rw.capacity - (rw.remaining - q) >= rw.threshold
                                        THEN "met" ELSE rw.status
  BY DEF AfterJoin, Row

\* The columns after failing a row, one by one.
LEMMA AfterFailColumns ==
    ASSUME NEW rw \in Row
    PROVE  /\ AfterFail(rw).capacity = rw.capacity
           /\ AfterFail(rw).remaining = rw.capacity
           /\ AfterFail(rw).version = rw.version + 1
           /\ AfterFail(rw).status = "failed"
  BY DEF AfterFail, Row

-----------------------------------------------------------------------------
(* The steps that change a row.                                            *)

\* Creating a group buy establishes the invariant of its row.
LEMMA CreateStep ==
    ASSUME IInv, TypeOK', NEW g \in GroupBuys, NEW u \in Users, NEW c \in Capacities,
           NEW t \in Thresholds, Create(g, u, c, t)
    PROVE  IInv'
<1> USE ConstantsAssumption
<1>1. /\ c \in Nat \ {0}
      /\ Threshold(t) \in Nat \ {0}
  BY DEF Create, ValidGroupBuy, Threshold
<1>2. /\ row'[g].status = "open"
      /\ row'[g].capacity = c
      /\ row'[g].remaining = c
      /\ row'[g].version = 0
      /\ row'[g].threshold = Threshold(t)
  BY DEF Create, IInv, TypeOK
<1>3. /\ row[g].status = "absent"
      /\ SeatsInv(g)
      /\ ListInv(g)
      /\ NoticeInv(g)
  BY DEF Create, IInv
<1>4. Cardinality(Seats(g)) = 0 /\ IsFiniteSet(Seats(g))
  <2>1. IsFiniteSet(Seats(g)) /\ Cardinality(Seats(g)) <= 0
    BY <1>3 DEF SeatsInv
  <2>2. Cardinality(Seats(g)) \in Nat
    BY <2>1, FS_CardinalityType
  <2> QED
    BY <2>1, <2>2
<1>5. /\ quantity' = quantity
      /\ alive' = alive
      /\ sweep' = sweep
      /\ tell' = tell
      /\ notes' = notes
      /\ req' = req
  BY DEF Create
<1>6. SeatsInv(g)' /\ StatusInv(g)'
  <2>1. Seats(g)' = Seats(g)
    BY <1>5 DEF Seats
  <2> QED
    BY <1>1, <1>2, <1>4, <2>1 DEF SeatsInv, StatusInv, ThresholdMet, Confirmed
<1>7. ListInv(g)' /\ NoticeInv(g)'
  BY <1>2, <1>3, <1>5 DEF ListInv, NoticeInv, Live
<1>8. ASSUME NEW x \in GroupBuys, x # g
      PROVE  SeatsInv(x)' /\ StatusInv(x)' /\ ListInv(x)' /\ NoticeInv(x)'
  <2>1. row'[x] = row[x]
    BY <1>8 DEF Create, IInv, TypeOK
  <2> QED
    BY <1>5, <2>1, RowFrame, ListFrame, NoticeFrame DEF IInv
<1>9. ASSUME NEW r \in Requests
      PROVE  FenceInv(r)'
  <2>1. row[g].version = 0
    BY <1>3 DEF SeatsInv
  <2>2. \A x \in GroupBuys : row'[x] = row[x] \/ x = g
    BY DEF Create, IInv, TypeOK
  <2> QED
    BY <1>2, <1>5, <2>1, <2>2, FenceFrame DEF IInv
<1> QED
  BY <1>6, <1>7, <1>8, <1>9 DEF IInv

\* A join that commits takes its seats from a row that has not been failed.
LEMMA JoinCommitStep ==
    ASSUME IInv, TypeOK', NEW r \in Requests, JoinCommit(r)
    PROVE  IInv'
<1>1. PICK g \in GroupBuys, u \in Users, q \in Nat \ {0} :
         g = req[r].gb /\ u = req[r].user /\ q = req[r].qty
  <2>1. req[r] \in Join
    BY ActiveRequest DEF JoinCommit, IInv
  <2> QED
    BY <2>1 DEF Join
<1>2. /\ row[g] \in Row
      /\ quantity[g] \in [Users -> Nat]
  BY DEF IInv, TypeOK
<1>3. /\ row[g].version = req[r].seen
      /\ row[g].remaining >= q
      /\ quantity[g][u] = 0
      /\ row'[g] = AfterJoin(row[g], q)
      /\ quantity'[g] = [quantity[g] EXCEPT ![u] = q]
      /\ alive' = alive
      /\ sweep' = sweep
      /\ tell' = tell
      /\ notes' = notes
  BY <1>1 DEF JoinCommit, JoinMatches, IInv, TypeOK
<1>4. /\ SeatsInv(g)
      /\ StatusInv(g)
      /\ ListInv(g)
      /\ NoticeInv(g)
      /\ row[g].status \notin {"failed", "absent"}
  <2>1. FenceInv(r) /\ req[r].pc = "commit"
    BY DEF IInv, JoinCommit
  <2> QED
    BY <1>1, <1>3, <2>1 DEF IInv, FenceInv
<1>5. /\ row'[g].capacity = row[g].capacity
      /\ row'[g].threshold = row[g].threshold
      /\ row'[g].remaining = row[g].remaining - q
      /\ row'[g].version = row[g].version + 1
      /\ row'[g].status = IF row[g].capacity - (row[g].remaining - q) >= row[g].threshold
                           THEN "met" ELSE row[g].status
  BY <1>2, <1>3, AfterJoinColumns
<1>6. /\ row[g].capacity \in Nat
      /\ row[g].remaining \in Nat
      /\ row[g].threshold \in Nat
      /\ row[g].version \in Nat
  BY <1>2 DEF Row
<1>7. /\ IsFiniteSet(Seats(g)')
      /\ Cardinality(Seats(g)') = Cardinality(Seats(g)) + q
      /\ Cardinality(Seats(g)) \in Nat
  <2>1. IsFiniteSet(SeatsOf(quantity[g]))
    BY <1>4 DEF SeatsInv, Seats
  <2>2. /\ IsFiniteSet(SeatsOf([quantity[g] EXCEPT ![u] = q]))
        /\ Cardinality(SeatsOf([quantity[g] EXCEPT ![u] = q])) = Cardinality(SeatsOf(quantity[g])) + q
    BY <1>2, <1>3, <2>1, SeatsAdded
  <2>3. Cardinality(SeatsOf(quantity[g])) \in Nat
    BY <2>1, FS_CardinalityType
  <2> QED
    BY <1>3, <2>2, <2>3 DEF Seats
<1>8. SeatsInv(g)'
  BY <1>2, <1>3, <1>4, <1>5, <1>6, <1>7 DEF SeatsInv
<1>9. StatusInv(g)'
  BY <1>2, <1>4, <1>5, <1>6 DEF StatusInv, ThresholdMet, Confirmed
<1>10. ListInv(g)' /\ NoticeInv(g)'
  <2>1. row[g].status = "finalized" \/ row[g].status = "met" => row'[g].status = "met"
    BY <1>2, <1>4, <1>5, <1>6 DEF StatusInv, ThresholdMet, Confirmed
  <2>2. ThresholdMet(row[g]) => ThresholdMet(row'[g])
    BY <1>2, <1>5, <1>6 DEF ThresholdMet, Confirmed
  <2>3. row[g].status \in Live => row'[g].status \in Live
    BY <1>5 DEF Live
  <2> QED
    BY <1>3, <1>4, <2>1, <2>2, <2>3 DEF ListInv, NoticeInv
<1>11. ASSUME NEW x \in GroupBuys, x # g
       PROVE  SeatsInv(x)' /\ StatusInv(x)' /\ ListInv(x)' /\ NoticeInv(x)'
  <2>1. row'[x] = row[x] /\ quantity'[x] = quantity[x]
    BY <1>1, <1>11 DEF JoinCommit, IInv, TypeOK
  <2> QED
    BY <1>3, <2>1, RowFrame, ListFrame, NoticeFrame DEF IInv
<1>12. ASSUME NEW s \in Requests
       PROVE  FenceInv(s)'
  <2>1. CASE s = r
    <3>1. req'[r].pc # "commit"
      BY DEF JoinCommit, IInv, TypeOK, Idle
    <3> QED
      BY <2>1, <3>1 DEF FenceInv
  <2>2. CASE s # r
    <3>1. req'[s] = req[s]
      BY <2>2 DEF JoinCommit, IInv, TypeOK
    <3>2. \A x \in GroupBuys : row'[x] = row[x] \/ row'[x].version > row[x].version
      BY <1>1, <1>5, <1>6 DEF JoinCommit, IInv, TypeOK
    <3> QED
      BY <3>1, <3>2, FenceFrame DEF IInv
  <2> QED
    BY <2>1, <2>2
<1> QED
  BY <1>8, <1>9, <1>10, <1>11, <1>12 DEF IInv

\* Listing the due rows records a target that fits each of them.
LEMMA SweepListStep ==
    ASSUME IInv, TypeOK', SweepList
    PROVE  IInv'
<1>1. /\ row' = row
      /\ quantity' = quantity
      /\ alive' = alive
      /\ req' = req
      /\ notes' = notes
      /\ tell' = tell
      /\ tell = NothingToTell
  BY DEF SweepList, SweepIdle
<1>2. ASSUME NEW g \in GroupBuys
      PROVE  SeatsInv(g)' /\ StatusInv(g)' /\ ListInv(g)' /\ NoticeInv(g)'
  <2>1. SeatsInv(g)' /\ StatusInv(g)'
    BY <1>1, RowFrame DEF IInv
  <2>2. sweep'[g] = IF g \in Expiring THEN SweepTarget(row[g]) ELSE "none"
    BY DEF SweepList
  <2>3. g \in Expiring => row[g].status \in Live
    BY DEF Expiring
  <2>4. /\ SweepTarget(row[g]) = "finalized" => ThresholdMet(row[g])
        /\ ThresholdMet(row[g]) => SweepTarget(row[g]) = "finalized"
    BY DEF SweepTarget
  <2>5. ListInv(g)'
    BY <1>1, <2>2, <2>3, <2>4 DEF ListInv
  <2>6. NoticeInv(g)'
    <3>1. NoticeInv(g) /\ StatusInv(g)
      BY DEF IInv
    <3>2. row[g].status \in {"finalized", "met"} => sweep'[g] \in {"none", "finalized"}
      BY <2>2, <2>4, <3>1 DEF StatusInv
    <3> QED
      BY <1>1, <3>1, <3>2 DEF NoticeInv
  <2> QED
    BY <2>1, <2>5, <2>6
<1>3. ASSUME NEW r \in Requests
      PROVE  FenceInv(r)'
  BY <1>1, FenceFrame DEF IInv
<1> QED
  BY <1>2, <1>3 DEF IInv

\* Closing a row: it is still live, so a failed row is never overwritten, and a
\* failure bumps the version.
LEMMA SweepRowStep ==
    ASSUME IInv, TypeOK', NEW g \in GroupBuys, SweepRow(g)
    PROVE  IInv'
<1>1. /\ SeatsInv(g)
      /\ StatusInv(g)
      /\ ListInv(g)
      /\ NoticeInv(g)
      /\ row[g] \in Row
      /\ sweep[g] \in Targets
      /\ row[g].status \in Live
      /\ sweep[g] = "finalized" => ThresholdMet(row[g])
  BY DEF IInv, TypeOK, SweepRow, ListInv
<1>2. /\ quantity' = quantity
      /\ alive' = alive
      /\ req' = req
      /\ notes' = notes
      /\ tell = NothingToTell
      /\ tell' = <<g, sweep[g]>>
      /\ sweep'[g] = "none"
      /\ \A x \in GroupBuys : x # g => row'[x] = row[x] /\ sweep'[x] = sweep[x]
  BY <1>1 DEF SweepRow, IInv, TypeOK, FailMatches
<1>3. /\ row[g].capacity \in Nat
      /\ row[g].remaining \in Nat
      /\ row[g].version \in Nat
  BY <1>1 DEF Row
<1>4. IsFiniteSet(Seats(g)) /\ Seats(g)' = Seats(g) /\ Cardinality(Seats(g)) \in Nat
  BY <1>1, <1>2, FS_CardinalityType DEF SeatsInv, Seats
<1>5. /\ SeatsInv(g)' /\ StatusInv(g)' /\ ListInv(g)' /\ NoticeInv(g)'
      /\ \/ row'[g].version > row[g].version
         \/ /\ row'[g].version = row[g].version
            /\ row'[g].status \notin {"failed", "absent"}
  <2>1. CASE sweep[g] = "failed"
    <3>1. row'[g] = AfterFail(row[g])
      BY <1>1, <2>1 DEF SweepRow, FailMatches, IInv, TypeOK
    <3>2. /\ row'[g].capacity = row[g].capacity
          /\ row'[g].remaining = row[g].capacity
          /\ row'[g].version = row[g].version + 1
          /\ row'[g].status = "failed"
      BY <1>1, <3>1, AfterFailColumns
    <3>3. SeatsInv(g)' /\ StatusInv(g)'
      BY <1>1, <1>3, <1>4, <3>2 DEF SeatsInv, StatusInv
    <3>4. ListInv(g)'
      BY <1>2 DEF ListInv
    <3>5. NoticeInv(g)'
      <4>1. <<g, "finalized">> \notin notes
        BY <1>1, <2>1 DEF NoticeInv
      <4> QED
        BY <1>2, <2>1, <3>2, <4>1 DEF NoticeInv
    <3> QED
      BY <1>3, <3>2, <3>3, <3>4, <3>5
  <2>2. CASE sweep[g] # "failed"
    <3>1. row'[g] = [row[g] EXCEPT !.status = sweep[g]]
      BY <2>2 DEF SweepRow, IInv, TypeOK
    <3>2. /\ row'[g].capacity = row[g].capacity
          /\ row'[g].remaining = row[g].remaining
          /\ row'[g].threshold = row[g].threshold
          /\ row'[g].version = row[g].version
          /\ row'[g].status = sweep[g]
          /\ sweep[g] \in {"finalized", "expired"}
      BY <1>1, <2>2, <3>1 DEF Row, Targets
    <3>3. SeatsInv(g)'
      BY <1>1, <1>2, <1>4, <3>2 DEF SeatsInv, Live
    <3>4. StatusInv(g)'
      BY <1>1, <3>2 DEF StatusInv, ThresholdMet, Confirmed
    <3>5. ListInv(g)'
      BY <1>2 DEF ListInv
    <3>6. NoticeInv(g)'
      <4>1. <<g, "failed">> \notin notes
        BY <1>1 DEF NoticeInv, Live
      <4>2. <<g, "finalized">> \in notes => sweep[g] = "finalized"
        BY <1>1, <3>2 DEF NoticeInv
      <4> QED
        BY <1>2, <3>2, <4>1, <4>2 DEF NoticeInv
    <3> QED
      BY <3>2, <3>3, <3>4, <3>5, <3>6
  <2> QED
    BY <2>1, <2>2
<1>6. ASSUME NEW x \in GroupBuys, x # g
      PROVE  SeatsInv(x)' /\ StatusInv(x)' /\ ListInv(x)' /\ NoticeInv(x)'
  <2>1. SeatsInv(x)' /\ StatusInv(x)' /\ ListInv(x)'
    BY <1>2, <1>6, RowFrame, ListFrame DEF IInv
  <2>2. NoticeInv(x)'
    BY <1>2, <1>6 DEF IInv, NoticeInv
  <2> QED
    BY <2>1, <2>2
<1>7. ASSUME NEW r \in Requests
      PROVE  FenceInv(r)'
  BY <1>2, <1>5, FenceFrame DEF IInv
<1> QED
  BY <1>5, <1>6, <1>7 DEF IInv

\* Deleting a user only takes seats and notifications away.
LEMMA DeleteUserStep ==
    ASSUME IInv, TypeOK', NEW u \in Users, DeleteUser(u)
    PROVE  IInv'
<1>1. /\ alive' # Users
      /\ req' = req
      /\ sweep' = sweep
      /\ tell' = tell
      /\ notes' \subseteq notes
  BY DEF DeleteUser
<1>2. ASSUME NEW g \in GroupBuys
      PROVE  /\ SeatsInv(g)' /\ StatusInv(g)' /\ ListInv(g)' /\ NoticeInv(g)'
             /\ row'[g].version = row[g].version
             /\ row'[g].status = row[g].status
  <2>1. /\ row[g] \in Row
        /\ quantity[g] \in [Users -> Nat]
        /\ SeatsInv(g) /\ StatusInv(g) /\ ListInv(g) /\ NoticeInv(g)
    BY DEF IInv, TypeOK
  <2>2. /\ row'[g].capacity = row[g].capacity
        /\ row'[g].remaining = row[g].remaining
        /\ row'[g].threshold = row[g].threshold
        /\ row'[g].version = row[g].version
        /\ row'[g].status = row[g].status
    BY <2>1 DEF DeleteUser, Row
  <2>3. quantity'[g] = [quantity[g] EXCEPT ![u] = 0]
    BY DEF DeleteUser
  <2>4. IsFiniteSet(SeatsOf(quantity[g]))
    BY <2>1 DEF SeatsInv, Seats
  <2>5. /\ IsFiniteSet(Seats(g)')
        /\ Cardinality(Seats(g)') <= Cardinality(Seats(g))
    BY <2>1, <2>3, <2>4, SeatsDropped DEF Seats
  <2>6. Cardinality(Seats(g)) \in Nat /\ Cardinality(Seats(g)') \in Nat
    BY <2>4, <2>5, FS_CardinalityType DEF Seats
  <2>7. row[g].capacity \in Nat /\ row[g].remaining \in Nat
    BY <2>1 DEF Row
  <2>8. SeatsInv(g)'
    BY <1>1, <2>1, <2>2, <2>5, <2>6, <2>7 DEF SeatsInv
  <2>9. StatusInv(g)' /\ ListInv(g)'
    BY <1>1, <2>1, <2>2 DEF StatusInv, ListInv, ThresholdMet, Confirmed
  <2>10. NoticeInv(g)'
    BY <1>1, <2>1, <2>2 DEF NoticeInv
  <2> QED
    BY <2>2, <2>8, <2>9, <2>10
<1>3. ASSUME NEW r \in Requests
      PROVE  FenceInv(r)'
  BY <1>1, <1>2, FenceFrame DEF IInv
<1> QED
  BY <1>2, <1>3 DEF IInv

\* A step that changes neither rows nor participants nor users, takes rows off
\* the list at most, and tells organizers nothing new about the outcome.
LEMMA QuietStep ==
    ASSUME IInv, TypeOK', row' = row, quantity' = quantity, alive' = alive,
           \A g \in GroupBuys : sweep'[g] \in {sweep[g], "none"},
           notes' \cup {tell'} \subseteq notes \cup {tell, NothingToTell} \cup (GroupBuys \X {"threshold_met"}),
           \A r \in Requests : FenceInv(r)'
    PROVE  IInv'
  BY RowFrame, ListFrame, NoticeFrame DEF IInv

\* Every step preserves the inductive invariant.
LEMMA IInvStep == IInv /\ [Next]_vars => IInv'
<1> SUFFICES ASSUME IInv, [Next]_vars
             PROVE  IInv'
  OBVIOUS
<1>0. TypeOK /\ TypeOK'
  BY TypeStep DEF IInv
<1>1. ASSUME NEW g \in GroupBuys, NEW u \in Users, NEW c \in Capacities, NEW t \in Thresholds,
             Create(g, u, c, t)
      PROVE  IInv'
  BY <1>0, <1>1, CreateStep
<1>2. ASSUME NEW g \in GroupBuys, DeadlinePasses(g)
      PROVE  IInv'
  <2>1. \A r \in Requests : FenceInv(r)'
    BY <1>0, <1>2, FenceFrame DEF DeadlinePasses, IInv
  <2> QED
    BY <1>0, <1>2, <2>1, QuietStep DEF DeadlinePasses
<1>3. ASSUME NEW r \in Requests, NEW g \in GroupBuys, NEW u \in Users, NEW q \in Quantities,
             JoinStart(r, g, u, q)
      PROVE  IInv'
  <2>1. ASSUME NEW s \in Requests
        PROVE  FenceInv(s)'
    <3>1. req'[s] = req[s] \/ req'[s].pc = "read"
      BY <1>0, <1>3 DEF JoinStart, TypeOK
    <3>2. row' = row
      BY <1>3 DEF JoinStart
    <3> QED
      BY <1>0, <3>1, <3>2, FenceFrame DEF IInv, FenceInv
  <2> QED
    BY <1>0, <1>3, <2>1, QuietStep DEF JoinStart
<1>4. ASSUME NEW r \in Requests, JoinRead(r)
      PROVE  IInv'
  <2>1. ASSUME NEW s \in Requests
        PROVE  FenceInv(s)'
    <3>1. CASE s # r \/ ~JoinAllowed(req[r].gb, req[r].qty)
      <4>1. req'[s] \in {req[s], Idle} /\ row' = row
        BY <1>0, <1>4, <3>1 DEF JoinRead, TypeOK
      <4> QED
        BY <1>0, <4>1, FenceFrame DEF IInv
    <3>2. CASE s = r /\ JoinAllowed(req[r].gb, req[r].qty)
      <4>1. req[r] \in Join
        BY <1>0, <1>4, ActiveRequest DEF JoinRead
      <4>2. /\ req'[r].gb = req[r].gb
            /\ req'[r].seen = row[req[r].gb].version
            /\ row' = row
            /\ row[req[r].gb].status \in Live
        BY <1>0, <1>4, <3>2, <4>1 DEF JoinRead, JoinAllowed, TypeOK, Join
      <4>3. row[req[r].gb].version \in Nat
        BY <1>0, <4>1 DEF TypeOK, Join, Row
      <4> QED
        BY <3>2, <4>2, <4>3 DEF FenceInv, Live
    <3> QED
      BY <3>1, <3>2
  <2> QED
    BY <1>0, <1>4, <2>1, QuietStep DEF JoinRead
<1>5. ASSUME NEW r \in Requests, JoinLosesRace(r)
      PROVE  IInv'
  <2>1. ASSUME NEW s \in Requests
        PROVE  FenceInv(s)'
    <3>1. req[r] \in Join
      BY <1>0, <1>5, ActiveRequest DEF JoinLosesRace
    <3>2. req'[s] \in {req[s], Idle} \/ req'[s].pc = "read"
      BY <1>0, <1>5, <3>1 DEF JoinLosesRace, TypeOK, Join
    <3>3. row' = row
      BY <1>5 DEF JoinLosesRace
    <3> QED
      BY <1>0, <3>2, <3>3, FenceFrame DEF IInv, FenceInv
  <2> QED
    BY <1>0, <1>5, <2>1, QuietStep DEF JoinLosesRace
<1>6. ASSUME NEW r \in Requests, JoinRejected(r)
      PROVE  IInv'
  <2>1. \A s \in Requests : FenceInv(s)'
    <3>1. row' = row /\ \A s \in Requests : req'[s] \in {req[s], Idle}
      BY <1>0, <1>6 DEF JoinRejected, TypeOK
    <3> QED
      BY <1>0, <3>1, FenceFrame DEF IInv
  <2> QED
    BY <1>0, <1>6, <2>1, QuietStep DEF JoinRejected
<1>7. ASSUME NEW r \in Requests, JoinCommit(r)
      PROVE  IInv'
  BY <1>0, <1>7, JoinCommitStep
<1>8. ASSUME NEW r \in Requests, JoinNotify(r)
      PROVE  IInv'
  <2>1. \A s \in Requests : FenceInv(s)'
    <3>1. row' = row /\ \A s \in Requests : req'[s] \in {req[s], Idle}
      BY <1>0, <1>8 DEF JoinNotify, TypeOK
    <3> QED
      BY <1>0, <3>1, FenceFrame DEF IInv
  <2>2. req[r].gb \in GroupBuys
    BY <1>0, <1>8, ActiveRequest DEF JoinNotify, Join
  <2>3. notes' \subseteq notes \cup (GroupBuys \X {"threshold_met"})
    BY <1>8, <2>2 DEF JoinNotify, Notes
  <2> QED
    BY <1>0, <1>8, <2>1, <2>3, QuietStep DEF JoinNotify
<1>9. ASSUME NEW r \in Requests, JoinAbort(r)
      PROVE  IInv'
  <2>1. \A s \in Requests : FenceInv(s)'
    <3>1. row' = row /\ \A s \in Requests : req'[s] \in {req[s], Idle}
      BY <1>0, <1>9 DEF JoinAbort, TypeOK
    <3> QED
      BY <1>0, <3>1, FenceFrame DEF IInv
  <2> QED
    BY <1>0, <1>9, <2>1, QuietStep DEF JoinAbort
<1>10. CASE SweepList
  BY <1>0, <1>10, SweepListStep
<1>11. ASSUME NEW g \in GroupBuys, SweepRow(g)
       PROVE  IInv'
  BY <1>0, <1>11, SweepRowStep
<1>12. CASE SweepNotify
  <2>1. \A s \in Requests : FenceInv(s)'
    BY <1>0, <1>12, FenceFrame DEF SweepNotify, IInv
  <2>2. tell = <<tell[1], tell[2]>>
    BY <1>0, <1>12 DEF SweepNotify, TypeOK
  <2>3. notes' \subseteq notes \cup {tell} /\ tell' = NothingToTell
    BY <1>12, <2>2 DEF SweepNotify, Notes
  <2> QED
    BY <1>0, <1>12, <2>1, <2>3, QuietStep DEF SweepNotify
<1>13. ASSUME NEW g \in GroupBuys, SweepRowError(g)
       PROVE  IInv'
  <2>1. \A s \in Requests : FenceInv(s)'
    BY <1>0, <1>13, FenceFrame DEF SweepRowError, IInv
  <2>2. \A x \in GroupBuys : sweep'[x] \in {sweep[x], "none"}
    BY <1>0, <1>13 DEF SweepRowError, TypeOK
  <2> QED
    BY <1>0, <1>13, <2>1, <2>2, QuietStep DEF SweepRowError
<1>14. CASE Crash
  <2>1. \A s \in Requests : FenceInv(s)'
    <3>1. \A s \in Requests : req'[s] = Idle
      BY <1>14 DEF Crash
    <3> QED
      BY <3>1 DEF FenceInv, Idle
  <2>2. \A x \in GroupBuys : sweep'[x] \in {sweep[x], "none"}
    BY <1>14 DEF Crash
  <2> QED
    BY <1>0, <1>14, <2>1, <2>2, QuietStep DEF Crash
<1>15. ASSUME NEW u \in Users, DeleteUser(u)
       PROVE  IInv'
  BY <1>0, <1>15, DeleteUserStep
<1>16. CASE UNCHANGED vars
  <2>1. \A s \in Requests : FenceInv(s)'
    BY <1>0, <1>16, FenceFrame DEF vars, IInv
  <2> QED
    BY <1>0, <1>16, <2>1, QuietStep DEF vars
<1> QED
  BY <1>1, <1>2, <1>3, <1>4, <1>5, <1>6, <1>7, <1>8, <1>9, <1>10, <1>11, <1>12, <1>13,
     <1>14, <1>15, <1>16 DEF Next

\* The inductive invariant holds in the initial states.
LEMMA IInvInit == Init => IInv
<1> SUFFICES ASSUME Init
             PROVE  IInv
  OBVIOUS
<1>1. TypeOK
  BY ConstantsAssumption DEF Init, TypeOK, NoRow, Row, Idle
<1>2. ASSUME NEW g \in GroupBuys
      PROVE  SeatsInv(g) /\ StatusInv(g) /\ ListInv(g) /\ NoticeInv(g)
  <2>1. Seats(g) = {}
    BY NoSeats DEF Init, Seats
  <2>2. IsFiniteSet(Seats(g)) /\ Cardinality(Seats(g)) = 0
    BY <2>1, FS_EmptySet
  <2>3. SeatsInv(g) /\ StatusInv(g) /\ ListInv(g)
    BY <2>2 DEF Init, NoRow, SeatsInv, StatusInv, ListInv
  <2>4. NoticeInv(g)
    BY DEF Init, NoticeInv, NothingToTell
  <2> QED
    BY <2>3, <2>4
<1>3. \A r \in Requests : FenceInv(r)
  BY DEF Init, Idle, FenceInv
<1> QED
  BY <1>1, <1>2, <1>3 DEF IInv

-----------------------------------------------------------------------------
(* Theorems.                                                               *)

\* The inductive invariant holds in every reachable state.
THEOREM Inductive == Spec => []IInv
  BY IInvInit, IInvStep, PTL DEF Spec

\* "Oversell is impossible": no interleaving of joins, retries, sweeps, crashes
\* and deletions hands out more seats than the capacity.
THEOREM Oversell == Spec => []NoOversell
<1>1. IInv => NoOversell
  BY DEF IInv, SeatsInv, NoOversell
<1> QED
  BY <1>1, Inductive, PTL

\* Seats handed out and remaining_slots add up to the capacity until the slots
\* of a failed group buy are released.
THEOREM Accounting == Spec => []SeatsAccounted
<1>1. IInv => SeatsAccounted
  BY DEF IInv, SeatsInv, SeatsAccounted
<1> QED
  BY <1>1, Inductive, PTL

\* An open group buy is below its threshold, a met or finalized one reached it.
THEOREM HonestStatus == Spec => []StatusHonest
<1>1. IInv => StatusHonest
  BY DEF IInv, StatusInv, StatusHonest
<1> QED
  BY <1>1, Inductive, PTL

\* The outcome an organizer is told stays the outcome.
THEOREM TruthfulNotices == Spec => []NoticesTruthful
<1>1. IInv => NoticesTruthful
  BY DEF IInv, NoticeInv, NoticesTruthful
<1> QED
  BY <1>1, Inductive, PTL

\* No step sells into or re-opens a failed group buy: a join that read the row
\* before it failed finds another version.
THEOREM FailedForever == Spec => FailedIsFinal
<1> DEFINE Kept(g) == row[g].status = "failed" =>
               /\ row'[g].status = "failed"
               /\ row'[g].remaining = row[g].remaining
               /\ \A u \in Users : quantity'[g][u] <= quantity[g][u]
<1>1. ASSUME IInv, [Next]_vars, NEW g \in GroupBuys
      PROVE  Kept(g)
  <2> SUFFICES ASSUME row[g].status = "failed"
               PROVE  /\ row'[g].status = "failed"
                      /\ row'[g].remaining = row[g].remaining
                      /\ \A u \in Users : quantity'[g][u] <= quantity[g][u]
    OBVIOUS
  <2>1. /\ quantity[g] \in [Users -> Nat]
        /\ row[g] \in Row
        /\ sweep[g] = "none"
    BY <1>1 DEF IInv, TypeOK, ListInv, Live
  <2>2. ASSUME row'[g] = row[g], quantity'[g] = quantity[g]
        PROVE  Kept(g)
    BY <2>1, <2>2
  <2>3. ASSUME NEW x \in GroupBuys, NEW u \in Users, NEW c \in Capacities, NEW t \in Thresholds,
               Create(x, u, c, t)
        PROVE  Kept(g)
    BY <1>1, <2>2, <2>3 DEF Create, IInv, TypeOK
  <2>4. ASSUME NEW r \in Requests, JoinCommit(r)
        PROVE  Kept(g)
    <3>1. req[r] \in Join /\ FenceInv(r)
      BY <1>1, <2>4, ActiveRequest DEF JoinCommit, IInv
    <3>2. req[r].gb # g
      BY <2>4, <3>1 DEF JoinCommit, JoinMatches, FenceInv
    <3> QED
      BY <1>1, <2>2, <2>4, <3>1, <3>2 DEF JoinCommit, Join, IInv, TypeOK
  <2>5. ASSUME NEW x \in GroupBuys, SweepRow(x)
        PROVE  Kept(g)
    <3>1. x # g
      BY <2>1, <2>5 DEF SweepRow
    <3> QED
      BY <1>1, <2>2, <2>5, <3>1 DEF SweepRow, IInv, TypeOK
  <2>6. ASSUME NEW u \in Users, DeleteUser(u)
        PROVE  Kept(g)
    <3>1. /\ row'[g].status = row[g].status
          /\ row'[g].remaining = row[g].remaining
      BY <2>1, <2>6 DEF DeleteUser, Row
    <3>2. quantity'[g] = [quantity[g] EXCEPT ![u] = 0]
      BY <2>6 DEF DeleteUser
    <3>3. \A v \in Users : quantity'[g][v] <= quantity[g][v]
      BY <2>1, <3>2
    <3> QED
      BY <3>1, <3>3
  <2>7. CASE row' = row /\ quantity' = quantity
    BY <2>2, <2>7
  <2> QED
    BY <1>1, <2>3, <2>4, <2>5, <2>6, <2>7
       DEF Next, vars, DeadlinePasses, JoinStart, JoinRead, JoinLosesRace, JoinRejected,
           JoinNotify, JoinAbort, SweepList, SweepNotify, SweepRowError, Crash
<1>2. IInv /\ [Next]_vars => [\A g \in GroupBuys : Kept(g)]_vars
  BY <1>1
<1> QED
  BY <1>2, Inductive, PTL DEF Spec, FailedIsFinal
=============================================================================
