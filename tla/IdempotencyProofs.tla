------------------------- MODULE IdempotencyProofs -------------------------
(***************************************************************************)
(* At-most-once execution and a single answer per slot, for any number of  *)
(* slots, requests, bodies and answers and any bound on panics and faults. *)
(*                                                                         *)
(* The argument: a slot has at most one owner, and while it has one the    *)
(* row is the owner's reservation.  What may have happened under the slot  *)
(* then follows from the row and from where the owner is: nothing before   *)
(* the reservation, at most one effect more than panics afterwards, and no *)
(* answer other than the owner's or the stored one.                        *)
(***************************************************************************)
EXTENDS Idempotency, TLAPS

Owning == {"handler", "committed", "complete", "release"}

\* An owner holds the row it reserved, and nobody else owns the slot.
Owned(r) ==
    req[r].pc \in Owning =>
        /\ row[req[r].slot].status = "pending"
        /\ row[req[r].slot].hash = req[r].body
        /\ \A s \in Requests : req[s].pc \in Owning /\ req[s].slot = req[r].slot => s = r

\* What can have happened under a slot, by the state of its row.
RowHistory(k) ==
    /\ row[k].status = "absent" => effects[k] <= panics[k] /\ replies[k] = {}
    /\ row[k].status # "absent" => effects[k] <= 1 + panics[k]
    /\ row[k].status = "completed" => replies[k] \subseteq {<<row[k].hash, row[k].answer>>}
    /\ \A x, y \in replies[k] : x = y

\* And by the progress of its owner.
Progress(r) ==
    /\ req[r].pc \in {"handler", "release"} => effects[req[r].slot] <= panics[req[r].slot]
    /\ req[r].pc \in {"handler", "committed", "release"} => replies[req[r].slot] = {}
    /\ req[r].pc = "complete" => /\ req[r].answer \in Answers
                                 /\ replies[req[r].slot] \subseteq {<<req[r].body, req[r].answer>>}

OwnerInv == \A r \in Requests : Owned(r)
RowInv == \A k \in Slots : RowHistory(k)
ProgressInv == \A r \in Requests : Progress(r)

\* Without faults every reservation still has its owner.
OrphanInv ==
    faults = 0 => \A k \in Slots : row[k].status = "pending" =>
        \E r \in Requests : req[r].slot = k /\ req[r].pc \in Owning

IInv == TypeOK /\ OwnerInv /\ RowInv /\ ProgressInv /\ OrphanInv

-----------------------------------------------------------------------------
(* Types.                                                                  *)

\* A request that is not idle serves a slot and a body (the record its goroutine
\* keeps on the stack).
LEMMA ActiveRequest ==
    ASSUME TypeOK, NEW r \in Requests, req[r].pc # "idle"
    PROVE  /\ req[r] \in Request
           /\ req[r].slot \in Slots
           /\ req[r].body \in Bodies
           /\ row[req[r].slot] \in {NoRow} \cup Pending \cup Completed
  BY DEF TypeOK, Idle, Request

\* Complete and ReleasePending leave well-formed rows.
LEMMA StatementType ==
    ASSUME NEW rw \in {NoRow} \cup Pending \cup Completed, NEW a \in Answers, NEW b \in Bodies
    PROVE  /\ AfterComplete(rw, a) \in {NoRow} \cup Pending \cup Completed
           /\ AfterRelease(rw) \in {NoRow} \cup Pending \cup Completed
           /\ Reservation(b) \in Pending
  <1>1. AfterComplete(rw, a) \in {NoRow} \cup Pending \cup Completed
    <2>1. CASE rw \in Pending
      <3>1. AfterComplete(rw, a) = [rw EXCEPT !.status = "completed", !.answer = a]
        BY <2>1 DEF AfterComplete, Pending
      <3>2. [rw EXCEPT !.status = "completed", !.answer = a] \in Completed
        BY <2>1 DEF Pending, Completed
      <3>3. QED BY <3>1, <3>2
    <2>2. CASE rw \in {NoRow} \cup Completed
      BY <2>2 DEF AfterComplete, NoRow, Completed
    <2>3. QED BY <2>1, <2>2
  <1>2. AfterRelease(rw) \in {NoRow} \cup Pending \cup Completed
    BY DEF AfterRelease
  <1>3. Reservation(b) \in Pending
    BY DEF Reservation, Pending, Ages
  <1>4. QED BY <1>1, <1>2, <1>3

\* Every step of the middleware and every failure keeps the types; Complete needs
\* to know that its request carries an answer.
LEMMA TypeStep ==
    ASSUME TypeOK, ProgressInv, [Next]_vars
    PROVE  TypeOK'
  <1>1. CASE UNCHANGED vars
    BY <1>1 DEF TypeOK, vars
  <1>2. ASSUME NEW r \in Requests, NEW k \in Slots, NEW b \in Bodies, Begin(r, k, b)
        PROVE  TypeOK'
    <2>1. row[k].age \in Ages
      BY DEF TypeOK, NoRow, Pending, Completed, Ages
    <2>2. QED BY <1>2, <2>1 DEF Begin, Goto, TypeOK, Request
  <1>3. ASSUME NEW r \in Requests, Reserve(r)
        PROVE  TypeOK'
    <2>1. req[r] \in Request /\ Reservation(req[r].body) \in Pending
      BY <1>3, ActiveRequest DEF Reserve, Reservation, Pending, Ages
    <2>2. QED BY <1>3, <2>1 DEF Reserve, Goto, TypeOK, Request
  <1>4. ASSUME NEW r \in Requests, Lookup(r)
        PROVE  TypeOK'
    <2>1. /\ req[r] \in Request
          /\ Verdict(req[r].slot, req[r].body) = "replay" => row[req[r].slot].answer \in Answers
      BY <1>4, ActiveRequest DEF Lookup, Verdict, NoRow, Pending, Completed
    <2>2. QED BY <1>4, <2>1 DEF Lookup, Goto, TypeOK, Request
  <1>5. ASSUME NEW r \in Requests, HandlerCommit(r)
        PROVE  TypeOK'
    <2>1. req[r] \in Request
      BY <1>5, ActiveRequest DEF HandlerCommit
    <2>2. QED BY <1>5, <2>1 DEF HandlerCommit, Goto, TypeOK, Request
  <1>6. ASSUME NEW r \in Requests, HandlerPanic(r)
        PROVE  TypeOK'
    <2>1. req[r] \in Request
      BY <1>6, ActiveRequest DEF HandlerPanic
    <2>2. QED BY <1>6, <2>1 DEF HandlerPanic, Goto, TypeOK, Request
  <1>7. ASSUME NEW r \in Requests, Complete(r)
        PROVE  TypeOK'
    <2>1. /\ req[r] \in Request
          /\ AfterComplete(row[req[r].slot], req[r].answer) \in {NoRow} \cup Pending \cup Completed
      BY <1>7, ActiveRequest, StatementType DEF Complete, ProgressInv, Progress
    <2>2. QED BY <1>7, <2>1 DEF Complete, Goto, TypeOK, Request
  <1>8. ASSUME NEW r \in Requests, ReleasePending(r)
        PROVE  TypeOK'
    <2>1. /\ req[r] \in Request
          /\ AfterRelease(row[req[r].slot]) \in {NoRow} \cup Pending \cup Completed
      BY <1>8, ActiveRequest DEF ReleasePending, AfterRelease
    <2>2. QED BY <1>8, <2>1 DEF ReleasePending, Goto, TypeOK, Request
  <1>9. ASSUME NEW r \in Requests, ReserveError(r)
        PROVE  TypeOK'
    <2>1. req[r] \in Request /\ Reservation(req[r].body) \in Pending
      BY <1>9, ActiveRequest DEF ReserveError, Reservation, Pending, Ages
    <2>2. QED BY <1>9, <2>1 DEF ReserveError, Goto, TypeOK, Request
  <1>10. ASSUME NEW r \in Requests, StatementError(r)
        PROVE  TypeOK'
    <2>1. req[r] \in Request
      BY <1>10, ActiveRequest DEF StatementError
    <2>2. QED BY <1>10, <2>1 DEF StatementError, Goto, TypeOK, Request
  <1>11. ASSUME NEW r \in Requests, NEW a \in Answers, HandlerReturn(r, a)
        PROVE  TypeOK'
    <2>1. req[r] \in Request
      BY <1>11, ActiveRequest DEF HandlerReturn
    <2>2. [req[r] EXCEPT !.pc = "complete", !.answer = a] \in Request
      BY <2>1 DEF Request
    <2>3. replies[req[r].slot] \cup {<<req[r].body, a>>} \in SUBSET (Bodies \X Answers)
      BY <2>1 DEF TypeOK, Request
    <2>4. req' \in [Requests -> {Idle} \cup Request]
      BY <1>11, <2>2 DEF HandlerReturn, Goto, TypeOK
    <2>5. replies' \in [Slots -> SUBSET (Bodies \X Answers)]
      BY <1>11, <2>1, <2>3 DEF HandlerReturn, TypeOK, Request
    <2>6. QED BY <1>11, <2>4, <2>5 DEF HandlerReturn, TypeOK
  <1>12. CASE Crash
    BY <1>12 DEF Crash, TypeOK
  <1>13. ASSUME NEW k \in Slots, TTLPasses(k)
         PROVE  TypeOK'
    <2>1. [row[k] EXCEPT !.age = "expired"] \in Pending \cup Completed
      BY <1>13 DEF TTLPasses, TypeOK, NoRow, Pending, Completed, Ages
    <2>2. row' = [row EXCEPT ![k] = [row[k] EXCEPT !.age = "expired"]]
      BY <1>13 DEF TTLPasses, TypeOK
    <2>3. QED BY <1>13, <2>1, <2>2 DEF TTLPasses, TypeOK
  <1>14. QED
    BY <1>1, <1>2, <1>3, <1>4, <1>5, <1>6, <1>7, <1>8, <1>9, <1>10, <1>11, <1>12, <1>13 DEF Next

-----------------------------------------------------------------------------
(* The steps of a request that has not reserved, or only reads.            *)

\* A step that leaves the tables' history alone and takes no ownership keeps the
\* invariant: other requests stay where they are, r goes to a state outside the
\* reservation.  "lost" steps give up a reservation and are faults.
LEMMA QuietStep ==
    ASSUME IInv, NEW r \in Requests, TypeOK',
           UNCHANGED <<row, effects, panics>>,
           \A s \in Requests : s # r => req'[s] = req[s],
           req'[r].pc \notin Owning,
           req[r].pc \in Owning => faults' # 0,
           faults' = 0 => faults = 0,
           \/ UNCHANGED replies
           \/ /\ row[req[r].slot].status = "completed"
              /\ req[r].slot \in Slots
              /\ replies' = [replies EXCEPT ![req[r].slot] =
                    @ \cup {<<row[req[r].slot].hash, row[req[r].slot].answer>>}]
    PROVE  IInv'
  <1> USE DEF IInv
  <1>1. OwnerInv'
    BY DEF OwnerInv, Owned
  <1>2. ASSUME NEW k \in Slots
        PROVE  \/ replies'[k] = replies[k]
               \/ /\ row[k].status = "completed"
                  /\ replies'[k] \subseteq {<<row[k].hash, row[k].answer>>}
    BY DEF RowInv, RowHistory, TypeOK
  <1>3. RowInv'
    BY <1>2 DEF RowInv, RowHistory
  <1>4. ProgressInv'
    <2>1. ASSUME NEW s \in Requests, s # r, req[s].pc \in Owning
          PROVE  Progress(s)'
      <3>1. req[s].slot \in Slots /\ row[req[s].slot].status = "pending"
        BY <2>1, ActiveRequest DEF OwnerInv, Owned, Owning
      <3>2. replies'[req[s].slot] = replies[req[s].slot] /\ req'[s] = req[s]
        BY <2>1, <3>1, <1>2
      <3>3. QED BY <3>1, <3>2 DEF ProgressInv, Progress
    <2>2. ASSUME NEW s \in Requests, s = r \/ req[s].pc \notin Owning
          PROVE  Progress(s)'
      BY <2>2 DEF Progress, Owning
    <2>3. QED BY <2>1, <2>2 DEF ProgressInv
  <1>5. OrphanInv'
    BY DEF OrphanInv
  <1>6. QED BY <1>1, <1>3, <1>4, <1>5

-----------------------------------------------------------------------------
(* The steps of an owner.                                                  *)

\* A step of request r that touches only the slot k it owns, owned or will own
\* keeps the invariant if it does so at k and at r.
LEMMA OwnerStep ==
    ASSUME IInv, TypeOK', NEW r \in Requests, NEW k \in Slots,
           \A s \in Requests : s # r => req'[s] = req[s],
           \A j \in Slots : j # k => /\ row'[j] = row[j]
                                    /\ effects'[j] = effects[j]
                                    /\ panics'[j] = panics[j]
                                    /\ replies'[j] = replies[j],
           \A s \in Requests : req[s].pc \in Owning /\ req[s].slot = k => s = r,
           req[r].pc \in Owning => req[r].slot = k,
           req'[r].pc \in Owning => /\ req'[r].slot = k
                                    /\ row'[k].status = "pending"
                                    /\ row'[k].hash = req'[r].body,
           RowHistory(k)', Progress(r)',
           faults' = 0 => faults = 0,
           faults' = 0 /\ row'[k].status = "pending" => req'[r].pc \in Owning
    PROVE  IInv'
  <1> USE DEF IInv
  <1>1. ASSUME NEW s \in Requests, s # r, req[s].pc \in Owning
        PROVE  req[s].slot \in Slots /\ req[s].slot # k
    BY <1>1, ActiveRequest DEF Owning
  <1>2. OwnerInv'
    BY <1>1 DEF OwnerInv, Owned
  <1>3. RowInv'
    <2>1. ASSUME NEW j \in Slots, j # k
          PROVE  RowHistory(j)'
      BY <2>1 DEF RowInv, RowHistory
    <2>2. QED BY <2>1 DEF RowInv
  <1>4. ProgressInv'
    <2>1. ASSUME NEW s \in Requests, s # r
          PROVE  Progress(s)'
      <3>1. CASE req[s].pc \in Owning
        BY <2>1, <3>1, <1>1 DEF ProgressInv, Progress
      <3>2. CASE req[s].pc \notin Owning
        BY <2>1, <3>2 DEF Progress, Owning
      <3>3. QED BY <3>1, <3>2
    <2>2. QED BY <2>1 DEF ProgressInv
  <1>5. OrphanInv'
    <2> SUFFICES ASSUME faults' = 0, NEW j \in Slots, row'[j].status = "pending"
                 PROVE  \E s \in Requests : req'[s].slot = j /\ req'[s].pc \in Owning
      BY DEF OrphanInv
    <2>1. CASE j = k
      BY <2>1
    <2>2. CASE j # k
      <3>1. PICK s \in Requests : req[s].slot = j /\ req[s].pc \in Owning
        BY <2>2 DEF OrphanInv
      <3>2. s # r
        BY <2>2, <3>1
      <3>3. QED BY <3>1, <3>2
    <2>3. QED BY <2>1, <2>2
  <1>6. QED BY <1>2, <1>3, <1>4, <1>5

\* An owner is the only one of its slot.
LEMMA OnlyOwner ==
    ASSUME IInv, NEW r \in Requests, req[r].pc \in Owning
    PROVE  /\ req[r] \in Request
           /\ req[r].slot \in Slots
           /\ row[req[r].slot].status = "pending"
           /\ row[req[r].slot].hash = req[r].body
           /\ \A s \in Requests : req[s].pc \in Owning /\ req[s].slot = req[r].slot => s = r
  <1>1. req[r].pc # "idle"
    BY DEF Owning
  <1>2. QED BY <1>1, ActiveRequest DEF IInv, OwnerInv, Owned

\* Reserve's INSERT takes a free slot, whose history allows another run.
LEMMA ReserveStep ==
    ASSUME IInv, TypeOK', NEW r \in Requests, Reserve(r)
    PROVE  IInv'
  <1>1. req[r] \in Request /\ req[r].slot \in Slots /\ req[r].pc \notin Owning
    BY ActiveRequest DEF Reserve, IInv, Owning
  <1>2. CASE Free(req[r].slot)
    <2>1. PICK k \in Slots : k = req[r].slot
      BY <1>1
    <2>2. row[k].status = "absent"
      BY <1>2, <2>1 DEF Free
    <2>3. \A s \in Requests : req[s].pc \in Owning /\ req[s].slot = k => s = r
      BY <2>2 DEF IInv, OwnerInv, Owned
    <2>4. /\ row' = [row EXCEPT ![k] = Reservation(req[r].body)]
          /\ req' = [req EXCEPT ![r] = [req[r] EXCEPT !.pc = "handler"]]
          /\ UNCHANGED <<effects, panics, replies, faults>>
      BY <1>2, <2>1 DEF Reserve, Goto
    <2>5. /\ row'[k].status = "pending" /\ row'[k].hash = req[r].body
          /\ req'[r].pc = "handler" /\ req'[r].slot = k /\ req'[r].body = req[r].body
      BY <1>1, <2>1, <2>4 DEF IInv, TypeOK, Reservation, Request
    <2>6. effects[k] <= panics[k] /\ replies[k] = {} /\ effects[k] \in Nat /\ panics[k] \in Nat
      BY <2>2 DEF IInv, RowInv, RowHistory, TypeOK
    <2>7. RowHistory(k)' /\ Progress(r)'
      BY <2>4, <2>5, <2>6 DEF RowHistory, Progress
    <2>8. \A j \in Slots : j # k => row'[j] = row[j]
      BY <2>4 DEF IInv, TypeOK
    <2>9. \A s \in Requests : s # r => req'[s] = req[s]
      BY <2>4 DEF IInv, TypeOK
    <2>10. QED BY <1>1, <2>1, <2>3, <2>4, <2>5, <2>7, <2>8, <2>9, OwnerStep DEF Owning
  <1>3. CASE ~Free(req[r].slot)
    <2>1. /\ UNCHANGED <<row, effects, panics, replies, faults>>
          /\ req' = [req EXCEPT ![r] = [req[r] EXCEPT !.pc = "lookup"]]
      BY <1>3 DEF Reserve, Goto
    <2>2. req'[r].pc = "lookup" /\ \A s \in Requests : s # r => req'[s] = req[s]
      BY <1>1, <2>1 DEF IInv, TypeOK, Request
    <2>3. QED BY <1>1, <2>1, <2>2, QuietStep DEF Owning
  <1>4. QED BY <1>2, <1>3

\* The handler's commit is the one effect the reservation allows.
LEMMA HandlerCommitStep ==
    ASSUME IInv, TypeOK', NEW r \in Requests, HandlerCommit(r)
    PROVE  IInv'
  <1>1. /\ req[r] \in Request /\ row[req[r].slot].status = "pending"
        /\ row[req[r].slot].hash = req[r].body
        /\ \A s \in Requests : req[s].pc \in Owning /\ req[s].slot = req[r].slot => s = r
    BY OnlyOwner DEF HandlerCommit, Owning
  <1>2. PICK k \in Slots : k = req[r].slot
    BY <1>1 DEF Request
  <1>3. /\ effects[k] \in Nat /\ panics[k] \in Nat
        /\ RowHistory(k) /\ Progress(r)
    BY DEF IInv, TypeOK, RowInv, ProgressInv
  <1>4. /\ effects' = [effects EXCEPT ![k] = @ + 1]
        /\ req' = [req EXCEPT ![r] = [req[r] EXCEPT !.pc = "committed"]]
        /\ UNCHANGED <<row, panics, replies, faults>>
    BY <1>2 DEF HandlerCommit, Goto
  <1>5. /\ req'[r].pc = "committed" /\ req'[r].slot = k /\ req'[r].body = req[r].body
        /\ effects'[k] = effects[k] + 1
        /\ \A s \in Requests : s # r => req'[s] = req[s]
        /\ \A j \in Slots : j # k => effects'[j] = effects[j]
    BY <1>1, <1>2, <1>4 DEF IInv, TypeOK, Request
  <1>6. effects[k] <= panics[k] /\ replies[k] = {}
    BY <1>2, <1>3 DEF HandlerCommit, Progress
  <1>7. RowHistory(k)' /\ Progress(r)'
    BY <1>1, <1>2, <1>3, <1>4, <1>5, <1>6 DEF RowHistory, Progress
  <1>8. QED BY <1>1, <1>2, <1>4, <1>5, <1>7, OwnerStep DEF Owning

\* The handler's answer is the first under its slot.
LEMMA HandlerReturnStep ==
    ASSUME IInv, TypeOK', NEW r \in Requests, NEW a \in Answers, HandlerReturn(r, a)
    PROVE  IInv'
  <1>1. /\ req[r] \in Request /\ row[req[r].slot].status = "pending"
        /\ row[req[r].slot].hash = req[r].body
        /\ \A s \in Requests : req[s].pc \in Owning /\ req[s].slot = req[r].slot => s = r
    BY OnlyOwner DEF HandlerReturn, Owning
  <1>2. PICK k \in Slots : k = req[r].slot
    BY <1>1 DEF Request
  <1>3. /\ effects[k] \in Nat /\ panics[k] \in Nat
        /\ RowHistory(k) /\ Progress(r)
    BY DEF IInv, TypeOK, RowInv, ProgressInv
  <1>4. /\ replies' = [replies EXCEPT ![k] = @ \cup {<<req[r].body, a>>}]
        /\ req' = [req EXCEPT ![r] = [req[r] EXCEPT !.pc = "complete", !.answer = a]]
        /\ UNCHANGED <<row, effects, panics, faults>>
    BY <1>2 DEF HandlerReturn, Goto
  <1>5. /\ req'[r].pc = "complete" /\ req'[r].slot = k
        /\ req'[r].body = req[r].body /\ req'[r].answer = a
        /\ \A s \in Requests : s # r => req'[s] = req[s]
    BY <1>1, <1>2, <1>4 DEF IInv, TypeOK, Request
  <1>6. replies[k] = {}
    BY <1>2, <1>3 DEF HandlerReturn, Progress
  <1>7. /\ replies'[k] = {<<req[r].body, a>>}
        /\ \A j \in Slots : j # k => replies'[j] = replies[j]
    BY <1>4, <1>6 DEF IInv, TypeOK
  <1>8. RowHistory(k)' /\ Progress(r)'
    BY <1>1, <1>2, <1>3, <1>4, <1>5, <1>7 DEF RowHistory, Progress
  <1>9. QED BY <1>1, <1>2, <1>4, <1>5, <1>7, <1>8, OwnerStep DEF Owning

\* A panic pays for the effect its handler may have committed.
LEMMA HandlerPanicStep ==
    ASSUME IInv, TypeOK', NEW r \in Requests, HandlerPanic(r)
    PROVE  IInv'
  <1>1. /\ req[r] \in Request /\ row[req[r].slot].status = "pending"
        /\ row[req[r].slot].hash = req[r].body
        /\ \A s \in Requests : req[s].pc \in Owning /\ req[s].slot = req[r].slot => s = r
    BY OnlyOwner DEF HandlerPanic, Owning
  <1>2. PICK k \in Slots : k = req[r].slot
    BY <1>1 DEF Request
  <1>3. /\ effects[k] \in Nat /\ panics[k] \in Nat
        /\ RowHistory(k) /\ Progress(r)
    BY DEF IInv, TypeOK, RowInv, ProgressInv
  <1>4. /\ panics' = [panics EXCEPT ![k] = @ + 1]
        /\ req' = [req EXCEPT ![r] = [req[r] EXCEPT !.pc = "release"]]
        /\ UNCHANGED <<row, effects, replies, faults>>
    BY <1>2 DEF HandlerPanic, Goto
  <1>5. /\ req'[r].pc = "release" /\ req'[r].slot = k /\ req'[r].body = req[r].body
        /\ panics'[k] = panics[k] + 1
        /\ \A s \in Requests : s # r => req'[s] = req[s]
        /\ \A j \in Slots : j # k => panics'[j] = panics[j]
    BY <1>1, <1>2, <1>4 DEF IInv, TypeOK, Request
  <1>6. replies[k] = {}
    BY <1>2, <1>3 DEF HandlerPanic, Progress
  <1>7. RowHistory(k)' /\ Progress(r)'
    BY <1>1, <1>2, <1>3, <1>4, <1>5, <1>6 DEF RowHistory, Progress
  <1>8. QED BY <1>1, <1>2, <1>4, <1>5, <1>7, OwnerStep DEF Owning

\* Complete stores the answer the client got.
LEMMA CompleteStep ==
    ASSUME IInv, TypeOK', NEW r \in Requests, Complete(r)
    PROVE  IInv'
  <1>1. /\ req[r] \in Request /\ row[req[r].slot].status = "pending"
        /\ row[req[r].slot].hash = req[r].body
        /\ \A s \in Requests : req[s].pc \in Owning /\ req[s].slot = req[r].slot => s = r
    BY OnlyOwner DEF Complete, Owning
  <1>2. PICK k \in Slots : k = req[r].slot
    BY <1>1 DEF Request
  <1>3. /\ effects[k] \in Nat /\ panics[k] \in Nat
        /\ RowHistory(k) /\ Progress(r)
    BY DEF IInv, TypeOK, RowInv, ProgressInv
  <1>4. /\ row' = [row EXCEPT ![k] = AfterComplete(row[k], req[r].answer)]
        /\ req' = [req EXCEPT ![r] = Idle]
        /\ UNCHANGED <<effects, panics, replies, faults>>
    BY <1>2 DEF Complete, Goto
  <1>5. row[k] \in Pending
    BY <1>1, <1>2 DEF IInv, TypeOK, NoRow, Completed
  <1>6. /\ AfterComplete(row[k], req[r].answer).status = "completed"
        /\ AfterComplete(row[k], req[r].answer).hash = req[r].body
        /\ AfterComplete(row[k], req[r].answer).answer = req[r].answer
    BY <1>1, <1>2, <1>5 DEF AfterComplete, Pending
  <1>7. /\ row'[k] = AfterComplete(row[k], req[r].answer)
        /\ req'[r].pc = "idle"
        /\ \A s \in Requests : s # r => req'[s] = req[s]
        /\ \A j \in Slots : j # k => row'[j] = row[j]
    BY <1>4 DEF IInv, TypeOK, Idle
  <1>8. replies[k] \subseteq {<<req[r].body, req[r].answer>>}
    BY <1>2, <1>3 DEF Complete, Progress
  <1>9. RowHistory(k)' /\ Progress(r)'
    BY <1>1, <1>2, <1>3, <1>4, <1>6, <1>7, <1>8 DEF RowHistory, Progress
  <1>10. QED BY <1>1, <1>2, <1>4, <1>6, <1>7, <1>9, OwnerStep DEF Owning

\* ReleasePending frees a slot under which nothing happened that no panic covers.
LEMMA ReleaseStep ==
    ASSUME IInv, TypeOK', NEW r \in Requests, ReleasePending(r)
    PROVE  IInv'
  <1>1. /\ req[r] \in Request /\ row[req[r].slot].status = "pending"
        /\ row[req[r].slot].hash = req[r].body
        /\ \A s \in Requests : req[s].pc \in Owning /\ req[s].slot = req[r].slot => s = r
    BY OnlyOwner DEF ReleasePending, Owning
  <1>2. PICK k \in Slots : k = req[r].slot
    BY <1>1 DEF Request
  <1>3. /\ effects[k] \in Nat /\ panics[k] \in Nat
        /\ RowHistory(k) /\ Progress(r)
    BY DEF IInv, TypeOK, RowInv, ProgressInv
  <1>4. /\ row' = [row EXCEPT ![k] = NoRow]
        /\ req' = [req EXCEPT ![r] = Idle]
        /\ UNCHANGED <<effects, panics, replies, faults>>
    BY <1>1, <1>2 DEF ReleasePending, Goto, AfterRelease
  <1>5. /\ row'[k].status = "absent"
        /\ req'[r].pc = "idle"
        /\ \A s \in Requests : s # r => req'[s] = req[s]
        /\ \A j \in Slots : j # k => row'[j] = row[j]
    BY <1>4 DEF IInv, TypeOK, Idle, NoRow
  <1>6. effects[k] <= panics[k] /\ replies[k] = {}
    BY <1>2, <1>3 DEF ReleasePending, Progress
  <1>7. RowHistory(k)' /\ Progress(r)'
    BY <1>3, <1>4, <1>5, <1>6 DEF RowHistory, Progress
  <1>8. QED BY <1>1, <1>2, <1>4, <1>5, <1>7, OwnerStep DEF Owning

-----------------------------------------------------------------------------
(* Arrivals, replays and failures.                                         *)

\* A request that arrives owns nothing yet.
LEMMA BeginStep ==
    ASSUME IInv, TypeOK', NEW r \in Requests, NEW k \in Slots, NEW b \in Bodies, Begin(r, k, b)
    PROVE  IInv'
  <1>1. /\ req'[r].pc = "insert" /\ req[r].pc \notin Owning
        /\ \A s \in Requests : s # r => req'[s] = req[s]
        /\ UNCHANGED <<row, effects, panics, replies, faults>>
    BY DEF Begin, Goto, IInv, TypeOK, Owning
  <1>2. QED BY <1>1, QuietStep DEF Owning

\* A replay repeats the stored answer, to a request with the stored hash.
LEMMA LookupStep ==
    ASSUME IInv, TypeOK', NEW r \in Requests, Lookup(r)
    PROVE  IInv'
  <1>1. /\ req'[r].pc = "idle" /\ req[r].pc \notin Owning
        /\ \A s \in Requests : s # r => req'[s] = req[s]
        /\ UNCHANGED <<row, effects, panics, faults>>
    BY DEF Lookup, Goto, IInv, TypeOK, Owning, Idle
  <1>2. /\ req[r].slot \in Slots
        /\ row[req[r].slot] \in {NoRow} \cup Pending \cup Completed
    BY ActiveRequest DEF Lookup, IInv
  <1>3. CASE Verdict(req[r].slot, req[r].body) = "replay"
    <2>1. row[req[r].slot].status = "completed" /\ row[req[r].slot].hash = req[r].body
      BY <1>2, <1>3 DEF Verdict, NoRow, Pending, Completed
    <2>2. replies' = [replies EXCEPT ![req[r].slot] =
                        @ \cup {<<row[req[r].slot].hash, row[req[r].slot].answer>>}]
      BY <1>3, <2>1 DEF Lookup
    <2>3. QED BY <1>1, <1>2, <2>1, <2>2, QuietStep DEF Owning
  <1>4. CASE Verdict(req[r].slot, req[r].body) # "replay"
    BY <1>1, <1>4, QuietStep DEF Owning, Lookup
  <1>5. QED BY <1>3, <1>4

\* A reservation that nobody learns of leaves an orphan, which is a fault.
LEMMA ReserveErrorStep ==
    ASSUME IInv, TypeOK', NEW r \in Requests, ReserveError(r)
    PROVE  IInv'
  <1>1. /\ req'[r].pc = "idle" /\ req[r].pc \notin Owning
        /\ \A s \in Requests : s # r => req'[s] = req[s]
        /\ UNCHANGED <<effects, panics, replies>>
        /\ faults' # 0
    BY DEF ReserveError, Goto, IInv, TypeOK, Owning, Idle
  <1>2. CASE UNCHANGED row
    BY <1>1, <1>2, QuietStep DEF Owning
  <1>3. CASE /\ Free(req[r].slot)
             /\ row' = [row EXCEPT ![req[r].slot] = Reservation(req[r].body)]
    <2>1. PICK k \in Slots : k = req[r].slot
      BY ActiveRequest DEF ReserveError, IInv
    <2>2. row[k].status = "absent"
      BY <1>3, <2>1 DEF Free
    <2>3. \A s \in Requests : req[s].pc \in Owning /\ req[s].slot = k => s = r
      BY <2>2 DEF IInv, OwnerInv, Owned
    <2>4. /\ row'[k].status = "pending"
          /\ \A j \in Slots : j # k => row'[j] = row[j]
      BY <1>3, <2>1 DEF IInv, TypeOK, Reservation
    <2>5. effects[k] <= panics[k] /\ replies[k] = {} /\ effects[k] \in Nat /\ panics[k] \in Nat
      BY <2>2 DEF IInv, RowInv, RowHistory, TypeOK
    <2>6. RowHistory(k)' /\ Progress(r)'
      BY <1>1, <2>4, <2>5 DEF RowHistory, Progress
    <2>7. QED BY <1>1, <2>1, <2>3, <2>4, <2>6, OwnerStep DEF Owning
  <1>4. QED BY <1>2, <1>3 DEF ReserveError

\* A failed statement changes nothing but the request that ran it.
LEMMA StatementErrorStep ==
    ASSUME IInv, TypeOK', NEW r \in Requests, StatementError(r)
    PROVE  IInv'
  <1>1. /\ req'[r].pc = "idle"
        /\ \A s \in Requests : s # r => req'[s] = req[s]
        /\ UNCHANGED <<row, effects, panics, replies>>
        /\ faults' # 0
    BY DEF StatementError, Goto, IInv, TypeOK, Idle
  <1>2. QED BY <1>1, QuietStep DEF Owning

\* After a crash nobody owns anything, and the rows say what had happened.
LEMMA CrashStep ==
    ASSUME IInv, TypeOK', Crash
    PROVE  IInv'
  <1>1. /\ \A r \in Requests : req'[r].pc = "idle"
        /\ UNCHANGED <<row, effects, panics, replies>>
        /\ faults' # 0
    BY DEF Crash, Idle, IInv, TypeOK
  <1>2. OwnerInv' /\ ProgressInv'
    BY <1>1 DEF OwnerInv, Owned, Owning, ProgressInv, Progress
  <1>3. RowInv'
    BY <1>1 DEF IInv, RowInv, RowHistory
  <1>4. OrphanInv'
    BY <1>1 DEF OrphanInv
  <1>5. QED BY <1>2, <1>3, <1>4 DEF IInv

\* The TTL only marks the row.
LEMMA TTLStep ==
    ASSUME IInv, TypeOK', NEW k \in Slots, TTLPasses(k)
    PROVE  IInv'
  <1>1. /\ \A j \in Slots : /\ row'[j].status = row[j].status
                            /\ row'[j].hash = row[j].hash
                            /\ row'[j].answer = row[j].answer
        /\ UNCHANGED <<req, effects, panics, replies, faults>>
    BY DEF TTLPasses, IInv, TypeOK, NoRow, Pending, Completed
  <1>2. ASSUME NEW r \in Requests, req[r].pc \in Owning
        PROVE  req[r].slot \in Slots
    BY <1>2, OnlyOwner
  <1>3. OwnerInv' /\ ProgressInv'
    BY <1>1, <1>2 DEF IInv, OwnerInv, Owned, ProgressInv, Progress
  <1>4. RowInv'
    BY <1>1 DEF IInv, RowInv, RowHistory
  <1>5. OrphanInv'
    BY <1>1 DEF IInv, OrphanInv
  <1>6. QED BY <1>3, <1>4, <1>5 DEF IInv

-----------------------------------------------------------------------------
(* The theorems.                                                           *)

\* Every step of the middleware keeps the invariant.
LEMMA IInvStep ==
    ASSUME IInv, [Next]_vars
    PROVE  IInv'
  <1>1. TypeOK'
    BY TypeStep DEF IInv
  <1>2. CASE UNCHANGED vars
    BY <1>2 DEF vars, IInv, TypeOK, OwnerInv, Owned, RowInv, RowHistory, ProgressInv, Progress, OrphanInv
  <1>3. CASE Next
    BY <1>1, <1>3, BeginStep, ReserveStep, LookupStep, HandlerCommitStep, HandlerReturnStep,
       HandlerPanicStep, CompleteStep, ReleaseStep, ReserveErrorStep, StatementErrorStep,
       CrashStep, TTLStep DEF Next
  <1>4. QED BY <1>2, <1>3

\* An empty table satisfies it.
LEMMA IInvInit ==
    ASSUME Init
    PROVE  IInv
  <1>1. TypeOK
    BY DEF Init, TypeOK
  <1>2. OwnerInv /\ ProgressInv
    BY DEF Init, Idle, OwnerInv, Owned, Owning, ProgressInv, Progress
  <1>3. RowInv
    BY DEF Init, NoRow, RowInv, RowHistory
  <1>4. OrphanInv
    BY DEF Init, NoRow, OrphanInv
  <1>5. QED BY <1>1, <1>2, <1>3, <1>4 DEF IInv

\* The inductive invariant holds in every reachable state of the middleware.
THEOREM Inductive == Spec => []IInv
  <1>1. Init => IInv
    BY IInvInit
  <1>2. IInv /\ [Next]_vars => IInv'
    BY IInvStep
  <1>3. QED BY <1>1, <1>2, PTL DEF Spec

\* Rows and requests keep their types: a completed row has its response.
THEOREM TypeCorrect == Spec => []TypeOK
  <1>1. IInv => TypeOK
    BY DEF IInv
  <1>2. QED BY <1>1, Inductive, PTL

\* The middleware's at-most-once guarantee, up to one more run per panic.
THEOREM EffectAtMostOnce == Spec => []AtMostOnce
  <1>1. IInv => AtMostOnce
    <2> SUFFICES ASSUME IInv, NEW k \in Slots
                 PROVE  effects[k] <= 1 + panics[k]
      BY DEF AtMostOnce
    <2>1. effects[k] \in Nat /\ panics[k] \in Nat /\ RowHistory(k)
      BY DEF IInv, TypeOK, RowInv
    <2>2. QED BY <2>1 DEF RowHistory
  <1>2. QED BY <1>1, Inductive, PTL

\* All requests under a slot that get an answer get the same one.
THEOREM OneAnswer == Spec => []SameAnswer
  <1>1. IInv => SameAnswer
    BY DEF IInv, RowInv, RowHistory, SameAnswer
  <1>2. QED BY <1>1, Inductive, PTL

\* Without faults a slot in flight has an owner that will settle it.
THEOREM OwnedInFlight == Spec => []NoOrphan
  <1>1. IInv => NoOrphan
    BY DEF IInv, OrphanInv, NoOrphan, Owners, Owning
  <1>2. QED BY <1>1, Inductive, PTL

\* A stored response stays: Reserve takes free slots only, and Complete and
\* ReleasePending find a pending row or none.
THEOREM AnswerForever == Spec => AnswerKept
  <1>1. ASSUME IInv, [Next]_vars, NEW k \in Slots, row[k].status = "completed"
        PROVE  /\ row'[k].status = "completed"
               /\ row'[k].hash = row[k].hash
               /\ row'[k].answer = row[k].answer
    <2>1. CASE UNCHANGED row
      BY <1>1, <2>1
    <2>2. ASSUME NEW r \in Requests, NEW rw, Free(req[r].slot), row' = [row EXCEPT ![req[r].slot] = rw]
          PROVE  row'[k] = row[k]
      BY <1>1, <2>2 DEF Free, IInv, TypeOK
    <2>3. ASSUME NEW r \in Requests, NEW rw, req[r].pc \in Owning,
                 row' = [row EXCEPT ![req[r].slot] = rw]
          PROVE  row'[k] = row[k]
      BY <1>1, <2>3, OnlyOwner DEF IInv, TypeOK
    <2>4. ASSUME NEW j \in Slots, TTLPasses(j)
          PROVE  /\ row'[k].status = row[k].status
                 /\ row'[k].hash = row[k].hash
                 /\ row'[k].answer = row[k].answer
      BY <1>1, <2>4 DEF TTLPasses, IInv, TypeOK, NoRow, Pending, Completed
    <2>5. ASSUME NEW r \in Requests, Reserve(r) \/ ReserveError(r)
          PROVE  row'[k] = row[k]
      BY <2>1, <2>2, <2>5 DEF Reserve, ReserveError
    <2>6. ASSUME NEW r \in Requests, Complete(r) \/ ReleasePending(r)
          PROVE  row'[k] = row[k]
      BY <2>3, <2>6 DEF Complete, ReleasePending, Owning
    <2>7. CASE Next /\ row' # row
      BY <1>1, <2>4, <2>5, <2>6, <2>7
         DEF Next, Begin, Lookup, HandlerCommit, HandlerReturn, HandlerPanic, StatementError, Crash
    <2>8. QED BY <1>1, <2>1, <2>7 DEF vars
  <1>2. IInv /\ [Next]_vars => [\A k \in Slots : row[k].status = "completed" =>
                                   /\ row'[k].status = "completed"
                                   /\ row'[k].hash = row[k].hash
                                   /\ row'[k].answer = row[k].answer]_vars
    BY <1>1
  <1>3. QED BY <1>2, Inductive, PTL DEF Spec, AnswerKept
=============================================================================
