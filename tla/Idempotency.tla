---------------------------- MODULE Idempotency ----------------------------
(***************************************************************************)
(* The Idempotency-Key middleware and its table: reserve a slot, run the   *)
(* handler, store its answer, replay it.  A slot is one (user_id, key)     *)
(* pair, anonymous callers sharing the NULL user; the two partial unique   *)
(* indexes make it unique.  A body stands for the hash of method, path and *)
(* body.  The handler behind the middleware is any of the side-effecting   *)
(* handlers: it commits its effect at most once per run, answers, or       *)
(* panics before or after the commit.                                      *)
(***************************************************************************)
EXTENDS Integers, FiniteSets

CONSTANTS
    Slots,      \* (user_id, key) pairs
    Requests,   \* goroutines that serve requests with the header
    Bodies,     \* request hashes
    Answers,    \* responses a handler may give
    MaxPanics,  \* bound on handler panics per slot
    MaxFaults,  \* bound on failed statements and process crashes
    None

ASSUME IdempotencyAssumption ==
    /\ MaxPanics \in Nat
    /\ MaxFaults \in Nat
    /\ None \notin Slots \cup Bodies \cup Answers

VARIABLES
    row,      \* idempotency_keys
    req,      \* the state of each request
    effects,  \* history: side effects handlers committed under each slot
    panics,   \* history: handler panics under each slot
    replies,  \* history: <<body, answer>> pairs clients received per slot
    faults    \* history: failed statements and crashes so far

vars == <<row, req, effects, panics, replies, faults>>

\* Whether the clock has passed a row's expires_at.
Ages == {"fresh", "expired"}

NoRow == [status |-> "absent", hash |-> None, answer |-> None, age |-> "fresh"]

\* Rows: a reservation has no answer yet, a completed row has one.
Pending == [status : {"pending"}, hash : Bodies, answer : {None}, age : Ages]
Completed == [status : {"completed"}, hash : Bodies, answer : Answers, age : Ages]

\* A request: about to INSERT its reservation, to SELECT the row that was in
\* the way, in the handler before or after its commit, or about to run Complete
\* or ReleasePending.  "began" is the age
\* of the row when the request began.
Request == [pc : {"insert", "lookup", "handler", "committed", "complete", "release"},
            slot : Slots, body : Bodies, answer : Answers \cup {None}, began : Ages]

Idle == [pc |-> "idle", slot |-> None, body |-> None, answer |-> None, began |-> "fresh"]

\* The requests that won a reservation and have not settled it.
Owners(k) == {r \in Requests : /\ req[r].slot = k
                               /\ req[r].pc \in {"handler", "committed", "complete", "release"}}

-----------------------------------------------------------------------------
(* Plausible faults of the operators defined below, for checking that the  *)
(* properties notice; no specification uses them.                          *)

\* A reservation that takes over one still in flight.
FreePending(k) == row[k].status # "completed"

\* A reservation that takes over any row past its TTL.
FreeExpired(k) == row[k].status = "absent" \/ row[k].age = "expired"

\* A lookup that never compares hashes.
VerdictAnyBody(k, b) == CASE row[k].status = "absent"  -> "failed"
                          [] row[k].status = "pending" -> "in_flight"
                          [] OTHER                     -> "replay"

\* A Complete that loses the response it captured.
AfterCompleteEmpty(rw, a) == [rw EXCEPT !.status = "completed"]

\* A ReleasePending that matches no row.
AfterReleaseKept(rw) == rw

-----------------------------------------------------------------------------
(* The statements.                                                         *)

\* INSERT ... ON CONFLICT DO NOTHING succeeds; expires_at plays no part.
Free(k) == row[k].status = "absent"

Reservation(b) == [status |-> "pending", hash |-> b, answer |-> None, age |-> "fresh"]

\* Reserve's reading of the row in its way, and what the middleware makes of it.
Verdict(k, b) == CASE row[k].status = "absent"  -> "failed"
                   [] row[k].hash # b           -> "mismatch"
                   [] row[k].status = "pending" -> "in_flight"
                   [] OTHER                     -> "replay"

\* Complete's UPDATE, which matches a pending row only.
AfterComplete(rw, a) == IF rw.status = "pending"
                        THEN [rw EXCEPT !.status = "completed", !.answer = a] ELSE rw

\* ReleasePending's DELETE, which matches a pending row only.
AfterRelease(rw) == IF rw.status = "pending" THEN NoRow ELSE rw

-----------------------------------------------------------------------------
Init ==
    /\ row = [k \in Slots |-> NoRow]
    /\ req = [r \in Requests |-> Idle]
    /\ effects = [k \in Slots |-> 0]
    /\ panics = [k \in Slots |-> 0]
    /\ replies = [k \in Slots |-> {}]
    /\ faults = 0

Goto(r, rec) == req' = [req EXCEPT ![r] = rec]

\* A request with the header reaches the middleware.
Begin(r, k, b) ==
    /\ req[r].pc = "idle"
    /\ Goto(r, [pc |-> "insert", slot |-> k, body |-> b, answer |-> None, began |-> row[k].age])
    /\ UNCHANGED <<row, effects, panics, replies, faults>>

\* Reserve's INSERT.
Reserve(r) ==
    LET k == req[r].slot
    IN  /\ req[r].pc = "insert"
        /\ IF Free(k)
           THEN /\ row' = [row EXCEPT ![k] = Reservation(req[r].body)]
                /\ Goto(r, [req[r] EXCEPT !.pc = "handler"])
           ELSE /\ Goto(r, [req[r] EXCEPT !.pc = "lookup"])
                /\ UNCHANGED row
        /\ UNCHANGED <<effects, panics, replies, faults>>

\* Reserve's SELECT and the answer: replay the stored bytes, 409, or 500 when
\* the row has gone meanwhile.
Lookup(r) ==
    LET k == req[r].slot
    IN  /\ req[r].pc = "lookup"
        /\ replies' = IF Verdict(k, req[r].body) = "replay"
                      THEN [replies EXCEPT ![k] = @ \cup {<<req[r].body, row[k].answer>>}]
                      ELSE replies
        /\ Goto(r, Idle)
        /\ UNCHANGED <<row, effects, panics, faults>>

\* The handler's own transaction commits.
HandlerCommit(r) ==
    /\ req[r].pc = "handler"
    /\ effects' = [effects EXCEPT ![req[r].slot] = @ + 1]
    /\ Goto(r, [req[r] EXCEPT !.pc = "committed"])
    /\ UNCHANGED <<row, panics, replies, faults>>

\* The handler returns normally, with or without an effect; captureWriter has
\* passed its response on to the client.
HandlerReturn(r, a) ==
    /\ req[r].pc \in {"handler", "committed"}
    /\ replies' = [replies EXCEPT ![req[r].slot] = @ \cup {<<req[r].body, a>>}]
    /\ Goto(r, [req[r] EXCEPT !.pc = "complete", !.answer = a])
    /\ UNCHANGED <<row, effects, panics, faults>>

\* The handler panics; the deferred function is about to release the slot.
HandlerPanic(r) ==
    /\ req[r].pc \in {"handler", "committed"}
    /\ panics[req[r].slot] < MaxPanics
    /\ panics' = [panics EXCEPT ![req[r].slot] = @ + 1]
    /\ Goto(r, [req[r] EXCEPT !.pc = "release"])
    /\ UNCHANGED <<row, effects, replies, faults>>

Complete(r) ==
    /\ req[r].pc = "complete"
    /\ row' = [row EXCEPT ![req[r].slot] = AfterComplete(@, req[r].answer)]
    /\ Goto(r, Idle)
    /\ UNCHANGED <<effects, panics, replies, faults>>

ReleasePending(r) ==
    /\ req[r].pc = "release"
    /\ row' = [row EXCEPT ![req[r].slot] = AfterRelease(@)]
    /\ Goto(r, Idle)
    /\ UNCHANGED <<effects, panics, replies, faults>>

-----------------------------------------------------------------------------
(* Failures.                                                               *)

\* Reserve's INSERT reports an error (the client went away, the connection
\* dropped); the statement may have committed all the same.
ReserveError(r) ==
    /\ faults < MaxFaults
    /\ req[r].pc = "insert"
    /\ \/ UNCHANGED row
       \/ /\ Free(req[r].slot)
          /\ row' = [row EXCEPT ![req[r].slot] = Reservation(req[r].body)]
    /\ Goto(r, Idle)
    /\ faults' = faults + 1
    /\ UNCHANGED <<effects, panics, replies>>

\* The SELECT, Complete or ReleasePending fails and leaves the row as it is;
\* the middleware drops the error of the latter two.
StatementError(r) ==
    /\ faults < MaxFaults
    /\ req[r].pc \in {"lookup", "complete", "release"}
    /\ Goto(r, Idle)
    /\ faults' = faults + 1
    /\ UNCHANGED <<row, effects, panics, replies>>

\* The process dies: its requests are gone, the table stays.
Crash ==
    /\ faults < MaxFaults
    /\ req' = [r \in Requests |-> Idle]
    /\ faults' = faults + 1
    /\ UNCHANGED <<row, effects, panics, replies>>

\* 24 hours pass after the reservation; no job of the server looks.
TTLPasses(k) ==
    /\ row[k].status # "absent"
    /\ row[k].age = "fresh"
    /\ row' = [row EXCEPT ![k].age = "expired"]
    /\ UNCHANGED <<req, effects, panics, replies, faults>>

Next ==
    \/ \E r \in Requests, k \in Slots, b \in Bodies : Begin(r, k, b)
    \/ \E r \in Requests : Reserve(r)
    \/ \E r \in Requests : Lookup(r)
    \/ \E r \in Requests : HandlerCommit(r)
    \/ \E r \in Requests, a \in Answers : HandlerReturn(r, a)
    \/ \E r \in Requests : HandlerPanic(r)
    \/ \E r \in Requests : Complete(r)
    \/ \E r \in Requests : ReleasePending(r)
    \/ \E r \in Requests : ReserveError(r)
    \/ \E r \in Requests : StatementError(r)
    \/ Crash
    \/ \E k \in Slots : TTLPasses(k)

Spec == Init /\ [][Next]_vars

-----------------------------------------------------------------------------
(* Properties.                                                             *)

\* Rows and requests hold values of their types; a completed row always has the
\* response it is going to replay.
TypeOK ==
    /\ row \in [Slots -> {NoRow} \cup Pending \cup Completed]
    /\ req \in [Requests -> {Idle} \cup Request]
    /\ effects \in [Slots -> Nat]
    /\ panics \in [Slots -> Nat]
    /\ replies \in [Slots -> SUBSET (Bodies \X Answers)]
    /\ faults \in Nat

\* "A hard at-most-once guarantee": under one slot a side effect runs at most
\* once, whatever retries, failed statements and crashes do; only a handler that
\* panicked after its commit may run again, once per panic.
AtMostOnce == \A k \in Slots : effects[k] <= 1 + panics[k]

\* "Retries with the same key always resolve to the same response": all answers
\* that handlers and replays ever gave under a slot are one answer to one body.
SameAnswer == \A k \in Slots : \A x, y \in replies[k] : x = y

\* "They may retry once the original request settles": a slot is in flight only
\* while a request that owns it is, unless a statement failed or the process
\* died; a panic alone never leaves the slot stuck.
NoOrphan == faults = 0 => \A k \in Slots : row[k].status = "pending" => Owners(k) # {}

\* A stored response is never replaced or taken back.
AnswerKept ==
    [][\A k \in Slots : row[k].status = "completed" =>
           /\ row'[k].status = "completed"
           /\ row'[k].hash = row[k].hash
           /\ row'[k].answer = row[k].answer]_vars

\* "Retries ... receive 409 Retry-After until the 24h TTL expires": a retry that
\* begins after the TTL is not told that the key is in flight.
TTLFreesTheKey ==
    \A r \in Requests : req[r].pc = "lookup" /\ req[r].began = "expired" =>
        Verdict(req[r].slot, req[r].body) # "in_flight"
=============================================================================
