------------------------------ MODULE GroupBuy ------------------------------
(***************************************************************************)
(* Group buys: concurrent joins under an optimistic lock, and the deadline *)
(* sweep that closes a campaign from a list it read earlier.               *)
(*                                                                         *)
(* A join is an HTTP request served by a goroutine.  JoinAtomic reads the  *)
(* row without a lock, checks status, deadline and free seats, and then    *)
(* runs UPDATE .. WHERE version = <the version it read>, INSERTs the       *)
(* participant and commits.  PostgreSQL holds the row lock from the UPDATE *)
(* to the COMMIT, so those three are one step; the read is another.        *)
(* The sweep is one goroutine of the job runner: it reads the due rows and *)
(* later updates them one by one, in an order SQL leaves open.             *)
(*                                                                         *)
(* Time is the set of group buys whose deadline has passed.  A row's       *)
(* deadline is never changed after Create.                                 *)
(***************************************************************************)
EXTENDS Integers, FiniteSets

CONSTANTS
    GroupBuys,         \* ids of group_buys rows
    Users,             \* ids of users rows that exist at the start
    Blacklisted,       \* the users whose is_blacklisted column is set
    Requests,          \* goroutines that serve POST /group-buys/:id/join
    Capacities,        \* capacities an organizer may ask for
    Thresholds,        \* thresholds an organizer may ask for, 0 for "not given"
    Quantities,        \* quantities a client may ask for, 0 for "not given"
    DefaultThreshold,  \* GroupBuyDefaults.Threshold, 5 in the code
    MaxRetries,        \* maxRetries of Join, 3 in the code
    MaxFaults,         \* bound on crashes and database errors
    None               \* SQL NULL

ASSUME ConstantsAssumption ==
    /\ Blacklisted \subseteq Users
    /\ Capacities \subseteq Int
    /\ Thresholds \subseteq Int
    /\ Quantities \subseteq Int
    /\ DefaultThreshold \in Nat \ {0}
    /\ MaxRetries \in Nat \ {0}
    /\ MaxFaults \in Nat
    /\ None \notin Users
    /\ None \notin GroupBuys

VARIABLES
    alive,     \* the users rows that have not been deleted
    row,       \* the group_buys table
    quantity,  \* the group_buy_participants table: seats per user, 0 for no row
    due,       \* the group buys whose deadline has passed
    req,       \* the state of each join request
    sweep,     \* the sweep's list: the target it computed for each row
    tell,      \* the notification the sweep is about to insert
    notes,     \* the organizers' notifications, as <<group buy, kind>>
    faults     \* crashes and database errors so far

vars == <<alive, row, quantity, due, req, sweep, tell, notes, faults>>

Live     == {"open", "met"}
Terminal == {"expired", "canceled", "finalized", "failed"}
Targets  == {"finalized", "failed", "expired"}

\* "absent" is a row that has not been inserted yet.
Row == [status : Live \cup Terminal \cup {"absent"}, capacity : Nat, threshold : Nat,
        remaining : Nat, version : Nat, organizer : Users \cup {None}]

NoRow == [status |-> "absent", capacity |-> 0, threshold |-> 0,
          remaining |-> 0, version |-> 0, organizer |-> None]

\* A join in progress: about to SELECT, to UPDATE, or to notify the organizer.
Join == [pc : {"read", "commit", "notify"}, gb : GroupBuys, user : Users,
         qty : Nat \ {0}, attempt : 1 .. MaxRetries, seen : Nat]

Idle == [pc |-> "idle", gb |-> None, user |-> None, qty |-> 0, attempt |-> 0, seen |-> 0]

NothingToTell == <<None, "none">>

-----------------------------------------------------------------------------
(* Plausible faults of the operators defined below.  No specification uses *)
(* them: each is put in the place of the operator it imitates, to see that *)
(* a property notices.                                                     *)

\* The UPDATE of a join without its version and remaining_slots conditions.
JoinMatchesAnything(rw, seen, q) == rw.version >= seen

\* A join that counts participants where it should count seats.
AfterJoinOneSeat(rw, q) ==
    [rw EXCEPT !.remaining = @ - 1, !.version = @ + 1,
               !.status = IF rw.capacity - (rw.remaining - 1) >= rw.threshold THEN "met" ELSE @]

\* A join that compares the threshold with the seats before it.
AfterJoinLate(rw, q) ==
    [rw EXCEPT !.remaining = @ - q, !.version = @ + 1,
               !.status = IF rw.capacity - rw.remaining >= rw.threshold THEN "met" ELSE @]

\* Failing a row without bumping its version.
AfterFailSameVersion(rw) == [rw EXCEPT !.status = "failed", !.remaining = rw.capacity]

\* Releasing the seats of a row that is only marked expired.
AfterFailExpired(rw) == [rw EXCEPT !.status = "expired", !.remaining = rw.capacity, !.version = @ + 1]

\* A sweep that forgets the group buys that reached their threshold.
ExpiringOpenOnly == {g \in due : row[g].status = "open"}

-----------------------------------------------------------------------------
(* The columns' arithmetic.                                                *)

Confirmed(rw) == rw.capacity - rw.remaining

ThresholdMet(rw) == Confirmed(rw) >= rw.threshold

\* The seats a group buy has handed out, one element per seat.
SeatsOf(held) == UNION {{u} \X (1 .. held[u]) : u \in Users}

Seats(g) == SeatsOf(quantity[g])

\* JoinAtomic treats a missing or non-positive quantity as one seat.
Requested(q) == IF q <= 0 THEN 1 ELSE q

\* Create's default for a missing or non-positive threshold.
Threshold(t) == IF t <= 0 THEN DefaultThreshold ELSE t

\* Validate; its title and window checks only reject bad input.
ValidGroupBuy(c, t) == /\ t > 0
                       /\ c > 0
                       /\ t <= c

\* What JoinAtomic demands of the row it reads.
JoinAllowed(g, q) == /\ row[g].status \in Live
                     /\ g \notin due
                     /\ row[g].remaining >= q

\* The WHERE clause of JoinAtomic's UPDATE; status is not part of it.
JoinMatches(rw, seen, q) == /\ rw.version = seen
                            /\ rw.remaining >= q

\* The row that UPDATE leaves.
AfterJoin(rw, q) ==
    [rw EXCEPT !.remaining = @ - q,
               !.version   = @ + 1,
               !.status    = IF rw.capacity - (rw.remaining - q) >= rw.threshold
                             THEN "met" ELSE @]

\* notifyOrganizerProgress's conditions, on the row that UPDATE returned.
TellsProgress(rw) == /\ ThresholdMet(rw)
                     /\ rw.status = "met"
                     /\ rw.organizer # None

\* The row MarkFailedAndReleaseSlots leaves.
AfterFail(rw) == [rw EXCEPT !.status = "failed", !.remaining = rw.capacity, !.version = @ + 1]

\* The WHERE clause of MarkFailedAndReleaseSlots.
FailMatches(rw) == rw.status \in Live

\* ListExpiringBefore's WHERE clause.
Expiring == {g \in due : row[g].status \in Live}

\* SweepExpired's decision, taken on the row the list returned.
SweepTarget(rw) == IF ThresholdMet(rw) THEN "finalized"
                   ELSE IF Confirmed(rw) > 0 THEN "failed"
                   ELSE "expired"

-----------------------------------------------------------------------------
Init ==
    /\ alive = Users
    /\ row = [g \in GroupBuys |-> NoRow]
    /\ quantity = [g \in GroupBuys |-> [u \in Users |-> 0]]
    /\ due = {}
    /\ req = [r \in Requests |-> Idle]
    /\ sweep = [g \in GroupBuys |-> "none"]
    /\ tell = NothingToTell
    /\ notes = {}
    /\ faults = 0

\* POST /group-buys.  The lookups of the organizer and the resource only guard
\* the INSERT, whose foreign keys check both again.
Create(g, u, c, t) ==
    /\ row[g].status = "absent"
    /\ u \in alive \ Blacklisted
    /\ ValidGroupBuy(c, Threshold(t))
    /\ row' = [row EXCEPT ![g] = [status |-> "open", capacity |-> c, threshold |-> Threshold(t),
                                  remaining |-> c, version |-> 0, organizer |-> u]]
    /\ UNCHANGED <<alive, quantity, due, req, sweep, tell, notes, faults>>

\* The clock passes the deadline, which lay in the future when the row was made.
DeadlinePasses(g) ==
    /\ row[g].status # "absent"
    /\ g \notin due
    /\ due' = due \cup {g}
    /\ UNCHANGED <<alive, row, quantity, req, sweep, tell, notes, faults>>

-----------------------------------------------------------------------------
(* Join.                                                                   *)

\* Join looks the user up and enters its retry loop.
JoinStart(r, g, u, q) ==
    /\ req[r].pc = "idle"
    /\ row[g].status # "absent"
    /\ u \in alive \ Blacklisted
    /\ req' = [req EXCEPT ![r] = [pc |-> "read", gb |-> g, user |-> u, qty |-> Requested(q),
                                  attempt |-> 1, seen |-> 0]]
    /\ UNCHANGED <<alive, row, quantity, due, sweep, tell, notes, faults>>

\* JoinAtomic's SELECT and the checks on what it returned.
JoinRead(r) ==
    /\ req[r].pc = "read"
    /\ req' = [req EXCEPT ![r] =
                 IF JoinAllowed(req[r].gb, req[r].qty)
                 THEN [req[r] EXCEPT !.pc = "commit", !.seen = row[req[r].gb].version]
                 ELSE Idle]
    /\ UNCHANGED <<alive, row, quantity, due, sweep, tell, notes, faults>>

\* The UPDATE finds no row: ErrOptimisticLock, retried while attempts are left.
JoinLosesRace(r) ==
    /\ req[r].pc = "commit"
    /\ ~JoinMatches(row[req[r].gb], req[r].seen, req[r].qty)
    /\ req' = [req EXCEPT ![r] =
                 IF req[r].attempt < MaxRetries
                 THEN [req[r] EXCEPT !.pc = "read", !.attempt = @ + 1, !.seen = 0]
                 ELSE Idle]
    /\ UNCHANGED <<alive, row, quantity, due, sweep, tell, notes, faults>>

\* The INSERT violates UNIQUE (group_buy_id, user_id) or the foreign key on
\* users, and the transaction rolls the UPDATE back.
JoinRejected(r) ==
    /\ req[r].pc = "commit"
    /\ JoinMatches(row[req[r].gb], req[r].seen, req[r].qty)
    /\ \/ quantity[req[r].gb][req[r].user] > 0
       \/ req[r].user \notin alive
    /\ req' = [req EXCEPT ![r] = Idle]
    /\ UNCHANGED <<alive, row, quantity, due, sweep, tell, notes, faults>>

\* UPDATE, INSERT and COMMIT; then notifyOrganizerProgress decides.
JoinCommit(r) ==
    LET g == req[r].gb
        u == req[r].user
        q == req[r].qty
    IN  /\ req[r].pc = "commit"
        /\ JoinMatches(row[g], req[r].seen, q)
        /\ quantity[g][u] = 0
        /\ u \in alive
        /\ row' = [row EXCEPT ![g] = AfterJoin(row[g], q)]
        /\ quantity' = [quantity EXCEPT ![g] = [quantity[g] EXCEPT ![u] = q]]
        /\ req' = [req EXCEPT ![r] = IF TellsProgress(AfterJoin(row[g], q))
                                     THEN [req[r] EXCEPT !.pc = "notify"] ELSE Idle]
        /\ UNCHANGED <<alive, due, sweep, tell, notes, faults>>

\* CreateNotification for the organizer; an organizer deleted meanwhile makes
\* the INSERT fail, and the error is dropped.
Notes(g, kind) == IF row[g].organizer # None THEN notes \cup {<<g, kind>>} ELSE notes

JoinNotify(r) ==
    /\ req[r].pc = "notify"
    /\ notes' = Notes(req[r].gb, "threshold_met")
    /\ req' = [req EXCEPT ![r] = Idle]
    /\ UNCHANGED <<alive, row, quantity, due, sweep, tell, faults>>

\* The client goes away, or a statement fails: the request's context is
\* canceled, an open transaction rolls back, what is committed stays.
JoinAbort(r) ==
    /\ req[r].pc # "idle"
    /\ req' = [req EXCEPT ![r] = Idle]
    /\ UNCHANGED <<alive, row, quantity, due, sweep, tell, notes, faults>>

-----------------------------------------------------------------------------
(* The sweep job.                                                          *)

SweepIdle == tell = NothingToTell /\ \A g \in GroupBuys : sweep[g] = "none"

SweepList ==
    /\ SweepIdle
    /\ Expiring # {}
    /\ sweep' = [g \in GroupBuys |-> IF g \in Expiring THEN SweepTarget(row[g]) ELSE "none"]
    /\ UNCHANGED <<alive, row, quantity, due, req, tell, notes, faults>>

\* One turn of the loop.  UpdateStatus is unconditional and leaves version
\* alone; MarkFailedAndReleaseSlots matches live rows only, and a row it does
\* not match is skipped.
SweepRow(g) ==
    /\ tell = NothingToTell
    /\ sweep[g] # "none"
    /\ IF sweep[g] = "failed" /\ ~FailMatches(row[g])
       THEN UNCHANGED <<row, tell>>
       ELSE /\ row' = [row EXCEPT ![g] = IF sweep[g] = "failed" THEN AfterFail(row[g])
                                         ELSE [row[g] EXCEPT !.status = sweep[g]]]
            /\ tell' = <<g, sweep[g]>>
    /\ sweep' = [sweep EXCEPT ![g] = "none"]
    /\ UNCHANGED <<alive, quantity, due, req, notes, faults>>

SweepNotify ==
    /\ tell # NothingToTell
    /\ notes' = Notes(tell[1], tell[2])
    /\ tell' = NothingToTell
    /\ UNCHANGED <<alive, row, quantity, due, req, sweep, faults>>

\* The row's update fails: the loop logs it and continues with the next row.
SweepRowError(g) ==
    /\ faults < MaxFaults
    /\ tell = NothingToTell
    /\ sweep[g] # "none"
    /\ sweep' = [sweep EXCEPT ![g] = "none"]
    /\ faults' = faults + 1
    /\ UNCHANGED <<alive, row, quantity, due, req, tell, notes>>

\* The process dies and starts again: goroutines are gone, the tables remain.
Crash ==
    /\ faults < MaxFaults
    /\ req' = [r \in Requests |-> Idle]
    /\ sweep' = [g \in GroupBuys |-> "none"]
    /\ tell' = NothingToTell
    /\ faults' = faults + 1
    /\ UNCHANGED <<alive, row, quantity, due, notes>>

\* The deletion executor removes a user: participant rows and notifications
\* go by ON DELETE CASCADE, organizer_id by ON DELETE SET NULL, and
\* remaining_slots stays as it was.
DeleteUser(u) ==
    /\ u \in alive
    /\ alive' = alive \ {u}
    /\ quantity' = [g \in GroupBuys |-> [quantity[g] EXCEPT ![u] = 0]]
    /\ row' = [g \in GroupBuys |-> IF row[g].organizer = u
                                   THEN [row[g] EXCEPT !.organizer = None] ELSE row[g]]
    /\ notes' = {n \in notes : row[n[1]].organizer # u}
    /\ UNCHANGED <<due, req, sweep, tell, faults>>

-----------------------------------------------------------------------------
Next ==
    \/ \E g \in GroupBuys, u \in Users, c \in Capacities, t \in Thresholds : Create(g, u, c, t)
    \/ \E g \in GroupBuys : DeadlinePasses(g)
    \/ \E r \in Requests, g \in GroupBuys, u \in Users, q \in Quantities : JoinStart(r, g, u, q)
    \/ \E r \in Requests : JoinRead(r)
    \/ \E r \in Requests : JoinLosesRace(r)
    \/ \E r \in Requests : JoinRejected(r)
    \/ \E r \in Requests : JoinCommit(r)
    \/ \E r \in Requests : JoinNotify(r)
    \/ \E r \in Requests : JoinAbort(r)
    \/ SweepList
    \/ \E g \in GroupBuys : SweepRow(g)
    \/ SweepNotify
    \/ \E g \in GroupBuys : SweepRowError(g)
    \/ Crash
    \/ \E u \in Users : DeleteUser(u)

Spec == Init /\ [][Next]_vars

\* The job runner calls the sweep at start-up and on every tick, and the sweep's
\* loop runs to its end: the sweep's steps are fair, clients and faults are not.
Fairness == /\ WF_vars(SweepList)
            /\ \A g \in GroupBuys : WF_vars(SweepRow(g))
            /\ WF_vars(SweepNotify)

FairSpec == Spec /\ Fairness

-----------------------------------------------------------------------------
(* Properties.                                                             *)

\* Every table and every local variable holds values of its type; in particular
\* remaining_slots never goes below zero (its CHECK constraint never fires).
TypeOK ==
    /\ alive \subseteq Users
    /\ row \in [GroupBuys -> Row]
    /\ quantity \in [GroupBuys -> [Users -> Nat]]
    /\ due \subseteq GroupBuys
    /\ req \in [Requests -> Join \cup {Idle}]
    /\ sweep \in [GroupBuys -> Targets \cup {"none"}]
    /\ tell \in (GroupBuys \X Targets) \cup {NothingToTell}
    /\ notes \subseteq GroupBuys \X (Targets \cup {"threshold_met"})
    /\ faults \in Nat

\* "Oversell is impossible" (Join): however joins interleave with each other,
\* with retries and with the sweep, the seats of a group buy never exceed its
\* capacity.
NoOversell == \A g \in GroupBuys : Cardinality(Seats(g)) <= row[g].capacity

\* remaining_slots is the truth about the seats: on a row whose slots were not
\* released, seats handed out and seats remaining add up to the capacity.  Only
\* deleting a participant loses seats, and then none is ever sold twice.
SeatsAccounted ==
    \A g \in GroupBuys : row[g].status # "failed" =>
        /\ Cardinality(Seats(g)) + row[g].remaining <= row[g].capacity
        /\ alive = Users => Cardinality(Seats(g)) + row[g].remaining = row[g].capacity

\* The status agrees with the seats: an open group buy is below its threshold,
\* a met or finalized one has reached it, although the sweep decides on a row it
\* read earlier and a join may commit on a row the sweep has closed.
StatusHonest ==
    \A g \in GroupBuys :
        /\ row[g].status = "open" => ~ThresholdMet(row[g])
        /\ row[g].status \in {"met", "finalized"} => ThresholdMet(row[g])

\* A failed group buy is never sold into or re-opened: the version bump of
\* MarkFailedAndReleaseSlots fences off every join that read the row before.
FailedIsFinal ==
    [][\A g \in GroupBuys : row[g].status = "failed" =>
           /\ row'[g].status = "failed"
           /\ row'[g].remaining = row[g].remaining
           /\ \A u \in Users : quantity'[g][u] <= quantity[g][u]]_vars

\* What an organizer is told of the outcome stays true: after "failed" the row
\* is failed for good, after "finalized" it can only be finalized, or met again
\* until the next sweep.
NoticesTruthful ==
    /\ \A g \in GroupBuys : <<g, "failed">> \in notes => row[g].status = "failed"
    /\ \A g \in GroupBuys : <<g, "finalized">> \in notes => row[g].status \in {"finalized", "met"}

\* Once its deadline has passed and faults stop, the sweep closes a group buy
\* for good; joins that were in flight can re-open it only finitely often.
SweepSettles == \A g \in GroupBuys : g \in due ~> [](row[g].status \in Terminal)

\* SweepExpired's comment: "a non-finalized terminal group buy holds zero
\* pre-allocated seats" always holds.
ClosedHoldsNoSeats ==
    \A g \in GroupBuys : row[g].status \in Terminal \ {"finalized"} => Confirmed(row[g]) = 0
=============================================================================
