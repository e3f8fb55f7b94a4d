------------------------------- MODULE Booking -------------------------------
(***************************************************************************)
(* Bookings: the creation policy (lead time, daily cap, no double booking, *)
(* seats per slot) and the state machine of a booking, as BookingService   *)
(* runs them: a sequence of separate SELECTs followed by one INSERT or one *)
(* UPDATE, with no transaction, lock or constraint around them.            *)
(*                                                                         *)
(* Time is counted in ticks; a window is a pair <<start, end>> of ticks.   *)
(***************************************************************************)
EXTENDS Integers, FiniteSets

CONSTANTS
    Bookings,         \* ids of bookings rows
    Users, Blacklisted,
    Resources,
    Requests,         \* goroutines that serve booking requests
    Capacity,         \* capacity of a resource
    Windows,          \* windows <<start, end>> a client may ask for
    Parties,          \* party sizes a client may ask for, 0 for "not given"
    TicksPerDay,
    MinLeadTime,      \* BookingPolicy.MinLeadTime, 2 hours in the code
    ChangeCutoff,     \* BookingPolicy.ChangeCutoff, 10 minutes in the code
    MaxActivePerDay,  \* BookingPolicy.MaxActivePerDay, 3 in the code
    MaxTime,          \* bound on the clock
    None

ASSUME BookingAssumption ==
    /\ Blacklisted \subseteq Users
    /\ Capacity \in [Resources -> Nat \ {0}]
    /\ Windows \subseteq Nat \X Nat
    /\ Parties \subseteq Int
    /\ TicksPerDay \in Nat \ {0}
    /\ MinLeadTime \in Nat
    /\ ChangeCutoff \in Nat
    /\ MaxActivePerDay \in Nat \ {0}
    /\ MaxTime \in Nat
    /\ IsFiniteSet(Bookings) /\ IsFiniteSet(Requests)
    /\ None \notin Users \cup Resources \cup Bookings

VARIABLES
    booking,  \* the bookings table
    req,      \* the state of each request
    now,      \* the clock
    peak      \* history: the most requests that were ever in flight together

vars == <<booking, req, now, peak>>

Status == {"pending_confirmation", "waitlisted", "checked_in", "completed", "canceled"}

\* The states that hold seats, and the states that count against the daily cap.
Seated == {"pending_confirmation", "checked_in"}
Active == Seated \cup {"waitlisted"}

\* A row as the table's CHECK constraints keep it; "absent" stands for a row that
\* has not been inserted.
Row == {w \in [status : Status, user : Users, resource : Resources,
               party : Nat \ {0}, start : Nat, end : Nat] : w.end > w.start}

NoBooking == [status |-> "absent", user |-> None, resource |-> None,
              party |-> 0, start |-> 0, end |-> 0]

\* A request about to run: a SELECT of Create ("count", "overlap", "sum"), its
\* INSERT, the SELECT of a promotion ("busy") or the UPDATE of a transition.
\* "new" is the row Create will insert; of the row it read, Transition goes on
\* to use only columns no statement ever changes.
Creating == {"count", "overlap", "sum", "insert"}
Moving == {"busy", "update"}

Idle == [pc |-> "idle", id |-> None, new |-> NoBooking, target |-> "none"]

InFlight == {r \in Requests : req[r].pc # "idle"}

-----------------------------------------------------------------------------
(* Plausible faults of the operators defined below, for checking that the  *)
(* properties notice; no specification uses them.                          *)

\* A daily cap that is off by one.
UnderDailyCapOffByOne(n) == n <= MaxActivePerDay

\* Double booking judged by equal start times instead of overlap.
OverlapsSameStart(row, s, e) == row.start = s

\* Remaining seats compared off by one.
FitsOffByOne(res, taken, party) == party <= Capacity[res] - taken + 1

\* A state machine in which a canceled booking can be taken up again.
AllowedReopen ==
    [from \in Status |->
        CASE from = "pending_confirmation" -> {"waitlisted", "checked_in", "canceled"}
          [] from = "waitlisted"           -> {"pending_confirmation", "canceled"}
          [] from = "checked_in"           -> {"completed", "canceled"}
          [] from = "completed"            -> {}
          [] from = "canceled"             -> {"pending_confirmation"}]

\* The client's party size stored as it came.
PartyAsGiven(p) == p

-----------------------------------------------------------------------------
(* The queries and the policy's decisions.                                 *)

Day(t) == t \div TicksPerDay

\* start_time < e AND end_time > s
Overlaps(row, s, e) == row.start < e /\ row.end > s

\* allowedTransitions
Allowed ==
    [from \in Status |->
        CASE from = "pending_confirmation" -> {"waitlisted", "checked_in", "canceled"}
          [] from = "waitlisted"           -> {"pending_confirmation", "canceled"}
          [] from = "checked_in"           -> {"completed", "canceled"}
          [] from = "completed"            -> {}
          [] from = "canceled"             -> {}]

CanTransition(from, to) == from \in Status /\ to \in Allowed[from]

\* CountActiveByUserOnDate
ActiveOn(u, d) == {b \in Bookings : /\ booking[b].status \in Active
                                    /\ booking[b].user = u
                                    /\ Day(booking[b].start) = d}

UnderDailyCap(n) == n < MaxActivePerDay

\* UserHasOverlap; canceled bookings do not count, completed ones do.
UserHasOverlap(u, s, e) == \E b \in Bookings : /\ booking[b].status \in Status \ {"canceled"}
                                               /\ booking[b].user = u
                                               /\ Overlaps(booking[b], s, e)

\* The seats of a set of rows, one element per seat.
SeatsOf(rows) == UNION {{b} \X (1 .. booking[b].party) : b \in rows}

\* The rows that hold seats of a resource in a window.
SeatedIn(res, s, e) == {b \in Bookings : /\ booking[b].status \in Seated
                                         /\ booking[b].resource = res
                                         /\ Overlaps(booking[b], s, e)}

\* SumActivePartySizesInWindow
SumActivePartySizes(res, s, e) == Cardinality(SeatsOf(SeatedIn(res, s, e)))

\* Create's decision between a seat and the waitlist.
Fits(res, taken, party) == party <= Capacity[res] - taken

\* ResourceHasOverlap
ResourceHasOverlap(res, s, e, self) == SeatedIn(res, s, e) \ {self} # {}

Party(p) == IF p <= 0 THEN 1 ELSE p

\* Transition's cutoff: fewer than ChangeCutoff ticks before the start.
CutoffActive(row) == /\ row.start - now > 0
                     /\ row.start - now < ChangeCutoff

\* The targets the cutoff blocks.
Locked == {"canceled", "waitlisted", "pending_confirmation"}

-----------------------------------------------------------------------------
Init ==
    /\ booking = [b \in Bookings |-> NoBooking]
    /\ req = [r \in Requests |-> Idle]
    /\ now = 0
    /\ peak = 0

Tick == /\ now < MaxTime
        /\ now' = now + 1
        /\ UNCHANGED <<booking, req, peak>>

\* A request enters the service.
Begin(r, rec) ==
    /\ req[r].pc = "idle"
    /\ req' = [req EXCEPT ![r] = rec]
    /\ peak' = IF Cardinality(InFlight) + 1 > peak THEN Cardinality(InFlight) + 1 ELSE peak
    /\ UNCHANGED <<booking, now>>

Goto(r, rec) == /\ req' = [req EXCEPT ![r] = rec]
                /\ UNCHANGED <<booking, now, peak>>

\* Create up to its first query: blacklist, resource, shape, lead time.
CreateStart(r, u, res, w, p) ==
    /\ u \notin Blacklisted
    /\ w[2] > w[1]
    /\ Party(p) <= Capacity[res]
    /\ w[1] >= now + MinLeadTime
    /\ Begin(r, [Idle EXCEPT !.pc = "count",
                             !.new = [status |-> "pending_confirmation", user |-> u, resource |-> res,
                                      party |-> Party(p), start |-> w[1], end |-> w[2]]])

CreateCount(r) ==
    /\ req[r].pc = "count"
    /\ LET new == req[r].new
       IN  Goto(r, IF UnderDailyCap(Cardinality(ActiveOn(new.user, Day(new.start))))
                   THEN [req[r] EXCEPT !.pc = "overlap"] ELSE Idle)

CreateOverlap(r) ==
    /\ req[r].pc = "overlap"
    /\ LET new == req[r].new
       IN  Goto(r, IF UserHasOverlap(new.user, new.start, new.end)
                   THEN Idle ELSE [req[r] EXCEPT !.pc = "sum"])

CreateSum(r) ==
    /\ req[r].pc = "sum"
    /\ LET new == req[r].new
           taken == SumActivePartySizes(new.resource, new.start, new.end)
       IN  Goto(r, [req[r] EXCEPT !.pc = "insert",
                                  !.new.status = IF Fits(new.resource, taken, new.party)
                                                 THEN "pending_confirmation" ELSE "waitlisted"])

CreateInsert(r, b) ==
    /\ req[r].pc = "insert"
    /\ booking[b].status = "absent"
    /\ booking' = [booking EXCEPT ![b] = req[r].new]
    /\ req' = [req EXCEPT ![r] = Idle]
    /\ UNCHANGED <<now, peak>>

\* Transition reads the row and checks owner, state machine and cutoff; only a
\* promotion from the waitlist runs another query before the UPDATE.
TransitionStart(r, u, b, t) ==
    /\ booking[b].user = u
    /\ CanTransition(booking[b].status, t)
    /\ ~(CutoffActive(booking[b]) /\ t \in Locked)
    /\ Begin(r, [Idle EXCEPT !.pc = IF booking[b].status = "waitlisted" /\ t = "pending_confirmation"
                                   THEN "busy" ELSE "update",
                             !.id = b, !.target = t])

TransitionBusy(r) ==
    /\ req[r].pc = "busy"
    /\ LET old == booking[req[r].id]
       IN  Goto(r, IF ResourceHasOverlap(old.resource, old.start, old.end, req[r].id)
                   THEN Idle ELSE [req[r] EXCEPT !.pc = "update"])

\* UpdateStatus writes the target whatever the row's status is by now.
TransitionUpdate(r) ==
    /\ req[r].pc = "update"
    /\ booking' = [booking EXCEPT ![req[r].id].status = req[r].target]
    /\ req' = [req EXCEPT ![r] = Idle]
    /\ UNCHANGED <<now, peak>>

\* The client goes away, a query fails or the process dies.
Abort(r) == /\ req[r].pc # "idle"
            /\ Goto(r, Idle)

Next ==
    \/ Tick
    \/ \E r \in Requests, u \in Users, res \in Resources, w \in Windows, p \in Parties :
           CreateStart(r, u, res, w, p)
    \/ \E r \in Requests : CreateCount(r)
    \/ \E r \in Requests : CreateOverlap(r)
    \/ \E r \in Requests : CreateSum(r)
    \/ \E r \in Requests, b \in Bookings : CreateInsert(r, b)
    \/ \E r \in Requests, u \in Users, b \in Bookings, t \in Status : TransitionStart(r, u, b, t)
    \/ \E r \in Requests : TransitionBusy(r)
    \/ \E r \in Requests : TransitionUpdate(r)
    \/ \E r \in Requests : Abort(r)

Spec == Init /\ [][Next]_vars

-----------------------------------------------------------------------------
(* Properties.  The documented rules are exact while requests do not       *)
(* overlap (peak = 1); with n requests in flight together each rule can be *)
(* overshot, and the properties say by how much at most.                   *)

\* Every stored row satisfies the table's constraints (a party of at least one, a
\* window that ends after it starts), and every request holds what its step needs.
TypeOK ==
    /\ \A b \in Bookings : booking[b] = NoBooking \/ booking[b] \in Row
    /\ \A r \in Requests :
           \/ req[r] = Idle
           \/ req[r].pc \in Creating /\ req[r].new \in Row /\ req[r].id = None
           \/ req[r].pc \in Moving /\ req[r].new = NoBooking /\ req[r].id \in Bookings
              /\ req[r].target \in Status
    /\ now \in 0 .. MaxTime
    /\ peak \in 0 .. Cardinality(Requests)

\* "Max 3 active bookings per user per day": exact for one request at a time;
\* n concurrent requests exceed the cap by at most n - 1, however transitions
\* interleave with them.
DailyCap ==
    \A b \in Bookings : booking[b].status \in Status =>
        Cardinality(ActiveOn(booking[b].user, Day(booking[b].start))) <= MaxActivePerDay + peak - 1

\* The user's bookings that are not canceled and cover tick t.
UsersAt(u, t) == {b \in Bookings : /\ booking[b].status \in Status \ {"canceled"}
                                   /\ booking[b].user = u
                                   /\ booking[b].start <= t /\ t < booking[b].end}

\* "No overlapping bookings per user": at any time a user is in at most as many
\* bookings as requests ever ran together.
NoDoubleBooking ==
    \A b \in Bookings : booking[b].status \in Status =>
        Cardinality(UsersAt(booking[b].user, booking[b].start)) <= peak

\* "Strict per-slot capacity": at any time the parties seated at a resource fit
\* it; n concurrent requests can seat at most n times the capacity.
SlotCapacity ==
    \A res \in Resources, b \in Bookings : booking[b].status \in Status =>
        Cardinality(SeatsOf(SeatedIn(res, booking[b].start, booking[b].start + 1)))
            <= peak * Capacity[res]

\* "Every transition is enforced by state.go": while requests do not overlap, a
\* completed or canceled booking stays what it is,
\* a guest who checks in held a seat, and a waitlisted booking gets a seat only
\* while no other party sits at the resource in its window.
LegalMoves ==
    [][peak' <= 1 => \A b \in Bookings :
          booking[b].status \in Status /\ booking'[b].status # booking[b].status =>
              /\ booking[b].status \in Active
              /\ booking'[b].status = "checked_in" => booking[b].status = "pending_confirmation"
              /\ booking[b].status = "waitlisted" /\ booking'[b].status \in Seated =>
                     SeatedIn(booking[b].resource, booking[b].start, booking[b].end) = {}]_vars

\* Create's comment: "Strict per-slot capacity is enforced".
StrictSlotCapacity ==
    \A res \in Resources, b \in Bookings : booking[b].status \in Status =>
        Cardinality(SeatsOf(SeatedIn(res, booking[b].start, booking[b].start + 1))) <= Capacity[res]
=============================================================================
