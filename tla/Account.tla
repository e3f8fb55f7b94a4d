------------------------------ MODULE Account ------------------------------
(***************************************************************************)
(* Some of what hangs on a user row: sessions, requests to delete the      *)
(* account, and analytics events.  Every request resolves its session in   *)
(* several statements; the deletion executor is a background job that runs *)
(* beside the requests.  The other tables that refer to users are left     *)
(* out, those whose rows outlive the user for want of a foreign key        *)
(* (idempotency_keys, notification_deliveries) among them.                 *)
(* Logging in is Auth's subject: here it only creates a session row.       *)
(***************************************************************************)
EXTENDS Integers, Sequences, FiniteSets

CONSTANTS
    Users,
    Tokens,         \* session ids that can be generated (a bound)
    Requests,       \* goroutines that serve requests
    Rows,           \* ids of deletion requests (a bound)
    Events,         \* ids of analytics events (a bound)
    Inactivity, AbsoluteTTL, DeletionDelay,
    MaxTime,        \* bound on the clock
    MaxFaults,      \* bound on failed statements and restarts
    None

ASSUME AccountAssumption ==
    /\ {Inactivity, AbsoluteTTL, DeletionDelay} \subseteq Nat \ {0}
    /\ {MaxTime, MaxFaults} \subseteq Nat
    /\ None \notin Users

VARIABLES
    users,      \* the users that have a row
    session,    \* sessions
    req,        \* the state of each request
    deletion,   \* deletion_requests
    events,     \* analytics_events
    job,        \* the deletion executor
    clock,
    faults      \* history: failed statements and restarts

vars == <<users, session, req, deletion, events, job, clock, faults>>

Time == 0..(MaxTime + Inactivity + DeletionDelay)

Absent == [status |-> "absent"]

\* "active" is last_activity_at.
Session == [status : {"live"}, user : Users, created : Time, expires : Time, active : Time]

\* A token that was a session's and is no more.
Gone == [status |-> "gone"]

\* "withdrawn" is history: its user canceled while the executor did not hold it.
Deletion == [status : {"pending", "canceled"}, user : Users, after : Time, withdrawn : BOOLEAN]

\* "late" is history: recorded after the executor had detached its user's events.
Event == [status : {"recorded"}, anon : Users \cup {None}, late : BOOLEAN]

Idle == [pc |-> "idle"]

Live(s) == session[s].status = "live"

Due(i) == deletion[i].status = "pending" /\ deletion[i].after <= clock

\* The executor has listed row i and not come to its end.
Held(i) == job.pc # "idle" /\ i \in {e[1] : e \in job.due \cup {job.entry}}

-----------------------------------------------------------------------------
(* Plausible faults of the operators defined below, for checking that the  *)
(* properties notice; no specification uses them.                          *)

\* The window slides from the old expiry instead of from now.
ExtendedOnExpiry(row, now) == [row EXCEPT !.expires = @ + Inactivity, !.active = now]

\* A Touch that writes the row back when it is gone.
TouchUpserts(s, row, now) ==
    [session EXCEPT ![s] = [row EXCEPT !.expires = now + Inactivity, !.active = now]]

\* Tables that do not reference users.
ReferencesNothing(u) == TRUE

\* Cancels one of the user's pending requests, as reading one would suggest.
CancelDeletionOne(u) ==
    LET mine == {i \in Rows : deletion[i].status = "pending" /\ deletion[i].user = u}
    IN  IF mine = {} THEN deletion
        ELSE [deletion EXCEPT ![CHOOSE i \in mine : TRUE].status = "canceled"]

-----------------------------------------------------------------------------
(* Statements and rules.                                                   *)

\* A foreign key to users lets the INSERT through.
References(u) == u \in users

Expired(row, now) == now > row.expires \/ now - row.created > AbsoluteTTL

Extended(row, now) == [row EXCEPT !.expires = now + Inactivity, !.active = now]

\* sessions after Touch: an UPDATE that may find no row.
Touch(s, row, now) ==
    IF Live(s) THEN [session EXCEPT ![s] = Extended(@, now)] ELSE session

DeleteSession(s) == IF Live(s) THEN [session EXCEPT ![s] = Gone] ELSE session

CreateDeletionRequest(i, u) ==
    [deletion EXCEPT ![i] = [status |-> "pending", user |-> u, after |-> clock + DeletionDelay,
                             withdrawn |-> FALSE]]

CancelDeletionRows(u) ==
    [i \in Rows |-> IF deletion[i].status = "pending" /\ deletion[i].user = u
                    THEN [deletion[i] EXCEPT !.status = "canceled"] ELSE deletion[i]]

\* ListDuePending: the rows with their users.
ListDuePending == {<<i, deletion[i].user>> : i \in {i \in Rows : Due(i)}}

UnlinkedEvents(u) ==
    [e \in Events |-> IF events[e].status = "recorded" /\ events[e].anon = u
                      THEN [events[e] EXCEPT !.anon = None] ELSE events[e]]

RecordEvent(e, anon) ==
    [events EXCEPT ![e] = [status |-> "recorded", anon |-> anon, 
                           late |-> anon # None /\ (\/ anon \notin users
                                                    \/ job.pc = "delete" /\ job.entry[2] = anon)]]

-----------------------------------------------------------------------------
Init ==
    /\ users = Users
    /\ session = [s \in Tokens |-> Absent]
    /\ req = [r \in Requests |-> Idle]
    /\ deletion = [i \in Rows |-> Absent]
    /\ events = [e \in Events |-> Absent]
    /\ job = Idle
    /\ clock = 0
    /\ faults = 0

Tick ==
    /\ clock < MaxTime
    /\ clock' = clock + 1
    /\ UNCHANGED <<users, session, req, deletion, events, job, faults>>

\* The end of Login.
CreateSession(s, u) ==
    /\ session[s] = Absent
    /\ References(u)
    /\ session' = [session EXCEPT ![s] = [status |-> "live", user |-> u, created |-> clock,
                                          expires |-> clock + Inactivity, active |-> clock]]
    /\ UNCHANGED <<users, req, deletion, events, job, clock, faults>>

Logout(s) ==
    /\ Live(s)
    /\ session' = DeleteSession(s)
    /\ UNCHANGED <<users, req, deletion, events, job, clock, faults>>

-----------------------------------------------------------------------------
(* A request: ResolveSession, the gates, the handler.                      *)

Goto(r, rec) == req' = [req EXCEPT ![r] = rec]

ResolveGet(r, s) ==
    /\ req[r] = Idle
    /\ Live(s)
    /\ Goto(r, [pc |-> "check", token |-> s, row |-> session[s]])
    /\ UNCHANGED <<users, session, deletion, events, job, clock, faults>>

\* No row: the request ends with 401.
ResolveUnknown(r, s) ==
    /\ req[r] = Idle
    /\ ~Live(s)
    /\ UNCHANGED vars

\* The copy is checked against now; an expired session is deleted, whatever its
\* row says by then, and a user that is gone ends the request.
ResolveCheck(r) ==
    LET row == req[r].row
    IN  /\ req[r].pc = "check"
        /\ IF Expired(row, clock)
           THEN session' = DeleteSession(req[r].token) /\ Goto(r, Idle)
           ELSE /\ UNCHANGED session
                /\ Goto(r, IF row.user \notin users THEN Idle
                           ELSE [pc |-> "touch", token |-> req[r].token, row |-> row, now |-> clock])
        /\ UNCHANGED <<users, deletion, events, job, clock, faults>>

Accept(r) == Goto(r, [pc |-> "handle", user |-> req[r].row.user])

ResolveTouch(r) ==
    /\ req[r].pc = "touch"
    /\ session' = Touch(req[r].token, req[r].row, req[r].now)
    /\ Accept(r)
    /\ UNCHANGED <<users, deletion, events, job, clock, faults>>

\* A handler behind the gates runs its statement and ends the request.
Handle(r) == req[r].pc = "handle" /\ Goto(r, Idle)

\* A handler that only reads, or is refused by a gate.
HandleRead(r) ==
    /\ Handle(r)
    /\ UNCHANGED <<users, session, deletion, events, job, clock, faults>>

RequestDeletion(r, i) ==
    /\ Handle(r)
    /\ References(req[r].user)
    /\ deletion[i] = Absent
    /\ deletion' = CreateDeletionRequest(i, req[r].user)
    /\ UNCHANGED <<users, session, events, job, clock, faults>>

CancelDeletion(r) ==
    LET u == req[r].user
    IN  /\ Handle(r)
        /\ deletion' = [i \in Rows |->
               IF deletion[i] # Absent /\ deletion[i].user = u /\ ~Held(i)
               THEN [CancelDeletionRows(u)[i] EXCEPT !.withdrawn = TRUE] ELSE CancelDeletionRows(u)[i]]
        /\ UNCHANGED <<users, session, events, job, clock, faults>>

\* Recording needs no user row: events carry only a hash of the user.
Track(r, e) ==
    /\ Handle(r)
    /\ events[e] = Absent
    /\ events' = RecordEvent(e, req[r].user)
    /\ UNCHANGED <<users, session, deletion, job, clock, faults>>

TrackAnonymous(e) ==
    /\ events[e] = Absent
    /\ events' = RecordEvent(e, None)
    /\ UNCHANGED <<users, session, req, deletion, job, clock, faults>>

-----------------------------------------------------------------------------
(* Background jobs.                                                        *)

\* The executor takes the next entry of its list, or ends.
NextEntry(due, j) ==
    IF due = {} THEN j = Idle
    ELSE \E e \in due : j = [pc |-> "anonymise", entry |-> e, due |-> due \ {e}]

RunDeletionExecutor ==
    /\ job = Idle
    /\ ListDuePending # {}
    /\ NextEntry(ListDuePending, job')
    /\ UNCHANGED <<users, session, req, deletion, events, clock, faults>>

AnonymiseUserEvents ==
    /\ job.pc = "anonymise"
    /\ events' = UnlinkedEvents(job.entry[2])
    /\ job' = [job EXCEPT !.pc = "delete"]
    /\ UNCHANGED <<users, session, req, deletion, clock, faults>>

\* One DELETE with its cascades on the tables of this module; a user that another
\* entry already deleted is only logged.
HardDelete ==
    LET u == job.entry[2]
    IN  /\ job.pc = "delete"
        /\ NextEntry(job.due, job')
        /\ users' = users \ {u}
        /\ session' = [s \in Tokens |-> IF Live(s) /\ session[s].user = u THEN Gone ELSE session[s]]
        /\ deletion' = [i \in Rows |-> IF deletion[i] # Absent /\ deletion[i].user = u
                                       THEN Absent ELSE deletion[i]]
        /\ UNCHANGED <<req, events, clock, faults>>

-----------------------------------------------------------------------------
(* Failures.                                                               *)

\* A request's statement fails; a failed Touch is only logged.
StatementError(r) ==
    /\ faults < MaxFaults
    /\ req[r] # Idle
    /\ faults' = faults + 1
    /\ IF req[r].pc = "touch" THEN Accept(r) ELSE Goto(r, Idle)
    /\ UNCHANGED <<users, session, deletion, events, job, clock>>

\* A fault for the properties to notice: the user is deleted although detaching
\* the events failed.
ExecutorErrorIgnored ==
    /\ faults < MaxFaults
    /\ job # Idle
    /\ faults' = faults + 1
    /\ IF job.pc = "anonymise" THEN job' = [job EXCEPT !.pc = "delete"] ELSE NextEntry(job.due, job')
    /\ UNCHANGED <<users, session, req, deletion, events, clock>>

\* Another: a failed entry is marked as completed.
ExecutorErrorMarks ==
    /\ faults < MaxFaults
    /\ job # Idle
    /\ faults' = faults + 1
    /\ NextEntry(job.due, job')
    /\ deletion' = IF deletion[job.entry[1]] = Absent THEN deletion
                   ELSE [deletion EXCEPT ![job.entry[1]].status = "completed"]
    /\ UNCHANGED <<users, session, req, events, clock>>

\* hardDeleteOne fails at either statement: it is logged, the row stays pending,
\* and the executor goes on with the rest.
ExecutorError ==
    /\ faults < MaxFaults
    /\ job # Idle
    /\ faults' = faults + 1
    /\ NextEntry(job.due, job')
    /\ UNCHANGED <<users, session, req, deletion, events, clock>>

Restart ==
    /\ faults < MaxFaults
    /\ faults' = faults + 1
    /\ req' = [r \in Requests |-> Idle]
    /\ job' = Idle
    /\ UNCHANGED <<users, session, deletion, events, clock>>

Executor == RunDeletionExecutor \/ AnonymiseUserEvents \/ HardDelete

Next ==
    \/ Tick
    \/ \E s \in Tokens, u \in Users : CreateSession(s, u)
    \/ \E s \in Tokens : Logout(s)
    \/ \E r \in Requests, s \in Tokens : ResolveGet(r, s)
    \/ \E r \in Requests, s \in Tokens : ResolveUnknown(r, s)
    \/ \E r \in Requests : ResolveCheck(r)
    \/ \E r \in Requests : ResolveTouch(r)
    \/ \E r \in Requests : HandleRead(r)
    \/ \E r \in Requests, i \in Rows : RequestDeletion(r, i)
    \/ \E r \in Requests : CancelDeletion(r)
    \/ \E r \in Requests, e \in Events : Track(r, e)
    \/ \E e \in Events : TrackAnonymous(e)
    \/ Executor
    \/ \E r \in Requests : StatementError(r)
    \/ ExecutorError
    \/ Restart

\* The executor is a goroutine on a ticker: it runs again and again.
Spec == Init /\ [][Next]_vars /\ WF_vars(Executor)

-----------------------------------------------------------------------------
(* Properties.                                                             *)

\* Every table holds rows of its type.
TypeOK ==
    /\ users \subseteq Users
    /\ session \in [Tokens -> {Absent, Gone} \cup Session]
    /\ deletion \in [Rows -> {Absent} \cup Deletion]
    /\ events \in [Events -> {Absent} \cup Event]
    /\ \A r \in Requests : req[r].pc \in {"idle", "check", "touch", "handle"}
    /\ job.pc \in {"idle", "anonymise", "delete"}
    /\ clock \in Time /\ faults \in Nat

\* A session ended by logout, by expiry or with its account never comes back, not
\* even through a request that had read it before and touches it after.
EndedSessionsStayEnded == [][\A s \in Tokens : session[s] = Gone => session'[s] = Gone]_vars

\* A request is let in only within the inactivity window of a request let in
\* before it, and within the absolute lifetime of the session, however requests
\* on one session overlap and touch it out of order.
AcceptedInTime ==
    \A r \in Requests : req[r].pc = "touch" =>
        /\ req[r].now <= req[r].row.active + Inactivity
        /\ req[r].now <= req[r].row.created + AbsoluteTTL

\* Of an account that is gone no session and no deletion request is left, whatever
\* the requests in flight still insert, and its hash stands in no analytics event
\* but those recorded after the executor had detached them ("no link back").  Says
\* nothing of tables outside this module, some of which keep the user's id or name.
DependentsGone ==
    \A u \in Users \ users :
        /\ \A s \in Tokens : Live(s) => session[s].user # u
        /\ \A i \in Rows : deletion[i] # Absent => deletion[i].user # u
        /\ \A e \in Events : events[e].status = "recorded" /\ events[e].anon = u => events[e].late

\* An account is deleted only on a request of its user that had come due and that
\* the user had not canceled before the executor listed it; one cancel covers
\* every request made so far.
DeletedOnRequest ==
    [][\A u \in users \ users' :
          LET row == deletion[job.entry[1]]
          IN  row # Absent /\ row.user = u /\ row.after <= clock /\ ~row.withdrawn]_vars

\* A deletion request that is due and pending ends with the account deleted or the
\* request canceled, through failed statements and restarts.
DeletionCompletes ==
    \A i \in Rows, u \in Users :
        Due(i) /\ deletion[i].user = u ~> u \notin users \/ deletion[i].status = "canceled"
=============================================================================
