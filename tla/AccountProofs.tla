--------------------------- MODULE AccountProofs ---------------------------
(***************************************************************************)
(* Sessions that stay ended and are used in time, and the deletion of an   *)
(* account on request and without remains, for any numbers of users,       *)
(* sessions, requests and deletion requests.                               *)
(*                                                                         *)
(* Three couplings make the properties inductive: the expiry of a session  *)
(* is always its last activity plus the window, in the table and in every  *)
(* copy a request holds; an entry of the executor's list stands for a due  *)
(* row of its user as long as that user exists; and between detaching the  *)
(* events of a user and deleting the user, only late events refer to him.  *)
(***************************************************************************)
EXTENDS Account, TLAPS

\* A request between two statements.
Req == [pc : {"check"}, token : Tokens, row : Session]
         \cup [pc : {"touch"}, token : Tokens, row : Session, now : 0..MaxTime]
         \cup [pc : {"handle"}, user : Users]

\* The executor between two statements.
Job == [pc : {"anonymise", "delete"}, entry : Rows \X Users, due : SUBSET (Rows \X Users)]

\* The inactivity window starts at the last activity.
Windowed(row) == row.expires = row.active + Inactivity

\* Sessions, in the table and as requests have read them.
SessionInv ==
    /\ session \in [Tokens -> {Absent, Gone} \cup Session]
    /\ req \in [Requests -> {Idle} \cup Req]
    /\ \A s \in Tokens : Live(s) => Windowed(session[s]) /\ session[s].user \in users
    /\ \A r \in Requests : req[r].pc \in {"check", "touch"} => Windowed(req[r].row)
    /\ AcceptedInTime

\* What the executor has listed, while the user of the entry exists.
Listed(e) ==
    e[2] \in users => /\ deletion[e[1]] # Absent
                      /\ deletion[e[1]].user = e[2]
                      /\ deletion[e[1]].after <= clock
                      /\ ~deletion[e[1]].withdrawn

Entries == IF job.pc = "idle" THEN {} ELSE job.due \cup {job.entry}

\* Deletion requests, in the table and on the executor's list.
DeletionInv ==
    /\ users \subseteq Users
    /\ deletion \in [Rows -> {Absent} \cup Deletion]
    /\ job \in {Idle} \cup Job
    /\ clock \in 0..MaxTime
    /\ \A i \in Rows : deletion[i].status = "pending" => ~deletion[i].withdrawn
    /\ \A i \in Rows : deletion[i] # Absent => deletion[i].user \in users
    /\ \A e \in Entries : Listed(e)

\* Events: one that names a user who is gone, or whom the executor is about to
\* delete after it detached his events, is late.
Detached(u) == \A e \in Events : events[e].status = "recorded" /\ events[e].anon = u => events[e].late

EventInv ==
    /\ events \in [Events -> {Absent} \cup Event]
    /\ \A u \in Users \ users : Detached(u)
    /\ job.pc = "delete" => Detached(job.entry[2])

IInv == SessionInv /\ DeletionInv /\ EventInv /\ faults \in Nat

-----------------------------------------------------------------------------
(* Rows and records.                                                       *)

\* Clock values and what is added to them.
LEMMA Times ==
    /\ Time \subseteq Nat /\ 0..MaxTime \subseteq Time /\ 0..MaxTime \subseteq Nat
    /\ \A t \in 0..MaxTime : t + Inactivity \in Time /\ t + DeletionDelay \in Time
    /\ Inactivity \in Nat /\ AbsoluteTTL \in Nat
  BY AccountAssumption DEF Time

\* A session row is live when it is a session.
LEMMA SessionFields ==
    ASSUME SessionInv, NEW s \in Tokens
    PROVE  /\ Live(s) <=> session[s] \in Session
           /\ session[s] = Gone => ~Live(s)
           /\ session[s] = Absent => session[s] # Gone
           /\ Gone.status # "live" /\ Absent.status # "live" /\ Absent # Gone
  <1>1. Gone.status = "gone" /\ Absent.status = "absent"
    BY DEF Gone, Absent
  <1>2. session[s] \in Session => session[s].status = "live"
    BY DEF Session
  <1>3. QED BY <1>1, <1>2 DEF SessionInv, Live

\* What a request holds.
LEMMA ReqFields ==
    ASSUME SessionInv, NEW r \in Requests
    PROVE  /\ req[r].pc \in {"idle", "check", "touch", "handle"}
           /\ req[r].pc \in {"check", "touch"} => req[r].token \in Tokens /\ req[r].row \in Session
           /\ req[r].pc = "touch" => req[r].now \in 0..MaxTime
           /\ req[r].pc = "handle" => req[r].user \in Users
           /\ req[r] = Idle => req[r].pc = "idle"
  <1>1. req[r] \in {Idle} \cup Req
    BY DEF SessionInv
  <1>2. QED BY <1>1 DEF Idle, Req

\* A session row has its columns.
LEMMA RowFields ==
    ASSUME NEW row \in Session
    PROVE  row.status = "live" /\ row.user \in Users /\ row.created \in Time /\ row.expires \in Time /\ row.active \in Time
  BY DEF Session

\* A deletion request has its columns.
LEMMA DeletionFields ==
    ASSUME DeletionInv, NEW i \in Rows
    PROVE  /\ deletion[i] # Absent <=> deletion[i] \in Deletion
           /\ deletion[i].status = "pending" => deletion[i] # Absent
           /\ deletion[i] # Absent => /\ deletion[i].user \in Users /\ deletion[i].after \in Time
                                      /\ deletion[i].withdrawn \in BOOLEAN
           /\ Absent.status # "pending"
  <1>1. Absent.status = "absent"
    BY DEF Absent
  <1>2. deletion[i] \in Deletion => /\ deletion[i].status \in {"pending", "canceled"}
                                    /\ deletion[i].user \in Users /\ deletion[i].after \in Time
                                    /\ deletion[i].withdrawn \in BOOLEAN
    BY DEF Deletion
  <1>3. QED BY <1>1, <1>2 DEF DeletionInv

\* What the executor holds.
LEMMA JobFields ==
    ASSUME DeletionInv
    PROVE  /\ job.pc \in {"idle", "anonymise", "delete"}
           /\ job.pc # "idle" => /\ job \in Job
                                 /\ job.entry \in Rows \X Users
                                 /\ job.due \subseteq Rows \X Users
           /\ job = Idle <=> job.pc = "idle"
  <1>1. job \in {Idle} \cup Job
    BY DEF DeletionInv
  <1>2. QED BY <1>1 DEF Idle, Job

\* The executor's next entry is one of those left.
LEMMA NextEntryFacts ==
    ASSUME NEW due, due \subseteq Rows \X Users, NEW j, NextEntry(due, j)
    PROVE  /\ j \in {Idle} \cup Job
           /\ j.pc \in {"idle", "anonymise"}
           /\ j.pc # "idle" => j.due \cup {j.entry} \subseteq due
  <1>1. CASE j = Idle
    BY <1>1 DEF Idle
  <1>2. ASSUME NEW e \in due, j = [pc |-> "anonymise", entry |-> e, due |-> due \ {e}]
        PROVE  j \in Job /\ j.pc = "anonymise" /\ j.due \cup {j.entry} \subseteq due
    BY <1>2 DEF Job
  <1>3. QED BY <1>1, <1>2 DEF NextEntry

-----------------------------------------------------------------------------
(* Frames.                                                                 *)

\* A step that leaves the sessions alone.
LEMMA SessionFrame ==
    ASSUME SessionInv, UNCHANGED <<users, session, req>>
    PROVE  SessionInv'
  BY DEF SessionInv, AcceptedInTime, Live

\* A step that leaves the deletion requests alone.
LEMMA DeletionFrame ==
    ASSUME DeletionInv, UNCHANGED <<users, deletion, job, clock>>
    PROVE  DeletionInv'
  BY DEF DeletionInv, Entries, Listed

\* A step that leaves the events alone.
LEMMA EventFrame ==
    ASSUME EventInv, UNCHANGED <<users, events, job>>
    PROVE  EventInv'
  BY DEF EventInv, Detached

\* A step of a request that leaves the table of sessions alone.
LEMMA RequestStep ==
    ASSUME SessionInv, NEW r \in Requests, NEW rec \in {Idle} \cup Req, Goto(r, rec),
           UNCHANGED <<users, session>>,
           rec.pc \in {"check", "touch"} => Windowed(rec.row),
           rec.pc = "touch" => rec.now <= rec.row.active + Inactivity /\ rec.now <= rec.row.created + AbsoluteTTL
    PROVE  SessionInv'
  <1>1. req' \in [Requests -> {Idle} \cup Req] /\ req'[r] = rec /\ \A q \in Requests : q # r => req'[q] = req[q]
    BY DEF Goto, SessionInv
  <1>2. \A s \in Tokens : Live(s)' <=> Live(s)
    BY DEF Live
  <1>3. AcceptedInTime'
    BY <1>1 DEF SessionInv, AcceptedInTime
  <1>4. QED BY <1>1, <1>2, <1>3 DEF SessionInv, Windowed

\* The end of a request.
LEMMA RequestEnds ==
    ASSUME SessionInv, NEW r \in Requests, Goto(r, Idle), UNCHANGED <<users, session>>
    PROVE  SessionInv'
  <1>1. Idle.pc = "idle"
    BY DEF Idle
  <1>2. QED BY <1>1, RequestStep

\* A step on the table of sessions: rows stay, go, or are live in their window, and
\* a request that moves has left ResolveSession.
LEMMA TableStep ==
    ASSUME SessionInv, UNCHANGED users,
           session' \in [Tokens -> {Absent, Gone} \cup Session],
           \A s \in Tokens : \/ session'[s] = session[s]
                             \/ session'[s] = Gone
                             \/ session'[s] \in Session /\ Windowed(session'[s]) /\ session'[s].user \in users,
           req' \in [Requests -> {Idle} \cup Req],
           \A r \in Requests : req'[r] = req[r] \/ req'[r].pc \in {"idle", "handle"}
    PROVE  SessionInv'
  <1>1. Gone.status = "gone"
    BY DEF Gone
  <1>2. ASSUME NEW s \in Tokens, Live(s)'
        PROVE  Windowed(session'[s]) /\ session'[s].user \in users
    BY <1>1, <1>2 DEF SessionInv, Live, Windowed
  <1>3. AcceptedInTime'
    BY DEF SessionInv, AcceptedInTime
  <1>4. \A r \in Requests : req'[r].pc \in {"check", "touch"} => Windowed(req'[r].row)
    BY DEF SessionInv
  <1>5. QED BY <1>2, <1>3, <1>4 DEF SessionInv, Windowed

-----------------------------------------------------------------------------
(* Sessions.                                                               *)

\* Login creates a row whose window starts now.
LEMMA CreateSessionStep ==
    ASSUME IInv, NEW s \in Tokens, NEW u \in Users, CreateSession(s, u)
    PROVE  IInv'
  <1> DEFINE row == [status |-> "live", user |-> u, created |-> clock,
                     expires |-> clock + Inactivity, active |-> clock]
  <1>1. clock \in 0..MaxTime /\ clock \in Time /\ clock + Inactivity \in Time
    BY Times DEF IInv, DeletionInv
  <1>2. row \in Session /\ Windowed(row) /\ row.user = u /\ u \in users
    BY <1>1 DEF Session, Windowed, CreateSession, References
  <1>3. session' = [session EXCEPT ![s] = row] /\ UNCHANGED <<users, req>>
    BY DEF CreateSession
  <1> HIDE DEF row
  <1>4. SessionInv'
    BY <1>2, <1>3, TableStep DEF IInv, SessionInv
  <1>5. DeletionInv' /\ EventInv'
    BY DeletionFrame, EventFrame DEF IInv, CreateSession
  <1>6. QED BY <1>4, <1>5 DEF IInv, CreateSession

\* Deleting a session row leaves the sessions in order.
LEMMA DeleteSessionStep ==
    ASSUME SessionInv, NEW s \in Tokens
    PROVE  /\ DeleteSession(s) \in [Tokens -> {Absent, Gone} \cup Session]
           /\ \A t \in Tokens : DeleteSession(s)[t] = session[t] \/ DeleteSession(s)[t] = Gone
  BY DEF DeleteSession, SessionInv

\* Logout ends a session.
LEMMA LogoutStep ==
    ASSUME IInv, NEW s \in Tokens, Logout(s)
    PROVE  IInv'
  <1>1. SessionInv'
    BY DeleteSessionStep, TableStep DEF IInv, SessionInv, Logout
  <1>2. DeletionInv' /\ EventInv'
    BY DeletionFrame, EventFrame DEF IInv, Logout
  <1>3. QED BY <1>1, <1>2 DEF IInv, Logout

\* ResolveSession reads the row: the copy has the window of the row.
LEMMA ResolveGetStep ==
    ASSUME IInv, NEW r \in Requests, NEW s \in Tokens, ResolveGet(r, s)
    PROVE  IInv'
  <1>1. session[s] \in Session /\ Windowed(session[s])
    BY SessionFields DEF IInv, SessionInv, ResolveGet
  <1> DEFINE rec == [pc |-> "check", token |-> s, row |-> session[s]]
  <1>2. rec \in Req /\ rec.pc = "check" /\ rec.row = session[s]
    BY <1>1 DEF Req
  <1>3. Goto(r, rec)
    BY DEF ResolveGet
  <1> HIDE DEF rec
  <1>4. SessionInv'
    BY <1>1, <1>2, <1>3, RequestStep DEF IInv, ResolveGet
  <1>5. DeletionInv' /\ EventInv'
    BY DeletionFrame, EventFrame DEF IInv, ResolveGet
  <1>6. QED BY <1>4, <1>5 DEF IInv, ResolveGet

\* A copy that is not expired is within both limits, because its expiry is its last
\* activity plus the window.
LEMMA ResolveCheckStep ==
    ASSUME IInv, NEW r \in Requests, ResolveCheck(r)
    PROVE  IInv'
  <1>1. SessionInv /\ clock \in 0..MaxTime /\ req[r].pc = "check"
    BY DEF IInv, DeletionInv, ResolveCheck
  <1>2. req[r].token \in Tokens /\ req[r].row \in Session /\ Windowed(req[r].row)
    BY <1>1, ReqFields DEF SessionInv
  <1>3. CASE Expired(req[r].row, clock)
    <2>1. session' = DeleteSession(req[r].token) /\ Goto(r, Idle) /\ UNCHANGED users
      BY <1>3 DEF ResolveCheck
    <2>2. req' \in [Requests -> {Idle} \cup Req] /\ \A q \in Requests : req'[q] = req[q] \/ req'[q].pc \in {"idle", "handle"}
      <3>1. Idle.pc = "idle"
        BY DEF Idle
      <3>2. QED BY <1>1, <2>1, <3>1 DEF Goto, SessionInv
    <2>3. SessionInv'
      BY <1>1, <1>2, <2>1, <2>2, DeleteSessionStep, TableStep
    <2>4. QED BY <2>3, DeletionFrame, EventFrame DEF IInv, ResolveCheck
  <1>4. CASE ~Expired(req[r].row, clock)
    <2> DEFINE rec == [pc |-> "touch", token |-> req[r].token, row |-> req[r].row, now |-> clock]
    <2>1. rec \in Req /\ rec.pc = "touch" /\ rec.row = req[r].row /\ rec.now = clock
      BY <1>1, <1>2 DEF Req
    <2>2. /\ clock \in Nat /\ Inactivity \in Nat /\ AbsoluteTTL \in Nat
          /\ req[r].row.expires \in Nat /\ req[r].row.active \in Nat /\ req[r].row.created \in Nat
      BY <1>1, <1>2, RowFields, Times
    <2>3. clock <= req[r].row.active + Inactivity /\ clock <= req[r].row.created + AbsoluteTTL
      BY <1>2, <1>4, <2>2 DEF Expired, Windowed
    <2>4. (Goto(r, Idle) \/ Goto(r, rec)) /\ UNCHANGED <<users, session>>
      BY <1>4 DEF ResolveCheck
    <2> HIDE DEF rec
    <2>5. SessionInv'
      BY <1>1, <1>2, <2>1, <2>3, <2>4, RequestStep, RequestEnds
    <2>6. QED BY <2>5, DeletionFrame, EventFrame DEF IInv, ResolveCheck
  <1>5. QED BY <1>3, <1>4

\* Touch moves expiry and last activity together, also when an older request comes
\* last, and only where there is a row.
LEMMA ResolveTouchStep ==
    ASSUME IInv, NEW r \in Requests, ResolveTouch(r)
    PROVE  IInv'
  <1> DEFINE s == req[r].token
             now == req[r].now
             rec == [pc |-> "handle", user |-> req[r].row.user]
  <1>1. SessionInv /\ req[r].pc = "touch"
    BY DEF IInv, ResolveTouch
  <1>2. s \in Tokens /\ req[r].row \in Session /\ now \in 0..MaxTime
    BY <1>1, ReqFields
  <1>3. now \in Time /\ now + Inactivity \in Time /\ req[r].row.user \in Users
    BY <1>2, Times, RowFields
  <1>4. ASSUME Live(s)
        PROVE  LET row == Extended(session[s], now)
               IN  row \in Session /\ Windowed(row) /\ row.user \in users
    <2>1. session[s] \in Session /\ session[s].user \in users
      BY <1>1, <1>2, <1>4, SessionFields DEF SessionInv
    <2>2. QED BY <1>3, <2>1 DEF Extended, Session, Windowed
  <1>5. /\ session' \in [Tokens -> {Absent, Gone} \cup Session]
        /\ \A t \in Tokens : \/ session'[t] = session[t]
                             \/ session'[t] \in Session /\ Windowed(session'[t]) /\ session'[t].user \in users
    <2>1. session \in [Tokens -> {Absent, Gone} \cup Session]
      BY <1>1 DEF SessionInv
    <2>2. CASE ~Live(s)
      BY <2>1, <2>2 DEF ResolveTouch, Touch
    <2>3. CASE Live(s)
      <3> DEFINE row == Extended(session[s], now)
      <3>1. session' = [session EXCEPT ![s] = row]
        BY <2>3 DEF ResolveTouch, Touch
      <3>2. row \in Session /\ Windowed(row) /\ row.user \in users
        BY <1>4, <2>3
      <3> HIDE DEF row
      <3>3. QED BY <1>2, <2>1, <3>1, <3>2
    <2>4. QED BY <2>2, <2>3
  <1>6. rec \in Req /\ rec.pc = "handle"
    BY <1>3 DEF Req
  <1>7. req' = [req EXCEPT ![r] = rec]
    BY DEF ResolveTouch, Accept, Goto
  <1> HIDE DEF rec
  <1>8. req' \in [Requests -> {Idle} \cup Req] /\ \A q \in Requests : req'[q] = req[q] \/ req'[q].pc = "handle"
    BY <1>1, <1>6, <1>7 DEF SessionInv
  <1>9. SessionInv'
    BY <1>1, <1>5, <1>8, TableStep DEF ResolveTouch
  <1>10. QED BY <1>9, DeletionFrame, EventFrame DEF IInv, ResolveTouch

\* A failed statement ends a request, or lets it in without the Touch.
LEMMA StatementErrorStep ==
    ASSUME IInv, NEW r \in Requests, StatementError(r)
    PROVE  IInv'
  <1>1. CASE req[r].pc = "touch"
    <2> DEFINE rec == [pc |-> "handle", user |-> req[r].row.user]
    <2>1. rec \in Req /\ rec.pc = "handle"
      BY <1>1, ReqFields, RowFields DEF IInv, Req
    <2>2. Goto(r, rec)
      BY <1>1 DEF StatementError, Accept
    <2> HIDE DEF rec
    <2>3. SessionInv'
      BY <2>1, <2>2, RequestStep DEF IInv, StatementError
    <2>4. QED BY <2>3, DeletionFrame, EventFrame DEF IInv, StatementError
  <1>2. CASE req[r].pc # "touch"
    BY <1>2, RequestEnds, DeletionFrame, EventFrame DEF IInv, StatementError
  <1>3. QED BY <1>1, <1>2

-----------------------------------------------------------------------------
(* Deletion requests and events.                                           *)

\* Time makes no listed entry undue.
LEMMA TickStep ==
    ASSUME IInv, Tick
    PROVE  IInv'
  <1>1. SessionInv' /\ EventInv'
    BY SessionFrame, EventFrame DEF IInv, Tick
  <1>2. clock \in Nat /\ MaxTime \in Nat /\ clock' = clock + 1 /\ clock' \in 0..MaxTime
    BY AccountAssumption DEF IInv, DeletionInv, Tick
  <1>3. ASSUME NEW e \in Entries, e[2] \in users
        PROVE  deletion[e[1]].after <= clock'
    <2>1. e \in Rows \X Users
      BY <1>3, JobFields DEF IInv, Entries
    <2>2. Listed(e) /\ e[1] \in Rows
      BY <1>3, <2>1 DEF IInv, DeletionInv
    <2>3. deletion[e[1]].after \in Nat /\ deletion[e[1]].after <= clock
      BY <1>3, <2>2, DeletionFields, Times DEF IInv, Listed
    <2>4. QED BY <1>2, <2>3
  <1>4. DeletionInv'
    BY <1>2, <1>3 DEF IInv, DeletionInv, Entries, Listed, Tick
  <1>5. QED BY <1>1, <1>4 DEF IInv, Tick

\* A request for deletion needs its user; the row it takes is not on the list for a
\* user who exists.
LEMMA RequestDeletionStep ==
    ASSUME IInv, NEW r \in Requests, NEW i \in Rows, RequestDeletion(r, i)
    PROVE  IInv'
  <1> DEFINE u == req[r].user
             row == [status |-> "pending", user |-> u, after |-> clock + DeletionDelay, withdrawn |-> FALSE]
  <1>1. SessionInv' /\ EventInv'
    BY RequestEnds, EventFrame DEF IInv, RequestDeletion, Handle
  <1>2. u \in Users /\ u \in users /\ deletion[i] = Absent
    BY ReqFields DEF IInv, RequestDeletion, Handle, References
  <1>3. row \in Deletion /\ row.user = u /\ ~row.withdrawn
    <2>1. clock + DeletionDelay \in Time
      BY Times DEF IInv, DeletionInv
    <2>2. QED BY <1>2, <2>1 DEF Deletion
  <1>4. deletion' = [deletion EXCEPT ![i] = row]
    BY DEF RequestDeletion, CreateDeletionRequest
  <1> HIDE DEF row, u
  <1>5. \A j \in Rows : deletion'[j] = IF j = i THEN row ELSE deletion[j]
    BY <1>4 DEF IInv, DeletionInv
  <1>6. ASSUME NEW e \in Entries, e[2] \in users
        PROVE  deletion'[e[1]] = deletion[e[1]]
    <2>1. e \in Rows \X Users
      BY <1>6, JobFields DEF IInv, Entries
    <2>2. e[1] \in Rows /\ Listed(e)
      BY <1>6, <2>1 DEF IInv, DeletionInv
    <2>3. QED BY <1>2, <1>5, <1>6, <2>2 DEF Listed
  <1>7. DeletionInv'
    <2>1. UNCHANGED <<users, job, clock>>
      BY DEF RequestDeletion
    <2>2. deletion' \in [Rows -> {Absent} \cup Deletion]
      BY <1>3, <1>4 DEF IInv, DeletionInv
    <2>3. \A j \in Rows : deletion'[j].status = "pending" => ~deletion'[j].withdrawn
      BY <1>3, <1>5 DEF IInv, DeletionInv
    <2>4. \A j \in Rows : deletion'[j] # Absent => deletion'[j].user \in users
      BY <1>2, <1>3, <1>5 DEF IInv, DeletionInv
    <2>5. \A e \in Entries : Listed(e)'
      BY <1>6, <2>1 DEF IInv, DeletionInv, Listed
    <2>6. Entries' = Entries
      BY <2>1 DEF Entries
    <2>7. QED BY <2>1, <2>2, <2>3, <2>4, <2>5, <2>6 DEF IInv, DeletionInv
  <1>8. QED BY <1>1, <1>7 DEF IInv, RequestDeletion

\* A cancel marks the rows of its user, and withdraws those the executor does not hold.
LEMMA CancelDeletionStep ==
    ASSUME IInv, NEW r \in Requests, CancelDeletion(r)
    PROVE  IInv'
  <1> DEFINE u == req[r].user
             new(i) == IF deletion[i] # Absent /\ deletion[i].user = u /\ ~Held(i)
                       THEN [CancelDeletionRows(u)[i] EXCEPT !.withdrawn = TRUE] ELSE CancelDeletionRows(u)[i]
  <1>1. SessionInv' /\ EventInv'
    BY RequestEnds, EventFrame DEF IInv, CancelDeletion, Handle
  <1>2. ASSUME NEW i \in Rows
        PROVE  /\ deletion'[i] \in {Absent} \cup Deletion
               /\ deletion[i] = Absent <=> deletion'[i] = Absent
               /\ deletion[i] # Absent => /\ deletion'[i].user = deletion[i].user
                                          /\ deletion'[i].after = deletion[i].after
               /\ Held(i) => deletion'[i].withdrawn = deletion[i].withdrawn
               /\ deletion'[i].status = "pending" => deletion'[i] = deletion[i]
    <2>1. deletion'[i] = new(i)
      BY DEF CancelDeletion
    <2>2. CASE deletion[i] = Absent
      <3>1. deletion[i].status # "pending"
        BY <2>2, DeletionFields DEF IInv
      <3>2. new(i) = deletion[i]
        BY <2>2, <3>1 DEF CancelDeletionRows
      <3>3. QED BY <2>1, <2>2, <3>2
    <2>3. CASE deletion[i] # Absent
      <3>1. deletion[i] \in Deletion /\ Absent \notin Deletion
        BY <2>3, DeletionFields DEF IInv, Absent, Deletion
      <3> DEFINE mid == CancelDeletionRows(u)[i]
      <3>2. \/ mid = deletion[i] /\ ~(deletion[i].status = "pending" /\ deletion[i].user = u)
            \/ mid = [deletion[i] EXCEPT !.status = "canceled"]
        BY DEF CancelDeletionRows
      <3>3. /\ mid \in Deletion
            /\ mid.user = deletion[i].user /\ mid.after = deletion[i].after /\ mid.withdrawn = deletion[i].withdrawn
            /\ mid.status = "pending" => mid = deletion[i] /\ deletion[i].user # u
        BY <3>1, <3>2 DEF Deletion
      <3>4. deletion'[i] = IF deletion[i].user = u /\ ~Held(i) THEN [mid EXCEPT !.withdrawn = TRUE] ELSE mid
        BY <2>1, <2>3
      <3> HIDE DEF mid
      <3>5. [mid EXCEPT !.withdrawn = TRUE] \in Deletion /\ [mid EXCEPT !.withdrawn = TRUE].user = mid.user
              /\ [mid EXCEPT !.withdrawn = TRUE].after = mid.after
              /\ [mid EXCEPT !.withdrawn = TRUE].status = mid.status
        BY <3>3 DEF Deletion
      <3>6. CASE deletion[i].user = u /\ ~Held(i)
        <4>1. deletion'[i] = [mid EXCEPT !.withdrawn = TRUE]
          BY <3>4, <3>6
        <4>2. deletion'[i] \in Deletion /\ deletion'[i].user = mid.user /\ deletion'[i].after = mid.after
                /\ deletion'[i].status = mid.status
          BY <3>5, <4>1
        <4>3. QED BY <2>3, <3>1, <3>3, <3>6, <4>2
      <3>7. CASE ~(deletion[i].user = u /\ ~Held(i))
        <4>1. deletion'[i] = mid
          BY <3>4, <3>7
        <4>2. QED BY <2>3, <3>1, <3>3, <4>1
      <3>8. QED BY <3>6, <3>7
    <2>4. QED BY <2>2, <2>3
  <1>3. ASSUME NEW e \in Entries, e[2] \in users
        PROVE  Listed(e)'
    <2>1. e \in Rows \X Users /\ job.pc # "idle" /\ e \in job.due \cup {job.entry}
      BY <1>3, JobFields DEF IInv, Entries
    <2>2. e[1] \in Rows /\ Held(e[1]) /\ Listed(e)
      BY <1>3, <2>1 DEF Held, IInv, DeletionInv
    <2>3. QED BY <1>2, <1>3, <2>2 DEF Listed, CancelDeletion
  <1>4. DeletionInv'
    <2>1. UNCHANGED <<users, job, clock>>
      BY DEF CancelDeletion
    <2>2. deletion' \in [Rows -> {Absent} \cup Deletion]
      <3>1. \A i \in Rows : deletion'[i] \in {Absent} \cup Deletion
        BY <1>2
      <3>2. deletion' = [i \in Rows |-> new(i)]
        BY DEF CancelDeletion
      <3> HIDE DEF new
      <3>3. QED BY <3>1, <3>2
    <2>3. \A i \in Rows : deletion'[i].status = "pending" => ~deletion'[i].withdrawn
      BY <1>2 DEF IInv, DeletionInv
    <2>4. \A i \in Rows : deletion'[i] # Absent => deletion'[i].user \in users
      BY <1>2 DEF IInv, DeletionInv
    <2>5. Entries' = Entries
      BY <2>1 DEF Entries
    <2>6. \A e \in Entries : Listed(e)'
      BY <1>3, <2>1 DEF Listed
    <2>7. QED BY <2>1, <2>2, <2>3, <2>4, <2>5, <2>6 DEF IInv, DeletionInv
  <1>5. QED BY <1>1, <1>4 DEF IInv, CancelDeletion

\* An event that names a user who is gone or being deleted is recorded as late.
LEMMA RecordEventFacts ==
    ASSUME IInv, NEW e \in Events, NEW anon \in Users \cup {None}, events' = RecordEvent(e, anon),
           UNCHANGED <<users, job>>
    PROVE  EventInv'
  <1> DEFINE late == anon # None /\ (anon \notin users \/ (job.pc = "delete" /\ job.entry[2] = anon))
             row == [status |-> "recorded", anon |-> anon, late |-> late]
  <1>1. row \in Event /\ row.anon = anon /\ row.late = late
    <2>1. late \in BOOLEAN
      OBVIOUS
    <2> HIDE DEF late
    <2>2. QED BY <2>1 DEF Event
  <1>2. events' = [events EXCEPT ![e] = row]
    BY DEF RecordEvent
  <1> HIDE DEF row
  <1>3. events' \in [Events -> {Absent} \cup Event] /\ events'[e] = row /\ \A f \in Events : f # e => events'[f] = events[f]
    BY <1>1, <1>2 DEF IInv, EventInv
  <1>4. ASSUME NEW u \in Users, Detached(u), anon = u => late
        PROVE  Detached(u)'
    BY <1>1, <1>3, <1>4 DEF Detached
  <1>5. ASSUME NEW u \in Users \ users
        PROVE  Detached(u)'
    <2>1. Detached(u) /\ (anon = u => late)
      BY AccountAssumption DEF IInv, EventInv
    <2>2. QED BY <1>4, <2>1
  <1>6. ASSUME job.pc = "delete"
        PROVE  Detached(job.entry[2])'
    <2>1. job.entry[2] \in Users
      BY <1>6, JobFields DEF IInv
    <2>2. PICK u \in Users : u = job.entry[2]
      BY <2>1
    <2>3. Detached(u)'
      BY <1>4, <1>6, <2>2, AccountAssumption DEF IInv, EventInv
    <2>4. QED BY <2>2, <2>3 DEF Detached
  <1>7. QED BY <1>3, <1>5, <1>6 DEF EventInv, IInv

\* Recording an event, by a request and without one.
LEMMA TrackStep ==
    ASSUME IInv, NEW e \in Events, TrackAnonymous(e) \/ \E r \in Requests : Track(r, e)
    PROVE  IInv'
  <1>1. CASE TrackAnonymous(e)
    BY <1>1, RecordEventFacts, SessionFrame, DeletionFrame DEF IInv, TrackAnonymous
  <1>2. ASSUME NEW r \in Requests, Track(r, e)
        PROVE  IInv'
    <2>1. req[r].user \in Users
      BY <1>2, ReqFields DEF IInv, Track, Handle
    <2>2. EventInv'
      BY <1>2, <2>1, RecordEventFacts DEF Track
    <2>3. QED BY <1>2, <2>2, RequestEnds, DeletionFrame DEF IInv, Track, Handle
  <1>3. QED BY <1>1, <1>2

-----------------------------------------------------------------------------
(* The executor.                                                           *)

\* Going on to the next entry, or ending, while the tables stay.
LEMMA JobStep ==
    ASSUME IInv, NEW due, due \subseteq Rows \X Users, NextEntry(due, job'),
           \A e \in due : Listed(e), UNCHANGED <<users, deletion, events, clock>>
    PROVE  DeletionInv' /\ EventInv'
  <1>1. /\ job' \in {Idle} \cup Job /\ job'.pc \in {"idle", "anonymise"}
        /\ job'.pc # "idle" => job'.due \cup {job'.entry} \subseteq due
    BY NextEntryFacts
  <1>2. Entries' \subseteq due
    BY <1>1 DEF Entries
  <1>3. \A e \in due : Listed(e)'
    BY DEF Listed
  <1>4. DeletionInv'
    BY <1>1, <1>2, <1>3 DEF IInv, DeletionInv
  <1>5. EventInv'
    BY <1>1 DEF IInv, EventInv, Detached
  <1>6. QED BY <1>4, <1>5

\* ListDuePending reads rows that are due, pending and so not withdrawn.
LEMMA RunStep ==
    ASSUME IInv, RunDeletionExecutor
    PROVE  IInv'
  <1>1. ASSUME NEW e \in ListDuePending
        PROVE  e \in Rows \X Users /\ Listed(e)
    <2>1. PICK i \in Rows : Due(i) /\ e = <<i, deletion[i].user>>
      BY DEF ListDuePending
    <2>2. deletion[i] # Absent /\ deletion[i].user \in Users /\ ~deletion[i].withdrawn /\ deletion[i].after <= clock
      BY <2>1, DeletionFields DEF Due, IInv, DeletionInv
    <2>3. e \in Rows \X Users /\ e[1] = i /\ e[2] = deletion[i].user
      BY <2>1, <2>2
    <2>4. QED BY <2>2, <2>3 DEF Listed
  <1>2. DeletionInv' /\ EventInv'
    BY <1>1, JobStep DEF RunDeletionExecutor
  <1>3. QED BY <1>2, SessionFrame DEF IInv, RunDeletionExecutor

\* After AnonymiseUserEvents no event names the user of the entry.
LEMMA AnonymiseStep ==
    ASSUME IInv, AnonymiseUserEvents
    PROVE  IInv'
  <1>1. job.pc = "anonymise" /\ job \in Job /\ job.entry \in Rows \X Users /\ job.due \subseteq Rows \X Users
    BY JobFields DEF IInv, AnonymiseUserEvents
  <1>2. PICK u \in Users : u = job.entry[2]
    BY <1>1
  <1>3. job' \in Job /\ job'.pc = "delete" /\ job'.entry = job.entry /\ job'.due = job.due
    BY <1>1 DEF AnonymiseUserEvents, Job
  <1>4. DeletionInv'
    <2>1. Entries' = Entries
      BY <1>1, <1>3 DEF Entries
    <2>2. \A e \in Entries : Listed(e)'
      BY DEF IInv, DeletionInv, Listed, AnonymiseUserEvents
    <2>3. QED BY <1>3, <2>1, <2>2 DEF IInv, DeletionInv, AnonymiseUserEvents
  <1>5. ASSUME NEW e \in Events
        PROVE  /\ events'[e] \in {Absent} \cup Event
               /\ \/ events'[e] = events[e] /\ ~(events[e].status = "recorded" /\ events[e].anon = u)
                  \/ events'[e].anon = None
    <2>1. events[e] \in {Absent} \cup Event
      BY DEF IInv, EventInv
    <2>2. events'[e] = IF events[e].status = "recorded" /\ events[e].anon = u
                       THEN [events[e] EXCEPT !.anon = None] ELSE events[e]
      BY <1>2 DEF AnonymiseUserEvents, UnlinkedEvents
    <2>3. CASE events[e].status = "recorded" /\ events[e].anon = u
      <3>1. events[e] \in Event
        BY <2>1, <2>3 DEF Absent
      <3>2. events'[e] = [events[e] EXCEPT !.anon = None]
        BY <2>2, <2>3
      <3>3. QED BY <3>1, <3>2 DEF Event
    <2>4. CASE ~(events[e].status = "recorded" /\ events[e].anon = u)
      BY <2>1, <2>2, <2>4
    <2>5. QED BY <2>3, <2>4
  <1>6. EventInv'
    <2>1. events' \in [Events -> {Absent} \cup Event]
      BY <1>5 DEF AnonymiseUserEvents, UnlinkedEvents
    <2>2. ASSUME NEW v \in Users \ users
          PROVE  Detached(v)'
      <3>1. Detached(v) /\ v # None
        BY AccountAssumption DEF IInv, EventInv
      <3>2. QED BY <1>5, <3>1 DEF Detached
    <2>3. Detached(u)'
      BY <1>5, AccountAssumption DEF Detached
    <2>4. Detached(job.entry[2])'
      BY <1>2, <1>3, <2>3 DEF Detached
    <2>5. QED BY <2>1, <2>2, <2>4 DEF EventInv, AnonymiseUserEvents
  <1>7. QED BY <1>4, <1>6, SessionFrame DEF IInv, AnonymiseUserEvents

\* DELETE of the user and its cascades leave no row and no early event of his.
LEMMA HardDeleteStep ==
    ASSUME IInv, HardDelete
    PROVE  IInv'
  <1>1. job.pc = "delete" /\ job.entry \in Rows \X Users /\ job.due \subseteq Rows \X Users
    BY JobFields DEF IInv, HardDelete
  <1>2. PICK u \in Users : u = job.entry[2]
    BY <1>1
  <1>3. users' = users \ {u} /\ Detached(u)
    BY <1>1, <1>2 DEF HardDelete, IInv, EventInv
  <1>4. SessionInv'
    <2>1. ASSUME NEW s \in Tokens
          PROVE  session'[s] = IF Live(s) /\ session[s].user = u THEN Gone ELSE session[s]
      BY <1>2 DEF HardDelete
    <2>2. session' \in [Tokens -> {Absent, Gone} \cup Session]
      <3>1. \A s \in Tokens : session'[s] \in {Absent, Gone} \cup Session
        BY <2>1 DEF IInv, SessionInv
      <3>2. QED BY <3>1 DEF HardDelete
    <2>3. ASSUME NEW s \in Tokens, Live(s)'
          PROVE  Windowed(session'[s]) /\ session'[s].user \in users'
      <3>1. session'[s] = session[s] /\ Live(s) /\ session[s].user # u
        <4>1. session'[s].status = "live" /\ Gone.status = "gone"
          BY <2>3 DEF Live, Gone
        <4>2. QED BY <2>1, <4>1 DEF Live
      <3>2. QED BY <1>3, <3>1 DEF IInv, SessionInv, Windowed
    <2>4. UNCHANGED req
      BY DEF HardDelete
    <2>5. AcceptedInTime'
      BY <2>4 DEF AcceptedInTime, IInv, SessionInv
    <2>6. QED BY <2>2, <2>3, <2>4, <2>5 DEF IInv, SessionInv, Windowed
  <1>5. /\ job' \in {Idle} \cup Job /\ job'.pc \in {"idle", "anonymise"}
        /\ job'.pc # "idle" => job'.due \cup {job'.entry} \subseteq job.due
    BY <1>1, NextEntryFacts DEF HardDelete
  <1>6. DeletionInv'
    <2>1. ASSUME NEW i \in Rows
          PROVE  deletion'[i] = IF deletion[i] # Absent /\ deletion[i].user = u THEN Absent ELSE deletion[i]
      BY <1>2 DEF HardDelete
    <2>2. deletion' \in [Rows -> {Absent} \cup Deletion]
      <3>1. \A i \in Rows : deletion'[i] \in {Absent} \cup Deletion
        BY <2>1 DEF IInv, DeletionInv
      <3>2. QED BY <3>1 DEF HardDelete
    <2>3. \A i \in Rows : deletion'[i].status = "pending" => ~deletion'[i].withdrawn
      BY <2>1, DeletionFields DEF IInv, DeletionInv
    <2>4. \A i \in Rows : deletion'[i] # Absent => deletion'[i].user \in users'
      BY <1>3, <2>1 DEF IInv, DeletionInv
    <2>5. ASSUME NEW e \in Entries', e[2] \in users'
          PROVE  Listed(e)'
      <3>1. e \in job.due /\ e \in Rows \X Users /\ e \in Entries
        BY <1>1, <1>5, <2>5 DEF Entries
      <3>2. e[2] \in users /\ e[2] # u /\ e[1] \in Rows
        BY <1>3, <2>5, <3>1
      <3>3. Listed(e)
        BY <3>1 DEF IInv, DeletionInv
      <3>4. deletion'[e[1]] = deletion[e[1]]
        BY <2>1, <3>2, <3>3 DEF Listed
      <3>5. UNCHANGED clock
        BY DEF HardDelete
      <3>6. QED BY <3>2, <3>3, <3>4, <3>5 DEF Listed
    <2>6. \A e \in Entries' : Listed(e)'
      BY <2>5 DEF Listed
    <2>7. users' \subseteq Users
      BY <1>3 DEF IInv, DeletionInv
    <2>8. UNCHANGED clock
      BY DEF HardDelete
    <2>9. QED BY <1>5, <2>2, <2>3, <2>4, <2>6, <2>7, <2>8 DEF IInv, DeletionInv
  <1>7. EventInv'
    <2>1. UNCHANGED events
      BY DEF HardDelete
    <2>2. \A v \in Users : Detached(v)' <=> Detached(v)
      BY <2>1 DEF Detached
    <2>3. \A v \in Users \ users' : Detached(v)
      BY <1>3 DEF IInv, EventInv
    <2>4. QED BY <1>5, <2>1, <2>2, <2>3 DEF IInv, EventInv
  <1>8. QED BY <1>4, <1>6, <1>7 DEF IInv, HardDelete

\* An entry that fails is dropped from the list; nothing else changes.
LEMMA ExecutorErrorStep ==
    ASSUME IInv, ExecutorError
    PROVE  IInv'
  <1>1. job.pc # "idle" /\ job.due \subseteq Rows \X Users
    BY JobFields DEF IInv, ExecutorError
  <1>2. \A e \in job.due : Listed(e)
    BY <1>1 DEF IInv, DeletionInv, Entries
  <1>3. DeletionInv' /\ EventInv'
    BY <1>1, <1>2, JobStep DEF ExecutorError
  <1>4. QED BY <1>3, SessionFrame DEF IInv, ExecutorError

\* A restart forgets the requests and the list.
LEMMA RestartStep ==
    ASSUME IInv, Restart
    PROVE  IInv'
  <1>1. Idle.pc = "idle"
    BY DEF Idle
  <1>2. SessionInv'
    BY <1>1, TableStep DEF IInv, SessionInv, Restart
  <1>3. DeletionInv'
    BY <1>1 DEF IInv, DeletionInv, Entries, Restart
  <1>4. EventInv'
    BY <1>1 DEF IInv, EventInv, Detached, Restart
  <1>5. QED BY <1>2, <1>3, <1>4 DEF IInv, Restart

-----------------------------------------------------------------------------
(* The inductive invariant and what follows from it.                       *)

\* Users without sessions, requests or events satisfy it.
LEMMA IInvInit == Init => IInv
  <1> SUFFICES ASSUME Init
               PROVE  IInv
    OBVIOUS
  <1>1. Absent.status = "absent" /\ Idle.pc = "idle"
    BY DEF Absent, Idle
  <1>2. SessionInv
    BY <1>1 DEF Init, SessionInv, AcceptedInTime, Live
  <1>3. DeletionInv
    BY <1>1, AccountAssumption DEF Init, DeletionInv, Entries
  <1>4. EventInv
    BY <1>1 DEF Init, EventInv
  <1>5. QED BY <1>2, <1>3, <1>4 DEF IInv, Init

\* Every statement of a request or of the executor, every failure and the clock keep it.
LEMMA IInvStep == IInv /\ [Next]_vars => IInv'
  <1>1. ASSUME IInv, UNCHANGED vars
        PROVE  IInv'
    BY <1>1, SessionFrame, DeletionFrame, EventFrame DEF vars, IInv
  <1>2. ASSUME IInv, NEW r \in Requests, HandleRead(r)
        PROVE  IInv'
    BY <1>2, RequestEnds, DeletionFrame, EventFrame DEF IInv, HandleRead, Handle
  <1>3. ASSUME IInv, Next
        PROVE  IInv'
    BY <1>1, <1>2, <1>3, TickStep, CreateSessionStep, LogoutStep, ResolveGetStep, ResolveCheckStep,
       ResolveTouchStep, RequestDeletionStep, CancelDeletionStep, TrackStep, RunStep, AnonymiseStep,
       HardDeleteStep, StatementErrorStep, ExecutorErrorStep, RestartStep
       DEF Next, Executor, ResolveUnknown
  <1>4. QED BY <1>1, <1>3

\* The inductive invariant holds in every reachable state.
THEOREM Inductive == Spec => []IInv
  BY IInvInit, IInvStep, PTL DEF Spec

\* The tables, the requests and the executor keep their types.
THEOREM TypeCorrect == Spec => []TypeOK
  <1>1. IInv => TypeOK
    BY ReqFields, JobFields, Times DEF IInv, TypeOK, SessionInv, DeletionInv, EventInv
  <1>2. QED BY <1>1, Inductive, PTL

\* ResolveSession lets a request in only within the inactivity window and the
\* absolute lifetime, however requests on one session overlap.
THEOREM InTime == Spec => []AcceptedInTime
  <1>1. IInv => AcceptedInTime
    BY DEF IInv, SessionInv
  <1>2. QED BY <1>1, Inductive, PTL

\* No session, no deletion request and no event but late ones refers to an account
\* that is gone, whatever requests in flight inserted after the DELETE.
THEOREM GoneWithDependents == Spec => []DependentsGone
  <1>1. IInv => DependentsGone
    <2> SUFFICES ASSUME IInv, NEW u \in Users \ users
                 PROVE  /\ \A s \in Tokens : Live(s) => session[s].user # u
                        /\ \A i \in Rows : deletion[i] # Absent => deletion[i].user # u
                        /\ Detached(u)
      BY DEF DependentsGone, Detached
    <2>1. QED BY DEF IInv, SessionInv, DeletionInv, EventInv
  <1>2. QED BY <1>1, Inductive, PTL

\* Touch finds no row to revive: a session that ended stays ended.
THEOREM EndedForever == Spec => EndedSessionsStayEnded
  <1>1. ASSUME IInv, [Next]_vars, NEW s \in Tokens, session[s] = Gone
        PROVE  session'[s] = Gone
    <2>1. SessionInv /\ ~Live(s) /\ session[s] # Absent
      BY <1>1, SessionFields DEF IInv
    <2>2. ASSUME NEW t \in Tokens, NEW row, session' = [session EXCEPT ![t] = row], Live(t) \/ session[t] = Absent
          PROVE  session'[s] = Gone
      BY <1>1, <2>1, <2>2 DEF SessionInv
    <2>3. ASSUME NEW t \in Tokens, session' = DeleteSession(t)
          PROVE  session'[s] = Gone
      BY <1>1, <2>2, <2>3 DEF DeleteSession
    <2>4. CASE UNCHANGED session
      BY <1>1, <2>4
    <2>5. ASSUME NEW r \in Requests, ResolveTouch(r)
          PROVE  session'[s] = Gone
      <3>1. req[r].token \in Tokens
        BY <2>1, <2>5, ReqFields DEF ResolveTouch
      <3>2. QED BY <1>1, <2>2, <2>5, <3>1 DEF ResolveTouch, Touch
    <2>6. ASSUME NEW r \in Requests, ResolveCheck(r)
          PROVE  session'[s] = Gone
      <3>1. req[r].token \in Tokens
        BY <2>1, <2>6, ReqFields DEF ResolveCheck
      <3>2. QED BY <2>3, <2>4, <2>6, <3>1 DEF ResolveCheck
    <2>7. CASE HardDelete
      BY <1>1, <2>1, <2>7 DEF HardDelete
    <2>8. ASSUME NEW t \in Tokens, Logout(t) \/ \E u \in Users : CreateSession(t, u)
          PROVE  session'[s] = Gone
      BY <2>2, <2>3, <2>8 DEF Logout, CreateSession
    <2>9. CASE Next
      BY <2>4, <2>5, <2>6, <2>7, <2>8, <2>9
         DEF Next, Executor, Tick, ResolveGet, ResolveUnknown, vars, HandleRead, RequestDeletion, CancelDeletion,
             Track, TrackAnonymous, RunDeletionExecutor, AnonymiseUserEvents, StatementError, ExecutorError, Restart
    <2>10. QED BY <1>1, <2>4, <2>9 DEF vars
  <1>2. IInv /\ [Next]_vars => [\A s \in Tokens : session[s] = Gone => session'[s] = Gone]_vars
    BY <1>1
  <1>3. QED BY <1>2, Inductive, PTL DEF Spec, EndedSessionsStayEnded

\* Only HardDelete removes a user, and the entry it works on is a due request of his
\* that he had not withdrawn.
THEOREM OnRequest == Spec => DeletedOnRequest
  <1>1. ASSUME IInv, [Next]_vars, NEW u \in users \ users'
        PROVE  LET row == deletion[job.entry[1]]
               IN  row # Absent /\ row.user = u /\ row.after <= clock /\ ~row.withdrawn
    <2>1. HardDelete
      BY <1>1 DEF vars, Next, Executor, Tick, CreateSession, Logout, ResolveGet, ResolveUnknown, ResolveCheck,
             ResolveTouch, HandleRead, RequestDeletion, CancelDeletion, Track, TrackAnonymous,
             RunDeletionExecutor, AnonymiseUserEvents, StatementError, ExecutorError, Restart
    <2>2. u = job.entry[2] /\ job.pc = "delete"
      BY <1>1, <2>1 DEF HardDelete
    <2>3. Listed(job.entry)
      BY <1>1, <2>2 DEF IInv, DeletionInv, Entries
    <2>4. QED BY <1>1, <2>2, <2>3 DEF Listed
  <1>2. IInv /\ [Next]_vars =>
           [\A u \in users \ users' :
               LET row == deletion[job.entry[1]]
               IN  row # Absent /\ row.user = u /\ row.after <= clock /\ ~row.withdrawn]_vars
    BY <1>1
  <1>3. QED BY <1>2, Inductive, PTL DEF Spec, DeletedOnRequest
=============================================================================
