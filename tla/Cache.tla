-------------------------------- MODULE Cache --------------------------------
(***************************************************************************)
(* The in-process response cache in front of the shared list of group      *)
(* reservations.  The list masks the organizer of every group the viewer   *)
(* may not see in full; the middleware stores the answer of the handler    *)
(* under the path and the query, whoever asked.                            *)
(***************************************************************************)
EXTENDS Naturals

CONSTANTS
    Groups,     \* group ids (a bound)
    Users,      \* signed-in viewers
    Admins,     \* the users with is_admin
    Queries,    \* query strings; each selects a page that holds every group
    Requests,   \* requests to GET /api/groups in flight at once
    TTL,        \* the cache's ttl
    MaxTime,    \* bound on the clock
    Anonymous,  \* CurrentUser is nil
    None

Viewers == Users \cup {Anonymous}

VARIABLES
    organizer,  \* organizer_id of each group, None before it is inserted
    entry,      \* the cache's map: an entry for each key, or None
    req,        \* requests to the list
    seen,       \* history: who was sent which organizer's name and email in full
    clock

vars == <<organizer, entry, req, seen, clock>>

\* A body is the set of the groups it shows in full.
Entry == [full : SUBSET Groups, expires : 0..(MaxTime + TTL)]

Idle == [pc |-> "idle"]

\* "store" is FALSE for an admin who bypasses the cache.
Request == [pc : {"get", "drop", "list", "set"}, viewer : Viewers, key : Queries,
            store : BOOLEAN, full : SUBSET Groups]

-----------------------------------------------------------------------------
CanSeeOrganizerPII(v, g) == v \in Admins \/ (v # Anonymous /\ organizer[g] = v)

\* projectGroup over the rows of the list.
ProjectGroups(v) == {g \in Groups : organizer[g] # None /\ CanSeeOrganizerPII(v, g)}

\* A new entry lives for one TTL; an entry is stale strictly after that.
NewEntry(full) == [full |-> full, expires |-> clock + TTL]

Stale(e) == clock > e.expires

Sent(v, full) == seen' = seen \cup ({v} \X full)

Goto(r, pc) == req' = [req EXCEPT ![r].pc = pc]

Done(r) == req' = [req EXCEPT ![r] = Idle]

Init ==
    /\ organizer = [g \in Groups |-> None]
    /\ entry = [k \in Queries |-> None]
    /\ req = [r \in Requests |-> Idle]
    /\ seen = {}
    /\ clock = 0

Tick ==
    /\ clock < MaxTime
    /\ clock' = clock + 1
    /\ UNCHANGED <<organizer, entry, req, seen>>

\* Create stamps the signed-in user and answers with the whole group; it leaves
\* the cache as it is.
Create(v, g) ==
    /\ organizer[g] = None
    /\ organizer' = [organizer EXCEPT ![g] = v]
    /\ Sent(v, {g})
    /\ UNCHANGED <<entry, req, clock>>

\* The single group is not cached.
GetGroup(v, g) ==
    /\ organizer[g] # None
    /\ Sent(v, {g} \cap ProjectGroups(v))
    /\ UNCHANGED <<organizer, entry, req, clock>>

\* A request comes in; the bypass header counts for admins only.
Begin(r, v, k, bypass) ==
    /\ req[r] = Idle
    /\ bypass => v \in Admins
    /\ req' = [req EXCEPT ![r] = [pc |-> IF bypass THEN "list" ELSE "get", viewer |-> v,
                                  key |-> k, store |-> ~bypass, full |-> {}]]
    /\ UNCHANGED <<organizer, entry, seen, clock>>

\* cache.Get under the read lock: a miss, an entry to drop, or a hit.
CacheMiss(r) ==
    /\ req[r].pc = "get"
    /\ LET e == entry[req[r].key]
       IN  \/ e = None /\ Goto(r, "list")
           \/ e # None /\ Stale(e) /\ Goto(r, "drop")
    /\ UNCHANGED <<organizer, entry, seen, clock>>

CacheHit(r) ==
    /\ req[r].pc = "get"
    /\ LET e == entry[req[r].key]
       IN  /\ e # None /\ ~Stale(e)
           /\ Sent(req[r].viewer, e.full)
    /\ Done(r)
    /\ UNCHANGED <<organizer, entry, clock>>

\* cache.Get under the write lock, whatever the key holds by now.
CacheDrop(r) ==
    /\ req[r].pc = "drop"
    /\ entry' = [entry EXCEPT ![req[r].key] = None]
    /\ Goto(r, "list")
    /\ UNCHANGED <<organizer, seen, clock>>

\* The handler's list, projected for the viewer.
List(r) ==
    /\ req[r].pc = "list"
    /\ LET full == ProjectGroups(req[r].viewer)
       IN  /\ Sent(req[r].viewer, full)
           /\ req' = [req EXCEPT ![r] = IF @.store THEN [@ EXCEPT !.pc = "set", !.full = full] ELSE Idle]
    /\ UNCHANGED <<organizer, entry, clock>>

\* The list's statement fails: the answer is no 2xx and is not stored.
ListFails(r) ==
    /\ req[r].pc = "list"
    /\ Done(r)
    /\ UNCHANGED <<organizer, entry, seen, clock>>

\* The middleware stores the body it captured.
CacheSet(r) ==
    /\ req[r].pc = "set"
    /\ entry' = [entry EXCEPT ![req[r].key] = NewEntry(req[r].full)]
    /\ Done(r)
    /\ UNCHANGED <<organizer, seen, clock>>

CachePurge ==
    /\ entry' = [k \in Queries |-> None]
    /\ UNCHANGED <<organizer, req, seen, clock>>

GCLoop ==
    /\ entry' = [k \in Queries |-> IF entry[k] # None /\ Stale(entry[k]) THEN None ELSE entry[k]]
    /\ UNCHANGED <<organizer, req, seen, clock>>

\* The cache and the requests are the process's memory.
Restart ==
    /\ entry' = [k \in Queries |-> None]
    /\ req' = [r \in Requests |-> Idle]
    /\ UNCHANGED <<organizer, seen, clock>>

Next ==
    \/ Tick
    \/ \E v \in Users, g \in Groups : Create(v, g)
    \/ \E v \in Viewers, g \in Groups : GetGroup(v, g)
    \/ \E r \in Requests, v \in Viewers, k \in Queries, bypass \in BOOLEAN : Begin(r, v, k, bypass)
    \/ \E r \in Requests : CacheMiss(r) \/ CacheHit(r) \/ CacheDrop(r) \/ CacheSet(r)
    \/ \E r \in Requests : List(r) \/ ListFails(r)
    \/ CachePurge
    \/ GCLoop
    \/ Restart

Spec == Init /\ [][Next]_vars

-----------------------------------------------------------------------------
(* Property.                                                               *)

\* "everyone else (including anonymous browsers) gets the MaskedView()
\* projection": no viewer but an admin or the group's organizer is ever sent an
\* organizer's name and email in full.  The entry an organizer's or an admin's
\* request leaves in the cache violates it.
ListMasksOrganizer == \A s \in seen : CanSeeOrganizerPII(s[1], s[2])

=============================================================================
