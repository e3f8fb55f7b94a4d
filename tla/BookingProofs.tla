--------------------------- MODULE BookingProofs ---------------------------
(***************************************************************************)
(* How far overlapping requests can overshoot the rules of a booking: the  *)
(* bounds of DailyCap, NoDoubleBooking and SlotCapacity in the number of   *)
(* requests that ever ran together, and the legal moves of a booking while *)
(* they do not overlap, for any sets of bookings, requests and users.      *)
(*                                                                         *)
(* A rule is checked against the rows that count now.  What can make it    *)
(* false later is already in flight: creations that have passed the check  *)
(* and transitions that will write a status that counts, each on one row.  *)
(* The invariants bound the rows that count together with these.           *)
(***************************************************************************)
EXTENDS Booking, FiniteSetTheorems, TLAPS

\* The shapes of the table and of the requests.
Shape ==
    /\ booking \in [Bookings -> {NoBooking} \cup Row]
    /\ req \in [Requests -> {Idle} \cup [pc : Creating, id : {None}, new : Row, target : {"none"}]
                              \cup [pc : Moving, id : Bookings, new : {NoBooking}, target : Status]]
    /\ now \in 0 .. MaxTime
    /\ peak \in Nat /\ peak <= Cardinality(Requests)

\* What Create has validated or decided stays true of its row, and a transition
\* works on a row that exists.
RowInv ==
    /\ \A b \in Bookings : booking[b].status \in Status => booking[b].party <= Capacity[booking[b].resource]
    /\ \A r \in Requests : req[r].pc \in Creating =>
           req[r].new.party <= Capacity[req[r].new.resource] /\ req[r].new.status \in Active
    /\ \A r \in Requests : req[r].pc \in Moving => booking[req[r].id].status \in Status
    /\ \A r \in Requests : req[r].pc = "busy" => req[r].target = "pending_confirmation"

PeakInv == Cardinality(InFlight) <= peak

\* The rows that a transition under way may put into one of the states T.
Targeted(pcs, T) == {req[r].id : r \in {q \in Requests : req[q].pc \in pcs /\ req[q].target \in T}}

\* Daily cap: the rows of a user and a day that count or may come to count, and
\* the creations that have passed the count.
MayBeActive(u, d) ==
    {b \in Bookings : /\ booking[b].user = u /\ Day(booking[b].start) = d
                      /\ booking[b].status \in Active \/ b \in Targeted(Moving, Active)}

Counted(u, d) ==
    {r \in Requests : /\ req[r].pc \in {"overlap", "sum", "insert"}
                      /\ req[r].new.user = u /\ Day(req[r].new.start) = d}

DayInv ==
    \A u \in Users, d \in Nat :
        Cardinality(MayBeActive(u, d)) + Cardinality(Counted(u, d)) <= MaxActivePerDay + peak - 1

\* Double booking: the same for a user and a tick, and the states but "canceled".
Kept == Status \ {"canceled"}

Covers(row, t) == row.start <= t /\ t < row.end

MayCover(u, t) ==
    {b \in Bookings : /\ booking[b].user = u /\ Covers(booking[b], t)
                      /\ booking[b].status \in Kept \/ b \in Targeted(Moving, Kept)}

Overlapped(u, t) ==
    {r \in Requests : req[r].pc \in {"sum", "insert"} /\ req[r].new.user = u /\ Covers(req[r].new, t)}

CoverInv ==
    \A u \in Users, t \in Nat : Cardinality(MayCover(u, t)) + Cardinality(Overlapped(u, t)) <= peak

\* Capacity: the same for a resource and a tick, counted in seats; a promotion is
\* under way once it has found the resource free.
MaySit(res, t) ==
    {b \in Bookings : /\ booking[b].resource = res /\ Covers(booking[b], t)
                      /\ booking[b].status \in Seated \/ b \in Targeted({"update"}, Seated)}

Fitted(res, t) ==
    {r \in Requests : /\ req[r].pc = "insert" /\ req[r].new.status \in Seated
                      /\ req[r].new.resource = res /\ Covers(req[r].new, t)}

\* The seats of parties f at the places D, one element per seat.
Box(D, f) == UNION {{b} \X (1 .. f[b]) : b \in D}

BookedParty == [b \in Bookings |-> booking[b].party]

AskedParty == [r \in Requests |-> req[r].new.party]

SeatInv ==
    \A res \in Resources, t \in Nat :
        Cardinality(Box(MaySit(res, t), BookedParty)) + Cardinality(Box(Fitted(res, t), AskedParty))
            <= peak * Capacity[res]

\* While requests do not overlap, a transition finds the row as it read it.
AloneInv ==
    peak <= 1 => \A r \in Requests : req[r].pc \in Moving =>
        LET row == booking[req[r].id]
        IN  /\ CanTransition(row.status, req[r].target)
            /\ row.status = "waitlisted" /\ req[r].target \in Seated /\ req[r].pc = "update" =>
                   SeatedIn(row.resource, row.start, row.end) = {}

IInv == Shape /\ RowInv /\ PeakInv /\ DayInv /\ CoverInv /\ SeatInv /\ AloneInv

-----------------------------------------------------------------------------
(* Counting.                                                               *)

\* Fewer rows and fewer requests.
LEMMA Shrinks ==
    ASSUME NEW M1, NEW M2, NEW C1, NEW C2, IsFiniteSet(M1), IsFiniteSet(C1), M2 \subseteq M1, C2 \subseteq C1
    PROVE  Cardinality(M2) + Cardinality(C2) <= Cardinality(M1) + Cardinality(C1)
  <1>1. Cardinality(M2) <= Cardinality(M1) /\ Cardinality(C2) <= Cardinality(C1)
    BY FS_Subset
  <1>2. IsFiniteSet(M2) /\ IsFiniteSet(C2)
    BY FS_Subset
  <1>3. /\ Cardinality(M1) \in Nat /\ Cardinality(C1) \in Nat
        /\ Cardinality(M2) \in Nat /\ Cardinality(C2) \in Nat
    BY <1>2, FS_CardinalityType
  <1>4. QED BY <1>1, <1>3

\* A request becomes a row.
LEMMA Replaced ==
    ASSUME NEW M1, NEW M2, NEW C1, NEW C2, IsFiniteSet(M1), IsFiniteSet(C1), NEW b, NEW r \in C1,
           M2 \subseteq M1 \cup {b}, C2 \subseteq C1 \ {r}
    PROVE  Cardinality(M2) + Cardinality(C2) <= Cardinality(M1) + Cardinality(C1)
  <1>1. IsFiniteSet(M1 \cup {b}) /\ Cardinality(M1 \cup {b}) <= Cardinality(M1) + 1 /\ Cardinality(M1) \in Nat
    <2>1. IsFiniteSet(M1 \cup {b})
            /\ Cardinality(M1 \cup {b}) = IF b \in M1 THEN Cardinality(M1) ELSE Cardinality(M1) + 1
      BY FS_AddElement
    <2>2. Cardinality(M1) \in Nat
      BY FS_CardinalityType
    <2>3. QED BY <2>1, <2>2
  <1>2. IsFiniteSet(C1 \ {r}) /\ Cardinality(C1 \ {r}) = Cardinality(C1) - 1 /\ Cardinality(C1) \in Nat
    BY FS_RemoveElement, FS_CardinalityType
  <1>3. Cardinality(M2) <= Cardinality(M1 \cup {b}) /\ IsFiniteSet(M2)
    BY <1>1, FS_Subset
  <1>4. Cardinality(C2) <= Cardinality(C1 \ {r}) /\ IsFiniteSet(C2)
    BY <1>2, FS_Subset
  <1>5. /\ Cardinality(M2) \in Nat /\ Cardinality(C2) \in Nat
        /\ Cardinality(M1 \cup {b}) \in Nat /\ Cardinality(C1 \ {r}) \in Nat
    BY <1>1, <1>2, <1>3, <1>4, FS_CardinalityType
  <1>6. QED BY <1>1, <1>2, <1>3, <1>4, <1>5

\* The rows that come on top of those that count, each through a transition, and
\* the creations are no more than the requests in flight.
LEMMA ExtraRows ==
    ASSUME Shape, NEW X, NEW M, NEW C, M \subseteq InFlight, C \subseteq InFlight, M \cap C = {},
           X \subseteq {req[r].id : r \in M}
    PROVE  /\ IsFiniteSet(X) /\ IsFiniteSet(C) /\ IsFiniteSet(InFlight)
           /\ Cardinality(X) + Cardinality(C) <= Cardinality(InFlight)
           /\ Cardinality(X) \in Nat /\ Cardinality(C) \in Nat /\ Cardinality(InFlight) \in Nat
  <1>1. IsFiniteSet(InFlight) /\ IsFiniteSet(M) /\ IsFiniteSet(C) /\ IsFiniteSet(M \cup C)
    <2>1. InFlight \subseteq Requests /\ M \subseteq Requests /\ C \subseteq Requests /\ M \cup C \subseteq Requests
      BY DEF InFlight
    <2>2. QED BY <2>1, FS_Subset, BookingAssumption
  <1>2. IsFiniteSet({req[r].id : r \in M}) /\ Cardinality({req[r].id : r \in M}) <= Cardinality(M)
    <2> DEFINE f == [r \in M |-> req[r].id]
               ids == {req[r].id : r \in M}
    <2>1. f \in Surjection(M, ids)
      BY DEF Surjection
    <2>2. QED BY <1>1, <2>1, FS_Surjection
  <1>3. IsFiniteSet(X) /\ Cardinality(X) <= Cardinality({req[r].id : r \in M})
    BY <1>2, FS_Subset
  <1>4. Cardinality(M) + Cardinality(C) = Cardinality(M \cup C)
    <2>1. Cardinality(M \cup C) = Cardinality(M) + Cardinality(C) - Cardinality(M \cap C)
      BY <1>1, FS_Union
    <2>2. Cardinality(M \cap C) = 0
      BY FS_EmptySet
    <2>3. QED BY <1>1, <2>1, <2>2, FS_CardinalityType
  <1>5. Cardinality(M \cup C) <= Cardinality(InFlight)
    BY <1>1, FS_Subset
  <1>6. /\ Cardinality(X) \in Nat /\ Cardinality(C) \in Nat /\ Cardinality(InFlight) \in Nat
        /\ Cardinality(M) \in Nat /\ Cardinality({req[r].id : r \in M}) \in Nat /\ Cardinality(M \cup C) \in Nat
    BY <1>1, <1>2, <1>3, FS_CardinalityType
  <1>7. QED BY <1>1, <1>2, <1>3, <1>4, <1>5, <1>6

\* The same with the rows that count now.
LEMMA CountNow ==
    ASSUME Shape, NEW A, IsFiniteSet(A), NEW P, NEW M, NEW C, M \subseteq InFlight, C \subseteq InFlight,
           M \cap C = {}, P \subseteq A \cup {req[r].id : r \in M}
    PROVE  Cardinality(P) + Cardinality(C) <= Cardinality(A) + Cardinality(InFlight)
  <1> DEFINE X == P \ A
  <1>1. X \subseteq {req[r].id : r \in M}
    OBVIOUS
  <1>2. /\ IsFiniteSet(X) /\ IsFiniteSet(C)
        /\ Cardinality(X) + Cardinality(C) <= Cardinality(InFlight)
        /\ Cardinality(X) \in Nat /\ Cardinality(C) \in Nat /\ Cardinality(InFlight) \in Nat
    BY <1>1, ExtraRows
  <1>3. P \subseteq A \cup X
    OBVIOUS
  <1> HIDE DEF X
  <1>4. IsFiniteSet(A \cup X) /\ Cardinality(A \cup X) <= Cardinality(A) + Cardinality(X)
    <2>1. /\ IsFiniteSet(A \cup X) /\ IsFiniteSet(A \cap X)
          /\ Cardinality(A \cup X) = Cardinality(A) + Cardinality(X) - Cardinality(A \cap X)
      BY <1>2, FS_Union, FS_Intersection
    <2>2. Cardinality(A \cap X) \in Nat /\ Cardinality(A) \in Nat
      BY <2>1, FS_CardinalityType
    <2>3. QED BY <1>2, <2>1, <2>2
  <1>5. IsFiniteSet(P) /\ Cardinality(P) <= Cardinality(A \cup X)
    BY <1>3, <1>4, FS_Subset
  <1>6. Cardinality(P) \in Nat /\ Cardinality(A \cup X) \in Nat /\ Cardinality(A) \in Nat
    BY <1>4, <1>5, FS_CardinalityType
  <1>7. QED BY <1>2, <1>4, <1>5, <1>6

-----------------------------------------------------------------------------
(* Shapes and rows.                                                        *)

CreatingRec == [pc : Creating, id : {None}, new : Row, target : {"none"}]

MovingRec == [pc : Moving, id : Bookings, new : {NoBooking}, target : Status]

\* What a request holds.
LEMMA ReqFields ==
    ASSUME Shape, NEW r \in Requests
    PROVE  /\ req[r].pc \in {"idle"} \cup Creating \cup Moving
           /\ req[r].pc = "idle" <=> req[r] = Idle
           /\ req[r].pc \in Creating => /\ req[r] \in CreatingRec /\ req[r].new \in Row
           /\ req[r].pc \in Moving => /\ req[r] \in MovingRec
                                      /\ req[r].id \in Bookings /\ req[r].target \in Status
           /\ r \in InFlight <=> req[r].pc \in Creating \cup Moving
  <1>1. req[r] \in {Idle} \cup CreatingRec \cup MovingRec
    BY DEF Shape, CreatingRec, MovingRec
  <1>2. CASE req[r] = Idle
    BY <1>2 DEF Idle, Creating, Moving, InFlight
  <1>3. CASE req[r] \in CreatingRec
    BY <1>3 DEF CreatingRec, Idle, Creating, Moving, InFlight
  <1>4. CASE req[r] \in MovingRec
    BY <1>4 DEF MovingRec, Idle, Creating, Moving, InFlight
  <1>5. QED BY <1>1, <1>2, <1>3, <1>4

\* The columns of a row.
LEMMA RowFields ==
    ASSUME NEW w \in Row
    PROVE  /\ w.status \in Status /\ w.user \in Users /\ w.resource \in Resources
           /\ w.party \in Nat \ {0} /\ w.start \in Nat /\ w.end \in Nat /\ w.end > w.start
  BY DEF Row

\* A booking exists when its row is there.
LEMMA BookingFields ==
    ASSUME Shape, NEW b \in Bookings
    PROVE  /\ booking[b].status \in Status <=> booking[b] \in Row
           /\ booking[b].status = "absent" <=> booking[b] = NoBooking
           /\ booking[b] \notin Row => /\ booking[b].user = None /\ booking[b].resource = None
                                       /\ booking[b].status = "absent"
  <1>1. booking[b] \in {NoBooking} \cup Row
    BY DEF Shape
  <1>2. CASE booking[b] \in Row
    <2>1. booking[b].status \in Status
      BY <1>2, RowFields
    <2>2. QED BY <1>2, <2>1 DEF Status, NoBooking
  <1>3. CASE booking[b] = NoBooking
    <2>1. booking[b].status = "absent" /\ booking[b].user = None /\ booking[b].resource = None
      BY <1>3 DEF NoBooking
    <2>2. booking[b] \notin Row
      BY <2>1, RowFields DEF Status
    <2>3. QED BY <1>3, <2>1, <2>2 DEF Status
  <1>4. QED BY <1>1, <1>2, <1>3

\* What UpdateStatus leaves of a row.
LEMMA Updated ==
    ASSUME NEW w \in Row, NEW t \in Status
    PROVE  LET v == [w EXCEPT !.status = t]
           IN  /\ v \in Row /\ v.status = t /\ v.user = w.user /\ v.resource = w.resource
               /\ v.party = w.party /\ v.start = w.start /\ v.end = w.end
  BY DEF Row

-----------------------------------------------------------------------------
(* The steps of the service, as the invariants see them.                   *)

\* A request enters: what it starts with, and how peak follows.
LEMMA BeginFacts ==
    ASSUME Shape, PeakInv, NEW r \in Requests, NEW rec \in CreatingRec \cup MovingRec, Begin(r, rec)
    PROVE  /\ Shape' /\ PeakInv' /\ peak' >= peak
           /\ req[r] = Idle /\ req'[r] = rec /\ \A q \in Requests : q # r => req'[q] = req[q]
           /\ UNCHANGED <<booking, now>>
  <1>1. req[r].pc = "idle" /\ req[r] = Idle /\ req' = [req EXCEPT ![r] = rec]
    BY ReqFields DEF Begin
  <1>2. req'[r] = rec /\ \A q \in Requests : q # r => req'[q] = req[q]
    BY <1>1 DEF Shape
  <1>3. rec.pc # "idle"
    BY DEF CreatingRec, MovingRec, Creating, Moving
  <1>4. InFlight' = InFlight \cup {r} /\ r \notin InFlight
    BY <1>1, <1>2, <1>3 DEF InFlight
  <1>5. IsFiniteSet(InFlight) /\ InFlight' \subseteq Requests /\ InFlight \subseteq Requests
    BY FS_Subset, BookingAssumption DEF InFlight
  <1>6. Cardinality(InFlight') = Cardinality(InFlight) + 1 /\ Cardinality(InFlight) \in Nat
    BY <1>4, <1>5, FS_AddElement, FS_CardinalityType
  <1>7. Cardinality(InFlight') <= Cardinality(Requests) /\ Cardinality(Requests) \in Nat
    BY <1>5, FS_Subset, FS_CardinalityType, BookingAssumption
  <1>8. peak' = IF Cardinality(InFlight) + 1 > peak THEN Cardinality(InFlight) + 1 ELSE peak
    BY DEF Begin
  <1>9. peak' \in Nat /\ peak' >= peak /\ peak' <= Cardinality(Requests) /\ Cardinality(InFlight') <= peak'
    BY <1>6, <1>7, <1>8 DEF Shape
  <1>10. req' \in [Requests -> {Idle} \cup CreatingRec \cup MovingRec]
    BY <1>1 DEF Shape, CreatingRec, MovingRec
  <1>11. QED BY <1>1, <1>2, <1>9, <1>10 DEF Shape, PeakInv, Begin, CreatingRec, MovingRec

\* A request goes on, or ends, without a write.
LEMMA GotoFacts ==
    ASSUME Shape, PeakInv, NEW r \in Requests, NEW rec \in {Idle} \cup CreatingRec \cup MovingRec, Goto(r, rec),
           req[r].pc # "idle"
    PROVE  /\ Shape' /\ PeakInv'
           /\ req'[r] = rec /\ \A q \in Requests : q # r => req'[q] = req[q]
           /\ UNCHANGED <<booking, now, peak>>
  <1>1. req' = [req EXCEPT ![r] = rec] /\ UNCHANGED <<booking, now, peak>>
    BY DEF Goto
  <1>2. req'[r] = rec /\ \A q \in Requests : q # r => req'[q] = req[q]
    BY <1>1 DEF Shape
  <1>3. Shape'
    BY <1>1 DEF Shape, CreatingRec, MovingRec
  <1>4. InFlight' \subseteq InFlight /\ InFlight \subseteq Requests
    BY <1>2 DEF InFlight
  <1>5. PeakInv'
    <2>1. IsFiniteSet(InFlight) /\ IsFiniteSet(InFlight') /\ Cardinality(InFlight') <= Cardinality(InFlight)
      BY <1>4, FS_Subset, BookingAssumption
    <2>2. Cardinality(InFlight') \in Nat /\ Cardinality(InFlight) \in Nat
      BY <2>1, FS_CardinalityType
    <2>3. QED BY <1>1, <2>1, <2>2 DEF PeakInv, Shape
  <1>6. QED BY <1>1, <1>2, <1>3, <1>5

\* A request writes one row and ends.
LEMMA WriteFacts ==
    ASSUME Shape, PeakInv, NEW r \in Requests, req[r].pc # "idle", NEW b \in Bookings, NEW w \in Row,
           booking' = [booking EXCEPT ![b] = w], req' = [req EXCEPT ![r] = Idle], UNCHANGED <<now, peak>>
    PROVE  /\ Shape' /\ PeakInv'
           /\ req'[r] = Idle /\ \A q \in Requests : q # r => req'[q] = req[q]
           /\ booking'[b] = w /\ \A c \in Bookings : c # b => booking'[c] = booking[c]
  <1>1. req'[r] = Idle /\ \A q \in Requests : q # r => req'[q] = req[q]
    BY DEF Shape
  <1>2. Shape'
    BY DEF Shape
  <1>3. InFlight' \subseteq InFlight /\ InFlight \subseteq Requests
    BY <1>1 DEF InFlight
  <1>4. PeakInv'
    <2>1. IsFiniteSet(InFlight) /\ IsFiniteSet(InFlight') /\ Cardinality(InFlight') <= Cardinality(InFlight)
      BY <1>3, FS_Subset, BookingAssumption
    <2>2. Cardinality(InFlight') \in Nat /\ Cardinality(InFlight) \in Nat
      BY <2>1, FS_CardinalityType
    <2>3. QED BY <2>1, <2>2 DEF PeakInv, Shape
  <1>5. booking'[b] = w /\ \A c \in Bookings : c # b => booking'[c] = booking[c]
    BY DEF Shape
  <1>6. QED BY <1>1, <1>2, <1>4, <1>5

\* The part of the invariant the counting rests on.
Base == Shape /\ RowInv /\ PeakInv

\* Only request r moves.
Only(r) == \A q \in Requests : q # r => req'[q] = req[q]

\* Create passes its first checks.
LEMMA CreateStartFacts ==
    ASSUME Base, NEW r \in Requests, NEW u \in Users, NEW res \in Resources, NEW w \in Windows, NEW p \in Parties,
           CreateStart(r, u, res, w, p)
    PROVE  /\ Base' /\ peak' >= peak /\ UNCHANGED booking /\ Only(r)
           /\ req[r] = Idle /\ req'[r].pc = "count"
  <1> DEFINE new == [status |-> "pending_confirmation", user |-> u, resource |-> res,
                     party |-> Party(p), start |-> w[1], end |-> w[2]]
             rec == [Idle EXCEPT !.pc = "count", !.new = new]
  <1>1. w[1] \in Nat /\ w[2] \in Nat /\ Party(p) \in Nat \ {0} /\ w[2] > w[1] /\ Party(p) <= Capacity[res]
    BY BookingAssumption DEF Party, CreateStart
  <1>2. /\ new \in Row /\ new.party <= Capacity[new.resource] /\ new.status \in Active
    BY <1>1 DEF Row, Status, Active, Seated
  <1> HIDE DEF new
  <1>3. Idle \in [pc : {"idle"}, id : {None}, new : {NoBooking}, target : {"none"}]
    BY DEF Idle
  <1>4. rec \in CreatingRec /\ rec.pc = "count" /\ rec.new = new
    BY <1>2, <1>3 DEF CreatingRec, Creating
  <1>5. Begin(r, rec)
    BY DEF CreateStart, new
  <1> HIDE DEF rec
  <1>6. /\ Shape' /\ PeakInv' /\ peak' >= peak
        /\ req[r] = Idle /\ req'[r] = rec /\ Only(r) /\ UNCHANGED booking
    BY <1>4, <1>5, BeginFacts DEF Base, Only
  <1>7. RowInv'
    BY <1>2, <1>4, <1>6 DEF Base, RowInv, Only, Creating, Moving
  <1>8. QED BY <1>4, <1>6, <1>7 DEF Base

\* A request ends without a write.
LEMMA EndFacts ==
    ASSUME Base, NEW r \in Requests, Goto(r, Idle), req[r].pc # "idle"
    PROVE  Base' /\ UNCHANGED <<booking, peak>> /\ Only(r) /\ req'[r] = Idle
  <1>1. Shape' /\ PeakInv' /\ req'[r] = Idle /\ Only(r) /\ UNCHANGED <<booking, peak>>
    BY GotoFacts DEF Base, Only
  <1>2. Idle.pc = "idle"
    BY DEF Idle
  <1>3. RowInv'
    BY <1>1, <1>2 DEF Base, RowInv, Only, Creating, Moving
  <1>4. QED BY <1>1, <1>3 DEF Base

\* Create passes its next check: the row to insert keeps its columns.
LEMMA AdvanceFacts ==
    ASSUME Base, NEW r \in Requests, req[r].pc \in Creating, NEW pc \in Creating,
           Goto(r, [req[r] EXCEPT !.pc = pc])
    PROVE  /\ Base' /\ UNCHANGED <<booking, peak>> /\ Only(r)
           /\ req'[r].pc = pc /\ req'[r].new = req[r].new
  <1> DEFINE rec == [req[r] EXCEPT !.pc = pc]
  <1>1. req[r] \in CreatingRec /\ req[r].pc # "idle"
    BY ReqFields DEF Base, Creating
  <1>2. rec \in CreatingRec /\ rec.pc = pc /\ rec.new = req[r].new
    BY <1>1 DEF CreatingRec
  <1> HIDE DEF rec
  <1>3. Shape' /\ PeakInv' /\ req'[r] = rec /\ Only(r) /\ UNCHANGED <<booking, peak>>
    BY <1>1, <1>2, GotoFacts DEF Base, Only, rec
  <1>4. RowInv'
    BY <1>2, <1>3 DEF Base, RowInv, Only, Creating, Moving
  <1>5. QED BY <1>2, <1>3, <1>4 DEF Base

\* Create decides between a seat and the waitlist.
LEMMA CreateSumFacts ==
    ASSUME Base, NEW r \in Requests, CreateSum(r)
    PROVE  /\ Base' /\ UNCHANGED <<booking, peak>> /\ Only(r)
           /\ req[r].pc = "sum" /\ req[r].new \in Row /\ req'[r].pc = "insert"
           /\ req'[r].new \in Row
           /\ req'[r].new.user = req[r].new.user /\ req'[r].new.resource = req[r].new.resource
           /\ req'[r].new.party = req[r].new.party
           /\ req'[r].new.start = req[r].new.start /\ req'[r].new.end = req[r].new.end
           /\ req'[r].new.status \in Seated =>
                  Fits(req[r].new.resource,
                       SumActivePartySizes(req[r].new.resource, req[r].new.start, req[r].new.end),
                       req[r].new.party)
  <1> DEFINE new == req[r].new
             fits == Fits(new.resource, SumActivePartySizes(new.resource, new.start, new.end), new.party)
             st == IF fits THEN "pending_confirmation" ELSE "waitlisted"
             rec == [req[r] EXCEPT !.pc = "insert", !.new.status = st]
  <1>1. req[r].pc = "sum" /\ req[r] \in CreatingRec /\ new \in Row /\ req[r].pc # "idle"
    BY ReqFields DEF Base, CreateSum, Creating
  <1>2. st \in Status /\ st \in Active /\ (st \in Seated => fits)
    BY DEF Status, Active, Seated
  <1> HIDE DEF st, fits
  <1>3. rec = [req[r] EXCEPT !.pc = "insert", !.new = [new EXCEPT !.status = st]]
    BY <1>1 DEF CreatingRec
  <1> DEFINE new2 == [new EXCEPT !.status = st]
  <1>4. /\ new2 \in Row /\ new2.status = st /\ new2.user = new.user /\ new2.resource = new.resource
        /\ new2.party = new.party /\ new2.start = new.start /\ new2.end = new.end
    BY <1>1, <1>2, Updated
  <1> HIDE DEF new2
  <1>5. rec \in CreatingRec /\ rec.pc = "insert" /\ rec.new = new2
    BY <1>1, <1>3, <1>4 DEF CreatingRec, Creating, new2
  <1>6. Goto(r, rec)
    BY DEF CreateSum, st, fits
  <1> HIDE DEF rec
  <1>7. Shape' /\ PeakInv' /\ req'[r] = rec /\ Only(r) /\ UNCHANGED <<booking, peak>>
    BY <1>1, <1>5, <1>6, GotoFacts DEF Base, Only
  <1>8. new.party <= Capacity[new.resource]
    BY <1>1 DEF Base, RowInv, Creating
  <1>9. RowInv'
    BY <1>2, <1>4, <1>5, <1>7, <1>8 DEF Base, RowInv, Only, Creating, Moving
  <1>10. QED BY <1>1, <1>2, <1>4, <1>5, <1>7, <1>9 DEF Base, fits

\* Create inserts its row.
LEMMA CreateInsertFacts ==
    ASSUME Base, NEW r \in Requests, NEW b \in Bookings, CreateInsert(r, b)
    PROVE  /\ Base' /\ UNCHANGED peak /\ Only(r)
           /\ req[r].pc = "insert" /\ req[r].new \in Row /\ req[r].new.status \in Active
           /\ booking[b] = NoBooking /\ booking'[b] = req[r].new
           /\ \A c \in Bookings : c # b => booking'[c] = booking[c]
           /\ \A q \in Requests : req[q].pc \in Moving => req[q].id # b
           /\ req'[r] = Idle
  <1>1. req[r].pc = "insert" /\ req[r].new \in Row /\ req[r].pc # "idle"
    BY ReqFields DEF Base, CreateInsert, Creating
  <1>2. booking[b] = NoBooking /\ booking[b].status \notin Status
    BY BookingFields DEF Base, CreateInsert, Status
  <1>3. /\ Shape' /\ PeakInv' /\ req'[r] = Idle /\ Only(r) /\ UNCHANGED peak
        /\ booking'[b] = req[r].new /\ \A c \in Bookings : c # b => booking'[c] = booking[c]
    BY <1>1, WriteFacts DEF Base, CreateInsert, Only
  <1>4. \A q \in Requests : req[q].pc \in Moving => req[q].id # b
    BY <1>2 DEF Base, RowInv
  <1>5. Idle.pc = "idle"
    BY DEF Idle
  <1>6. req[r].new.party <= Capacity[req[r].new.resource] /\ req[r].new.status \in Active
    BY <1>1 DEF Base, RowInv, Creating
  <1>7. RowInv'
    <2>1. \A c \in Bookings : booking'[c].status \in Status => booking'[c].party <= Capacity[booking'[c].resource]
      BY <1>3, <1>6 DEF Base, RowInv
    <2>2. \A q \in Requests : req'[q].pc \in Creating =>
              req'[q].new.party <= Capacity[req'[q].new.resource] /\ req'[q].new.status \in Active
      BY <1>3, <1>5 DEF Base, RowInv, Only, Creating
    <2>3. ASSUME NEW q \in Requests, req'[q].pc \in Moving
          PROVE  booking'[req'[q].id].status \in Status
      <3>1. q # r /\ req'[q] = req[q]
        BY <1>3, <1>5, <2>3 DEF Only, Moving
      <3>2. req[q].id \in Bookings /\ req[q].id # b /\ booking[req[q].id].status \in Status
        BY <1>4, <2>3, <3>1, ReqFields DEF Base, RowInv
      <3>3. QED BY <1>3, <3>1, <3>2
    <2>4. \A q \in Requests : req'[q].pc = "busy" => req'[q].target = "pending_confirmation"
      BY <1>3, <1>5 DEF Base, RowInv, Only
    <2>5. QED BY <2>1, <2>2, <2>3, <2>4 DEF RowInv
  <1>8. QED BY <1>1, <1>2, <1>3, <1>4, <1>6, <1>7 DEF Base

\* Transition has read the row and may go on.
LEMMA TransitionStartFacts ==
    ASSUME Base, NEW r \in Requests, NEW u \in Users, NEW b \in Bookings, NEW t \in Status,
           TransitionStart(r, u, b, t)
    PROVE  /\ Base' /\ peak' >= peak /\ UNCHANGED booking /\ Only(r)
           /\ req[r] = Idle /\ req'[r].pc \in Moving /\ req'[r].id = b /\ req'[r].target = t
           /\ booking[b].status \in Active /\ CanTransition(booking[b].status, t)
           /\ req'[r].pc = "update" => ~(booking[b].status = "waitlisted" /\ t = "pending_confirmation")
  <1> DEFINE promotion == booking[b].status = "waitlisted" /\ t = "pending_confirmation"
             pc == IF promotion THEN "busy" ELSE "update"
             rec == [Idle EXCEPT !.pc = pc, !.id = b, !.target = t]
  <1>1. CanTransition(booking[b].status, t)
    BY DEF TransitionStart
  <1>2. booking[b].status \in Status /\ booking[b].status \in Active
    BY <1>1 DEF CanTransition, Allowed, Status, Active, Seated
  <1>3. pc \in Moving /\ (pc = "update" => ~promotion) /\ (pc = "busy" => t = "pending_confirmation")
    BY DEF Moving
  <1> HIDE DEF pc, promotion
  <1>4. Idle \in [pc : {"idle"}, id : {None}, new : {NoBooking}, target : {"none"}]
    BY DEF Idle
  <1>5. rec \in MovingRec /\ rec.pc = pc /\ rec.id = b /\ rec.target = t
    BY <1>3, <1>4 DEF MovingRec
  <1>6. Begin(r, rec)
    BY DEF TransitionStart, pc, promotion
  <1> HIDE DEF rec
  <1>7. /\ Shape' /\ PeakInv' /\ peak' >= peak
        /\ req[r] = Idle /\ req'[r] = rec /\ Only(r) /\ UNCHANGED booking
    BY <1>5, <1>6, BeginFacts DEF Base, Only
  <1>8. RowInv'
    BY <1>2, <1>3, <1>5, <1>7 DEF Base, RowInv, Only, Creating, Moving
  <1>9. QED BY <1>1, <1>2, <1>3, <1>5, <1>7, <1>8 DEF Base, promotion

\* A promotion has found the resource free, or ends.
LEMMA TransitionBusyFacts ==
    ASSUME Base, NEW r \in Requests, TransitionBusy(r)
    PROVE  /\ Base' /\ UNCHANGED <<booking, peak>> /\ Only(r)
           /\ req[r].pc = "busy" /\ req[r].id \in Bookings /\ req[r].target = "pending_confirmation"
           /\ booking[req[r].id] \in Row
           /\ \/ req'[r] = Idle
              \/ /\ req'[r].pc = "update" /\ req'[r].id = req[r].id /\ req'[r].target = req[r].target
                 /\ LET row == booking[req[r].id]
                    IN  SeatedIn(row.resource, row.start, row.end) \subseteq {req[r].id}
  <1> DEFINE row == booking[req[r].id]
             rec == [req[r] EXCEPT !.pc = "update"]
             taken == ResourceHasOverlap(row.resource, row.start, row.end, req[r].id)
  <1>1. /\ req[r].pc = "busy" /\ req[r] \in MovingRec /\ req[r].pc # "idle"
        /\ req[r].id \in Bookings /\ req[r].target = "pending_confirmation" /\ row.status \in Status
    BY ReqFields DEF Base, TransitionBusy, Moving, RowInv
  <1>2. row \in Row
    BY <1>1, BookingFields DEF Base
  <1>3. Goto(r, IF taken THEN Idle ELSE rec)
    BY DEF TransitionBusy
  <1>4. CASE taken
    BY <1>1, <1>2, <1>3, <1>4, EndFacts
  <1>5. CASE ~taken
    <2>1. rec \in MovingRec /\ rec.pc = "update" /\ rec.id = req[r].id /\ rec.target = req[r].target
      BY <1>1 DEF MovingRec, Moving
    <2>2. SeatedIn(row.resource, row.start, row.end) \subseteq {req[r].id}
      BY <1>5 DEF ResourceHasOverlap
    <2>3. Goto(r, rec)
      BY <1>3, <1>5
    <2> HIDE DEF rec
    <2>4. Shape' /\ PeakInv' /\ req'[r] = rec /\ Only(r) /\ UNCHANGED <<booking, peak>>
      BY <1>1, <2>1, <2>3, GotoFacts DEF Base, Only
    <2>5. RowInv'
      BY <1>1, <2>1, <2>4 DEF Base, RowInv, Only, Creating, Moving
    <2>6. QED BY <1>1, <1>2, <2>1, <2>2, <2>4, <2>5 DEF Base
  <1>6. QED BY <1>4, <1>5

\* Transition writes its target and leaves the other columns alone.
LEMMA TransitionUpdateFacts ==
    ASSUME Base, NEW r \in Requests, TransitionUpdate(r)
    PROVE  /\ Base' /\ UNCHANGED peak /\ Only(r)
           /\ req[r].pc = "update" /\ req[r].id \in Bookings /\ req[r].target \in Status
           /\ req'[r] = Idle
           /\ booking[req[r].id] \in Row /\ booking'[req[r].id] \in Row
           /\ booking'[req[r].id].status = req[r].target
           /\ \A c \in Bookings : /\ booking'[c].user = booking[c].user
                                  /\ booking'[c].resource = booking[c].resource
                                  /\ booking'[c].party = booking[c].party
                                  /\ booking'[c].start = booking[c].start
                                  /\ booking'[c].end = booking[c].end
                                  /\ c # req[r].id => booking'[c] = booking[c]
  <1> DEFINE b == req[r].id
             w == [booking[b] EXCEPT !.status = req[r].target]
  <1>1. /\ req[r].pc = "update" /\ req[r].pc # "idle"
        /\ b \in Bookings /\ req[r].target \in Status /\ booking[b].status \in Status
    BY ReqFields DEF Base, TransitionUpdate, Moving, RowInv
  <1>2. booking[b] \in Row
    BY <1>1, BookingFields DEF Base
  <1>3. /\ w \in Row /\ w.status = req[r].target /\ w.user = booking[b].user /\ w.resource = booking[b].resource
        /\ w.party = booking[b].party /\ w.start = booking[b].start /\ w.end = booking[b].end
    BY <1>1, <1>2, Updated
  <1>4. booking' = [booking EXCEPT ![b] = w] /\ req' = [req EXCEPT ![r] = Idle] /\ UNCHANGED <<now, peak>>
    BY DEF TransitionUpdate
  <1> HIDE DEF w
  <1>5. /\ Shape' /\ PeakInv' /\ req'[r] = Idle /\ Only(r) /\ UNCHANGED peak
        /\ booking'[b] = w /\ \A c \in Bookings : c # b => booking'[c] = booking[c]
    BY <1>1, <1>3, <1>4, WriteFacts DEF Base, Only
  <1>6. Idle.pc = "idle"
    BY DEF Idle
  <1>7. RowInv'
    <2>1. \A c \in Bookings : booking'[c].status \in Status => booking'[c].party <= Capacity[booking'[c].resource]
      BY <1>1, <1>3, <1>5 DEF Base, RowInv
    <2>2. \A q \in Requests : req'[q].pc \in Creating =>
              req'[q].new.party <= Capacity[req'[q].new.resource] /\ req'[q].new.status \in Active
      BY <1>5, <1>6 DEF Base, RowInv, Only, Creating
    <2>3. ASSUME NEW q \in Requests, req'[q].pc \in Moving
          PROVE  booking'[req'[q].id].status \in Status
      <3>1. q # r /\ req'[q] = req[q]
        BY <1>5, <1>6, <2>3 DEF Only, Moving
      <3>2. req[q].id \in Bookings /\ booking[req[q].id].status \in Status
        BY <2>3, <3>1, ReqFields DEF Base, RowInv
      <3>3. QED BY <1>1, <1>3, <1>5, <3>1, <3>2
    <2>4. \A q \in Requests : req'[q].pc = "busy" => req'[q].target = "pending_confirmation"
      BY <1>5, <1>6 DEF Base, RowInv, Only
    <2>5. QED BY <2>1, <2>2, <2>3, <2>4 DEF RowInv
  <1>8. QED BY <1>1, <1>2, <1>3, <1>5, <1>7 DEF Base

-----------------------------------------------------------------------------
(* The daily cap.                                                          *)

\* Rows that may come to count, and requests that passed the check, are finite
\* in number; fewer of them keep the bound.
LEMMA DayShrinks ==
    ASSUME Base, Base', DayInv, peak' >= peak, NEW u \in Users, NEW d \in Nat,
           MayBeActive(u, d)' \subseteq MayBeActive(u, d), Counted(u, d)' \subseteq Counted(u, d)
    PROVE  Cardinality(MayBeActive(u, d)') + Cardinality(Counted(u, d)') <= MaxActivePerDay + peak' - 1
  <1> DEFINE M1 == MayBeActive(u, d)
             C1 == Counted(u, d)
             M2 == MayBeActive(u, d)'
             C2 == Counted(u, d)'
  <1>1. IsFiniteSet(M1) /\ IsFiniteSet(C1)
    <2>1. M1 \subseteq Bookings /\ C1 \subseteq Requests
      BY DEF MayBeActive, Counted
    <2>2. QED BY <2>1, FS_Subset, BookingAssumption
  <1>2. Cardinality(M1) + Cardinality(C1) <= MaxActivePerDay + peak - 1
    BY DEF DayInv
  <1> HIDE DEF M1, C1, M2, C2
  <1>3. Cardinality(M2) + Cardinality(C2) <= Cardinality(M1) + Cardinality(C1)
    <2>1. M2 \subseteq M1 /\ C2 \subseteq C1
      BY DEF M1, C1, M2, C2
    <2>2. QED BY <1>1, <2>1, Shrinks
  <1>4. IsFiniteSet(M2) /\ IsFiniteSet(C2)
    BY <1>1, FS_Subset DEF M1, C1, M2, C2
  <1>5. /\ Cardinality(M1) \in Nat /\ Cardinality(C1) \in Nat
        /\ Cardinality(M2) \in Nat /\ Cardinality(C2) \in Nat
    BY <1>1, <1>4, FS_CardinalityType
  <1>6. peak \in Nat /\ peak' \in Nat /\ MaxActivePerDay \in Nat
    BY BookingAssumption DEF Base, Shape
  <1>7. Cardinality(M2) + Cardinality(C2) <= MaxActivePerDay + peak' - 1
    BY <1>2, <1>3, <1>5, <1>6
  <1>8. QED BY <1>7 DEF M2, C2

\* A step that passes no count and makes no row count that does not yet.
LEMMA DayQuiet ==
    ASSUME Base, Base', DayInv, peak' >= peak, NEW r \in Requests, UNCHANGED booking, Only(r),
           req'[r].pc \in Moving => booking[req'[r].id].status \in Active
                                    \/ (req[r].pc \in Moving /\ req[r].id = req'[r].id /\ req[r].target = req'[r].target),
           req'[r].pc \in {"overlap", "sum", "insert"} =>
               /\ req[r].pc \in {"overlap", "sum", "insert"}
               /\ req'[r].new.user = req[r].new.user /\ req'[r].new.start = req[r].new.start
    PROVE  DayInv'
  <1>1. ASSUME NEW u \in Users, NEW d \in Nat
        PROVE  MayBeActive(u, d)' \subseteq MayBeActive(u, d) /\ Counted(u, d)' \subseteq Counted(u, d)
    <2>1. Counted(u, d)' \subseteq Counted(u, d)
      BY DEF Counted, Only
    <2>2. ASSUME NEW b \in MayBeActive(u, d)'
          PROVE  b \in MayBeActive(u, d)
      <3>1. b \in Bookings /\ booking[b].user = u /\ Day(booking[b].start) = d
        BY <2>2 DEF MayBeActive
      <3>2. booking[b].status \in Active \/ b \in Targeted(Moving, Active)'
        BY <2>2 DEF MayBeActive
      <3>3. ASSUME b \in Targeted(Moving, Active)'
            PROVE  booking[b].status \in Active \/ b \in Targeted(Moving, Active)
        <4>1. PICK q \in Requests : req'[q].pc \in Moving /\ req'[q].target \in Active /\ b = req'[q].id
          BY <3>3 DEF Targeted
        <4>2. QED BY <4>1 DEF Targeted, Only
      <3>4. QED BY <3>1, <3>2, <3>3 DEF MayBeActive
    <2>3. QED BY <2>1, <2>2
  <1>2. QED BY <1>1, DayShrinks DEF DayInv

\* A request passes the count only while the day is under the cap.
LEMMA DayCount ==
    ASSUME Base, DayInv, NEW r \in Requests, CreateCount(r)
    PROVE  Base' /\ DayInv'
  <1> DEFINE new == req[r].new
             a == Cardinality(ActiveOn(new.user, Day(new.start)))
  <1>1. req[r].pc = "count" /\ req[r].pc \in Creating /\ new \in Row /\ req[r].pc # "idle"
    BY ReqFields DEF Base, CreateCount, Creating
  <1>2. Goto(r, IF UnderDailyCap(a) THEN [req[r] EXCEPT !.pc = "overlap"] ELSE Idle)
    BY DEF CreateCount
  <1>3. peak \in Nat
    BY DEF Base, Shape
  <1>4. CASE ~UnderDailyCap(a)
    <2>1. Base' /\ UNCHANGED <<booking, peak>> /\ Only(r) /\ req'[r] = Idle
      BY <1>1, <1>2, <1>4, EndFacts
    <2>2. req'[r].pc = "idle"
      BY <2>1 DEF Idle
    <2>3. QED BY <1>3, <2>1, <2>2, DayQuiet DEF Moving
  <1>5. CASE UnderDailyCap(a)
    <2>1. "overlap" \in Creating
      BY DEF Creating
    <2>2. Base' /\ UNCHANGED <<booking, peak>> /\ Only(r) /\ req'[r].pc = "overlap" /\ req'[r].new = new
      BY <1>1, <1>2, <1>5, <2>1, AdvanceFacts
    <2>3. a < MaxActivePerDay
      BY <1>5 DEF UnderDailyCap
    <2>4. ASSUME NEW u \in Users, NEW d \in Nat
          PROVE  Cardinality(MayBeActive(u, d)') + Cardinality(Counted(u, d)') <= MaxActivePerDay + peak' - 1
      <3>1. \A q \in Requests : (req'[q].pc \in Moving <=> req[q].pc \in Moving)
                                /\ (req[q].pc \in Moving => req'[q] = req[q])
        BY <1>1, <2>2 DEF Only, Moving
      <3>2. Targeted(Moving, Active)' = Targeted(Moving, Active)
        <4>1. Targeted(Moving, Active)' =
                  {req'[q].id : q \in {p \in Requests : req'[p].pc \in Moving /\ req'[p].target \in Active}}
          BY DEF Targeted
        <4>2. QED BY <3>1, <4>1 DEF Targeted
      <3>3. MayBeActive(u, d)' = MayBeActive(u, d)
        BY <2>2, <3>2 DEF MayBeActive
      <3>4. CASE u = new.user /\ d = Day(new.start)
        <4> DEFINE A == ActiveOn(u, d)
                   P == MayBeActive(u, d)
                   M == {q \in Requests : req[q].pc \in Moving /\ req[q].target \in Active}
                   C == Counted(u, d)'
        <4>1. IsFiniteSet(A) /\ P \subseteq A \cup {req[q].id : q \in M}
          <5>1. A \subseteq Bookings
            BY DEF ActiveOn
          <5>2. P \subseteq A \cup {req[q].id : q \in M}
            BY DEF ActiveOn, MayBeActive, Targeted
          <5>3. QED BY <5>1, <5>2, FS_Subset, BookingAssumption
        <4>2. M \subseteq InFlight
          BY DEF InFlight, Moving
        <4>3. C \subseteq InFlight /\ M \cap C = {}
          <5>1. \A q \in C : q \in Requests /\ req'[q].pc \in {"overlap", "sum", "insert"}
            BY DEF Counted
          <5>2. \A q \in C : req[q].pc \in Creating
            BY <1>1, <2>2, <5>1 DEF Only, Creating
          <5>3. QED BY <5>1, <5>2 DEF InFlight, Creating, Moving
        <4>4. Cardinality(A) < MaxActivePerDay
          BY <2>3, <3>4
        <4> HIDE DEF A, P, M, C
        <4>5. Cardinality(P) + Cardinality(C) <= Cardinality(A) + Cardinality(InFlight)
          BY <4>1, <4>2, <4>3, CountNow DEF Base
        <4>6. Cardinality(A) \in Nat /\ Cardinality(InFlight) \in Nat /\ Cardinality(P) \in Nat /\ Cardinality(C) \in Nat
          <5>1. InFlight \subseteq Requests /\ C \subseteq Requests /\ P \subseteq Bookings
            BY <4>3 DEF InFlight, P, MayBeActive
          <5>2. QED BY <4>1, <5>1, FS_Subset, FS_CardinalityType, BookingAssumption
        <4>7. Cardinality(P) + Cardinality(C) <= MaxActivePerDay + peak - 1
          BY <1>3, <4>4, <4>5, <4>6, BookingAssumption DEF Base, PeakInv
        <4>8. QED BY <2>2, <3>3, <4>7 DEF P, C
      <3>5. CASE ~(u = new.user /\ d = Day(new.start))
        <4>1. Counted(u, d)' \subseteq Counted(u, d)
          BY <2>2, <3>5 DEF Counted, Only
        <4>2. QED BY <1>3, <2>2, <3>3, <4>1, DayShrinks
      <3>6. QED BY <3>4, <3>5
    <2>5. QED BY <2>2, <2>4 DEF DayInv
  <1>6. QED BY <1>4, <1>5

\* The INSERT moves a request that had passed the count into the count.
LEMMA DayInsert ==
    ASSUME Base, DayInv, NEW r \in Requests, NEW b \in Bookings, CreateInsert(r, b)
    PROVE  Base' /\ DayInv'
  <1>1. /\ Base' /\ UNCHANGED peak /\ Only(r) /\ req[r].pc = "insert" /\ req[r].new \in Row
        /\ booking'[b] = req[r].new /\ req'[r] = Idle
        /\ \A c \in Bookings : c # b => booking'[c] = booking[c]
    BY CreateInsertFacts
  <1>2. req'[r].pc = "idle" /\ peak \in Nat
    BY <1>1 DEF Idle, Base, Shape
  <1>3. Targeted(Moving, Active)' \subseteq Targeted(Moving, Active)
    BY <1>1, <1>2 DEF Targeted, Only, Moving
  <1>4. ASSUME NEW u \in Users, NEW d \in Nat
        PROVE  Cardinality(MayBeActive(u, d)') + Cardinality(Counted(u, d)') <= MaxActivePerDay + peak' - 1
    <2> DEFINE M1 == MayBeActive(u, d)
               C1 == Counted(u, d)
               M2 == MayBeActive(u, d)'
               C2 == Counted(u, d)'
    <2>1. C2 \subseteq C1 \ {r}
      BY <1>1, <1>2 DEF Counted, Only
    <2>2. CASE req[r].new.user = u /\ Day(req[r].new.start) = d
      <3>1. r \in C1
        BY <1>1, <2>2 DEF Counted
      <3>2. M2 \subseteq M1 \cup {b}
        BY <1>1, <1>3 DEF MayBeActive
      <3>3. IsFiniteSet(M1) /\ IsFiniteSet(C1)
        <4>1. M1 \subseteq Bookings /\ C1 \subseteq Requests
          BY DEF MayBeActive, Counted
        <4>2. QED BY <4>1, FS_Subset, BookingAssumption
      <3>4. Cardinality(M1) + Cardinality(C1) <= MaxActivePerDay + peak - 1
        BY DEF DayInv
      <3> HIDE DEF M1, C1, M2, C2
      <3>5. Cardinality(M2) + Cardinality(C2) <= Cardinality(M1) + Cardinality(C1)
        BY <2>1, <3>1, <3>2, <3>3, Replaced
      <3>6. /\ Cardinality(M1) \in Nat /\ Cardinality(C1) \in Nat
            /\ Cardinality(M2) \in Nat /\ Cardinality(C2) \in Nat
        <4>1. M2 \subseteq Bookings /\ C2 \subseteq Requests
          BY DEF M2, C2, MayBeActive, Counted
        <4>2. QED BY <3>3, <4>1, FS_Subset, FS_CardinalityType, BookingAssumption
      <3>7. Cardinality(M2) + Cardinality(C2) <= MaxActivePerDay + peak - 1
        BY <1>2, <3>4, <3>5, <3>6, BookingAssumption
      <3>8. QED BY <1>1, <3>7 DEF M2, C2
    <2>3. CASE ~(req[r].new.user = u /\ Day(req[r].new.start) = d)
      <3>1. M2 \subseteq M1
        BY <1>1, <1>3, <2>3 DEF MayBeActive
      <3>2. C2 \subseteq C1
        BY <2>1
      <3>3. QED BY <1>1, <1>2, <3>1, <3>2, DayShrinks
    <2>4. QED BY <2>2, <2>3
  <1>5. QED BY <1>1, <1>4 DEF DayInv

\* A transition makes no booking active that was not counted.
LEMMA DayUpdate ==
    ASSUME Base, DayInv, NEW r \in Requests, TransitionUpdate(r)
    PROVE  Base' /\ DayInv'
  <1>1. /\ Base' /\ UNCHANGED peak /\ Only(r) /\ req[r].pc = "update" /\ req[r].id \in Bookings /\ req'[r] = Idle
        /\ booking'[req[r].id].status = req[r].target
        /\ \A c \in Bookings : /\ booking'[c].user = booking[c].user /\ booking'[c].start = booking[c].start
                               /\ c # req[r].id => booking'[c] = booking[c]
    BY TransitionUpdateFacts
  <1>2. req'[r].pc = "idle" /\ peak \in Nat
    BY <1>1 DEF Idle, Base, Shape
  <1>3. Targeted(Moving, Active)' \subseteq Targeted(Moving, Active)
    BY <1>1, <1>2 DEF Targeted, Only, Moving
  <1>4. req[r].target \in Active => req[r].id \in Targeted(Moving, Active)
    BY <1>1 DEF Targeted, Moving
  <1>5. ASSUME NEW u \in Users, NEW d \in Nat
        PROVE  MayBeActive(u, d)' \subseteq MayBeActive(u, d) /\ Counted(u, d)' \subseteq Counted(u, d)
    <2>1. Counted(u, d)' \subseteq Counted(u, d)
      BY <1>1, <1>2 DEF Counted, Only
    <2>2. MayBeActive(u, d)' \subseteq MayBeActive(u, d)
      BY <1>1, <1>3, <1>4 DEF MayBeActive
    <2>3. QED BY <2>1, <2>2
  <1>6. QED BY <1>1, <1>2, <1>5, DayShrinks DEF DayInv

-----------------------------------------------------------------------------
(* Double booking.                                                         *)

\* Rows that may come to cover a tick, and requests that passed the overlap check:
\* fewer of them keep the bound.
LEMMA CoverShrinks ==
    ASSUME Base, Base', CoverInv, peak' >= peak, NEW u \in Users, NEW t \in Nat,
           MayCover(u, t)' \subseteq MayCover(u, t), Overlapped(u, t)' \subseteq Overlapped(u, t)
    PROVE  Cardinality(MayCover(u, t)') + Cardinality(Overlapped(u, t)') <= peak'
  <1> DEFINE M1 == MayCover(u, t)
             C1 == Overlapped(u, t)
             M2 == MayCover(u, t)'
             C2 == Overlapped(u, t)'
  <1>1. IsFiniteSet(M1) /\ IsFiniteSet(C1)
    <2>1. M1 \subseteq Bookings /\ C1 \subseteq Requests
      BY DEF MayCover, Overlapped
    <2>2. QED BY <2>1, FS_Subset, BookingAssumption
  <1>2. Cardinality(M1) + Cardinality(C1) <= peak
    BY DEF CoverInv
  <1> HIDE DEF M1, C1, M2, C2
  <1>3. Cardinality(M2) + Cardinality(C2) <= Cardinality(M1) + Cardinality(C1)
    <2>1. M2 \subseteq M1 /\ C2 \subseteq C1
      BY DEF M1, C1, M2, C2
    <2>2. QED BY <1>1, <2>1, Shrinks
  <1>4. IsFiniteSet(M2) /\ IsFiniteSet(C2)
    BY <1>1, FS_Subset DEF M1, C1, M2, C2
  <1>5. /\ Cardinality(M1) \in Nat /\ Cardinality(C1) \in Nat
        /\ Cardinality(M2) \in Nat /\ Cardinality(C2) \in Nat
    BY <1>1, <1>4, FS_CardinalityType
  <1>6. peak \in Nat /\ peak' \in Nat
    BY DEF Base, Shape
  <1>7. Cardinality(M2) + Cardinality(C2) <= peak'
    BY <1>2, <1>3, <1>5, <1>6
  <1>8. QED BY <1>7 DEF M2, C2

\* A step that passes no overlap check and makes no row count that does not yet.
LEMMA CoverQuiet ==
    ASSUME Base, Base', CoverInv, peak' >= peak, NEW r \in Requests, UNCHANGED booking, Only(r),
           req'[r].pc \in Moving => booking[req'[r].id].status \in Kept
                                    \/ (req[r].pc \in Moving /\ req[r].id = req'[r].id /\ req[r].target = req'[r].target),
           req'[r].pc \in {"sum", "insert"} =>
               /\ req[r].pc \in {"sum", "insert"}
               /\ req'[r].new.user = req[r].new.user
               /\ req'[r].new.start = req[r].new.start /\ req'[r].new.end = req[r].new.end
    PROVE  CoverInv'
  <1>1. ASSUME NEW u \in Users, NEW t \in Nat
        PROVE  MayCover(u, t)' \subseteq MayCover(u, t) /\ Overlapped(u, t)' \subseteq Overlapped(u, t)
    <2>1. Overlapped(u, t)' \subseteq Overlapped(u, t)
      BY DEF Overlapped, Only, Covers
    <2>2. ASSUME NEW b \in MayCover(u, t)'
          PROVE  b \in MayCover(u, t)
      <3>1. b \in Bookings /\ booking[b].user = u /\ Covers(booking[b], t)
        BY <2>2 DEF MayCover, Covers
      <3>2. booking[b].status \in Kept \/ b \in Targeted(Moving, Kept)'
        BY <2>2 DEF MayCover, Covers
      <3>3. ASSUME b \in Targeted(Moving, Kept)'
            PROVE  booking[b].status \in Kept \/ b \in Targeted(Moving, Kept)
        <4>1. PICK q \in Requests : req'[q].pc \in Moving /\ req'[q].target \in Kept /\ b = req'[q].id
          BY <3>3 DEF Targeted
        <4>2. QED BY <4>1 DEF Targeted, Only
      <3>4. QED BY <3>1, <3>2, <3>3 DEF MayCover, Covers
    <2>3. QED BY <2>1, <2>2
  <1>2. QED BY <1>1, CoverShrinks DEF CoverInv

\* A request passes the overlap check only when no booking covers its instants.
LEMMA CoverOverlap ==
    ASSUME Base, CoverInv, NEW r \in Requests, CreateOverlap(r)
    PROVE  Base' /\ CoverInv'
  <1> DEFINE new == req[r].new
             found == UserHasOverlap(new.user, new.start, new.end)
  <1>1. req[r].pc = "overlap" /\ req[r].pc \in Creating /\ new \in Row /\ req[r].pc # "idle"
    BY ReqFields DEF Base, CreateOverlap, Creating
  <1>2. Goto(r, IF found THEN Idle ELSE [req[r] EXCEPT !.pc = "sum"])
    BY DEF CreateOverlap
  <1>3. peak \in Nat
    BY DEF Base, Shape
  <1>4. CASE found
    <2>1. Base' /\ UNCHANGED <<booking, peak>> /\ Only(r) /\ req'[r] = Idle
      BY <1>1, <1>2, <1>4, EndFacts
    <2>2. req'[r].pc = "idle"
      BY <2>1 DEF Idle
    <2>3. QED BY <1>3, <2>1, <2>2, CoverQuiet DEF Moving
  <1>5. CASE ~found
    <2>1. "sum" \in Creating
      BY DEF Creating
    <2>2. Base' /\ UNCHANGED <<booking, peak>> /\ Only(r) /\ req'[r].pc = "sum" /\ req'[r].new = new
      BY <1>1, <1>2, <1>5, <2>1, AdvanceFacts
    <2>3. \A b \in Bookings : ~(booking[b].status \in Kept /\ booking[b].user = new.user
                                  /\ Overlaps(booking[b], new.start, new.end))
      BY <1>5 DEF UserHasOverlap, Kept
    <2>4. ASSUME NEW u \in Users, NEW t \in Nat
          PROVE  Cardinality(MayCover(u, t)') + Cardinality(Overlapped(u, t)') <= peak'
      <3>1. \A q \in Requests : (req'[q].pc \in Moving <=> req[q].pc \in Moving)
                                /\ (req[q].pc \in Moving => req'[q] = req[q])
        BY <1>1, <2>2 DEF Only, Moving
      <3>2. Targeted(Moving, Kept)' = Targeted(Moving, Kept)
        <4>1. Targeted(Moving, Kept)' =
                  {req'[q].id : q \in {p \in Requests : req'[p].pc \in Moving /\ req'[p].target \in Kept}}
          BY DEF Targeted
        <4>2. QED BY <3>1, <4>1 DEF Targeted
      <3>3. MayCover(u, t)' = MayCover(u, t)
        BY <2>2, <3>2 DEF MayCover, Covers
      <3>4. CASE u = new.user /\ Covers(new, t)
        <4> DEFINE P == MayCover(u, t)
                   M == {q \in Requests : req[q].pc \in Moving /\ req[q].target \in Kept}
                   C == Overlapped(u, t)'
        <4>1. P \subseteq {req[q].id : q \in M}
          <5>1. ASSUME NEW b \in P, booking[b].status \in Kept
                PROVE  FALSE
            <6>1. b \in Bookings /\ booking[b].user = new.user /\ Covers(booking[b], t)
              BY <3>4, <5>1 DEF MayCover
            <6>2. booking[b] \in Row
              BY <5>1, <6>1, BookingFields DEF Base, Kept
            <6>3. Overlaps(booking[b], new.start, new.end)
              <7>1. /\ booking[b].start \in Nat /\ booking[b].end \in Nat
                    /\ new.start \in Nat /\ new.end \in Nat
                BY <1>1, <6>2, RowFields
              <7>2. QED BY <3>4, <6>1, <7>1 DEF Covers, Overlaps
            <6>4. QED BY <2>3, <5>1, <6>1, <6>3
          <5>2. QED BY <5>1 DEF MayCover, Targeted
        <4>2. M \subseteq InFlight
          BY DEF InFlight, Moving
        <4>3. C \subseteq InFlight /\ M \cap C = {}
          <5>1. \A q \in C : q \in Requests /\ req'[q].pc \in {"sum", "insert"}
            BY DEF Overlapped, Covers
          <5>2. \A q \in C : req[q].pc \in Creating
            BY <1>1, <2>2, <5>1 DEF Only, Creating
          <5>3. QED BY <5>1, <5>2 DEF InFlight, Creating, Moving
        <4> HIDE DEF P, M, C
        <4>4. /\ Cardinality(P) + Cardinality(C) <= Cardinality(InFlight)
              /\ Cardinality(P) \in Nat /\ Cardinality(C) \in Nat /\ Cardinality(InFlight) \in Nat
          BY <4>1, <4>2, <4>3, ExtraRows DEF Base
        <4>5. Cardinality(P) + Cardinality(C) <= peak
          BY <1>3, <4>4 DEF Base, PeakInv
        <4>6. QED BY <2>2, <3>3, <4>5 DEF P, C
      <3>5. CASE ~(u = new.user /\ Covers(new, t))
        <4>1. Overlapped(u, t)' \subseteq Overlapped(u, t)
          BY <2>2, <3>5 DEF Overlapped, Only, Covers
        <4>2. QED BY <1>3, <2>2, <3>3, <4>1, CoverShrinks
      <3>6. QED BY <3>4, <3>5
    <2>5. QED BY <2>2, <2>4 DEF CoverInv
  <1>6. QED BY <1>4, <1>5

\* The INSERT moves a request that had passed the overlap check into the rows.
LEMMA CoverInsert ==
    ASSUME Base, CoverInv, NEW r \in Requests, NEW b \in Bookings, CreateInsert(r, b)
    PROVE  Base' /\ CoverInv'
  <1>1. /\ Base' /\ UNCHANGED peak /\ Only(r) /\ req[r].pc = "insert" /\ req[r].new \in Row
        /\ booking'[b] = req[r].new /\ req'[r] = Idle
        /\ \A c \in Bookings : c # b => booking'[c] = booking[c]
    BY CreateInsertFacts
  <1>2. req'[r].pc = "idle" /\ peak \in Nat
    BY <1>1 DEF Idle, Base, Shape
  <1>3. Targeted(Moving, Kept)' \subseteq Targeted(Moving, Kept)
    BY <1>1, <1>2 DEF Targeted, Only, Moving
  <1>4. ASSUME NEW u \in Users, NEW t \in Nat
        PROVE  Cardinality(MayCover(u, t)') + Cardinality(Overlapped(u, t)') <= peak'
    <2> DEFINE M1 == MayCover(u, t)
               C1 == Overlapped(u, t)
               M2 == MayCover(u, t)'
               C2 == Overlapped(u, t)'
    <2>1. C2 \subseteq C1 \ {r}
      BY <1>1, <1>2 DEF Overlapped, Only, Covers
    <2>2. CASE req[r].new.user = u /\ Covers(req[r].new, t)
      <3>1. r \in C1
        BY <1>1, <2>2 DEF Overlapped, Covers
      <3>2. M2 \subseteq M1 \cup {b}
        BY <1>1, <1>3 DEF MayCover, Covers
      <3>3. IsFiniteSet(M1) /\ IsFiniteSet(C1)
        <4>1. M1 \subseteq Bookings /\ C1 \subseteq Requests
          BY DEF MayCover, Overlapped
        <4>2. QED BY <4>1, FS_Subset, BookingAssumption
      <3>4. Cardinality(M1) + Cardinality(C1) <= peak
        BY DEF CoverInv
      <3> HIDE DEF M1, C1, M2, C2
      <3>5. Cardinality(M2) + Cardinality(C2) <= Cardinality(M1) + Cardinality(C1)
        BY <2>1, <3>1, <3>2, <3>3, Replaced
      <3>6. /\ Cardinality(M1) \in Nat /\ Cardinality(C1) \in Nat
            /\ Cardinality(M2) \in Nat /\ Cardinality(C2) \in Nat
        <4>1. M2 \subseteq Bookings /\ C2 \subseteq Requests
          BY DEF M2, C2, MayCover, Overlapped
        <4>2. QED BY <3>3, <4>1, FS_Subset, FS_CardinalityType, BookingAssumption
      <3>7. Cardinality(M2) + Cardinality(C2) <= peak
        BY <1>2, <3>4, <3>5, <3>6, BookingAssumption
      <3>8. QED BY <1>1, <3>7 DEF M2, C2
    <2>3. CASE ~(req[r].new.user = u /\ Covers(req[r].new, t))
      <3>1. M2 \subseteq M1
        BY <1>1, <1>3, <2>3 DEF MayCover, Covers
      <3>2. C2 \subseteq C1
        BY <2>1
      <3>3. QED BY <1>1, <1>2, <3>1, <3>2, CoverShrinks
    <2>4. QED BY <2>2, <2>3
  <1>5. QED BY <1>1, <1>4 DEF CoverInv

\* A transition moves no booking in time and keeps none that was not counted.
LEMMA CoverUpdate ==
    ASSUME Base, CoverInv, NEW r \in Requests, TransitionUpdate(r)
    PROVE  Base' /\ CoverInv'
  <1>1. /\ Base' /\ UNCHANGED peak /\ Only(r) /\ req[r].pc = "update" /\ req[r].id \in Bookings /\ req'[r] = Idle
        /\ booking'[req[r].id].status = req[r].target
        /\ \A c \in Bookings : /\ booking'[c].user = booking[c].user /\ booking'[c].start = booking[c].start
                               /\ booking'[c].end = booking[c].end
                               /\ c # req[r].id => booking'[c] = booking[c]
    BY TransitionUpdateFacts
  <1>2. req'[r].pc = "idle" /\ peak \in Nat
    BY <1>1 DEF Idle, Base, Shape
  <1>3. Targeted(Moving, Kept)' \subseteq Targeted(Moving, Kept)
    BY <1>1, <1>2 DEF Targeted, Only, Moving
  <1>4. req[r].target \in Kept => req[r].id \in Targeted(Moving, Kept)
    BY <1>1 DEF Targeted, Moving
  <1>5. ASSUME NEW u \in Users, NEW t \in Nat
        PROVE  MayCover(u, t)' \subseteq MayCover(u, t) /\ Overlapped(u, t)' \subseteq Overlapped(u, t)
    <2>1. Overlapped(u, t)' \subseteq Overlapped(u, t)
      BY <1>1, <1>2 DEF Overlapped, Only, Covers
    <2>2. MayCover(u, t)' \subseteq MayCover(u, t)
      BY <1>1, <1>3, <1>4 DEF MayCover, Covers
    <2>3. QED BY <2>1, <2>2
  <1>6. QED BY <1>1, <1>2, <1>5, CoverShrinks DEF CoverInv

-----------------------------------------------------------------------------
(* The seats of a slot.                                                    *)

\* What is in a box of seats.
LEMMA BoxMember ==
    ASSUME NEW D, NEW f, NEW x
    PROVE  x \in Box(D, f) <=> \E b \in D : \E k \in 1 .. f[b] : x = <<b, k>>
  <1>1. x \in Box(D, f) <=> \E b \in D : x \in {b} \X (1 .. f[b])
    BY DEF Box
  <1>2. \A b \in D : x \in {b} \X (1 .. f[b]) <=> \E k \in 1 .. f[b] : x = <<b, k>>
    OBVIOUS
  <1>3. QED BY <1>1, <1>2

\* Fewer places with the same parties take fewer seats.
LEMMA BoxSubset ==
    ASSUME NEW D1, NEW D2, NEW f1, NEW f2, D2 \subseteq D1, \A b \in D2 : f2[b] = f1[b]
    PROVE  Box(D2, f2) \subseteq Box(D1, f1)
  BY BoxMember

\* A party of at most cap at each place.
LEMMA BoxBound ==
    ASSUME NEW D, IsFiniteSet(D), NEW f, NEW cap \in Nat, \A b \in D : f[b] \in Nat /\ f[b] <= cap
    PROVE  /\ IsFiniteSet(Box(D, f)) /\ Cardinality(Box(D, f)) \in Nat
           /\ Cardinality(Box(D, f)) <= Cardinality(D) * cap
  <1>1. Box(D, f) \subseteq D \X (1 .. cap)
    <2>1. ASSUME NEW x \in Box(D, f)
          PROVE  x \in D \X (1 .. cap)
      <3>1. PICK b \in D : \E k \in 1 .. f[b] : x = <<b, k>>
        BY BoxMember
      <3>2. PICK k \in 1 .. f[b] : x = <<b, k>>
        BY <3>1
      <3>3. k \in 1 .. cap
        BY <3>2
      <3>4. QED BY <3>2, <3>3
    <2>2. QED BY <2>1
  <1>2. IsFiniteSet(1 .. cap) /\ Cardinality(1 .. cap) = cap
    <2>1. /\ IsFiniteSet(1 .. cap)
          /\ Cardinality(1 .. cap) = IF 1 > cap THEN 0 ELSE cap - 1 + 1
      BY FS_Interval
    <2>2. QED BY <2>1
  <1>3. IsFiniteSet(D \X (1 .. cap)) /\ Cardinality(D \X (1 .. cap)) = Cardinality(D) * cap
    BY <1>2, FS_Product
  <1>4. IsFiniteSet(Box(D, f)) /\ Cardinality(Box(D, f)) <= Cardinality(D \X (1 .. cap))
    BY <1>1, <1>3, FS_Subset
  <1>5. QED BY <1>3, <1>4, FS_CardinalityType

\* One party.
LEMMA BoxOne ==
    ASSUME NEW b, NEW f, f[b] \in Nat
    PROVE  IsFiniteSet(Box({b}, f)) /\ Cardinality(Box({b}, f)) = f[b]
  <1>1. Box({b}, f) = {b} \X (1 .. f[b])
    BY DEF Box
  <1>2. IsFiniteSet(1 .. f[b]) /\ Cardinality(1 .. f[b]) = f[b]
    <2>1. /\ IsFiniteSet(1 .. f[b])
          /\ Cardinality(1 .. f[b]) = IF 1 > f[b] THEN 0 ELSE f[b] - 1 + 1
      BY FS_Interval
    <2>2. QED BY <2>1
  <1>3. IsFiniteSet({b}) /\ Cardinality({b}) = 1
    BY FS_Singleton
  <1>4. IsFiniteSet({b} \X (1 .. f[b])) /\ Cardinality({b} \X (1 .. f[b])) = Cardinality({b}) * Cardinality(1 .. f[b])
    BY <1>2, <1>3, FS_Product
  <1>5. 1 * f[b] = f[b]
    OBVIOUS
  <1>6. Cardinality({b} \X (1 .. f[b])) = 1 * f[b]
    BY <1>2, <1>3, <1>4
  <1>7. QED BY <1>1, <1>4, <1>5, <1>6

\* A set that two finite sets cover is no larger than both.
LEMMA UnionBound ==
    ASSUME NEW A, NEW B, NEW S, IsFiniteSet(A), IsFiniteSet(B), S \subseteq A \cup B
    PROVE  /\ IsFiniteSet(S) /\ Cardinality(S) <= Cardinality(A) + Cardinality(B)
           /\ Cardinality(S) \in Nat /\ Cardinality(A) \in Nat /\ Cardinality(B) \in Nat
  <1>1. /\ IsFiniteSet(A \cup B) /\ IsFiniteSet(A \cap B)
        /\ Cardinality(A \cup B) = Cardinality(A) + Cardinality(B) - Cardinality(A \cap B)
    BY FS_Union, FS_Intersection
  <1>2. IsFiniteSet(S) /\ Cardinality(S) <= Cardinality(A \cup B)
    BY <1>1, FS_Subset
  <1>3. /\ Cardinality(S) \in Nat /\ Cardinality(A) \in Nat /\ Cardinality(B) \in Nat
        /\ Cardinality(A \cap B) \in Nat /\ Cardinality(A \cup B) \in Nat
    BY <1>1, <1>2, FS_CardinalityType
  <1>4. QED BY <1>1, <1>2, <1>3

\* The same number of seats moves from one set to the other.
LEMMA SeatsMoved ==
    ASSUME NEW M1, NEW M2, NEW C1, NEW C2, NEW N, NEW K, IsFiniteSet(M1), IsFiniteSet(C1), IsFiniteSet(N),
           K \subseteq C1, Cardinality(N) = Cardinality(K), M2 \subseteq M1 \cup N, C2 \subseteq C1 \ K
    PROVE  Cardinality(M2) + Cardinality(C2) <= Cardinality(M1) + Cardinality(C1)
  <1>1. Cardinality(M2) <= Cardinality(M1) + Cardinality(N) /\ Cardinality(M2) \in Nat
          /\ Cardinality(M1) \in Nat /\ Cardinality(N) \in Nat
    BY UnionBound
  <1>2. IsFiniteSet(K) /\ IsFiniteSet(C1 \ K) /\ IsFiniteSet(C2) /\ Cardinality(C2) <= Cardinality(C1 \ K)
    <2>1. IsFiniteSet(K) /\ IsFiniteSet(C1 \ K)
      BY FS_Subset
    <2>2. QED BY <2>1, FS_Subset
  <1>3. Cardinality(C1 \ K) = Cardinality(C1) - Cardinality(K)
    <2>1. Cardinality(C1 \ K) = Cardinality(C1) - Cardinality(C1 \cap K)
      BY FS_Difference
    <2>2. C1 \cap K = K
      OBVIOUS
    <2>3. QED BY <2>1, <2>2
  <1>4. /\ Cardinality(C2) \in Nat /\ Cardinality(C1 \ K) \in Nat /\ Cardinality(C1) \in Nat
        /\ Cardinality(K) \in Nat
    BY <1>2, FS_CardinalityType
  <1>5. QED BY <1>1, <1>2, <1>3, <1>4

\* The rows and the requests whose seats are counted, and their parties.
LEMMA SeatFacts ==
    ASSUME Base, NEW res \in Resources, NEW t \in Nat
    PROVE  /\ MaySit(res, t) \subseteq Bookings /\ IsFiniteSet(MaySit(res, t))
           /\ Fitted(res, t) \subseteq InFlight /\ IsFiniteSet(Fitted(res, t))
           /\ Capacity[res] \in Nat /\ peak \in Nat
           /\ \A b \in MaySit(res, t) : /\ booking[b] \in Row /\ BookedParty[b] = booking[b].party
                                        /\ BookedParty[b] \in Nat /\ BookedParty[b] <= Capacity[res]
           /\ \A r \in Fitted(res, t) : /\ req[r].new \in Row /\ AskedParty[r] = req[r].new.party
                                        /\ AskedParty[r] \in Nat /\ AskedParty[r] <= Capacity[res]
  <1>1. MaySit(res, t) \subseteq Bookings /\ Fitted(res, t) \subseteq Requests
    BY DEF MaySit, Fitted
  <1>2. IsFiniteSet(MaySit(res, t)) /\ IsFiniteSet(Fitted(res, t))
    BY <1>1, FS_Subset, BookingAssumption
  <1>3. Fitted(res, t) \subseteq InFlight
    BY DEF Fitted, InFlight
  <1>4. Capacity[res] \in Nat /\ peak \in Nat
    BY BookingAssumption DEF Base, Shape
  <1>5. ASSUME NEW b \in MaySit(res, t)
        PROVE  /\ booking[b] \in Row /\ BookedParty[b] = booking[b].party
               /\ BookedParty[b] \in Nat /\ BookedParty[b] <= Capacity[res]
    <2>1. b \in Bookings /\ booking[b].resource = res
      BY DEF MaySit
    <2>2. booking[b].status \in Status
      <3>1. CASE booking[b].status \in Seated
        BY <3>1 DEF Seated, Status
      <3>2. CASE b \in Targeted({"update"}, Seated)
        <4>1. PICK r \in Requests : req[r].pc = "update" /\ b = req[r].id
          BY <3>2 DEF Targeted
        <4>2. QED BY <4>1 DEF Base, RowInv, Moving
      <3>3. QED BY <3>1, <3>2 DEF MaySit
    <2>3. booking[b] \in Row /\ booking[b].party <= Capacity[res]
      BY <2>1, <2>2, BookingFields DEF Base, RowInv
    <2>4. QED BY <2>1, <2>3, RowFields DEF BookedParty
  <1>6. ASSUME NEW r \in Fitted(res, t)
        PROVE  /\ req[r].new \in Row /\ AskedParty[r] = req[r].new.party
               /\ AskedParty[r] \in Nat /\ AskedParty[r] <= Capacity[res]
    <2>1. r \in Requests /\ req[r].pc \in Creating /\ req[r].new.resource = res
      BY DEF Fitted, Creating
    <2>2. req[r].new \in Row /\ req[r].new.party <= Capacity[res]
      BY <2>1, ReqFields DEF Base, RowInv
    <2>3. QED BY <2>1, <2>2, RowFields DEF AskedParty
  <1>7. QED BY <1>1, <1>2, <1>3, <1>4, <1>5, <1>6

\* Fewer rows and requests, with the parties they had.
LEMMA SeatShrinks ==
    ASSUME Base, Base', SeatInv, peak' >= peak, NEW res \in Resources, NEW t \in Nat,
           MaySit(res, t)' \subseteq MaySit(res, t), Fitted(res, t)' \subseteq Fitted(res, t),
           \A b \in MaySit(res, t)' : booking'[b].party = booking[b].party,
           \A q \in Fitted(res, t)' : req'[q].new.party = req[q].new.party
    PROVE  Cardinality(Box(MaySit(res, t)', BookedParty')) + Cardinality(Box(Fitted(res, t)', AskedParty'))
               <= peak' * Capacity[res]
  <1> DEFINE M1 == Box(MaySit(res, t), BookedParty)
             C1 == Box(Fitted(res, t), AskedParty)
             M2 == Box(MaySit(res, t)', BookedParty')
             C2 == Box(Fitted(res, t)', AskedParty')
  <1>1. IsFiniteSet(M1) /\ IsFiniteSet(C1) /\ Cardinality(M1) \in Nat /\ Cardinality(C1) \in Nat
    BY SeatFacts, BoxBound
  <1>2. M2 \subseteq M1
    <2>1. MaySit(res, t)' \subseteq Bookings
      BY DEF MaySit
    <2>2. \A b \in MaySit(res, t)' : BookedParty'[b] = BookedParty[b]
      BY <2>1 DEF BookedParty
    <2>3. QED BY <2>2, BoxSubset
  <1>3. C2 \subseteq C1
    <2>1. Fitted(res, t)' \subseteq Requests
      BY DEF Fitted
    <2>2. \A q \in Fitted(res, t)' : AskedParty'[q] = AskedParty[q]
      BY <2>1 DEF AskedParty
    <2>3. QED BY <2>2, BoxSubset
  <1>4. Cardinality(M1) + Cardinality(C1) <= peak * Capacity[res]
    BY DEF SeatInv
  <1> HIDE DEF M1, C1, M2, C2
  <1>5. Cardinality(M2) + Cardinality(C2) <= Cardinality(M1) + Cardinality(C1)
    BY <1>1, <1>2, <1>3, Shrinks
  <1>6. Cardinality(M2) \in Nat /\ Cardinality(C2) \in Nat
    BY <1>1, <1>2, <1>3, FS_Subset, FS_CardinalityType
  <1>7. peak \in Nat /\ peak' \in Nat /\ Capacity[res] \in Nat
    BY BookingAssumption DEF Base, Shape
  <1>8. peak * Capacity[res] <= peak' * Capacity[res] /\ peak * Capacity[res] \in Nat /\ peak' * Capacity[res] \in Nat
    BY <1>7
  <1>9. Cardinality(M2) + Cardinality(C2) <= peak' * Capacity[res]
    BY <1>1, <1>4, <1>5, <1>6, <1>8
  <1>10. QED BY <1>9 DEF M2, C2

\* A step that gives no seat away.
LEMMA SeatQuiet ==
    ASSUME Base, Base', SeatInv, peak' >= peak, NEW r \in Requests, UNCHANGED booking, Only(r),
           req'[r].pc = "update" /\ req'[r].target \in Seated =>
               booking[req'[r].id].status \in Seated
               \/ (req[r].pc = "update" /\ req[r].id = req'[r].id /\ req[r].target = req'[r].target),
           req'[r].pc # "insert"
    PROVE  SeatInv'
  <1>1. ASSUME NEW res \in Resources, NEW t \in Nat
        PROVE  Cardinality(Box(MaySit(res, t)', BookedParty')) + Cardinality(Box(Fitted(res, t)', AskedParty'))
                   <= peak' * Capacity[res]
    <2>1. Fitted(res, t)' \subseteq Fitted(res, t) /\ \A q \in Fitted(res, t)' : req'[q].new.party = req[q].new.party
      BY DEF Fitted, Only
    <2>2. ASSUME NEW b \in MaySit(res, t)'
          PROVE  b \in MaySit(res, t)
      <3>1. b \in Bookings /\ booking[b].resource = res /\ Covers(booking[b], t)
        BY <2>2 DEF MaySit
      <3>2. booking[b].status \in Seated \/ b \in Targeted({"update"}, Seated)'
        BY <2>2 DEF MaySit
      <3>3. ASSUME b \in Targeted({"update"}, Seated)'
            PROVE  booking[b].status \in Seated \/ b \in Targeted({"update"}, Seated)
        <4>1. PICK q \in Requests : req'[q].pc = "update" /\ req'[q].target \in Seated /\ b = req'[q].id
          BY <3>3 DEF Targeted
        <4>2. QED BY <4>1 DEF Targeted, Only
      <3>4. QED BY <3>1, <3>2, <3>3 DEF MaySit
    <2>3. \A b \in MaySit(res, t)' : booking'[b].party = booking[b].party
      OBVIOUS
    <2>4. QED BY <2>1, <2>2, <2>3, SeatShrinks
  <1>2. QED BY <1>1 DEF SeatInv

\* Create's sum counts the seats of its window; the rest in flight is one party each.
LEMMA SeatSum ==
    ASSUME Base, SeatInv, NEW r \in Requests, CreateSum(r)
    PROVE  SeatInv'
  <1> DEFINE new == req[r].new
             s == new.start
             e == new.end
  <1>1. /\ Base' /\ UNCHANGED <<booking, peak>> /\ Only(r)
        /\ req[r].pc = "sum" /\ new \in Row /\ req'[r].pc = "insert" /\ req'[r].new \in Row
        /\ req'[r].new.resource = new.resource /\ req'[r].new.party = new.party
        /\ req'[r].new.start = s /\ req'[r].new.end = e
        /\ req'[r].new.status \in Seated => Fits(new.resource, SumActivePartySizes(new.resource, s, e), new.party)
    BY CreateSumFacts
  <1>2. peak \in Nat /\ new.party \in Nat /\ s \in Nat /\ e \in Nat
    BY <1>1, RowFields DEF Base, Shape
  <1>3. ASSUME NEW res \in Resources, NEW t \in Nat
        PROVE  Cardinality(Box(MaySit(res, t)', BookedParty')) + Cardinality(Box(Fitted(res, t)', AskedParty'))
                   <= peak' * Capacity[res]
    <2>1. Targeted({"update"}, Seated)' = Targeted({"update"}, Seated)
      <3>1. \A q \in Requests : (req'[q].pc \in {"update"} <=> req[q].pc \in {"update"})
                                /\ (req[q].pc \in {"update"} => req'[q] = req[q])
        BY <1>1 DEF Only
      <3>2. Targeted({"update"}, Seated)' =
                {req'[q].id : q \in {p \in Requests : req'[p].pc \in {"update"} /\ req'[p].target \in Seated}}
        BY DEF Targeted
      <3>3. QED BY <3>1, <3>2 DEF Targeted
    <2>2. MaySit(res, t)' = MaySit(res, t) /\ BookedParty' = BookedParty
      BY <1>1, <2>1 DEF MaySit, BookedParty
    <2>3. CASE r \in Fitted(res, t)'
      <3>1. req'[r].new.status \in Seated /\ new.resource = res /\ Covers(new, t)
        BY <1>1, <2>3 DEF Fitted, Covers
      <3> DEFINE D == SeatedIn(res, s, e)
                 P == MaySit(res, t)
                 X == P \ D
                 M == {q \in Requests : req[q].pc \in {"update"} /\ req[q].target \in Seated}
                 C == Fitted(res, t)'
                 cap == Capacity[res]
      <3>2. cap \in Nat /\ P \subseteq Bookings /\ \A b \in P : BookedParty[b] \in Nat /\ BookedParty[b] <= cap
        BY SeatFacts
      <3>3. C \subseteq Requests /\ \A q \in C : AskedParty'[q] \in Nat /\ AskedParty'[q] <= cap
        <4>1. C \subseteq Requests
          BY DEF Fitted
        <4>2. ASSUME NEW q \in C
              PROVE  AskedParty'[q] \in Nat /\ AskedParty'[q] <= cap
          <5>1. req'[q].pc = "insert" /\ req'[q].new.resource = res /\ AskedParty'[q] = req'[q].new.party
            BY <4>1 DEF Fitted, AskedParty
          <5>2. req'[q].new.party <= cap
            BY <1>1, <4>1, <5>1 DEF Base, RowInv, Creating
          <5>3. req'[q].new \in Row
            <6>1. CASE q = r
              BY <1>1, <6>1
            <6>2. CASE q # r
              <7>1. req'[q] = req[q] /\ req[q].pc \in Creating
                BY <1>1, <4>1, <5>1, <6>2 DEF Only, Creating
              <7>2. QED BY <4>1, <7>1, ReqFields DEF Base
            <6>3. QED BY <6>1, <6>2
          <5>4. QED BY <5>1, <5>2, <5>3, RowFields
        <4>3. QED BY <4>1, <4>2
      <3>4. X \subseteq {req[q].id : q \in M}
        <4>1. ASSUME NEW b \in X
              PROVE  b \in Targeted({"update"}, Seated)
          <5>1. b \in Bookings /\ booking[b] \in Row /\ booking[b].resource = res /\ Covers(booking[b], t)
            BY SeatFacts DEF MaySit
          <5>2. booking[b].start \in Nat /\ booking[b].end \in Nat
            BY <5>1, RowFields
          <5>3. Overlaps(booking[b], s, e)
            BY <1>2, <3>1, <5>1, <5>2 DEF Covers, Overlaps
          <5>4. booking[b].status \notin Seated
            BY <4>1, <5>1, <5>3 DEF SeatedIn
          <5>5. QED BY <5>4 DEF MaySit
        <4>2. QED BY <4>1 DEF Targeted
      <3>5. M \subseteq InFlight /\ C \subseteq InFlight /\ M \cap C = {}
        <4>1. M \subseteq InFlight
          BY DEF InFlight
        <4>2. \A q \in C : req[q].pc \in {"sum", "insert"}
          BY <1>1, <3>3 DEF Fitted, Only
        <4>3. QED BY <3>3, <4>1, <4>2 DEF InFlight
      <3>6. SumActivePartySizes(res, s, e) = Cardinality(Box(D, BookedParty))
        <4>1. SeatsOf(D) = Box(D, BookedParty)
          <5>1. \A b \in D : BookedParty[b] = booking[b].party
            BY DEF SeatedIn, BookedParty
          <5>2. QED BY <5>1 DEF SeatsOf, Box
        <4>2. QED BY <4>1 DEF SumActivePartySizes
      <3>7. new.party <= cap - Cardinality(Box(D, BookedParty))
        BY <1>1, <3>1, <3>6 DEF Fits
      <3>8. IsFiniteSet(D) /\ \A b \in D : BookedParty[b] \in Nat /\ BookedParty[b] <= cap
        <4>1. D \subseteq Bookings
          BY DEF SeatedIn
        <4>2. ASSUME NEW b \in D
              PROVE  BookedParty[b] \in Nat /\ BookedParty[b] <= cap
          <5>1. b \in Bookings /\ booking[b].status \in Status /\ booking[b].resource = res
            BY DEF SeatedIn, Seated, Status
          <5>2. booking[b] \in Row /\ booking[b].party <= cap
            BY <5>1, BookingFields DEF Base, RowInv
          <5>3. QED BY <5>1, <5>2, RowFields DEF BookedParty
        <4>3. QED BY <4>1, <4>2, FS_Subset, BookingAssumption
      <3>9. AskedParty'[r] = new.party /\ r \in C
        BY <1>1, <2>3 DEF AskedParty
      <3>10. \A b \in X : BookedParty[b] \in Nat /\ BookedParty[b] <= cap
        BY <3>2
      <3>11. P \subseteq D \cup X
        OBVIOUS
      <3> HIDE DEF D, P, X, M, C, cap, new, s, e
      <3>12. /\ IsFiniteSet(X) /\ IsFiniteSet(C) /\ Cardinality(X) + Cardinality(C) <= Cardinality(InFlight)
             /\ Cardinality(X) \in Nat /\ Cardinality(C) \in Nat /\ Cardinality(InFlight) \in Nat
        BY <3>4, <3>5, ExtraRows DEF Base
      <3>13. /\ IsFiniteSet(C \ {r}) /\ Cardinality(C \ {r}) = Cardinality(C) - 1
             /\ \A q \in C \ {r} : AskedParty'[q] \in Nat /\ AskedParty'[q] <= cap
        BY <3>3, <3>9, <3>12, FS_RemoveElement
      <3> DEFINE seatsD == Box(D, BookedParty)
                 seatsX == Box(X, BookedParty)
                 seatsR == Box({r}, AskedParty')
                 seatsC == Box(C \ {r}, AskedParty')
                 seatsP == Box(P, BookedParty)
                 asked == Box(C, AskedParty')
      <3>14. IsFiniteSet(seatsD) /\ Cardinality(seatsD) \in Nat
        BY <3>2, <3>8, BoxBound
      <3>15. IsFiniteSet(seatsX) /\ Cardinality(seatsX) <= Cardinality(X) * cap /\ Cardinality(seatsX) \in Nat
        BY <3>2, <3>10, <3>12, BoxBound
      <3>16. IsFiniteSet(seatsR) /\ Cardinality(seatsR) = new.party
        BY <1>2, <3>9, BoxOne
      <3>17. IsFiniteSet(seatsC) /\ Cardinality(seatsC) <= Cardinality(C \ {r}) * cap /\ Cardinality(seatsC) \in Nat
        BY <3>2, <3>13, BoxBound
      <3>18. seatsP \subseteq seatsD \cup seatsX /\ asked \subseteq seatsR \cup seatsC
        BY <3>11, BoxMember
      <3> HIDE DEF seatsD, seatsX, seatsR, seatsC, seatsP, asked
      <3>19. Cardinality(seatsP) <= Cardinality(seatsD) + Cardinality(seatsX) /\ Cardinality(seatsP) \in Nat
        BY <3>14, <3>15, <3>18, UnionBound
      <3>20. Cardinality(asked) <= Cardinality(seatsR) + Cardinality(seatsC) /\ Cardinality(asked) \in Nat
        BY <3>16, <3>17, <3>18, UnionBound
      <3>21. Cardinality(seatsD) + new.party <= cap
        BY <1>2, <3>2, <3>7, <3>14 DEF seatsD
      <3>22. Cardinality(X) * cap + Cardinality(C \ {r}) * cap + cap <= peak * cap
        <4>1. Cardinality(X) + Cardinality(C) <= peak
          BY <1>2, <3>12 DEF Base, PeakInv
        <4>2. Cardinality(X) * cap + Cardinality(C \ {r}) * cap + cap = (Cardinality(X) + Cardinality(C)) * cap
          BY <3>2, <3>12, <3>13
        <4>3. (Cardinality(X) + Cardinality(C)) * cap <= peak * cap
          BY <1>2, <3>2, <3>12, <4>1
        <4>4. QED BY <4>2, <4>3
      <3>23. Cardinality(X) * cap \in Nat /\ Cardinality(C \ {r}) * cap \in Nat /\ peak * cap \in Nat
        <4>1. Cardinality(C \ {r}) \in Nat
          BY <3>13, FS_CardinalityType
        <4>2. QED BY <1>2, <3>2, <3>12, <4>1
      <3>24. Cardinality(seatsP) + Cardinality(asked) <= peak * cap
        BY <1>2, <3>2, <3>14, <3>15, <3>16, <3>17, <3>19, <3>20, <3>21, <3>22, <3>23
      <3>25. QED BY <1>1, <2>2, <3>24 DEF seatsP, asked, P, C, cap
    <2>4. CASE r \notin Fitted(res, t)'
      <3>1. Fitted(res, t)' \subseteq Fitted(res, t) /\ \A q \in Fitted(res, t)' : req'[q].new.party = req[q].new.party
        BY <1>1, <2>4 DEF Fitted, Only
      <3>2. QED BY <1>1, <1>2, <2>2, <3>1, SeatShrinks
    <2>5. QED BY <2>3, <2>4
  <1>4. QED BY <1>3 DEF SeatInv

\* A promotion that found no other party in its window: every row that may sit at
\* one of its ticks is the row of a transition under way.
LEMMA SeatBusy ==
    ASSUME Base, SeatInv, NEW r \in Requests, TransitionBusy(r)
    PROVE  SeatInv'
  <1> DEFINE b == req[r].id
             row == booking[b]
  <1>1. /\ Base' /\ UNCHANGED <<booking, peak>> /\ Only(r) /\ req[r].pc = "busy" /\ b \in Bookings
        /\ req[r].target = "pending_confirmation" /\ row \in Row
        /\ \/ req'[r] = Idle
           \/ /\ req'[r].pc = "update" /\ req'[r].id = b /\ req'[r].target = req[r].target
              /\ SeatedIn(row.resource, row.start, row.end) \subseteq {b}
    BY TransitionBusyFacts
  <1>2. peak \in Nat /\ Idle.pc = "idle" /\ row.start \in Nat /\ row.end \in Nat
    BY <1>1, RowFields DEF Base, Shape, Idle
  <1>3. CASE req'[r] = Idle
    BY <1>1, <1>2, <1>3, SeatQuiet
  <1>4. CASE /\ req'[r].pc = "update" /\ req'[r].id = b /\ req'[r].target = req[r].target
             /\ SeatedIn(row.resource, row.start, row.end) \subseteq {b}
    <2>1. ASSUME NEW res \in Resources, NEW t \in Nat
          PROVE  Cardinality(Box(MaySit(res, t)', BookedParty')) + Cardinality(Box(Fitted(res, t)', AskedParty'))
                     <= peak' * Capacity[res]
      <3> DEFINE P == MaySit(res, t)'
                 C == Fitted(res, t)'
                 M == {q \in Requests : req'[q].pc \in {"update"} /\ req'[q].target \in Seated}
                 cap == Capacity[res]
      <3>1. C = Fitted(res, t) /\ \A q \in C : req'[q].new.party = req[q].new.party
        BY <1>1, <1>4 DEF Fitted, Only
      <3>2. Targeted({"update"}, Seated)' = {req'[q].id : q \in M}
        BY DEF Targeted
      <3>3. \A q \in M : req'[q].id = req[q].id /\ q \in Requests
        BY <1>1, <1>4 DEF Only
      <3>4. P \subseteq Bookings
        BY DEF MaySit
      <3>5. CASE row.resource = res /\ Covers(row, t)
        <4>1. r \in M
          BY <1>1, <1>4 DEF Seated
        <4>2. P \subseteq {req[q].id : q \in M}
          <5>1. ASSUME NEW c \in P
                PROVE  c \in {req[q].id : q \in M}
            <6>1. c \in Bookings /\ booking[c].resource = res /\ Covers(booking[c], t)
              BY <1>1, <3>4, <5>1 DEF MaySit
            <6>2. booking[c].status \in Seated \/ c \in Targeted({"update"}, Seated)'
              BY <1>1, <5>1 DEF MaySit
            <6>3. CASE c \in Targeted({"update"}, Seated)'
              BY <3>2, <3>3, <6>3
            <6>4. CASE booking[c].status \in Seated
              <7>1. booking[c] \in Row
                BY <6>1, <6>4, BookingFields DEF Base, Seated, Status
              <7>2. booking[c].start \in Nat /\ booking[c].end \in Nat
                BY <7>1, RowFields
              <7>3. Overlaps(booking[c], row.start, row.end)
                BY <1>2, <3>5, <6>1, <7>2 DEF Covers, Overlaps
              <7>4. c = b
                BY <1>4, <3>5, <6>1, <6>4, <7>3 DEF SeatedIn
              <7>5. QED BY <4>1, <7>4
            <6>5. QED BY <6>2, <6>3, <6>4
          <5>2. QED BY <5>1
        <4>3. M \subseteq InFlight /\ C \subseteq InFlight /\ M \cap C = {}
          <5>1. M \subseteq InFlight
            BY <1>1 DEF InFlight, Only
          <5>2. C \subseteq InFlight
            BY <3>1 DEF Fitted, InFlight
          <5>3. M \cap C = {}
            BY DEF Fitted
          <5>4. QED BY <5>1, <5>2, <5>3
        <4>4. cap \in Nat /\ \A c \in P : BookedParty'[c] \in Nat /\ BookedParty'[c] <= cap
          <5>1. cap \in Nat
            BY BookingAssumption
          <5>2. ASSUME NEW c \in P
                PROVE  BookedParty'[c] \in Nat /\ BookedParty'[c] <= cap
            <6>1. c \in Bookings /\ booking[c].resource = res
              BY <1>1, <3>4 DEF MaySit
            <6>2. booking[c].status \in Status
              <7>1. CASE booking[c].status \in Seated
                BY <7>1 DEF Seated, Status
              <7>2. CASE c \in Targeted({"update"}, Seated)'
                <8>1. PICK q \in M : c = req'[q].id
                  BY <3>2, <7>2
                <8>2. booking'[c].status \in Status
                  BY <1>1, <8>1 DEF Base, RowInv, Moving
                <8>3. QED BY <1>1, <8>2
              <7>3. QED BY <1>1, <7>1, <7>2 DEF MaySit
            <6>3. booking[c] \in Row /\ booking[c].party <= cap
              BY <6>1, <6>2, BookingFields DEF Base, RowInv
            <6>4. BookedParty'[c] = booking[c].party
              BY <1>1, <6>1 DEF BookedParty
            <6>5. QED BY <6>3, <6>4, RowFields
          <5>3. QED BY <5>1, <5>2
        <4>5. \A q \in C : AskedParty'[q] \in Nat /\ AskedParty'[q] <= cap
          <5>1. C \subseteq Requests
            BY DEF Fitted
          <5>2. \A q \in C : AskedParty'[q] = req[q].new.party /\ AskedParty[q] = req[q].new.party
            BY <3>1, <5>1 DEF AskedParty
          <5>3. QED BY <3>1, <5>2, SeatFacts
        <4> HIDE DEF P, C, M, cap
        <4>6. /\ IsFiniteSet(P) /\ IsFiniteSet(C) /\ Cardinality(P) + Cardinality(C) <= Cardinality(InFlight)
              /\ Cardinality(P) \in Nat /\ Cardinality(C) \in Nat /\ Cardinality(InFlight) \in Nat
          BY <4>2, <4>3, ExtraRows DEF Base
        <4>7. /\ Cardinality(Box(P, BookedParty')) <= Cardinality(P) * cap
              /\ Cardinality(Box(P, BookedParty')) \in Nat
          BY <4>4, <4>6, BoxBound
        <4>8. /\ Cardinality(Box(C, AskedParty')) <= Cardinality(C) * cap
              /\ Cardinality(Box(C, AskedParty')) \in Nat
          BY <4>4, <4>5, <4>6, BoxBound
        <4>9. Cardinality(P) * cap + Cardinality(C) * cap <= peak * cap
          <5>1. Cardinality(P) + Cardinality(C) <= peak
            BY <1>2, <4>6 DEF Base, PeakInv
          <5>2. (Cardinality(P) + Cardinality(C)) * cap <= peak * cap
            BY <1>2, <4>4, <4>6, <5>1
          <5>3. (Cardinality(P) + Cardinality(C)) * cap = Cardinality(P) * cap + Cardinality(C) * cap
            BY <4>4, <4>6
          <5>4. QED BY <5>2, <5>3
        <4>10. Cardinality(P) * cap \in Nat /\ Cardinality(C) * cap \in Nat /\ peak * cap \in Nat
          BY <1>2, <4>4, <4>6
        <4>11. Cardinality(Box(P, BookedParty')) + Cardinality(Box(C, AskedParty')) <= peak * cap
          BY <4>7, <4>8, <4>9, <4>10
        <4>12. QED BY <1>1, <4>11 DEF P, C, cap
      <3>6. CASE ~(row.resource = res /\ Covers(row, t))
        <4>1. P \subseteq MaySit(res, t)
          <5>1. ASSUME NEW c \in P
                PROVE  c \in MaySit(res, t)
            <6>1. c \in Bookings /\ booking[c].resource = res /\ Covers(booking[c], t) /\ c # b
              BY <1>1, <3>4, <3>6, <5>1 DEF MaySit
            <6>2. booking[c].status \in Seated \/ c \in Targeted({"update"}, Seated)'
              BY <1>1, <5>1 DEF MaySit
            <6>3. CASE c \in Targeted({"update"}, Seated)'
              <7>1. PICK q \in M : c = req'[q].id
                BY <3>2, <6>3
              <7>2. q # r /\ req'[q] = req[q]
                BY <1>1, <1>4, <6>1, <7>1 DEF Only
              <7>3. c \in Targeted({"update"}, Seated)
                BY <7>1, <7>2 DEF Targeted
              <7>4. QED BY <6>1, <7>3 DEF MaySit
            <6>4. QED BY <6>1, <6>2, <6>3 DEF MaySit
          <5>2. QED BY <5>1
        <4>2. \A c \in P : booking'[c].party = booking[c].party
          BY <1>1
        <4>3. QED BY <1>1, <1>2, <3>1, <4>1, <4>2, SeatShrinks
      <3>7. QED BY <3>5, <3>6
    <2>2. QED BY <2>1 DEF SeatInv
  <1>5. QED BY <1>1, <1>3, <1>4

\* The INSERT turns the party of a request into the party of a row.
LEMMA SeatInsert ==
    ASSUME Base, SeatInv, NEW r \in Requests, NEW b \in Bookings, CreateInsert(r, b)
    PROVE  SeatInv'
  <1>1. /\ Base' /\ UNCHANGED peak /\ Only(r) /\ req[r].pc = "insert" /\ req[r].new \in Row
        /\ booking[b] = NoBooking /\ booking'[b] = req[r].new /\ req'[r] = Idle
        /\ \A c \in Bookings : c # b => booking'[c] = booking[c]
        /\ \A q \in Requests : req[q].pc \in Moving => req[q].id # b
    BY CreateInsertFacts
  <1>2. req'[r].pc = "idle" /\ peak \in Nat /\ req[r].new.party \in Nat
    BY <1>1, RowFields DEF Idle, Base, Shape
  <1>3. Targeted({"update"}, Seated)' \subseteq Targeted({"update"}, Seated)
    BY <1>1, <1>2 DEF Targeted, Only
  <1>4. b \notin Targeted({"update"}, Seated)
    BY <1>1 DEF Targeted, Moving
  <1>5. ASSUME NEW res \in Resources, NEW t \in Nat
        PROVE  Cardinality(Box(MaySit(res, t)', BookedParty')) + Cardinality(Box(Fitted(res, t)', AskedParty'))
                   <= peak' * Capacity[res]
    <2>1. Fitted(res, t)' \subseteq Fitted(res, t) \ {r} /\ \A q \in Fitted(res, t)' : req'[q].new.party = req[q].new.party
      BY <1>1, <1>2 DEF Fitted, Only
    <2>2. MaySit(res, t)' \subseteq MaySit(res, t) \cup {b}
      BY <1>1, <1>3 DEF MaySit
    <2>3. CASE b \in MaySit(res, t)'
      <3>1. r \in Fitted(res, t)
        BY <1>1, <1>3, <1>4, <2>3 DEF MaySit, Fitted
      <3> DEFINE M1 == Box(MaySit(res, t), BookedParty)
                 C1 == Box(Fitted(res, t), AskedParty)
                 M2 == Box(MaySit(res, t)', BookedParty')
                 C2 == Box(Fitted(res, t)', AskedParty')
                 N == Box({b}, BookedParty')
                 K == Box({r}, AskedParty)
      <3>2. IsFiniteSet(M1) /\ IsFiniteSet(C1) /\ Cardinality(M1) \in Nat /\ Cardinality(C1) \in Nat
        BY SeatFacts, BoxBound
      <3>3. BookedParty'[b] = req[r].new.party /\ AskedParty[r] = req[r].new.party
        BY <1>1 DEF BookedParty, AskedParty
      <3>4. IsFiniteSet(N) /\ Cardinality(N) = req[r].new.party
        BY <1>2, <3>3, BoxOne
      <3>5. Cardinality(K) = req[r].new.party
        BY <1>2, <3>3, BoxOne
      <3>6. K \subseteq C1
        BY <3>1, BoxSubset
      <3>7. \A c \in MaySit(res, t)' : c # b => BookedParty'[c] = BookedParty[c]
        <4>1. MaySit(res, t)' \subseteq Bookings
          BY DEF MaySit
        <4>2. QED BY <1>1, <4>1 DEF BookedParty
      <3>8. M2 \subseteq M1 \cup N
        <4>1. ASSUME NEW x \in M2
              PROVE  x \in M1 \cup N
          <5>1. PICK c \in MaySit(res, t)' : \E k \in 1 .. BookedParty'[c] : x = <<c, k>>
            BY BoxMember
          <5>2. CASE c = b
            BY <5>1, <5>2, BoxMember
          <5>3. CASE c # b
            <6>1. c \in MaySit(res, t) /\ BookedParty'[c] = BookedParty[c]
              BY <2>2, <3>7, <5>3
            <6>2. QED BY <5>1, <6>1, BoxMember
          <5>4. QED BY <5>2, <5>3
        <4>2. QED BY <4>1
      <3>9. C2 \subseteq C1 \ K
        <4>1. Fitted(res, t)' \subseteq Requests
          BY DEF Fitted
        <4>2. \A q \in Fitted(res, t)' : AskedParty'[q] = AskedParty[q]
          BY <2>1, <4>1 DEF AskedParty
        <4>3. C2 \subseteq C1
          BY <2>1, <4>2, BoxSubset
        <4>4. ASSUME NEW x \in C2
              PROVE  x \notin K
          <5>1. PICK q \in Fitted(res, t)' : \E k \in 1 .. AskedParty'[q] : x = <<q, k>>
            BY BoxMember
          <5>2. q # r
            BY <2>1
          <5>3. \A k : x # <<r, k>>
            BY <5>1, <5>2
          <5>4. QED BY <5>3, BoxMember
        <4>5. QED BY <4>3, <4>4
      <3>10. Cardinality(M1) + Cardinality(C1) <= peak * Capacity[res]
        BY DEF SeatInv
      <3> HIDE DEF M1, C1, M2, C2, N, K
      <3>11. Cardinality(M2) + Cardinality(C2) <= Cardinality(M1) + Cardinality(C1)
        BY <3>2, <3>4, <3>5, <3>6, <3>8, <3>9, SeatsMoved
      <3>12. Cardinality(M2) \in Nat /\ Cardinality(C2) \in Nat
        <4>1. IsFiniteSet(C2)
          BY <3>2, <3>9, FS_Subset
        <4>2. QED BY <3>2, <3>4, <3>8, <4>1, UnionBound, FS_CardinalityType
      <3>13. peak * Capacity[res] \in Nat
        BY <1>2, BookingAssumption
      <3>14. Cardinality(M2) + Cardinality(C2) <= peak * Capacity[res]
        BY <3>2, <3>10, <3>11, <3>12, <3>13
      <3>15. QED BY <1>1, <3>14 DEF M2, C2
    <2>4. CASE b \notin MaySit(res, t)'
      <3>1. MaySit(res, t)' \subseteq MaySit(res, t) /\ \A c \in MaySit(res, t)' : booking'[c].party = booking[c].party
        <4>1. MaySit(res, t)' \subseteq Bookings
          BY DEF MaySit
        <4>2. QED BY <1>1, <2>2, <2>4, <4>1
      <3>2. QED BY <1>1, <1>2, <2>1, <3>1, SeatShrinks
    <2>5. QED BY <2>3, <2>4
  <1>6. QED BY <1>5 DEF SeatInv

\* A promotion into a window takes the seats its request had already counted.
LEMMA SeatUpdate ==
    ASSUME Base, SeatInv, NEW r \in Requests, TransitionUpdate(r)
    PROVE  SeatInv'
  <1>1. /\ Base' /\ UNCHANGED peak /\ Only(r) /\ req[r].pc = "update" /\ req[r].id \in Bookings /\ req'[r] = Idle
        /\ booking'[req[r].id].status = req[r].target
        /\ \A c \in Bookings : /\ booking'[c].resource = booking[c].resource
                               /\ booking'[c].party = booking[c].party
                               /\ booking'[c].start = booking[c].start
                               /\ booking'[c].end = booking[c].end
                               /\ c # req[r].id => booking'[c] = booking[c]
    BY TransitionUpdateFacts
  <1>2. req'[r].pc = "idle" /\ peak \in Nat
    BY <1>1 DEF Idle, Base, Shape
  <1>3. Targeted({"update"}, Seated)' \subseteq Targeted({"update"}, Seated)
    BY <1>1, <1>2 DEF Targeted, Only
  <1>4. req[r].target \in Seated => req[r].id \in Targeted({"update"}, Seated)
    BY <1>1 DEF Targeted
  <1>5. ASSUME NEW res \in Resources, NEW t \in Nat
        PROVE  Cardinality(Box(MaySit(res, t)', BookedParty')) + Cardinality(Box(Fitted(res, t)', AskedParty'))
                   <= peak' * Capacity[res]
    <2>1. Fitted(res, t)' \subseteq Fitted(res, t) /\ \A q \in Fitted(res, t)' : req'[q].new.party = req[q].new.party
      BY <1>1, <1>2 DEF Fitted, Only
    <2>2. MaySit(res, t)' \subseteq Bookings
      BY DEF MaySit
    <2>3. MaySit(res, t)' \subseteq MaySit(res, t)
      BY <1>1, <1>3, <1>4 DEF MaySit, Covers
    <2>4. QED BY <1>1, <1>2, <2>1, <2>2, <2>3, SeatShrinks
  <1>6. QED BY <1>5 DEF SeatInv

-----------------------------------------------------------------------------
(* Requests that do not overlap.                                           *)

\* While no two requests ever ran together, the one that takes a step is alone.
LEMMA ActsAlone ==
    ASSUME Base, Base', peak' >= peak, peak' <= 1, NEW q \in Requests, Only(q),
           req[q].pc # "idle" \/ req'[q].pc # "idle", NEW r \in Requests, r # q
    PROVE  req'[r].pc = "idle"
  <1>1. SUFFICES ASSUME req'[r].pc # "idle" PROVE FALSE
    OBVIOUS
  <1>2. req[r].pc # "idle"
    BY <1>1 DEF Only
  <1>3. peak \in Nat /\ peak' \in Nat
    BY DEF Base, Shape
  <1>4. IsFiniteSet({q, r}) /\ Cardinality({q, r}) = 2
    <2>1. IsFiniteSet({q}) /\ Cardinality({q}) = 1
      BY FS_Singleton
    <2>2. IsFiniteSet({q} \cup {r}) /\ Cardinality({q} \cup {r}) = Cardinality({q}) + 1
      BY <2>1, FS_AddElement
    <2>3. {q, r} = {q} \cup {r}
      OBVIOUS
    <2>4. QED BY <2>1, <2>2, <2>3
  <1>5. InFlight \subseteq Requests /\ InFlight' \subseteq Requests
    BY DEF InFlight
  <1>6. IsFiniteSet(InFlight) /\ IsFiniteSet(InFlight')
    BY <1>5, FS_Subset, BookingAssumption
  <1>7. Cardinality(InFlight) \in Nat /\ Cardinality(InFlight') \in Nat
    BY <1>6, FS_CardinalityType
  <1>8. CASE req[q].pc # "idle"
    <2>1. {q, r} \subseteq InFlight
      BY <1>2, <1>8 DEF InFlight
    <2>2. 2 <= Cardinality(InFlight)
      BY <1>4, <1>6, <2>1, FS_Subset
    <2>3. QED BY <1>3, <1>7, <2>2 DEF Base, PeakInv
  <1>9. CASE req'[q].pc # "idle"
    <2>1. {q, r} \subseteq InFlight'
      BY <1>1, <1>9 DEF InFlight
    <2>2. 2 <= Cardinality(InFlight')
      BY <1>4, <1>6, <2>1, FS_Subset
    <2>3. QED BY <1>3, <1>7, <2>2 DEF Base, PeakInv
  <1>10. QED BY <1>8, <1>9

\* A step of a request that does not leave it in a transition.
LEMMA AloneOther ==
    ASSUME Base, Base', peak' >= peak, NEW q \in Requests, Only(q),
           req[q].pc # "idle" \/ req'[q].pc # "idle", req'[q].pc \notin Moving
    PROVE  AloneInv'
  <1>1. ASSUME peak' <= 1, NEW r \in Requests
        PROVE  req'[r].pc \notin Moving
    <2>1. CASE r = q
      BY <2>1
    <2>2. CASE r # q
      <3>1. req'[r].pc = "idle"
        BY <1>1, <2>2, ActsAlone
      <3>2. QED BY <3>1 DEF Moving
    <2>3. QED BY <2>1, <2>2
  <1>2. QED BY <1>1 DEF AloneInv

\* A transition alone has just read the row it updates.
LEMMA AloneStart ==
    ASSUME Base, NEW r \in Requests, NEW u \in Users, NEW b \in Bookings, NEW t \in Status,
           TransitionStart(r, u, b, t)
    PROVE  AloneInv'
  <1>1. /\ Base' /\ peak' >= peak /\ UNCHANGED booking /\ Only(r)
        /\ req[r] = Idle /\ req'[r].pc \in Moving /\ req'[r].id = b /\ req'[r].target = t
        /\ CanTransition(booking[b].status, t)
        /\ req'[r].pc = "update" => ~(booking[b].status = "waitlisted" /\ t = "pending_confirmation")
    BY TransitionStartFacts
  <1>2. booking[b].status = "waitlisted" /\ t \in Seated => t = "pending_confirmation"
    BY <1>1 DEF CanTransition, Allowed, Seated, Status
  <1>3. req'[r].pc # "idle"
    BY <1>1 DEF Moving
  <1>4. ASSUME peak' <= 1, NEW q \in Requests, req'[q].pc \in Moving
        PROVE  /\ CanTransition(booking'[req'[q].id].status, req'[q].target)
               /\ ~(booking'[req'[q].id].status = "waitlisted" /\ req'[q].target \in Seated /\ req'[q].pc = "update")
    <2>1. q = r
      <3>1. SUFFICES ASSUME q # r PROVE FALSE
        OBVIOUS
      <3>2. req'[q].pc = "idle"
        BY <1>1, <1>3, <1>4, <3>1, ActsAlone
      <3>3. QED BY <1>4, <3>2 DEF Moving
    <2>2. QED BY <1>1, <1>2, <2>1
  <1>5. QED BY <1>4 DEF AloneInv, CanTransition, Allowed

\* A promotion alone finds its window as free as it will be at the UPDATE.
LEMMA AloneBusy ==
    ASSUME Base, AloneInv, NEW r \in Requests, TransitionBusy(r)
    PROVE  AloneInv'
  <1> DEFINE b == req[r].id
             row == booking[b]
  <1>1. /\ Base' /\ UNCHANGED <<booking, peak>> /\ Only(r) /\ req[r].pc = "busy" /\ b \in Bookings
        /\ \/ req'[r] = Idle
           \/ /\ req'[r].pc = "update" /\ req'[r].id = b /\ req'[r].target = req[r].target
              /\ SeatedIn(row.resource, row.start, row.end) \subseteq {b}
    BY TransitionBusyFacts
  <1>2. peak \in Nat /\ Idle.pc = "idle"
    BY DEF Base, Shape, Idle
  <1>3. CASE req'[r] = Idle
    BY <1>1, <1>2, <1>3, AloneOther DEF Moving
  <1>4. CASE /\ req'[r].pc = "update" /\ req'[r].id = b /\ req'[r].target = req[r].target
             /\ SeatedIn(row.resource, row.start, row.end) \subseteq {b}
    <2>1. ASSUME peak' <= 1, NEW q \in Requests, req'[q].pc \in Moving
          PROVE  q = r
      <3>1. SUFFICES ASSUME q # r PROVE FALSE
        OBVIOUS
      <3>2. req'[q].pc = "idle"
        BY <1>1, <1>2, <2>1, <3>1, ActsAlone
      <3>3. QED BY <2>1, <3>2 DEF Moving
    <2>2. ASSUME peak' <= 1
          PROVE  CanTransition(row.status, req[r].target)
      BY <1>1, <2>2 DEF AloneInv, Moving
    <2>3. ASSUME row.status = "waitlisted", NEW c \in Bookings
          PROVE  ~(booking[c].status \in Seated /\ booking[c].resource = row.resource
                   /\ Overlaps(booking[c], row.start, row.end))
      <3>1. b \notin SeatedIn(row.resource, row.start, row.end)
        BY <2>3 DEF SeatedIn, Seated
      <3>2. c \notin SeatedIn(row.resource, row.start, row.end)
        BY <1>4, <3>1
      <3>3. QED BY <3>2 DEF SeatedIn
    <2>4. ASSUME peak' <= 1, NEW q \in Requests, req'[q].pc \in Moving
          PROVE  /\ CanTransition(booking'[req'[q].id].status, req'[q].target)
                 /\ booking'[req'[q].id].status = "waitlisted" =>
                        \A c \in Bookings :
                            ~(booking'[c].status \in Seated /\ booking'[c].resource = booking'[req'[q].id].resource
                              /\ Overlaps(booking'[c], booking'[req'[q].id].start, booking'[req'[q].id].end))
      <3>1. q = r
        BY <2>1, <2>4
      <3>2. booking'[req'[q].id] = row /\ req'[q].target = req[r].target /\ booking' = booking
        BY <1>1, <1>4, <3>1
      <3>3. QED BY <2>2, <2>3, <2>4, <3>2
    <2>5. QED BY <2>4 DEF AloneInv, CanTransition, Allowed, SeatedIn, Overlaps
  <1>5. QED BY <1>1, <1>3, <1>4

-----------------------------------------------------------------------------
(* The inductive invariant.                                                *)

\* No booking is stored and no request runs.
LEMMA Initially == Init => IInv
  <1> SUFFICES ASSUME Init PROVE IInv
    OBVIOUS
  <1>1. \A b \in Bookings : booking[b] = NoBooking /\ booking[b].status = "absent" /\ booking[b].user = None
                            /\ booking[b].resource = None
    BY DEF Init, NoBooking
  <1>2. \A r \in Requests : req[r] = Idle /\ req[r].pc = "idle"
    BY DEF Init, Idle
  <1>3. Shape
    <2>1. Cardinality(Requests) \in Nat
      BY FS_CardinalityType, BookingAssumption
    <2>2. QED BY <2>1, BookingAssumption DEF Init, Shape
  <1>4. RowInv
    BY <1>1, <1>2 DEF RowInv, Creating, Moving, Status
  <1>5. InFlight = {} /\ peak = 0
    BY <1>2 DEF InFlight, Init
  <1>6. PeakInv
    BY <1>5, FS_EmptySet DEF PeakInv
  <1>7. ASSUME NEW pcs \in SUBSET Moving, NEW T
        PROVE  Targeted(pcs, T) = {}
    BY <1>2 DEF Targeted, Moving
  <1>8. Targeted(Moving, Active) = {} /\ Targeted(Moving, Kept) = {} /\ Targeted({"update"}, Seated) = {}
    BY <1>7 DEF Moving
  <1>9. DayInv
    <2>1. ASSUME NEW u \in Users, NEW d \in Nat
          PROVE  MayBeActive(u, d) = {} /\ Counted(u, d) = {}
      BY <1>1, <1>2, <1>8 DEF MayBeActive, Counted, Active, Seated
    <2>2. Cardinality({}) = 0
      BY FS_EmptySet
    <2>3. QED BY <1>5, <2>1, <2>2, BookingAssumption DEF DayInv
  <1>10. CoverInv
    <2>1. ASSUME NEW u \in Users, NEW t \in Nat
          PROVE  MayCover(u, t) = {} /\ Overlapped(u, t) = {}
      BY <1>1, <1>2, <1>8 DEF MayCover, Overlapped, Kept, Status
    <2>2. Cardinality({}) = 0
      BY FS_EmptySet
    <2>3. QED BY <1>5, <2>1, <2>2 DEF CoverInv
  <1>11. SeatInv
    <2>1. ASSUME NEW res \in Resources, NEW t \in Nat
          PROVE  MaySit(res, t) = {} /\ Fitted(res, t) = {}
      BY <1>1, <1>2, <1>8 DEF MaySit, Fitted, Seated
    <2>2. \A f : Box({}, f) = {}
      BY DEF Box
    <2>3. Cardinality({}) = 0
      BY FS_EmptySet
    <2>4. \A res \in Resources : 0 * Capacity[res] = 0
      BY BookingAssumption
    <2>5. ASSUME NEW res \in Resources, NEW t \in Nat
          PROVE  Cardinality(Box(MaySit(res, t), BookedParty)) + Cardinality(Box(Fitted(res, t), AskedParty))
                     <= peak * Capacity[res]
      <3>1. Box(MaySit(res, t), BookedParty) = {} /\ Box(Fitted(res, t), AskedParty) = {}
        BY <2>1, <2>2
      <3>2. QED BY <1>5, <2>3, <2>4, <3>1
    <2>6. QED BY <2>5 DEF SeatInv
  <1>12. AloneInv
    BY <1>2 DEF AloneInv, Moving
  <1>13. QED BY <1>3, <1>4, <1>6, <1>9, <1>10, <1>11, <1>12 DEF IInv

\* A step that changes no table and no request.
LEMMA Unmoved ==
    ASSUME IInv, UNCHANGED <<booking, req, peak>>, now' \in 0 .. MaxTime
    PROVE  IInv'
  <1>1. Base'
    BY DEF IInv, Base, Shape, RowInv, PeakInv, InFlight
  <1>2. \A u \in Users, d \in Nat : MayBeActive(u, d)' = MayBeActive(u, d) /\ Counted(u, d)' = Counted(u, d)
    BY DEF MayBeActive, Counted, Targeted
  <1>3. DayInv'
    BY <1>2 DEF IInv, DayInv
  <1>4. \A u \in Users, t \in Nat : MayCover(u, t)' = MayCover(u, t) /\ Overlapped(u, t)' = Overlapped(u, t)
    BY DEF MayCover, Overlapped, Targeted
  <1>5. CoverInv'
    BY <1>4 DEF IInv, CoverInv
  <1>6. \A res \in Resources, t \in Nat : MaySit(res, t)' = MaySit(res, t) /\ Fitted(res, t)' = Fitted(res, t)
    BY DEF MaySit, Fitted, Targeted
  <1>7. BookedParty' = BookedParty /\ AskedParty' = AskedParty
    BY DEF BookedParty, AskedParty
  <1>8. SeatInv'
    BY <1>6, <1>7 DEF IInv, SeatInv
  <1>9. AloneInv'
    BY DEF IInv, AloneInv, CanTransition, Allowed, SeatedIn, Overlaps
  <1>10. QED BY <1>1, <1>3, <1>5, <1>8, <1>9 DEF IInv, Base

\* One step per action, and under it one per part of the invariant it can disturb.
LEMMA Preserved ==
    ASSUME IInv, [Next]_vars
    PROVE  IInv'
  <1>1. Base /\ DayInv /\ CoverInv /\ SeatInv /\ AloneInv /\ peak \in Nat /\ Idle.pc = "idle"
    BY DEF IInv, Base, Shape, Idle
  <1> DEFINE Goal == Base' /\ DayInv' /\ CoverInv' /\ SeatInv' /\ AloneInv'
  <1>2. SUFFICES Goal
    BY DEF IInv, Base
  <1>3. ASSUME UNCHANGED <<booking, req, peak>>, now' \in 0 .. MaxTime
        PROVE  Goal
    BY <1>3, Unmoved DEF IInv, Base
  <1>4. CASE UNCHANGED vars
    BY <1>1, <1>3, <1>4 DEF vars, Base, Shape
  <1>5. CASE Tick
    <2>1. now' \in 0 .. MaxTime
      BY <1>1, <1>5, BookingAssumption DEF Tick, Base, Shape
    <2>2. QED BY <1>3, <1>5, <2>1 DEF Tick
  <1>6. ASSUME NEW r \in Requests, UNCHANGED <<booking, peak>>, Only(r), Base', req'[r] = Idle, req[r].pc # "idle"
        PROVE  Goal
    <2>1. req'[r].pc = "idle" /\ peak' >= peak
      BY <1>1, <1>6
    <2>2. DayInv' /\ CoverInv'
      BY <1>1, <1>6, <2>1, DayQuiet, CoverQuiet DEF Moving
    <2>3. SeatInv'
      BY <1>1, <1>6, <2>1, SeatQuiet
    <2>4. AloneInv'
      BY <1>1, <1>6, <2>1, AloneOther DEF Moving
    <2>5. QED BY <1>6, <2>2, <2>3, <2>4
  <1>7. ASSUME NEW r \in Requests, NEW u \in Users, NEW res \in Resources, NEW w \in Windows, NEW p \in Parties,
               CreateStart(r, u, res, w, p)
        PROVE  Goal
    <2>1. Base' /\ peak' >= peak /\ UNCHANGED booking /\ Only(r) /\ req'[r].pc = "count"
      BY <1>1, <1>7, CreateStartFacts
    <2>2. DayInv' /\ CoverInv'
      BY <1>1, <2>1, DayQuiet, CoverQuiet DEF Moving
    <2>3. SeatInv'
      BY <1>1, <2>1, SeatQuiet
    <2>4. AloneInv'
      BY <1>1, <2>1, AloneOther DEF Moving
    <2>5. QED BY <2>1, <2>2, <2>3, <2>4
  <1>8. ASSUME NEW r \in Requests, CreateCount(r)
        PROVE  Goal
    <2>1. Base' /\ DayInv'
      BY <1>1, <1>8, DayCount
    <2>2. req[r].pc = "count" /\ req[r].pc # "idle" /\ req[r].pc \in Creating /\ "overlap" \in Creating
      BY <1>8 DEF CreateCount, Creating
    <2>3. Goto(r, Idle) \/ Goto(r, [req[r] EXCEPT !.pc = "overlap"])
      BY <1>8 DEF CreateCount
    <2>4. CASE Goto(r, Idle)
      BY <1>1, <1>6, <2>2, <2>4, EndFacts
    <2>5. CASE Goto(r, [req[r] EXCEPT !.pc = "overlap"])
      <3>1. UNCHANGED <<booking, peak>> /\ Only(r) /\ req'[r].pc = "overlap"
        BY <1>1, <2>2, <2>5, AdvanceFacts
      <3>2. peak' >= peak
        BY <1>1, <3>1
      <3>3. CoverInv'
        BY <1>1, <2>1, <3>1, <3>2, CoverQuiet DEF Moving
      <3>4. SeatInv'
        BY <1>1, <2>1, <3>1, <3>2, SeatQuiet
      <3>5. AloneInv'
        BY <1>1, <2>1, <2>2, <3>1, <3>2, AloneOther DEF Moving
      <3>6. QED BY <2>1, <3>3, <3>4, <3>5
    <2>6. QED BY <2>3, <2>4, <2>5
  <1>9. ASSUME NEW r \in Requests, CreateOverlap(r)
        PROVE  Goal
    <2>1. Base' /\ CoverInv'
      BY <1>1, <1>9, CoverOverlap
    <2>2. req[r].pc = "overlap" /\ req[r].pc # "idle" /\ req[r].pc \in Creating /\ "sum" \in Creating
      BY <1>9 DEF CreateOverlap, Creating
    <2>3. Goto(r, Idle) \/ Goto(r, [req[r] EXCEPT !.pc = "sum"])
      BY <1>9 DEF CreateOverlap
    <2>4. CASE Goto(r, Idle)
      BY <1>1, <1>6, <2>2, <2>4, EndFacts
    <2>5. CASE Goto(r, [req[r] EXCEPT !.pc = "sum"])
      <3>1. UNCHANGED <<booking, peak>> /\ Only(r) /\ req'[r].pc = "sum" /\ req'[r].new = req[r].new
        BY <1>1, <2>2, <2>5, AdvanceFacts
      <3>2. peak' >= peak
        BY <1>1, <3>1
      <3>3. DayInv'
        BY <1>1, <2>1, <2>2, <3>1, <3>2, DayQuiet DEF Moving
      <3>4. SeatInv'
        BY <1>1, <2>1, <3>1, <3>2, SeatQuiet
      <3>5. AloneInv'
        BY <1>1, <2>1, <2>2, <3>1, <3>2, AloneOther DEF Moving
      <3>6. QED BY <2>1, <3>3, <3>4, <3>5
    <2>6. QED BY <2>3, <2>4, <2>5
  <1>10. ASSUME NEW r \in Requests, CreateSum(r)
         PROVE  Goal
    <2>1. /\ Base' /\ UNCHANGED <<booking, peak>> /\ Only(r) /\ req[r].pc = "sum" /\ req'[r].pc = "insert"
          /\ req'[r].new.user = req[r].new.user
          /\ req'[r].new.start = req[r].new.start /\ req'[r].new.end = req[r].new.end
      BY <1>1, <1>10, CreateSumFacts
    <2>2. peak' >= peak
      BY <1>1, <2>1
    <2>3. DayInv' /\ CoverInv'
      BY <1>1, <2>1, <2>2, DayQuiet, CoverQuiet DEF Moving
    <2>4. SeatInv'
      BY <1>1, <1>10, SeatSum
    <2>5. AloneInv'
      BY <1>1, <2>1, <2>2, AloneOther DEF Moving
    <2>6. QED BY <2>1, <2>3, <2>4, <2>5
  <1>11. ASSUME NEW r \in Requests, NEW b \in Bookings, CreateInsert(r, b)
         PROVE  Goal
    <2>1. Base' /\ UNCHANGED peak /\ Only(r) /\ req[r].pc = "insert" /\ req'[r] = Idle
      BY <1>1, <1>11, CreateInsertFacts
    <2>2. peak' >= peak
      BY <1>1, <2>1
    <2>3. DayInv' /\ CoverInv' /\ SeatInv'
      BY <1>1, <1>11, DayInsert, CoverInsert, SeatInsert
    <2>4. AloneInv'
      BY <1>1, <2>1, <2>2, AloneOther DEF Moving
    <2>5. QED BY <2>1, <2>3, <2>4
  <1>12. ASSUME NEW r \in Requests, NEW u \in Users, NEW b \in Bookings, NEW t \in Status,
                TransitionStart(r, u, b, t)
         PROVE  Goal
    <2>1. /\ Base' /\ peak' >= peak /\ UNCHANGED booking /\ Only(r) /\ req'[r].pc \in Moving
          /\ req'[r].id = b /\ req'[r].target = t /\ booking[b].status \in Active
          /\ CanTransition(booking[b].status, t)
          /\ req'[r].pc = "update" => ~(booking[b].status = "waitlisted" /\ t = "pending_confirmation")
      BY <1>1, <1>12, TransitionStartFacts
    <2>2. booking[b].status \in Kept
      BY <2>1 DEF Active, Seated, Kept, Status
    <2>3. req'[r].pc = "update" /\ t \in Seated => booking[b].status \in Seated
      BY <2>1 DEF CanTransition, Allowed, Seated, Status
    <2>4. DayInv' /\ CoverInv'
      BY <1>1, <2>1, <2>2, DayQuiet, CoverQuiet DEF Moving
    <2>5. req'[r].pc # "insert"
      BY <2>1 DEF Moving
    <2>6. SeatInv'
      BY <1>1, <2>1, <2>3, <2>5, SeatQuiet
    <2>7. AloneInv'
      BY <1>1, <1>12, AloneStart
    <2>8. QED BY <2>1, <2>4, <2>6, <2>7
  <1>13. ASSUME NEW r \in Requests, TransitionBusy(r)
         PROVE  Goal
    <2>1. /\ Base' /\ UNCHANGED <<booking, peak>> /\ Only(r) /\ req[r].pc = "busy"
          /\ \/ req'[r] = Idle
             \/ req'[r].pc = "update" /\ req'[r].id = req[r].id /\ req'[r].target = req[r].target
      BY <1>1, <1>13, TransitionBusyFacts
    <2>2. peak' >= peak
      BY <1>1, <2>1
    <2>3. DayInv' /\ CoverInv'
      BY <1>1, <2>1, <2>2, DayQuiet, CoverQuiet DEF Moving
    <2>4. SeatInv' /\ AloneInv'
      BY <1>1, <1>13, SeatBusy, AloneBusy
    <2>5. QED BY <2>1, <2>3, <2>4
  <1>14. ASSUME NEW r \in Requests, TransitionUpdate(r)
         PROVE  Goal
    <2>1. Base' /\ UNCHANGED peak /\ Only(r) /\ req[r].pc = "update" /\ req'[r] = Idle
      BY <1>1, <1>14, TransitionUpdateFacts
    <2>2. peak' >= peak
      BY <1>1, <2>1
    <2>3. DayInv' /\ CoverInv' /\ SeatInv'
      BY <1>1, <1>14, DayUpdate, CoverUpdate, SeatUpdate
    <2>4. AloneInv'
      BY <1>1, <2>1, <2>2, AloneOther DEF Moving
    <2>5. QED BY <2>1, <2>3, <2>4
  <1>15. ASSUME NEW r \in Requests, Abort(r)
         PROVE  Goal
    BY <1>1, <1>6, <1>15, EndFacts DEF Abort
  <1> HIDE DEF Goal
  <1>16. QED
    BY <1>4, <1>5, <1>7, <1>8, <1>9, <1>10, <1>11, <1>12, <1>13, <1>14, <1>15 DEF Next

\* The inductive invariant holds of BookingService: however its requests interleave,
\* what counts against a rule and what is in flight towards it stay within the bound.
THEOREM Inductive == Spec => []IInv
  <1>1. IInv /\ [Next]_vars => IInv'
    BY Preserved
  <1>2. QED BY <1>1, Initially, PTL DEF Spec

-----------------------------------------------------------------------------
(* The properties.                                                         *)

\* Every row that CreateBooking inserts and UpdateStatus changes satisfies the
\* constraints of the bookings table, and every request holds what its step needs.
THEOREM TypeCorrect == Spec => []TypeOK
  <1>1. ASSUME IInv
        PROVE  TypeOK
    <2>1. Shape
      BY <1>1 DEF IInv
    <2>2. \A b \in Bookings : booking[b] = NoBooking \/ booking[b] \in Row
      BY <2>1 DEF Shape
    <2>3. ASSUME NEW r \in Requests
          PROVE  \/ req[r] = Idle
                 \/ req[r].pc \in Creating /\ req[r].new \in Row /\ req[r].id = None
                 \/ (req[r].pc \in Moving /\ req[r].new = NoBooking /\ req[r].id \in Bookings
                     /\ req[r].target \in Status)
      BY <2>1 DEF Shape
    <2>4. now \in 0 .. MaxTime /\ peak \in 0 .. Cardinality(Requests)
      BY <2>1, FS_CardinalityType, BookingAssumption DEF Shape
    <2>5. QED BY <2>2, <2>3, <2>4 DEF TypeOK
  <1>2. QED BY <1>1, Inductive, PTL

\* CountActiveByUserOnDate followed by the INSERT lets n requests that overlap exceed
\* the daily cap by at most n - 1, and a request alone not at all.
THEOREM WithinDailyCap == Spec => []DailyCap
  <1>1. ASSUME IInv
        PROVE  DailyCap
    <2>1. Shape /\ DayInv /\ peak \in Nat /\ MaxActivePerDay \in Nat
      BY <1>1, BookingAssumption DEF IInv, Shape
    <2>2. ASSUME NEW b \in Bookings, booking[b].status \in Status
          PROVE  Cardinality(ActiveOn(booking[b].user, Day(booking[b].start))) <= MaxActivePerDay + peak - 1
      <3> DEFINE u == booking[b].user
                 d == Day(booking[b].start)
                 A == ActiveOn(u, d)
                 M == MayBeActive(u, d)
                 C == Counted(u, d)
      <3>1. booking[b] \in Row
        BY <2>1, <2>2, BookingFields
      <3>2. u \in Users /\ booking[b].start \in Nat
        BY <3>1, RowFields
      <3>3. d \in Nat
        BY <3>2, BookingAssumption DEF Day
      <3> HIDE DEF u, d
      <3>4. Cardinality(M) + Cardinality(C) <= MaxActivePerDay + peak - 1
        BY <2>1, <3>2, <3>3 DEF DayInv
      <3>5. A \subseteq M /\ M \subseteq Bookings /\ C \subseteq Requests
        BY DEF ActiveOn, MayBeActive, Counted
      <3> HIDE DEF A, M, C
      <3>6. IsFiniteSet(M) /\ IsFiniteSet(C) /\ IsFiniteSet(A) /\ Cardinality(A) <= Cardinality(M)
        <4>1. IsFiniteSet(M) /\ IsFiniteSet(C)
          BY <3>5, FS_Subset, BookingAssumption
        <4>2. QED BY <3>5, <4>1, FS_Subset
      <3>7. Cardinality(A) \in Nat /\ Cardinality(M) \in Nat /\ Cardinality(C) \in Nat
        BY <3>6, FS_CardinalityType
      <3>8. Cardinality(A) <= MaxActivePerDay + peak - 1
        BY <2>1, <3>4, <3>6, <3>7
      <3>9. QED BY <3>8 DEF A, u, d
    <2>3. QED BY <2>2 DEF DailyCap
  <1>2. QED BY <1>1, Inductive, PTL

\* UserHasOverlap followed by the INSERT puts a user into at most as many bookings at
\* a time as requests ever ran together: no double booking by one request at a time.
THEOREM WithoutDoubleBooking == Spec => []NoDoubleBooking
  <1>1. ASSUME IInv
        PROVE  NoDoubleBooking
    <2>1. Shape /\ CoverInv /\ peak \in Nat
      BY <1>1 DEF IInv, Shape
    <2>2. ASSUME NEW b \in Bookings, booking[b].status \in Status
          PROVE  Cardinality(UsersAt(booking[b].user, booking[b].start)) <= peak
      <3> DEFINE u == booking[b].user
                 t == booking[b].start
                 A == UsersAt(u, t)
                 M == MayCover(u, t)
                 C == Overlapped(u, t)
      <3>1. booking[b] \in Row
        BY <2>1, <2>2, BookingFields
      <3>2. u \in Users /\ t \in Nat
        BY <3>1, RowFields
      <3> HIDE DEF u, t
      <3>3. Cardinality(M) + Cardinality(C) <= peak
        BY <2>1, <3>2 DEF CoverInv
      <3>4. A \subseteq M /\ M \subseteq Bookings /\ C \subseteq Requests
        BY DEF UsersAt, MayCover, Overlapped, Kept, Covers
      <3> HIDE DEF A, M, C
      <3>5. IsFiniteSet(M) /\ IsFiniteSet(C) /\ IsFiniteSet(A) /\ Cardinality(A) <= Cardinality(M)
        <4>1. IsFiniteSet(M) /\ IsFiniteSet(C)
          BY <3>4, FS_Subset, BookingAssumption
        <4>2. QED BY <3>4, <4>1, FS_Subset
      <3>6. Cardinality(A) \in Nat /\ Cardinality(M) \in Nat /\ Cardinality(C) \in Nat
        BY <3>5, FS_CardinalityType
      <3>7. Cardinality(A) <= peak
        BY <2>1, <3>3, <3>5, <3>6
      <3>8. QED BY <3>7 DEF A, u, t
    <2>3. QED BY <2>2 DEF NoDoubleBooking
  <1>2. QED BY <1>1, Inductive, PTL

\* SumActivePartySizesInWindow followed by the INSERT, and ResourceHasOverlap followed
\* by the UPDATE, seat at most n times the capacity of a resource when n requests
\* overlap, and no more than the capacity when they do not.
THEOREM WithinCapacity == Spec => []SlotCapacity
  <1>1. ASSUME IInv
        PROVE  SlotCapacity
    <2>1. Base /\ Shape /\ SeatInv /\ peak \in Nat
      BY <1>1 DEF IInv, Base, Shape
    <2>2. ASSUME NEW res \in Resources, NEW b \in Bookings, booking[b].status \in Status
          PROVE  Cardinality(SeatsOf(SeatedIn(res, booking[b].start, booking[b].start + 1)))
                     <= peak * Capacity[res]
      <3> DEFINE t == booking[b].start
                 D == SeatedIn(res, t, t + 1)
                 S == Box(D, BookedParty)
                 M == Box(MaySit(res, t), BookedParty)
                 C == Box(Fitted(res, t), AskedParty)
      <3>1. booking[b] \in Row
        BY <2>1, <2>2, BookingFields
      <3>2. t \in Nat
        BY <3>1, RowFields
      <3> HIDE DEF t
      <3>3. D \subseteq MaySit(res, t)
        <4>1. ASSUME NEW c \in D
              PROVE  c \in MaySit(res, t)
          <5>1. c \in Bookings /\ booking[c].status \in Seated /\ booking[c].resource = res
                  /\ Overlaps(booking[c], t, t + 1)
            BY DEF SeatedIn
          <5>2. booking[c] \in Row
            BY <2>1, <5>1, BookingFields DEF Seated, Status
          <5>3. booking[c].start \in Nat /\ booking[c].end \in Nat
            BY <5>2, RowFields
          <5>4. Covers(booking[c], t)
            BY <3>2, <5>1, <5>3 DEF Covers, Overlaps
          <5>5. QED BY <5>1, <5>4 DEF MaySit
        <4>2. QED BY <4>1
      <3>4. SeatsOf(D) = S
        <4>1. \A c \in D : BookedParty[c] = booking[c].party
          BY DEF SeatedIn, BookedParty
        <4>2. QED BY <4>1 DEF SeatsOf, Box
      <3>5. S \subseteq M
        BY <3>3, BoxSubset
      <3>6. IsFiniteSet(M) /\ IsFiniteSet(C) /\ Cardinality(M) \in Nat /\ Cardinality(C) \in Nat
        BY <2>1, <3>2, SeatFacts, BoxBound
      <3>7. Cardinality(M) + Cardinality(C) <= peak * Capacity[res]
        BY <2>1, <3>2 DEF SeatInv
      <3> HIDE DEF S, M, C
      <3>8. Cardinality(S) <= Cardinality(M) /\ Cardinality(S) \in Nat
        BY <3>5, <3>6, FS_Subset, FS_CardinalityType
      <3>9. peak * Capacity[res] \in Nat
        BY <2>1, BookingAssumption
      <3>10. Cardinality(S) <= peak * Capacity[res]
        BY <3>6, <3>7, <3>8, <3>9
      <3>11. QED BY <3>4, <3>10 DEF t
    <2>3. QED BY <2>2 DEF SlotCapacity
  <1>2. QED BY <1>1, Inductive, PTL

\* UpdateStatus, which writes its target whatever the row has become, follows the
\* state machine of state.go and the promotion rule while requests do not overlap.
THEOREM MovesLegally == Spec => LegalMoves
  <1>1. ASSUME IInv, [Next]_vars, peak' <= 1, NEW b \in Bookings,
               booking[b].status \in Status, booking'[b].status # booking[b].status
        PROVE  /\ booking[b].status \in Active
               /\ booking'[b].status = "checked_in" => booking[b].status = "pending_confirmation"
               /\ booking[b].status = "waitlisted" /\ booking'[b].status \in Seated =>
                      SeatedIn(booking[b].resource, booking[b].start, booking[b].end) = {}
    <2> DEFINE Goal == /\ booking[b].status \in Active
                       /\ booking'[b].status = "checked_in" => booking[b].status = "pending_confirmation"
                       /\ booking[b].status = "waitlisted" /\ booking'[b].status \in Seated =>
                              SeatedIn(booking[b].resource, booking[b].start, booking[b].end) = {}
    <2>1. Base /\ AloneInv
      BY <1>1 DEF IInv, Base
    <2>2. booking' # booking
      BY <1>1
    <2>3. ASSUME NEW r \in Requests, TransitionUpdate(r)
          PROVE  Goal
      <3>1. /\ UNCHANGED peak /\ req[r].pc = "update" /\ booking'[req[r].id].status = req[r].target
            /\ \A c \in Bookings : c # req[r].id => booking'[c] = booking[c]
        BY <2>1, <2>3, TransitionUpdateFacts
      <3>2. b = req[r].id /\ booking'[b].status = req[r].target
        BY <1>1, <3>1
      <3>3. CanTransition(booking[b].status, booking'[b].status)
        BY <1>1, <2>1, <3>1, <3>2 DEF AloneInv, Moving
      <3>4. booking[b].status \in Active
              /\ (booking'[b].status = "checked_in" => booking[b].status = "pending_confirmation")
        BY <3>3 DEF CanTransition, Allowed, Status, Active, Seated
      <3>5. booking[b].status = "waitlisted" /\ booking'[b].status \in Seated =>
                SeatedIn(booking[b].resource, booking[b].start, booking[b].end) = {}
        BY <1>1, <2>1, <3>1, <3>2 DEF AloneInv, Moving
      <3>6. QED BY <3>4, <3>5
    <2>4. ASSUME NEW r \in Requests, NEW c \in Bookings, CreateInsert(r, c)
          PROVE  Goal
      <3>1. /\ booking[c] = NoBooking
            /\ \A a \in Bookings : a # c => booking'[a] = booking[a]
        BY <2>1, <2>4, CreateInsertFacts
      <3>2. booking[c].status \notin Status
        BY <3>1 DEF NoBooking, Status
      <3>3. QED BY <1>1, <3>1, <3>2
    <2>5. ASSUME NEW r \in Requests,
                 CreateCount(r) \/ CreateOverlap(r) \/ CreateSum(r) \/ TransitionBusy(r) \/ Abort(r)
          PROVE  FALSE
      <3>1. \E rec : Goto(r, rec)
        BY <2>5 DEF CreateCount, CreateOverlap, CreateSum, TransitionBusy, Abort
      <3>2. QED BY <2>2, <3>1 DEF Goto
    <2>6. ~Tick /\ ~UNCHANGED vars
      BY <2>2 DEF Tick, vars
    <2>7. ASSUME NEW r \in Requests, NEW u \in Users, NEW res \in Resources, NEW w \in Windows, NEW p \in Parties
          PROVE  ~CreateStart(r, u, res, w, p)
      BY <2>2 DEF CreateStart, Begin
    <2>8. ASSUME NEW r \in Requests, NEW u \in Users, NEW c \in Bookings, NEW t \in Status
          PROVE  ~TransitionStart(r, u, c, t)
      BY <2>2 DEF TransitionStart, Begin
    <2> HIDE DEF Goal
    <2>9. Goal
      BY <1>1, <2>3, <2>4, <2>5, <2>6, <2>7, <2>8 DEF Next
    <2>10. QED BY <2>9 DEF Goal
  <1>2. IInv /\ [Next]_vars =>
            [peak' <= 1 => \A b \in Bookings :
                booking[b].status \in Status /\ booking'[b].status # booking[b].status =>
                    /\ booking[b].status \in Active
                    /\ booking'[b].status = "checked_in" => booking[b].status = "pending_confirmation"
                    /\ booking[b].status = "waitlisted" /\ booking'[b].status \in Seated =>
                           SeatedIn(booking[b].resource, booking[b].start, booking[b].end) = {}]_vars
    BY <1>1
  <1>3. QED BY <1>2, Inductive, PTL DEF Spec, LegalMoves
=============================================================================
