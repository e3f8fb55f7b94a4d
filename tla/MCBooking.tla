----------------------------- MODULE MCBooking -----------------------------
(* Booking on a small instance.  A day is three ticks long; the windows    *)
(* start on days 0, 1 and 1, the first two overlap, the last two share a   *)
(* day without overlapping.                                                *)
EXTENDS Booking, TLC

MCWindows == {<<2, 4>>, <<3, 4>>, <<4, 5>>}

CONSTANT CapacityOfAll
MCCapacity == [res \in Resources |-> CapacityOfAll]

Symmetry == Permutations(Bookings) \cup Permutations(Requests) \cup Permutations(Users)
=============================================================================
