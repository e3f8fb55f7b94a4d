------------------------------- MODULE MCAuth -------------------------------
(* Values of Auth's constants for TLC: two spellings of one name. *)
EXTENDS Auth, TLC

MCName == [a \in Accounts |-> "bob"]

\* Requests are interchangeable.
Symmetry == Permutations(Requests)
=============================================================================
