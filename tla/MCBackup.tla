------------------------------ MODULE MCBackup ------------------------------
(* Values of Backup's constants for TLC: one table with updated_at, and one *)
(* that every backup dumps in full.                                         *)
EXTENDS Backup, TLC
CONSTANTS u, c

MCTables == <<"users", "consent_records">>

MCTableOf == [r \in Rows |-> IF r = u THEN "users" ELSE "consent_records"]

\* Backup goroutines are interchangeable.
Symmetry == Permutations(Jobs)
=============================================================================
