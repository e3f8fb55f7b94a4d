---------------------------- MODULE RevisionLog ----------------------------
(***************************************************************************)
(* What the document store promises: every document is a log of contents   *)
(* to which revisions are appended one at a time; a revision never changes *)
(* or disappears, and all of them but the last are superseded.             *)
(***************************************************************************)
EXTENDS Naturals, Sequences

CONSTANTS Docs, Contents

VARIABLES
    log,         \* the contents of each document, oldest first
    superseded   \* the numbers of its superseded revisions

Init ==
    /\ log = [d \in Docs |-> <<>>]
    /\ superseded = [d \in Docs |-> {}]

AppendRevision(d, c) ==
    /\ log' = [log EXCEPT ![d] = Append(@, c)]
    /\ superseded' = [superseded EXCEPT ![d] = 1..Len(log[d])]

Next == \E d \in Docs, c \in Contents : AppendRevision(d, c)

Spec == Init /\ [][Next]_<<log, superseded>>
=============================================================================
