----------------------------- MODULE Document -----------------------------
(***************************************************************************)
(* Generated documents: a confirmation or a check-in pass is found or      *)
(* created, and its new content appended as a revision in a transaction    *)
(* that locks the documents row.  A key stands for the owner, the related  *)
(* object and the document type; rendering is a choice of contents.        *)
(* Requests that generate and requests that read interleave.  Deleting an  *)
(* account takes its documents and their revisions with it; that cascade   *)
(* is not modelled: here a document, once created, stays.                  *)
(***************************************************************************)
EXTENDS Integers, Sequences, FiniteSets

CONSTANTS
    Keys,
    Docs,           \* ids of documents (a bound)
    Contents,
    Generators,     \* requests that generate a document
    Readers,        \* requests that read one
    MaxRevisions,   \* bound on generations
    MaxFaults,      \* bound on failed statements and crashes
    None

ASSUME DocumentAssumption ==
    /\ MaxRevisions \in Nat /\ MaxFaults \in Nat
    /\ None \notin Contents \cup Generators \cup Docs \cup Keys

VARIABLES
    doc,      \* documents
    rev,      \* document_revisions, by document and number
    lock,     \* the transaction that holds each documents row
    gen,      \* the requests that generate
    reader,   \* the requests that read
    begun,    \* history: generations so far
    faults    \* history: failed statements and crashes

vars == <<doc, rev, lock, gen, reader, begun, faults>>

Numbers == 1..MaxRevisions

NoDoc == [key |-> None, current |-> 0, born |-> 0, raced |-> FALSE]

\* "born" orders created_at; "raced" is history: another document of the key was
\* inserted after the generation that made this one had looked for it.
Doc == [key : Keys, current : 0..MaxRevisions, born : Nat, raced : BOOLEAN]

NoRev == [content |-> None, superseded |-> FALSE]

Rev == [content : Contents, superseded : BOOLEAN]

Idle == [pc |-> "idle"]

\* Between two statements; "raced" as above.
Gen == [pc : {"create"}, key : Keys, content : Contents, raced : BOOLEAN]
         \cup [pc : {"append"}, doc : Docs, content : Contents]
         \cup [pc : {"commit"}, doc : Docs, content : Contents, current : 0..MaxRevisions]

Exists(d) == doc[d] # NoDoc

HasRev(d, n) == rev[d][n] # NoRev

\* A list of revisions: one unsuperseded, the last, and no gap before it.
Chain(r) ==
    \A n \in Numbers : r[n] # NoRev =>
        /\ \A m \in 1..(n - 1) : r[m] # NoRev
        /\ r[n].superseded <=> n + 1 \in Numbers /\ r[n + 1] # NoRev

-----------------------------------------------------------------------------
(* Plausible faults of the operators defined below, for checking that the  *)
(* properties notice; no specification uses them.                          *)

\* Supersedes the revision of the new number, which is not there yet.
RevisionsAfterNext(d, current, c) ==
    [rev[d] EXCEPT ![current + 1] = [content |-> c, superseded |-> FALSE]]

\* Supersedes last, and every revision of the document.
RevisionsAfterAll(d, current, c) ==
    [n \in Numbers |-> IF n = current + 1 THEN [content |-> c, superseded |-> TRUE]
                       ELSE IF HasRev(d, n) THEN [rev[d][n] EXCEPT !.superseded = TRUE] ELSE NoRev]

\* Looks for documents that have a revision already.
FindExistingComplete(k) == {d \in Docs : Exists(d) /\ doc[d].key = k /\ doc[d].current > 0}

-----------------------------------------------------------------------------
(* Statements.                                                             *)

\* findExisting: the newest document of the key, if there is one.
FindExisting(k) ==
    LET mine == {d \in Docs : Exists(d) /\ doc[d].key = k}
    IN  {d \in mine : \A e \in mine : doc[e].born <= doc[d].born}

\* The row Create inserts: no revision yet.
FirstRow(k, raced) ==
    [key |-> k, current |-> 0, born |-> 1 + Cardinality({d \in Docs : Exists(d)}), raced |-> raced]

\* AppendRevision's UPDATE of the previous revision and INSERT of the new one.
RevisionsAfter(d, current, c) ==
    [n \in Numbers |-> IF n = current + 1 THEN [content |-> c, superseded |-> FALSE]
                       ELSE IF n = current /\ HasRev(d, n) THEN [rev[d][n] EXCEPT !.superseded = TRUE]
                       ELSE rev[d][n]]

\* Its UPDATE of the documents row.
DocAfter(d, current) == [doc[d] EXCEPT !.current = current + 1]

\* GetCurrentRevision: the revision with the highest number.
CurrentRevision(d) == {n \in Numbers : HasRev(d, n) /\ \A m \in Numbers : HasRev(d, m) => m <= n}

-----------------------------------------------------------------------------
Init ==
    /\ doc = [d \in Docs |-> NoDoc]
    /\ rev = [d \in Docs |-> [n \in Numbers |-> NoRev]]
    /\ lock = [d \in Docs |-> None]
    /\ gen = [g \in Generators |-> Idle]
    /\ reader = [r \in Readers |-> Idle]
    /\ begun = 0
    /\ faults = 0

\* GenerateConfirmation or GenerateCheckinPass up to findExisting.
Generate(g, k, c) ==
    /\ gen[g] = Idle
    /\ begun < MaxRevisions
    /\ begun' = begun + 1
    /\ \/ /\ FindExisting(k) = {}
          /\ gen' = [gen EXCEPT ![g] = [pc |-> "create", key |-> k, content |-> c, raced |-> FALSE]]
       \/ \E d \in FindExisting(k) :
              gen' = [gen EXCEPT ![g] = [pc |-> "append", doc |-> d, content |-> c]]
    /\ UNCHANGED <<doc, rev, lock, reader, faults>>

\* Nothing keeps a second document of the same key out.
Create(g, d) ==
    LET k == gen[g].key
    IN  /\ gen[g].pc = "create"
        /\ ~Exists(d)
        /\ doc' = [doc EXCEPT ![d] = FirstRow(k, gen[g].raced)]
        /\ gen' = [h \in Generators |->
               IF h = g THEN [pc |-> "append", doc |-> d, content |-> gen[g].content]
               ELSE IF gen[h].pc = "create" /\ gen[h].key = k THEN [gen[h] EXCEPT !.raced = TRUE]
               ELSE gen[h]]
        /\ UNCHANGED <<rev, lock, reader, begun, faults>>

\* A fault for the properties to notice: the SELECT does not lock.
AppendLockNoWait(g) ==
    LET d == gen[g].doc
    IN  /\ gen[g].pc = "append"
        /\ lock' = [lock EXCEPT ![d] = g]
        /\ gen' = [gen EXCEPT ![g] = [pc |-> "commit", doc |-> d, content |-> @.content,
                                      current |-> doc[d].current]]
        /\ UNCHANGED <<doc, rev, reader, begun, faults>>

\* SELECT current_revision ... FOR UPDATE waits for the row's lock.
AppendLock(g) ==
    LET d == gen[g].doc
    IN  /\ gen[g].pc = "append"
        /\ lock[d] = None
        /\ lock' = [lock EXCEPT ![d] = g]
        /\ gen' = [gen EXCEPT ![g] = [pc |-> "commit", doc |-> d, content |-> @.content,
                                      current |-> doc[d].current]]
        /\ UNCHANGED <<doc, rev, reader, begun, faults>>

\* The transaction's writes appear at its commit; the INSERT needs a new number.
AppendCommit(g) ==
    LET d == gen[g].doc
        n == gen[g].current
    IN  /\ gen[g].pc = "commit"
        /\ n + 1 \in Numbers /\ ~HasRev(d, n + 1)
        /\ rev' = [rev EXCEPT ![d] = RevisionsAfter(d, n, gen[g].content)]
        /\ doc' = [doc EXCEPT ![d] = DocAfter(d, n)]
        /\ lock' = [lock EXCEPT ![d] = None]
        /\ gen' = [gen EXCEPT ![g] = Idle]
        /\ UNCHANGED <<reader, begun, faults>>

\* A statement fails or the process dies: the transaction is rolled back, and a
\* document created before it stays without a revision.
GenerateFails(g) ==
    /\ faults < MaxFaults
    /\ gen[g] # Idle
    /\ faults' = faults + 1
    /\ gen' = [gen EXCEPT ![g] = Idle]
    /\ lock' = [d \in Docs |-> IF lock[d] = g THEN None ELSE lock[d]]
    /\ UNCHANGED <<doc, rev, reader, begun>>

-----------------------------------------------------------------------------
(* Readers.                                                                *)

\* GetWithRevisions reads the documents row, and then the revisions.
ReadRow(r, d) ==
    /\ reader[r] = Idle
    /\ Exists(d)
    /\ reader' = [reader EXCEPT ![r] = [pc |-> "list", doc |-> d, current |-> doc[d].current]]
    /\ UNCHANGED <<doc, rev, lock, gen, begun, faults>>

ReadRevisions(r) ==
    /\ reader[r].pc = "list"
    /\ reader' = [reader EXCEPT ![r] = [pc |-> "content", doc |-> @.doc, current |-> @.current,
                                        list |-> rev[@.doc]]]
    /\ UNCHANGED <<doc, rev, lock, gen, begun, faults>>

\* Content: the revision asked for, or the current one; none is "not found".
ReadContent(r, n) ==
    LET d == reader[r].doc
    IN  /\ reader[r].pc = "content"
        /\ HasRev(d, n)
        /\ reader' = [reader EXCEPT ![r] = [pc |-> "answer", list |-> @.list, current |-> @.current,
                                            number |-> n, got |-> rev[d][n],
                                            newest |-> n \in CurrentRevision(d)]]
        /\ UNCHANGED <<doc, rev, lock, gen, begun, faults>>

Answer(r) ==
    /\ reader[r].pc \in {"content", "answer"}
    /\ reader' = [reader EXCEPT ![r] = Idle]
    /\ UNCHANGED <<doc, rev, lock, gen, begun, faults>>

Next ==
    \/ \E g \in Generators, k \in Keys, c \in Contents : Generate(g, k, c)
    \/ \E g \in Generators, d \in Docs : Create(g, d)
    \/ \E g \in Generators : AppendLock(g)
    \/ \E g \in Generators : AppendCommit(g)
    \/ \E g \in Generators : GenerateFails(g)
    \/ \E r \in Readers, d \in Docs : ReadRow(r, d)
    \/ \E r \in Readers : ReadRevisions(r)
    \/ \E r \in Readers, n \in Numbers : ReadContent(r, n)
    \/ \E r \in Readers : Answer(r)

Spec == Init /\ [][Next]_vars

-----------------------------------------------------------------------------
(* Properties.                                                             *)

\* Rows, locks and requests hold values of their types, and a row is locked by
\* the request that is about to commit to it.
TypeOK ==
    /\ doc \in [Docs -> {NoDoc} \cup Doc]
    /\ rev \in [Docs -> [Numbers -> {NoRev} \cup Rev]]
    /\ lock \in [Docs -> Generators \cup {None}]
    /\ gen \in [Generators -> {Idle} \cup Gen]
    /\ \A d \in Docs, g \in Generators : lock[d] = g <=> gen[g].pc = "commit" /\ gen[g].doc = d
    /\ \A r \in Readers : reader[r].pc \in {"idle", "list", "content", "answer"}
    /\ begun \in 0..MaxRevisions /\ faults \in Nat

\* The tables as a log of contents and the numbers that are superseded.
Log == INSTANCE RevisionLog
           WITH log <- [d \in Docs |-> [n \in 1..doc[d].current |-> rev[d][n].content]],
                superseded <- [d \in Docs |-> {n \in Numbers : rev[d][n].superseded}]

\* Whatever overlaps or fails, each document is an append-only log of which all
\* but the last revision are superseded: what AppendRevision promises.
Implements == Log!Spec

\* "readers either see the old or the new state, never a half-update": a reader
\* lists an unbroken chain with one unsuperseded revision, at least up to the
\* number it has read before, and bytes not labelled superseded are not older
\* than the list.
ReaderSeesChain ==
    \A r \in Readers : reader[r].pc \in {"content", "answer"} =>
        LET list == reader[r].list
        IN  /\ Chain(list)
            /\ reader[r].current > 0 => list[reader[r].current] # NoRev
            /\ reader[r].pc = "answer" =>
                   /\ list[reader[r].number] # NoRev => list[reader[r].number].content = reader[r].got.content
                   /\ reader[r].got.superseded <=> ~reader[r].newest

\* A key has a second document only when its generations overlapped: one that
\* comes after another finds its document, also when that was left without a
\* revision.
OneDocumentPerKey ==
    \A d, e \in Docs :
        d # e /\ Exists(d) /\ Exists(e) /\ doc[d].key = doc[e].key => doc[d].raced \/ doc[e].raced
=============================================================================
