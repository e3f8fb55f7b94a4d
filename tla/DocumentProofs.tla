--------------------------- MODULE DocumentProofs ---------------------------
(***************************************************************************)
(* The revision chain of every document, what readers see of it, the       *)
(* uniqueness of documents, and the refinement of RevisionLog, for any     *)
(* sets of documents, keys, generators and readers.                        *)
(*                                                                         *)
(* The argument: a transaction that is about to commit holds the row lock  *)
(* since it read current_revision, so the number it read is still the      *)
(* number of the last revision.  The revisions of a document are then      *)
(* always 1..current_revision, superseded below the last.                  *)
(***************************************************************************)
EXTENDS Document, FiniteSetTheorems, SequenceTheorems, TLAPS

\* A reader between two statements.
Reading == [pc : {"list"}, doc : Docs, current : 0..MaxRevisions]
             \cup [pc : {"content"}, doc : Docs, current : 0..MaxRevisions,
                   list : [Numbers -> {NoRev} \cup Rev]]
             \cup [pc : {"answer"}, current : 0..MaxRevisions, list : [Numbers -> {NoRev} \cup Rev],
                   number : Numbers, got : Rev, newest : BOOLEAN]

ReaderType == reader \in [Readers -> {Idle} \cup Reading]

\* The revisions of a document are numbered 1..current_revision, and all but the
\* last are superseded.
DocChain(d) ==
    \A n \in Numbers :
        /\ HasRev(d, n) <=> n <= doc[d].current
        /\ HasRev(d, n) => (rev[d][n].superseded <=> n < doc[d].current)

ChainInv == \A d \in Docs : DocChain(d)

\* A transaction about to commit works on the current number of its document.
CommitInv == \A g \in Generators : gen[g].pc = "commit" => gen[g].current = doc[gen[g].doc].current

\* An append goes to a document that exists.
AppendInv == \A g \in Generators : gen[g].pc \in {"append", "commit"} => Exists(gen[g].doc)

\* What a reader has read is a chain, and agrees with the revisions there are by now.
ReaderInv ==
    \A r \in Readers :
        /\ reader[r].pc = "list" => reader[r].current <= doc[reader[r].doc].current
        /\ reader[r].pc \in {"content", "answer"} =>
               /\ Chain(reader[r].list)
               /\ reader[r].current > 0 => reader[r].list[reader[r].current] # NoRev
        /\ reader[r].pc = "content" =>
               \A n \in Numbers : reader[r].list[n] # NoRev =>
                   /\ HasRev(reader[r].doc, n)
                   /\ reader[r].list[n].content = rev[reader[r].doc][n].content

\* created_at orders the documents, and the newest one of a key can be found.
Existing == {d \in Docs : Exists(d)}

BornInv ==
    /\ IsFiniteSet(Existing)
    /\ \A d \in Existing : doc[d].born <= Cardinality(Existing)
    /\ \A d \in Existing : FindExisting(doc[d].key) # {}

\* A generation that has not been overtaken is still right to create the document.
CreateInv ==
    \A g \in Generators : gen[g].pc = "create" /\ ~gen[g].raced =>
        \A d \in Docs : Exists(d) => doc[d].key # gen[g].key

IInv == /\ TypeOK /\ ReaderType /\ ChainInv /\ CommitInv /\ AppendInv /\ ReaderInv
        /\ ReaderSeesChain /\ BornInv /\ CreateInv /\ OneDocumentPerKey

-----------------------------------------------------------------------------
(* Types.                                                                  *)

\* What a generating request keeps between two statements.
LEMMA GenFields ==
    ASSUME TypeOK, NEW g \in Generators
    PROVE  /\ gen[g].pc = "create" => /\ gen[g] \in [pc : {"create"}, key : Keys, content : Contents, raced : BOOLEAN]
                                      /\ gen[g].key \in Keys /\ gen[g].content \in Contents
                                      /\ gen[g].raced \in BOOLEAN
           /\ gen[g].pc \in {"append", "commit"} => gen[g].doc \in Docs /\ gen[g].content \in Contents
           /\ gen[g].pc = "commit" => gen[g].current \in 0..MaxRevisions
           /\ gen[g] = Idle <=> gen[g].pc = "idle"
           /\ gen[g].pc \in {"idle", "create", "append", "commit"}
  <1>1. gen[g] \in {Idle} \cup Gen
    BY DEF TypeOK
  <1>2. QED BY <1>1 DEF Idle, Gen

\* What a reading request keeps between two statements.
LEMMA ReaderFields ==
    ASSUME ReaderType, NEW r \in Readers
    PROVE  /\ reader[r].pc = "list" => reader[r].doc \in Docs /\ reader[r].current \in 0..MaxRevisions
           /\ reader[r].pc = "content" =>
                  /\ reader[r].doc \in Docs /\ reader[r].current \in 0..MaxRevisions
                  /\ reader[r].list \in [Numbers -> {NoRev} \cup Rev]
           /\ reader[r].pc = "answer" => reader[r].current \in 0..MaxRevisions /\ reader[r].number \in Numbers
           /\ reader[r].pc \in {"idle", "list", "content", "answer"}
  <1>1. reader[r] \in {Idle} \cup Reading
    BY DEF ReaderType
  <1>2. QED BY <1>1 DEF Idle, Reading

\* A documents row that exists is a row; a revision that exists is a revision.
LEMMA RowFields ==
    ASSUME TypeOK, NEW d \in Docs
    PROVE  /\ Exists(d) <=> doc[d] \in Doc
           /\ doc[d].current \in 0..MaxRevisions
           /\ doc[d].born \in Nat
           /\ Exists(d) => doc[d].key \in Keys /\ doc[d].raced \in BOOLEAN
           /\ ~Exists(d) => doc[d].current = 0
           /\ \A n \in Numbers : /\ HasRev(d, n) <=> rev[d][n] \in Rev
                                 /\ HasRev(d, n) => rev[d][n].content \in Contents
                                 /\ ~HasRev(d, n) => rev[d][n].superseded = FALSE
                                 /\ rev[d][n].superseded \in BOOLEAN
  <1>1. doc[d] \in {NoDoc} \cup Doc
    BY DEF TypeOK
  <1>2. NoDoc \notin Doc
    BY DocumentAssumption DEF NoDoc, Doc
  <1>3. NoRev \notin Rev
    BY DocumentAssumption DEF NoRev, Rev
  <1>4. ASSUME NEW n \in Numbers
        PROVE  /\ HasRev(d, n) <=> rev[d][n] \in Rev
               /\ HasRev(d, n) => rev[d][n].content \in Contents
               /\ ~HasRev(d, n) => rev[d][n].superseded = FALSE
               /\ rev[d][n].superseded \in BOOLEAN
    <2>1. rev[d][n] \in {NoRev} \cup Rev
      BY DEF TypeOK
    <2>2. HasRev(d, n) <=> rev[d][n] \in Rev
      BY <2>1, <1>3 DEF HasRev
    <2>3. CASE rev[d][n] \in Rev
      BY <2>2, <2>3 DEF Rev
    <2>4. CASE rev[d][n] = NoRev
      BY <2>2, <2>4, <1>3 DEF NoRev
    <2>5. QED BY <2>1, <2>3, <2>4
  <1>5. /\ Exists(d) <=> doc[d] \in Doc
        /\ doc[d].current \in 0..MaxRevisions
        /\ doc[d].born \in Nat
        /\ Exists(d) => doc[d].key \in Keys /\ doc[d].raced \in BOOLEAN
        /\ ~Exists(d) => doc[d].current = 0
    <2>1. Exists(d) <=> doc[d] \in Doc
      BY <1>1, <1>2 DEF Exists
    <2>2. CASE doc[d] \in Doc
      BY <2>1, <2>2 DEF Doc
    <2>3. CASE doc[d] = NoDoc
      BY <2>1, <2>3, <1>2, DocumentAssumption DEF NoDoc
    <2>4. QED BY <1>1, <2>2, <2>3
  <1>6. QED BY <1>4, <1>5

\* The revisions after an append, number by number.
LEMMA RevisionsAfterValues ==
    ASSUME TypeOK, NEW d \in Docs, NEW n \in 0..MaxRevisions, NEW c \in Contents,
           n + 1 \in Numbers, n \in Numbers => HasRev(d, n)
    PROVE  LET after == RevisionsAfter(d, n, c)
           IN  /\ after \in [Numbers -> {NoRev} \cup Rev]
               /\ after[n + 1] = [content |-> c, superseded |-> FALSE]
               /\ \A m \in Numbers : m # n /\ m # n + 1 => after[m] = rev[d][m]
               /\ n \in Numbers => /\ after[n] \in Rev
                                   /\ after[n].superseded
                                   /\ after[n].content = rev[d][n].content
  <1> DEFINE after == RevisionsAfter(d, n, c)
  <1>1. [content |-> c, superseded |-> FALSE] \in Rev
    BY DEF Rev
  <1>2. ASSUME n \in Numbers
        PROVE  [rev[d][n] EXCEPT !.superseded = TRUE] \in Rev
    BY <1>2, RowFields DEF Rev
  <1>3. \A m \in Numbers : rev[d][m] \in {NoRev} \cup Rev
    BY DEF TypeOK
  <1>4. ASSUME NEW m \in Numbers
        PROVE  after[m] = IF m = n + 1 THEN [content |-> c, superseded |-> FALSE]
                          ELSE IF m = n /\ HasRev(d, m) THEN [rev[d][m] EXCEPT !.superseded = TRUE]
                          ELSE rev[d][m]
    BY <1>4 DEF RevisionsAfter
  <1>5. n # n + 1
    OBVIOUS
  <1>6. after \in [Numbers -> {NoRev} \cup Rev]
    <2>1. \A m \in Numbers : after[m] \in {NoRev} \cup Rev
      BY <1>1, <1>2, <1>3, <1>4
    <2>2. QED BY <2>1 DEF RevisionsAfter
  <1>7. ASSUME n \in Numbers
        PROVE  after[n] \in Rev /\ after[n].superseded /\ after[n].content = rev[d][n].content
    <2>1. after[n] = [rev[d][n] EXCEPT !.superseded = TRUE]
      BY <1>4, <1>5, <1>7
    <2>2. rev[d][n] \in Rev
      BY <1>7, RowFields
    <2>3. QED BY <2>1, <2>2, <1>2, <1>7 DEF Rev
  <1>8. after[n + 1] = [content |-> c, superseded |-> FALSE]
    BY <1>4
  <1>9. \A m \in Numbers : m # n /\ m # n + 1 => after[m] = rev[d][m]
    BY <1>4
  <1>10. QED BY <1>6, <1>7, <1>8, <1>9

-----------------------------------------------------------------------------
(* Frames: what a step leaves alone stays in order.                        *)

\* The tables, when no row is written.
LEMMA TableFrame ==
    ASSUME IInv, UNCHANGED <<doc, rev>>
    PROVE  ChainInv' /\ BornInv' /\ OneDocumentPerKey'
  <1>1. ChainInv'
    BY DEF IInv, ChainInv, DocChain, HasRev
  <1>2. BornInv'
    BY DEF IInv, BornInv, Existing, Exists, FindExisting
  <1>3. OneDocumentPerKey'
    BY DEF IInv, OneDocumentPerKey, Exists
  <1>4. QED BY <1>1, <1>2, <1>3

\* The readers, when no row is written and none of them reads.
LEMMA ReaderFrame ==
    ASSUME IInv, UNCHANGED <<doc, rev, reader>>
    PROVE  ReaderType' /\ ReaderInv' /\ ReaderSeesChain'
  <1>1. ReaderType' /\ ReaderSeesChain'
    BY DEF IInv, ReaderType, ReaderSeesChain
  <1>2. ReaderInv'
    BY DEF IInv, ReaderInv, HasRev
  <1>3. QED BY <1>1, <1>2

\* The types and the generating requests, when only a reader moves.
LEMMA GenFrame ==
    ASSUME IInv, ReaderType', UNCHANGED <<doc, rev, lock, gen, begun, faults>>
    PROVE  TypeOK' /\ CommitInv' /\ AppendInv' /\ CreateInv'
  <1>1. TypeOK'
    <2>1. \A r \in Readers : reader'[r].pc \in {"idle", "list", "content", "answer"}
      BY DEF ReaderType, Reading, Idle
    <2>2. QED BY <2>1 DEF IInv, TypeOK
  <1>2. CommitInv' /\ AppendInv' /\ CreateInv'
    BY DEF IInv, CommitInv, AppendInv, CreateInv, Exists
  <1>3. QED BY <1>1, <1>2

-----------------------------------------------------------------------------
(* Steps that write no row.                                                *)

\* findExisting answers "none" only when the key has no document.
LEMMA NothingFound ==
    ASSUME IInv, NEW k \in Keys, FindExisting(k) = {}, NEW d \in Docs, Exists(d)
    PROVE  doc[d].key # k
  BY DEF IInv, BornInv, Existing

\* A generation starts from what findExisting has answered.
LEMMA GenerateStep ==
    ASSUME IInv, NEW g \in Generators, NEW k \in Keys, NEW c \in Contents, Generate(g, k, c)
    PROVE  IInv'
  <1>1. ChainInv' /\ BornInv' /\ OneDocumentPerKey' /\ ReaderType' /\ ReaderInv' /\ ReaderSeesChain'
    BY TableFrame, ReaderFrame DEF Generate
  <1>2. PICK rec :
            /\ gen' = [gen EXCEPT ![g] = rec]
            /\ \/ /\ FindExisting(k) = {}
                  /\ rec = [pc |-> "create", key |-> k, content |-> c, raced |-> FALSE]
               \/ \E d \in FindExisting(k) : rec = [pc |-> "append", doc |-> d, content |-> c]
    BY DEF Generate
  <1>3. rec \in Gen /\ rec.pc # "commit"
    <2>1. CASE rec = [pc |-> "create", key |-> k, content |-> c, raced |-> FALSE]
      BY <2>1 DEF Gen
    <2>2. ASSUME NEW d \in Docs, rec = [pc |-> "append", doc |-> d, content |-> c]
          PROVE  rec \in Gen /\ rec.pc # "commit"
      BY <2>2 DEF Gen
    <2>3. QED BY <1>2, <2>1, <2>2 DEF FindExisting
  <1>4. gen \in [Generators -> {Idle} \cup Gen] /\ gen[g].pc = "idle"
    BY DEF IInv, TypeOK, Generate, Idle
  <1>5. gen'[g] = rec /\ \A h \in Generators : h # g => gen'[h] = gen[h]
    BY <1>2, <1>4
  <1>6. TypeOK'
    <2>1. gen' \in [Generators -> {Idle} \cup Gen]
      BY <1>2, <1>3, <1>4
    <2>2. \A d \in Docs, h \in Generators : lock'[d] = h <=> gen'[h].pc = "commit" /\ gen'[h].doc = d
      BY <1>3, <1>4, <1>5 DEF IInv, TypeOK, Generate
    <2>3. begun' \in 0..MaxRevisions
      BY DocumentAssumption DEF IInv, TypeOK, Generate
    <2>4. QED BY <2>1, <2>2, <2>3 DEF IInv, TypeOK, Generate
  <1>7. CommitInv'
    BY <1>3, <1>5 DEF IInv, CommitInv, Generate
  <1>8. AppendInv'
    <2>1. rec.pc = "append" => Exists(rec.doc)
      BY <1>2 DEF FindExisting
    <2>2. QED BY <1>3, <1>5, <2>1 DEF IInv, AppendInv, Generate, Exists
  <1>9. CreateInv'
    <2>1. rec.pc = "create" => \A d \in Docs : Exists(d) => doc[d].key # rec.key
      BY <1>2, NothingFound
    <2>2. QED BY <1>5, <2>1 DEF IInv, CreateInv, Generate, Exists
  <1>10. QED BY <1>1, <1>6, <1>7, <1>8, <1>9 DEF IInv

\* SELECT ... FOR UPDATE reads the number under the lock it takes.
LEMMA AppendLockStep ==
    ASSUME IInv, NEW g \in Generators, AppendLock(g)
    PROVE  IInv'
  <1>1. ChainInv' /\ BornInv' /\ OneDocumentPerKey' /\ ReaderType' /\ ReaderInv' /\ ReaderSeesChain'
    BY TableFrame, ReaderFrame DEF AppendLock
  <1> DEFINE d == gen[g].doc
  <1>2. TypeOK /\ gen[g].pc = "append" /\ d \in Docs /\ gen[g].content \in Contents /\ Exists(d)
    BY GenFields DEF IInv, AppendLock, AppendInv
  <1>3. doc[d].current \in 0..MaxRevisions
    BY <1>2, RowFields
  <1> DEFINE rec == [pc |-> "commit", doc |-> d, content |-> gen[g].content, current |-> doc[d].current]
  <1>4. rec \in Gen
    BY <1>2, <1>3 DEF Gen
  <1>5. /\ gen' = [gen EXCEPT ![g] = rec]
        /\ gen'[g] = rec /\ \A h \in Generators : h # g => gen'[h] = gen[h]
    BY <1>2 DEF AppendLock, TypeOK
  <1>6. lock'[d] = g /\ lock[d] = None /\ (\A e \in Docs : e # d => lock'[e] = lock[e])
    BY <1>2 DEF AppendLock, TypeOK
  <1>7. TypeOK'
    <2>1. gen' \in [Generators -> {Idle} \cup Gen]
      BY <1>2, <1>4, <1>5 DEF TypeOK
    <2>2. \A e \in Docs, h \in Generators : lock'[e] = h <=> gen'[h].pc = "commit" /\ gen'[h].doc = e
      BY <1>2, <1>5, <1>6, DocumentAssumption DEF TypeOK
    <2>3. lock' \in [Docs -> Generators \cup {None}]
      BY <1>2 DEF AppendLock, TypeOK
    <2>4. QED BY <1>2, <2>1, <2>2, <2>3 DEF TypeOK, AppendLock
  <1>8. CommitInv'
    BY <1>5 DEF IInv, CommitInv, AppendLock
  <1>9. AppendInv'
    BY <1>2, <1>5 DEF IInv, AppendInv, AppendLock, Exists
  <1>10. CreateInv'
    BY <1>5 DEF IInv, CreateInv, AppendLock, Exists
  <1>11. QED BY <1>1, <1>7, <1>8, <1>9, <1>10 DEF IInv

\* A rollback gives the lock back and writes nothing.
LEMMA GenerateFailsStep ==
    ASSUME IInv, NEW g \in Generators, GenerateFails(g)
    PROVE  IInv'
  <1>1. ChainInv' /\ BornInv' /\ OneDocumentPerKey' /\ ReaderType' /\ ReaderInv' /\ ReaderSeesChain'
    BY TableFrame, ReaderFrame DEF GenerateFails
  <1>2. gen'[g] = Idle /\ Idle.pc = "idle" /\ \A h \in Generators : h # g => gen'[h] = gen[h]
    BY DEF IInv, TypeOK, GenerateFails, Idle
  <1>3. TypeOK'
    <2>1. gen' \in [Generators -> {Idle} \cup Gen]
      BY DEF IInv, TypeOK, GenerateFails
    <2>2. lock' \in [Docs -> Generators \cup {None}]
      BY DEF IInv, TypeOK, GenerateFails
    <2>3. ASSUME NEW d \in Docs, NEW h \in Generators
          PROVE  lock'[d] = h <=> gen'[h].pc = "commit" /\ gen'[h].doc = d
      <3>1. lock'[d] = IF lock[d] = g THEN None ELSE lock[d]
        BY DEF GenerateFails
      <3>2. lock[d] = h <=> gen[h].pc = "commit" /\ gen[h].doc = d
        BY DEF IInv, TypeOK
      <3>3. QED BY <1>2, <3>1, <3>2, DocumentAssumption
    <2>4. QED BY <2>1, <2>2, <2>3 DEF IInv, TypeOK, GenerateFails
  <1>4. CommitInv' /\ AppendInv' /\ CreateInv'
    BY <1>2 DEF IInv, CommitInv, AppendInv, CreateInv, Exists, GenerateFails
  <1>5. QED BY <1>1, <1>3, <1>4 DEF IInv

-----------------------------------------------------------------------------
(* Steps that write rows.                                                  *)

\* The inserted row is the newest document, and is the one the next generation of
\* its key finds.
LEMMA FirstRowBorn ==
    ASSUME IInv, NEW d \in Docs, ~Exists(d), NEW k \in Keys, NEW raced \in BOOLEAN,
           doc' = [doc EXCEPT ![d] = FirstRow(k, raced)]
    PROVE  /\ FirstRow(k, raced) \in Doc
           /\ doc'[d] = FirstRow(k, raced)
           /\ \A e \in Docs : e # d => doc'[e] = doc[e]
           /\ \A e \in Docs : Exists(e)' <=> Exists(e) \/ e = d
           /\ BornInv'
  <1> DEFINE row == FirstRow(k, raced)
             count == Cardinality(Existing)
  <1>1. TypeOK /\ BornInv
    BY DEF IInv
  <1>2. count \in Nat
    BY <1>1, FS_CardinalityType DEF BornInv
  <1>3. row \in Doc /\ row.key = k /\ row.born = count + 1
    <2>1. row = [key |-> k, current |-> 0, born |-> 1 + count, raced |-> raced]
      BY DEF FirstRow, Existing
    <2>2. 0 \in 0..MaxRevisions /\ 1 + count \in Nat /\ 1 + count = count + 1
      BY <1>2, DocumentAssumption
    <2> HIDE DEF row, count
    <2>3. QED BY <2>1, <2>2 DEF Doc
  <1>4. doc'[d] = row /\ \A e \in Docs : e # d => doc'[e] = doc[e]
    BY <1>1 DEF TypeOK
  <1>5. row # NoDoc
    BY <1>3, DocumentAssumption DEF NoDoc
  <1>6. \A e \in Docs : Exists(e)' <=> Exists(e) \/ e = d
    BY <1>4, <1>5 DEF Exists, NoDoc
  <1>7. Existing' = Existing \cup {d} /\ d \notin Existing
    BY <1>6 DEF Existing
  <1>8. IsFiniteSet(Existing)' /\ Cardinality(Existing)' = count + 1
    BY <1>1, <1>2, <1>7, FS_AddElement DEF BornInv
  <1> HIDE DEF row, count
  <1>9. \A e \in Existing : doc[e].born \in Nat /\ doc[e].born <= count
    BY <1>1, RowFields DEF BornInv, count, Existing
  <1>10. \A e \in Existing' : doc'[e].born \in Nat /\ doc'[e].born <= count + 1
    BY <1>2, <1>3, <1>4, <1>7, <1>9 DEF Existing
  <1>11. ASSUME NEW e \in Existing'
         PROVE  FindExisting(doc[e].key)' # {}
    <2>1. CASE doc'[e].key = k
      <3>1. d \in {x \in Docs : Exists(x)' /\ doc'[x].key = k}
        BY <1>3, <1>4, <1>6
      <3>2. \A x \in Docs : Exists(x)' => doc'[x].born <= doc'[d].born
        BY <1>3, <1>4, <1>10 DEF Existing
      <3>3. d \in FindExisting(doc[e].key)'
        BY <2>1, <3>1, <3>2 DEF FindExisting
      <3>4. QED BY <3>3
    <2>2. CASE doc'[e].key # k
      <3>1. e \in Existing /\ doc'[e] = doc[e]
        BY <2>2, <1>3, <1>4, <1>7, <1>11 DEF Existing
      <3>2. PICK x \in Docs : x \in FindExisting(doc[e].key)
        BY <3>1, <1>1 DEF BornInv, FindExisting
      <3>3. x # d /\ doc'[x] = doc[x] /\ Exists(x)' /\ doc[x].key = doc[e].key
        BY <3>2, <1>4, <1>6 DEF FindExisting
      <3>4. \A y \in Docs : Exists(y)' /\ doc'[y].key = doc'[e].key => Exists(y) /\ doc'[y] = doc[y]
        BY <2>2, <1>3, <1>4, <1>6
      <3>5. x \in FindExisting(doc[e].key)'
        BY <3>1, <3>2, <3>3, <3>4 DEF FindExisting
      <3>6. QED BY <3>5
    <2>3. QED BY <2>1, <2>2
  <1>12. BornInv'
    BY <1>8, <1>10, <1>11 DEF BornInv
  <1>13. QED BY <1>3, <1>4, <1>6, <1>12 DEF row

\* INSERT of the documents row.
LEMMA CreateStep ==
    ASSUME IInv, NEW g \in Generators, NEW d \in Docs, Create(g, d)
    PROVE  IInv'
  <1> DEFINE k == gen[g].key
             row == FirstRow(k, gen[g].raced)
             rec == [pc |-> "append", doc |-> d, content |-> gen[g].content]
  <1>1. TypeOK /\ gen[g].pc = "create" /\ k \in Keys /\ gen[g].content \in Contents /\ gen[g].raced \in BOOLEAN
    BY GenFields DEF IInv, Create
  <1>2. /\ ~Exists(d)
        /\ row \in Doc /\ doc' = [doc EXCEPT ![d] = row]
        /\ doc'[d] = row /\ (\A e \in Docs : e # d => doc'[e] = doc[e])
        /\ \A e \in Docs : Exists(e)' <=> Exists(e) \/ e = d
        /\ BornInv'
    BY <1>1, FirstRowBorn DEF Create
  <1>3. row.key = k /\ row.current = 0 /\ row.raced = gen[g].raced
    BY DEF FirstRow
  <1> HIDE DEF row
  <1>4. ASSUME NEW h \in Generators, gen[h].pc = "create"
        PROVE  LET late == [gen[h] EXCEPT !.raced = TRUE]
               IN  late \in Gen /\ late.pc = "create" /\ late.raced
    <2>1. gen[h] \in [pc : {"create"}, key : Keys, content : Contents, raced : BOOLEAN]
      BY <1>1, <1>4, GenFields
    <2>2. QED BY <2>1 DEF Gen
  <1>5. ASSUME NEW h \in Generators
        PROVE  /\ h = g => gen'[h] = rec
               /\ h # g => \/ gen'[h] = gen[h] /\ (gen[h].pc = "create" => gen[h].key # k)
                           \/ gen[h].pc = "create" /\ gen'[h] \in Gen /\ gen'[h].pc = "create" /\ gen'[h].raced
    <2>1. h = g => gen'[h] = rec
      BY DEF Create
    <2>2. h # g /\ ~(gen[h].pc = "create" /\ gen[h].key = k) => gen'[h] = gen[h]
      BY DEF Create
    <2>3. h # g /\ gen[h].pc = "create" /\ gen[h].key = k => gen'[h] = [gen[h] EXCEPT !.raced = TRUE]
      BY DEF Create
    <2>4. h # g /\ gen[h].pc = "create" /\ gen[h].key = k =>
             gen'[h] \in Gen /\ gen'[h].pc = "create" /\ gen'[h].raced
      BY <1>4, <2>3
    <2>5. QED BY <2>1, <2>2, <2>4
  <1>6. TypeOK'
    <2>1. rec \in Gen
      BY <1>1 DEF Gen
    <2> HIDE DEF rec
    <2>2. \A h \in Generators : gen'[h] \in {Idle} \cup Gen
      BY <1>1, <1>5, <2>1 DEF TypeOK
    <2>3. gen' \in [Generators -> {Idle} \cup Gen]
      BY <2>2 DEF Create
    <2>4. ASSUME NEW e \in Docs, NEW h \in Generators
          PROVE  lock'[e] = h <=> gen'[h].pc = "commit" /\ gen'[h].doc = e
      <3>1. lock[e] = h <=> gen[h].pc = "commit" /\ gen[h].doc = e
        BY <1>1 DEF TypeOK
      <3>2. rec.pc = "append"
        BY DEF rec
      <3>3. QED BY <1>1, <1>5, <3>1, <3>2 DEF Create
    <2>5. doc' \in [Docs -> {NoDoc} \cup Doc]
      BY <1>1, <1>2 DEF TypeOK
    <2>6. QED BY <1>1, <2>3, <2>4, <2>5 DEF TypeOK, Create
  <1>7. \A e \in Docs : doc'[e].current = doc[e].current
    BY <1>1, <1>2, <1>3, RowFields
  <1>8. ChainInv'
    BY <1>7 DEF IInv, ChainInv, DocChain, HasRev, Create
  <1>9. ReaderType' /\ ReaderSeesChain'
    BY DEF IInv, ReaderType, ReaderSeesChain, Create
  <1>10. ReaderInv'
    BY <1>7, ReaderFields DEF IInv, ReaderInv, HasRev, Create
  <1>11. CommitInv'
    <2>1. ASSUME NEW h \in Generators, gen'[h].pc = "commit"
          PROVE  gen'[h] = gen[h] /\ gen[h].doc \in Docs
      BY <1>1, <1>5, <2>1, GenFields
    <2>2. QED BY <1>7, <2>1 DEF IInv, CommitInv
  <1>12. AppendInv'
    <2>1. ASSUME NEW h \in Generators, h # g, gen'[h].pc \in {"append", "commit"}
          PROVE  gen'[h] = gen[h] /\ gen[h].doc \in Docs
      BY <1>1, <1>5, <2>1, GenFields
    <2>2. Exists(d)'
      BY <1>2
    <2>3. QED BY <1>2, <1>5, <2>1, <2>2 DEF IInv, AppendInv
  <1>13. CreateInv'
    <2>1. ASSUME NEW h \in Generators, gen'[h].pc = "create", ~gen'[h].raced
          PROVE  h # g /\ gen'[h] = gen[h] /\ gen[h].key # k
      BY <1>5, <2>1
    <2>2. QED BY <1>2, <1>3, <2>1 DEF IInv, CreateInv
  <1>14. OneDocumentPerKey'
    <2>1. ~gen[g].raced => \A e \in Docs : Exists(e) => doc[e].key # k
      BY <1>1 DEF IInv, CreateInv
    <2>2. QED BY <1>2, <1>3, <2>1 DEF IInv, OneDocumentPerKey
  <1>15. QED BY <1>2, <1>6, <1>8, <1>9, <1>10, <1>11, <1>12, <1>13, <1>14 DEF IInv

\* What a commit finds and leaves: the number read under the lock is still the
\* document's, so the new revision is the next one, and no other is about to commit.
LEMMA CommitFacts ==
    ASSUME IInv, NEW g \in Generators, AppendCommit(g)
    PROVE  LET d == gen[g].doc
               n == doc[d].current
               c == gen[g].content
           IN  /\ d \in Docs /\ c \in Contents /\ n \in 0..MaxRevisions /\ n + 1 \in Numbers
               /\ n \in Numbers => HasRev(d, n)
               /\ Exists(d) /\ doc'[d] \in Doc /\ doc'[d] = [doc[d] EXCEPT !.current = n + 1]
               /\ doc'[d].current = n + 1
               /\ doc'[d].key = doc[d].key /\ doc'[d].born = doc[d].born /\ doc'[d].raced = doc[d].raced
               /\ \A e \in Docs : e # d => doc'[e] = doc[e] /\ rev'[e] = rev[e]
               /\ rev'[d] = RevisionsAfter(d, n, c)
               /\ \A h \in Generators : h # g /\ gen[h].pc = "commit" => gen[h].doc # d
  <1> DEFINE d == gen[g].doc
             n == doc[d].current
             c == gen[g].content
  <1>1. TypeOK /\ gen[g].pc = "commit" /\ d \in Docs /\ c \in Contents /\ gen[g].current = n
    BY GenFields DEF IInv, AppendCommit, CommitInv
  <1>2. n \in 0..MaxRevisions /\ n + 1 \in Numbers
    BY <1>1, RowFields DEF AppendCommit
  <1>3. n \in Numbers => HasRev(d, n)
    BY <1>1, <1>2 DEF IInv, ChainInv, DocChain
  <1>4. Exists(d) /\ doc[d] \in Doc
    BY <1>1, RowFields DEF IInv, AppendInv
  <1>5. /\ doc'[d] = [doc[d] EXCEPT !.current = n + 1]
        /\ rev'[d] = RevisionsAfter(d, n, c)
        /\ \A e \in Docs : e # d => doc'[e] = doc[e] /\ rev'[e] = rev[e]
    BY <1>1 DEF AppendCommit, DocAfter, TypeOK
  <1>6. n + 1 \in 0..MaxRevisions
    BY <1>2, DocumentAssumption DEF Numbers
  <1>7. doc'[d] \in Doc /\ doc'[d].current = n + 1 /\ doc'[d].key = doc[d].key
          /\ doc'[d].born = doc[d].born /\ doc'[d].raced = doc[d].raced
    BY <1>4, <1>5, <1>6 DEF Doc
  <1>8. \A h \in Generators : h # g /\ gen[h].pc = "commit" => gen[h].doc # d
    BY <1>1 DEF TypeOK
  <1>9. QED BY <1>1, <1>2, <1>3, <1>4, <1>5, <1>7, <1>8

\* The commit of AppendRevision.
LEMMA AppendCommitStep ==
    ASSUME IInv, NEW g \in Generators, AppendCommit(g)
    PROVE  IInv'
  <1>0. PICK d \in Docs, n \in 0..MaxRevisions, c \in Contents :
            d = gen[g].doc /\ n = doc[d].current /\ c = gen[g].content
    BY CommitFacts
  <1>1. /\ d \in Docs /\ c \in Contents /\ n \in 0..MaxRevisions /\ n + 1 \in Numbers
        /\ n \in Numbers => HasRev(d, n)
        /\ Exists(d) /\ doc'[d] \in Doc
        /\ doc'[d].current = n + 1
        /\ doc'[d].key = doc[d].key /\ doc'[d].born = doc[d].born /\ doc'[d].raced = doc[d].raced
        /\ \A e \in Docs : e # d => doc'[e] = doc[e] /\ rev'[e] = rev[e]
        /\ rev'[d] = RevisionsAfter(d, n, c)
        /\ \A h \in Generators : h # g /\ gen[h].pc = "commit" => gen[h].doc # d
    BY <1>0, CommitFacts
  <1>2. TypeOK /\ gen[g].pc = "commit" /\ doc[d] \in Doc
    BY <1>0, <1>1, RowFields DEF IInv, AppendCommit
  <1>3. /\ rev'[d] \in [Numbers -> {NoRev} \cup Rev]
        /\ rev'[d][n + 1] = [content |-> c, superseded |-> FALSE]
        /\ \A m \in Numbers : m # n /\ m # n + 1 => rev'[d][m] = rev[d][m]
        /\ n \in Numbers => /\ rev'[d][n] \in Rev
                            /\ rev'[d][n].superseded
                            /\ rev'[d][n].content = rev[d][n].content
    BY <1>1, <1>2, RevisionsAfterValues
  <1>4. gen'[g] = Idle /\ Idle.pc = "idle" /\ \A h \in Generators : h # g => gen'[h] = gen[h]
    BY <1>2 DEF AppendCommit, Idle, TypeOK
  <1>5. TypeOK'
    <2>1. doc' \in [Docs -> {NoDoc} \cup Doc]
      BY <1>0, <1>1, <1>2 DEF AppendCommit, TypeOK
    <2>2. rev' \in [Docs -> [Numbers -> {NoRev} \cup Rev]]
      <3>1. \A e \in Docs : rev'[e] \in [Numbers -> {NoRev} \cup Rev]
        BY <1>1, <1>2, <1>3 DEF TypeOK
      <3>2. \E f : rev' = [rev EXCEPT ![d] = f]
        BY <1>0 DEF AppendCommit
      <3>3. QED BY <1>2, <3>1, <3>2 DEF TypeOK
    <2>3. gen' \in [Generators -> {Idle} \cup Gen]
      BY <1>2 DEF AppendCommit, TypeOK
    <2>4. lock' \in [Docs -> Generators \cup {None}] /\ lock' = [lock EXCEPT ![d] = None]
      BY <1>0, <1>2 DEF AppendCommit, TypeOK
    <2>5. ASSUME NEW e \in Docs, NEW h \in Generators
          PROVE  lock'[e] = h <=> gen'[h].pc = "commit" /\ gen'[h].doc = e
      <3>1. lock[e] = h <=> gen[h].pc = "commit" /\ gen[h].doc = e
        BY <1>2 DEF TypeOK
      <3>2. lock'[e] = IF e = d THEN None ELSE lock[e]
        BY <1>2, <2>4 DEF TypeOK
      <3>3. QED BY <1>1, <1>2, <1>4, <3>1, <3>2, <1>0, DocumentAssumption
    <2>6. QED BY <1>2, <2>1, <2>2, <2>3, <2>4, <2>5 DEF TypeOK, AppendCommit
  <1>6. ChainInv'
    <2>1. ASSUME NEW m \in Numbers
          PROVE  /\ (HasRev(d, m))' <=> m <= n + 1
                 /\ (HasRev(d, m))' => (rev'[d][m].superseded <=> m < n + 1)
      <3>1. m \in Nat /\ n \in Nat
        BY <1>1 DEF Numbers
      <3>2. /\ HasRev(d, m) <=> m <= n
            /\ HasRev(d, m) => (rev[d][m].superseded <=> m < n)
        BY <1>0, <1>1 DEF IInv, ChainInv, DocChain
      <3>3. CASE m = n + 1
        <4>1. rev'[d][m] # NoRev
          BY <1>1, <1>3, <3>3, DocumentAssumption DEF NoRev
        <4>2. rev'[d][m].superseded = FALSE
          BY <1>3, <3>3
        <4>3. QED BY <3>1, <3>3, <4>1, <4>2 DEF HasRev
      <3>4. CASE m = n
        <4>1. rev'[d][m] # NoRev
          BY <1>3, <3>4, DocumentAssumption DEF NoRev, Rev
        <4>2. QED BY <1>3, <3>1, <3>4, <4>1 DEF HasRev
      <3>5. CASE m # n /\ m # n + 1
        <4>1. rev'[d][m] = rev[d][m]
          BY <1>3, <3>5
        <4>2. QED BY <3>1, <3>2, <3>5, <4>1 DEF HasRev
      <3>6. QED BY <3>3, <3>4, <3>5
    <2>2. (DocChain(d))'
      BY <1>1, <2>1 DEF DocChain
    <2>3. ASSUME NEW e \in Docs, e # d
          PROVE  (DocChain(e))'
      BY <1>1, <2>3 DEF IInv, ChainInv, DocChain, HasRev
    <2>4. QED BY <2>2, <2>3 DEF ChainInv
  <1>7. \A e \in Docs : /\ Exists(e)' <=> Exists(e)
                        /\ doc'[e].key = doc[e].key /\ doc'[e].born = doc[e].born
                        /\ doc'[e].raced = doc[e].raced
    <2>1. NoDoc \notin Doc
      BY DocumentAssumption DEF NoDoc, Doc
    <2>2. QED BY <1>1, <2>1 DEF Exists
  <1>8. BornInv'
    <2>1. Existing' = Existing
      BY <1>7 DEF Existing
    <2>2. \A k : FindExisting(k)' = FindExisting(k)
      BY <1>7 DEF FindExisting
    <2>3. \A e \in Existing : e \in Docs
      BY DEF Existing
    <2>4. QED BY <1>7, <2>1, <2>2, <2>3 DEF IInv, BornInv
  <1>9. OneDocumentPerKey'
    BY <1>7 DEF IInv, OneDocumentPerKey
  <1>10. CreateInv'
    BY <1>4, <1>7 DEF IInv, CreateInv
  <1>11. AppendInv'
    <2>1. \A h \in Generators : gen[h].pc \in {"append", "commit"} => gen[h].doc \in Docs
      BY <1>2, GenFields
    <2>2. QED BY <1>4, <1>7, <2>1 DEF IInv, AppendInv
  <1>12. CommitInv'
    <2>1. \A h \in Generators : gen[h].pc = "commit" => gen[h].doc \in Docs
      BY <1>2, GenFields
    <2>2. QED BY <1>0, <1>1, <1>4, <2>1 DEF IInv, CommitInv
  <1>13. ReaderType' /\ ReaderSeesChain'
    BY DEF IInv, ReaderType, ReaderSeesChain, AppendCommit
  <1>14. ReaderInv'
    <2>1. \A e \in Docs : doc[e].current \in Nat /\ doc'[e].current \in Nat /\ doc[e].current <= doc'[e].current
      <3>1. \A e \in Docs : doc[e].current \in Nat
        <4>1. ASSUME NEW e \in Docs
              PROVE  doc[e].current \in 0..MaxRevisions
          BY <1>2, RowFields
        <4>2. QED BY <4>1, DocumentAssumption
      <3>2. doc'[d].current = doc[d].current + 1 /\ \A e \in Docs : e # d => doc'[e] = doc[e]
        BY <1>0, <1>1
      <3>3. QED BY <3>1, <3>2
    <2>2. ASSUME NEW e \in Docs, NEW m \in Numbers, HasRev(e, m)
          PROVE  (HasRev(e, m))' /\ rev'[e][m].content = rev[e][m].content
      <3>1. CASE e # d
        BY <1>1, <2>2, <3>1 DEF HasRev
      <3>2. CASE e = d /\ m # n + 1 /\ m # n
        BY <1>3, <2>2, <3>2 DEF HasRev
      <3>3. CASE e = d /\ m = n
        BY <1>3, <3>3, DocumentAssumption DEF HasRev, NoRev, Rev
      <3>4. CASE e = d /\ m = n + 1
        <4>1. ~HasRev(d, n + 1)
          BY <1>0, <1>1 DEF IInv, ChainInv, DocChain
        <4>2. QED BY <2>2, <3>4, <4>1
      <3>5. QED BY <3>1, <3>2, <3>3, <3>4
    <2>3. ASSUME NEW r \in Readers
          PROVE  /\ reader[r].pc = "list" => reader[r].current <= doc'[reader[r].doc].current
                 /\ reader[r].pc = "content" =>
                      \A m \in Numbers : reader[r].list[m] # NoRev =>
                          /\ HasRev(reader[r].doc, m)'
                          /\ reader[r].list[m].content = rev'[reader[r].doc][m].content
      <3>1. ReaderType
        BY DEF IInv
      <3>2. ASSUME reader[r].pc = "list"
            PROVE  reader[r].current <= doc'[reader[r].doc].current
        <4>1. reader[r].doc \in Docs /\ reader[r].current \in Nat /\ reader[r].current <= doc[reader[r].doc].current
          BY <3>1, <3>2, ReaderFields DEF IInv, ReaderInv
        <4>2. QED BY <2>1, <4>1
      <3>3. ASSUME reader[r].pc = "content", NEW m \in Numbers, reader[r].list[m] # NoRev
            PROVE  /\ HasRev(reader[r].doc, m)'
                   /\ reader[r].list[m].content = rev'[reader[r].doc][m].content
        <4>1. /\ reader[r].doc \in Docs /\ HasRev(reader[r].doc, m)
              /\ reader[r].list[m].content = rev[reader[r].doc][m].content
          BY <3>1, <3>3, ReaderFields DEF IInv, ReaderInv
        <4>2. UNCHANGED reader
          BY DEF AppendCommit
        <4>3. QED BY <2>2, <4>1, <4>2 DEF HasRev
      <3>4. QED BY <3>2, <3>3
    <2>4. UNCHANGED reader
      BY DEF AppendCommit
    <2>5. QED BY <2>3, <2>4 DEF IInv, ReaderInv, HasRev
  <1>15. QED BY <1>5, <1>6, <1>8, <1>9, <1>10, <1>11, <1>12, <1>13, <1>14 DEF IInv

-----------------------------------------------------------------------------
(* Readers.                                                                *)

\* A list of revisions read in one statement is a chain that ends at current_revision.
LEMMA DocIsChain ==
    ASSUME TypeOK, NEW d \in Docs, DocChain(d)
    PROVE  /\ Chain(rev[d])
           /\ \A n \in Numbers : HasRev(d, n) => (rev[d][n].superseded <=> n \notin CurrentRevision(d))
  <1>1. doc[d].current \in 0..MaxRevisions /\ \A n \in Numbers : rev[d][n].superseded \in BOOLEAN
    BY RowFields
  <1>2. Chain(rev[d])
    BY <1>1, DocumentAssumption DEF Chain, DocChain, HasRev, Numbers
  <1>3. \A n \in Numbers : n \in CurrentRevision(d) <=> n = doc[d].current
    BY <1>1, DocumentAssumption DEF CurrentRevision, DocChain, Numbers
  <1>4. ASSUME NEW n \in Numbers, HasRev(d, n)
        PROVE  rev[d][n].superseded <=> n \notin CurrentRevision(d)
    <2>1. n <= doc[d].current /\ (rev[d][n].superseded <=> n < doc[d].current)
      BY <1>4 DEF DocChain
    <2>2. n \in Int /\ doc[d].current \in Int
      BY <1>1, DocumentAssumption DEF Numbers
    <2>3. n \in CurrentRevision(d) <=> ~(n < doc[d].current)
      BY <1>3, <2>1, <2>2
    <2>4. QED BY <2>1, <2>3
  <1>5. QED BY <1>2, <1>4

\* A step of one reader keeps the invariant if it does so at that reader.
LEMMA ReaderStep ==
    ASSUME IInv, NEW r \in Readers, NEW rec \in {Idle} \cup Reading,
           reader' = [reader EXCEPT ![r] = rec],
           UNCHANGED <<doc, rev, lock, gen, begun, faults>>,
           rec.pc = "list" => rec.current <= doc[rec.doc].current,
           rec.pc \in {"content", "answer"} =>
               Chain(rec.list) /\ (rec.current > 0 => rec.list[rec.current] # NoRev),
           rec.pc = "content" =>
               \A n \in Numbers : rec.list[n] # NoRev =>
                   HasRev(rec.doc, n) /\ rec.list[n].content = rev[rec.doc][n].content,
           rec.pc = "answer" =>
               /\ rec.list[rec.number] # NoRev => rec.list[rec.number].content = rec.got.content
               /\ rec.got.superseded <=> ~rec.newest
    PROVE  IInv'
  <1>1. ReaderType' /\ reader'[r] = rec /\ \A q \in Readers : q # r => reader'[q] = reader[q]
    BY DEF IInv, ReaderType
  <1>2. TypeOK' /\ CommitInv' /\ AppendInv' /\ CreateInv'
    BY <1>1, GenFrame
  <1>3. ChainInv' /\ BornInv' /\ OneDocumentPerKey'
    BY TableFrame
  <1>4. ReaderInv'
    BY <1>1 DEF IInv, ReaderInv, HasRev
  <1>5. ReaderSeesChain'
    BY <1>1 DEF IInv, ReaderSeesChain
  <1>6. QED BY <1>1, <1>2, <1>3, <1>4, <1>5 DEF IInv

\* GetWithRevisions and Content: the row, the list, the bytes, the answer.
LEMMA ReadSteps ==
    ASSUME IInv, NEW r \in Readers,
           \/ \E d \in Docs : ReadRow(r, d)
           \/ ReadRevisions(r)
           \/ \E n \in Numbers : ReadContent(r, n)
           \/ Answer(r)
    PROVE  IInv'
  <1>0. TypeOK /\ ReaderType /\ reader \in [Readers -> {Idle} \cup Reading]
    BY DEF IInv, ReaderType
  <1>1. ASSUME NEW d \in Docs, ReadRow(r, d)
        PROVE  IInv'
    <2> DEFINE rec == [pc |-> "list", doc |-> d, current |-> doc[d].current]
    <2>0. doc[d].current \in 0..MaxRevisions
      BY <1>0, RowFields
    <2>1. doc[d].current \in 0..MaxRevisions /\ doc[d].current <= doc[d].current
      BY <2>0, DocumentAssumption
    <2>2. rec \in Reading
      BY <2>1 DEF Reading
    <2>3. QED BY <1>1, <2>1, <2>2, ReaderStep DEF ReadRow
  <1>2. CASE ReadRevisions(r)
    <2> DEFINE d == reader[r].doc
               rec == [pc |-> "content", doc |-> d, current |-> reader[r].current, list |-> rev[d]]
    <2>1. d \in Docs /\ reader[r].current \in 0..MaxRevisions /\ reader[r].current <= doc[d].current
      BY <1>0, <1>2, ReaderFields DEF IInv, ReaderInv, ReadRevisions
    <2>2. rev[d] \in [Numbers -> {NoRev} \cup Rev] /\ doc[d].current \in 0..MaxRevisions
      BY <1>0, <2>1, RowFields DEF TypeOK
    <2>3. rec \in Reading
      BY <2>1, <2>2 DEF Reading
    <2>4. DocChain(d) /\ Chain(rev[d])
      BY <1>0, <2>1, DocIsChain DEF IInv, ChainInv
    <2>5. reader[r].current > 0 => rev[d][reader[r].current] # NoRev
      BY <2>1, <2>2, <2>4, DocumentAssumption DEF DocChain, HasRev, Numbers
    <2>6. reader' = [reader EXCEPT ![r] = rec] /\ UNCHANGED <<doc, rev, lock, gen, begun, faults>>
      BY <1>2 DEF ReadRevisions
    <2>7. \A n \in Numbers : rev[d][n] # NoRev => HasRev(d, n)
      BY DEF HasRev
    <2>8. rec.pc = "content" /\ rec.doc = d /\ rec.current = reader[r].current /\ rec.list = rev[d]
      OBVIOUS
    <2> HIDE DEF d, rec
    <2>9. QED BY <2>3, <2>4, <2>5, <2>6, <2>7, <2>8, ReaderStep
  <1>3. ASSUME NEW n \in Numbers, ReadContent(r, n)
        PROVE  IInv'
    <2> DEFINE d == reader[r].doc
               rec == [pc |-> "answer", list |-> reader[r].list, current |-> reader[r].current,
                       number |-> n, got |-> rev[d][n], newest |-> n \in CurrentRevision(d)]
    <2>1. reader[r].pc = "content" /\ d \in Docs /\ HasRev(d, n) /\ reader[r].current \in 0..MaxRevisions
            /\ reader[r].list \in [Numbers -> {NoRev} \cup Rev]
      BY <1>0, <1>3, ReaderFields DEF ReadContent
    <2>2. rev[d][n] \in Rev
      BY <1>0, <2>1, RowFields
    <2>3. rec \in Reading
      BY <2>1, <2>2 DEF Reading
    <2>4. rev[d][n].superseded <=> ~(n \in CurrentRevision(d))
      BY <1>0, <2>1, DocIsChain DEF IInv, ChainInv
    <2>5. /\ Chain(reader[r].list)
          /\ reader[r].current > 0 => reader[r].list[reader[r].current] # NoRev
          /\ reader[r].list[n] # NoRev => reader[r].list[n].content = rev[d][n].content
      BY <2>1 DEF IInv, ReaderInv
    <2>6. reader' = [reader EXCEPT ![r] = rec] /\ UNCHANGED <<doc, rev, lock, gen, begun, faults>>
      BY <1>3 DEF ReadContent
    <2>7. /\ rec.pc = "answer" /\ rec.list = reader[r].list /\ rec.current = reader[r].current
          /\ rec.number = n /\ rec.got = rev[d][n] /\ rec.newest = (n \in CurrentRevision(d))
      OBVIOUS
    <2> HIDE DEF d, rec
    <2>8. QED BY <2>3, <2>4, <2>5, <2>6, <2>7, ReaderStep
  <1>4. CASE Answer(r)
    <2>1. Idle.pc = "idle"
      BY DEF Idle
    <2>2. QED BY <1>4, <2>1, ReaderStep DEF Answer
  <1>5. QED BY <1>1, <1>2, <1>3, <1>4

-----------------------------------------------------------------------------
(* The inductive invariant.                                                *)

\* Empty tables and idle requests satisfy it.
LEMMA IInvInit == Init => IInv
  <1> SUFFICES ASSUME Init
               PROVE  IInv
    OBVIOUS
  <1>1. TypeOK /\ ReaderType
    <2>1. Idle.pc = "idle"
      BY DEF Idle
    <2>2. QED BY <2>1, DocumentAssumption DEF Init, TypeOK, ReaderType
  <1>2. \A d \in Docs : ~Exists(d) /\ doc[d].current = 0 /\ \A n \in Numbers : ~HasRev(d, n)
    BY DEF Init, Exists, HasRev, NoDoc
  <1>3. ChainInv
    BY <1>2 DEF ChainInv, DocChain, Numbers
  <1>4. CommitInv /\ AppendInv /\ ReaderInv /\ ReaderSeesChain /\ CreateInv
    BY DEF Init, Idle, CommitInv, AppendInv, ReaderInv, ReaderSeesChain, CreateInv
  <1>5. BornInv
    <2>1. Existing = {}
      BY <1>2 DEF Existing
    <2>2. QED BY <2>1, FS_EmptySet DEF BornInv
  <1>6. OneDocumentPerKey
    BY <1>2 DEF OneDocumentPerKey
  <1>7. QED BY <1>1, <1>3, <1>4, <1>5, <1>6 DEF IInv

\* Every statement, failure and read keeps it.
LEMMA IInvStep == IInv /\ [Next]_vars => IInv'
  <1>1. ASSUME IInv, UNCHANGED vars
        PROVE  IInv'
    BY <1>1, TableFrame, ReaderFrame, GenFrame DEF vars, IInv
  <1>2. ASSUME IInv, Next
        PROVE  IInv'
    BY <1>2, GenerateStep, CreateStep, AppendLockStep, AppendCommitStep, GenerateFailsStep, ReadSteps DEF Next
  <1>3. QED BY <1>1, <1>2

\* The inductive invariant holds in every reachable state of the document store.
THEOREM Inductive == Spec => []IInv
  BY IInvInit, IInvStep, PTL DEF Spec

\* Rows, locks and requests keep their types, and a row is locked exactly by the
\* transaction that is about to commit to it.
THEOREM TypeCorrect == Spec => []TypeOK
  <1>1. IInv => TypeOK
    BY DEF IInv
  <1>2. QED BY <1>1, Inductive, PTL

\* A reader of GetWithRevisions and Content never sees a half-update, however
\* generations overlap it.
THEOREM ReadersSeeChains == Spec => []ReaderSeesChain
  <1>1. IInv => ReaderSeesChain
    BY DEF IInv
  <1>2. QED BY <1>1, Inductive, PTL

\* Generations that do not overlap share the document findExisting finds.
THEOREM UniqueDocument == Spec => []OneDocumentPerKey
  <1>1. IInv => OneDocumentPerKey
    BY DEF IInv
  <1>2. QED BY <1>1, Inductive, PTL

-----------------------------------------------------------------------------
(* The refinement of RevisionLog.                                          *)

\* The two columns of the abstract log, as the instance Log maps them.
LogOf(d) == [n \in 1..doc[d].current |-> rev[d][n].content]

SupersededOf(d) == {n \in Numbers : rev[d][n].superseded}

\* A commit appends one content to its document's log, and supersedes what was there.
LEMMA CommitAppends ==
    ASSUME IInv, NEW g \in Generators, AppendCommit(g)
    PROVE  \E d \in Docs, c \in Contents :
               /\ LogOf(d)' = Append(LogOf(d), c)
               /\ SupersededOf(d)' = 1..Len(LogOf(d))
               /\ \A e \in Docs : e # d => LogOf(e)' = LogOf(e) /\ SupersededOf(e)' = SupersededOf(e)
  <1>0. PICK d \in Docs, n \in 0..MaxRevisions, c \in Contents :
            d = gen[g].doc /\ n = doc[d].current /\ c = gen[g].content
    BY CommitFacts
  <1>1. /\ n + 1 \in Numbers /\ (n \in Numbers => HasRev(d, n)) /\ doc'[d].current = n + 1
        /\ \A e \in Docs : e # d => doc'[e] = doc[e] /\ rev'[e] = rev[e]
        /\ rev'[d] = RevisionsAfter(d, n, c)
    BY <1>0, CommitFacts
  <1>2. n \in Nat /\ n + 1 <= MaxRevisions /\ TypeOK
    BY <1>1, DocumentAssumption DEF IInv, Numbers
  <1>3. /\ rev'[d][n + 1] = [content |-> c, superseded |-> FALSE]
        /\ \A m \in Numbers : m # n /\ m # n + 1 => rev'[d][m] = rev[d][m]
        /\ n \in Numbers => rev'[d][n].superseded /\ rev'[d][n].content = rev[d][n].content
    BY <1>1, <1>2, RevisionsAfterValues
  <1>4. ASSUME NEW m \in 1..n
        PROVE  m \in Numbers /\ m # n + 1 /\ rev'[d][m].content = rev[d][m].content
    <2>1. m \in Numbers /\ m # n + 1
      BY <1>2, <1>4, DocumentAssumption DEF Numbers
    <2>2. m = n => rev'[d][m].content = rev[d][m].content
      BY <1>3, <2>1
    <2>3. m # n => rev'[d][m].content = rev[d][m].content
      BY <1>3, <2>1
    <2>4. QED BY <2>1, <2>2, <2>3
  <1>5. \A m \in 1..n : rev[d][m].content \in Contents
    <2>1. \A m \in 1..n : m \in Numbers /\ HasRev(d, m)
      BY <1>0, <1>2, <1>4 DEF IInv, ChainInv, DocChain
    <2>2. QED BY <1>2, <2>1, RowFields
  <1>6. LogOf(d) \in Seq(Contents) /\ Len(LogOf(d)) = n
    <2>1. LogOf(d) = [m \in 1..n |-> rev[d][m].content]
      BY <1>0 DEF LogOf
    <2>2. QED BY <1>2, <1>5, <2>1
  <1>7. LogOf(d)' = Append(LogOf(d), c)
    <2>1. LogOf(d)' = [m \in 1..(n + 1) |-> rev'[d][m].content]
      BY <1>1 DEF LogOf
    <2>2. /\ Append(LogOf(d), c) \in Seq(Contents) /\ Len(Append(LogOf(d), c)) = n + 1
          /\ \A m \in 1..n : Append(LogOf(d), c)[m] = LogOf(d)[m]
          /\ Append(LogOf(d), c)[n + 1] = c
      BY <1>6, AppendProperties
    <2>3. ASSUME NEW m \in 1..(n + 1)
          PROVE  LogOf(d)'[m] = Append(LogOf(d), c)[m]
      <3>0. LogOf(d)'[m] = rev'[d][m].content
        BY <2>1
      <3>1. CASE m = n + 1
        BY <1>3, <2>2, <3>0, <3>1
      <3>2. CASE m # n + 1
        <4>1. m \in 1..n
          BY <1>2, <3>2
        <4>2. LogOf(d)[m] = rev[d][m].content
          BY <1>0, <4>1 DEF LogOf
        <4>3. QED BY <1>4, <2>2, <3>0, <4>1, <4>2
      <3>3. QED BY <3>1, <3>2
    <2>4. \A m \in 1..(n + 1) : rev'[d][m].content \in Contents
      <3>1. \A m \in 1..n : rev'[d][m].content \in Contents
        BY <1>4, <1>5
      <3>2. rev'[d][n + 1].content = c
        BY <1>3
      <3>3. QED BY <1>2, <3>1, <3>2
    <2>5. LogOf(d)' \in Seq(Contents) /\ Len(LogOf(d)') = n + 1
      BY <1>2, <2>1, <2>4
    <2>6. QED BY <2>2, <2>3, <2>5, SeqEqual
  <1>8. SupersededOf(d)' = 1..Len(LogOf(d))
    <2>1. ASSUME NEW m \in Numbers
          PROVE  rev'[d][m].superseded <=> m \in 1..n
      <3>1. CASE m = n + 1
        <4>1. rev'[d][m].superseded = FALSE /\ m \notin 1..n
          BY <1>2, <1>3, <3>1
        <4>2. QED BY <4>1
      <3>2. CASE m = n
        <4>1. m \in 1..n
          BY <1>2, <3>2 DEF Numbers
        <4>2. QED BY <1>3, <3>2, <4>1
      <3>3. CASE m # n /\ m # n + 1
        <4>1. rev'[d][m] = rev[d][m]
          BY <1>3, <3>3
        <4>2. /\ HasRev(d, m) <=> m <= n
              /\ HasRev(d, m) => (rev[d][m].superseded <=> m < n)
              /\ ~HasRev(d, m) => rev[d][m].superseded = FALSE
          BY <1>0, <1>2, RowFields DEF IInv, ChainInv, DocChain
        <4>3. QED BY <1>2, <3>3, <4>1, <4>2 DEF Numbers
      <3>4. QED BY <3>1, <3>2, <3>3
    <2>2. 1..n \subseteq Numbers
      BY <1>4
    <2>3. SupersededOf(d)' = 1..n
      BY <2>1, <2>2 DEF SupersededOf
    <2>4. QED BY <1>6, <2>3
  <1>9. \A e \in Docs : e # d => LogOf(e)' = LogOf(e) /\ SupersededOf(e)' = SupersededOf(e)
    BY <1>1 DEF LogOf, SupersededOf
  <1>10. QED BY <1>7, <1>8, <1>9

\* A new document is an empty log, as it was before it existed; all other steps
\* leave the tables alone.
LEMMA OthersStutter ==
    ASSUME IInv, [Next]_vars, ~(\E g \in Generators : AppendCommit(g))
    PROVE  \A d \in Docs : LogOf(d)' = LogOf(d) /\ SupersededOf(d)' = SupersededOf(d)
  <1>1. ASSUME \A d \in Docs : doc'[d].current = doc[d].current, rev' = rev
        PROVE  \A d \in Docs : LogOf(d)' = LogOf(d) /\ SupersededOf(d)' = SupersededOf(d)
    BY <1>1 DEF LogOf, SupersededOf
  <1>2. CASE UNCHANGED <<doc, rev>>
    BY <1>1, <1>2
  <1>3. ASSUME NEW g \in Generators, NEW d \in Docs, Create(g, d)
        PROVE  rev' = rev /\ \A e \in Docs : doc'[e].current = doc[e].current
    <2>1. TypeOK /\ ~Exists(d) /\ doc[d].current = 0
      BY <1>3, RowFields DEF IInv, Create
    <2>2. doc' = [doc EXCEPT ![d] = FirstRow(gen[g].key, gen[g].raced)] /\ rev' = rev
      BY <1>3 DEF Create
    <2>3. FirstRow(gen[g].key, gen[g].raced).current = 0
      BY DEF FirstRow
    <2>4. QED BY <2>1, <2>2, <2>3 DEF TypeOK
  <1>4. CASE Next /\ ~UNCHANGED <<doc, rev>>
    <2>1. \E g \in Generators, d \in Docs : Create(g, d)
      BY <1>4 DEF Next, Generate, AppendLock, GenerateFails, ReadRow, ReadRevisions, ReadContent, Answer
    <2>2. QED BY <1>1, <1>3, <2>1
  <1>5. QED BY <1>2, <1>4 DEF vars

\* AppendRevision, with the row lock, the late appearance of its writes, failures
\* and documents created twice, implements an append-only log per document.
THEOREM Refinement == Spec => Implements
  <1> DEFINE log == [d \in Docs |-> [n \in 1..doc[d].current |-> rev[d][n].content]]
             superseded == [d \in Docs |-> {n \in Numbers : rev[d][n].superseded}]
  <1>0. log = [d \in Docs |-> LogOf(d)] /\ superseded = [d \in Docs |-> SupersededOf(d)]
    BY DEF LogOf, SupersededOf
  <1>1. Init => Log!Init
    <2> SUFFICES ASSUME Init
                 PROVE  Log!Init
      OBVIOUS
    <2>1. \A d \in Docs : doc[d].current = 0 /\ \A n \in Numbers : rev[d][n].superseded = FALSE
      BY DEF Init, NoDoc, NoRev
    <2>2. \A d \in Docs : LogOf(d) = <<>> /\ SupersededOf(d) = {}
      BY <2>1 DEF LogOf, SupersededOf
    <2>3. QED BY <1>0, <2>2 DEF Log!Init
  <1>2. IInv /\ [Next]_vars => [Log!Next]_<<log, superseded>>
    <2> SUFFICES ASSUME IInv, [Next]_vars
                 PROVE  [Log!Next]_<<log, superseded>>
      OBVIOUS
    <2>0. log' = [d \in Docs |-> LogOf(d)'] /\ superseded' = [d \in Docs |-> SupersededOf(d)']
      BY DEF LogOf, SupersededOf
    <2>1. ASSUME NEW g \in Generators, AppendCommit(g)
          PROVE  Log!Next
      <3>1. PICK d \in Docs, c \in Contents :
                /\ LogOf(d)' = Append(LogOf(d), c)
                /\ SupersededOf(d)' = 1..Len(LogOf(d))
                /\ \A e \in Docs : e # d => LogOf(e)' = LogOf(e) /\ SupersededOf(e)' = SupersededOf(e)
        BY <2>1, CommitAppends
      <3>2. log' = [log EXCEPT ![d] = Append(log[d], c)]
        <4> HIDE DEF log, superseded
        <4>1. QED BY <1>0, <2>0, <3>1
      <3>3. superseded' = [superseded EXCEPT ![d] = 1..Len(log[d])]
        <4> HIDE DEF log, superseded
        <4>1. QED BY <1>0, <2>0, <3>1
      <3>4. Log!AppendRevision(d, c)
        BY <3>2, <3>3 DEF Log!AppendRevision
      <3>5. QED BY <3>4 DEF Log!Next
    <2>2. CASE ~(\E g \in Generators : AppendCommit(g))
      BY <1>0, <2>0, <2>2, OthersStutter
    <2>3. QED BY <2>1, <2>2
  <1>3. QED BY <1>1, <1>2, Inductive, PTL DEF Spec, Implements, Log!Spec
=============================================================================
