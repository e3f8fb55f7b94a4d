---------------------------- MODULE BackupProofs ----------------------------
(***************************************************************************)
(* Theorems about Backup: types, and that the restore plan gives back what *)
(* was written before its last backup.                                     *)
(***************************************************************************)
EXTENDS Backup, TLAPS

Row == [version : Versions, updated : 0..MaxTime]

Typed ==
    /\ row \in [Rows -> Row]
    /\ write = None \/ write \in [row : Rows, updated : 0..MaxTime]
    /\ job \in [Jobs -> {Idle} \cup Taking]
    /\ index \subseteq File
    /\ late \subseteq Rows /\ clock \in 0..MaxTime /\ faults \in Nat

\* A row is inserted or changed at most once for every reading of the clock.
VersionInv ==
    /\ \A r \in Rows : row[r].version <= clock
    /\ write # None => row[write.row].version < clock

\* The files of the backups entered or being taken.
Files == index \cup {job[j].file : j \in {i \in Jobs : job[i] # Idle}}

\* Every reading of the clock is an instant of its own: the times of backups differ
\* from each other and from the stamps of rows.
TimeInv ==
    /\ \A f \in Files : f.taken < clock
    /\ \A b, c \in index : b # c => b.taken # c.taken
    /\ \A j \in Jobs : job[j] # Idle => /\ \A b \in index : b.taken # job[j].file.taken
                                        /\ \A i \in Jobs : job[i] # Idle /\ job[i].file.taken = job[j].file.taken => i = j
    /\ \A r \in Rows : Exists(r) => row[r].updated < clock /\ \A f \in Files : f.taken # row[r].updated
    /\ write # None => write.updated < clock /\ \A f \in Files : f.taken # write.updated

\* A baseline is the time of an earlier backup in the index; there is none for a
\* full backup.
BaselineInv ==
    \A f \in Files : /\ f.since < f.taken
                     /\ f.kind = "full" => f.since = -1
                     /\ f.since = -1 \/ \E b \in index : b.taken = f.since

\* A dump with the baseline of f selects row r as it is now.
Selects(f, r) == f.since >= 0 /\ TableOf[r] \in Stamped => row[r].updated > f.since

\* What f holds of row r, unless r was written after f was taken, is late, gone or
\* f lacks its table.
Holds(f, r) ==
    Exists(r) /\ r \notin late /\ TableOf[r] \notin f.skipped /\ row[r].updated < f.taken
        => f.data[r] = IF Selects(f, r) THEN row[r].version ELSE None

\* The table of r is one of those that job j has come past.
Past(j, r) == \E i \in 1..(job[j].next - 1) : Tables[i] = TableOf[r]

DumpInv ==
    /\ \A f \in index, r \in Rows : Holds(f, r)
    /\ \A j \in Jobs, r \in Rows : job[j] # Idle =>
           IF Past(j, r) THEN Holds(job[j].file, r) ELSE job[j].file.data[r] = None

\* Among any backups of the index there is a first and a last one.
IndexInv ==
    \A bs \in SUBSET index : bs # {} => /\ \E b \in bs : \A c \in bs : c.taken <= b.taken
                                        /\ \E b \in bs : \A c \in bs : b.taken <= c.taken

IInv == Typed /\ VersionInv /\ TimeInv /\ BaselineInv /\ DumpInv /\ IndexInv
-----------------------------------------------------------------------------
(* Backups under way and the files they fill.                              *)

\* What a backup under way is.
LEMMA JobFields ==
    ASSUME Typed, NEW j \in Jobs, job[j] # Idle
    PROVE  /\ job[j] \in Taking /\ job[j].pc = "dump"
           /\ job[j].next \in 1..(Len(Tables) + 1) /\ Len(Tables) \in Nat
           /\ job[j].file \in File /\ job[j].file \in Files
  <1>1. job[j] \in Taking
    BY DEF Typed
  <1>2. Len(Tables) \in Nat
    BY BackupAssumption
  <1>3. job[j].file \in Files
    BY DEF Files
  <1>4. QED BY <1>1, <1>2, <1>3 DEF Taking

\* What a file is.
LEMMA FileFields ==
    ASSUME NEW f \in File
    PROVE  /\ f.kind \in Kinds /\ f.taken \in 0..MaxTime /\ f.since \in -1..MaxTime
           /\ f.data \in [Rows -> Versions \cup {None}] /\ f.skipped \subseteq Range(Tables)
           /\ [f EXCEPT !.taken = f.taken] = f
  BY DEF File

\* The files of entered and of running backups are files.
LEMMA FilesTyped ==
    ASSUME Typed
    PROVE  Files \subseteq File
  BY JobFields DEF Files, Typed

\* The times of backups and rows are numbers.
LEMMA TimesAre ==
    ASSUME Typed
    PROVE  /\ clock \in Nat /\ MaxTime \in Nat
           /\ \A f \in Files : f.taken \in Int /\ f.since \in Int
           /\ \A r \in Rows : row[r].updated \in Nat /\ row[r].version \in Int
           /\ write # None => write.row \in Rows /\ write.updated \in Nat
  <1>1. MaxTime \in Nat
    BY BackupAssumption
  <1>2. \A f \in Files : f.taken \in Int /\ f.since \in Int
    BY <1>1, FilesTyped, FileFields
  <1>3. \A r \in Rows : row[r].updated \in Nat /\ row[r].version \in Int
    BY <1>1 DEF Typed, Row, Versions
  <1>4. QED BY <1>1, <1>2, <1>3 DEF Typed

-----------------------------------------------------------------------------
(* Steps of writers.                                                       *)

\* A write begins at an instant that no backup was taken at.
LEMMA StepBeginWrite ==
    ASSUME IInv, NEW r \in Rows, BeginWrite(r)
    PROVE  IInv'
  <1>1. /\ write = None /\ clock < MaxTime /\ clock' = clock + 1
        /\ write' = [row |-> r, updated |-> clock]
        /\ UNCHANGED <<row, job, index, late, faults>>
    BY DEF BeginWrite, Now
  <1>2. Files' = Files
    BY <1>1 DEF Files
  <1>t. Typed
    BY DEF IInv
  <1>3. write' # None => write'.row = r /\ write'.updated = clock
    BY <1>1
  <1>4. Typed'
    <2>1. clock \in 0..MaxTime /\ clock' \in 0..MaxTime
      BY <1>1, <1>t, TimesAre DEF Typed
    <2>2. write' \in [row : Rows, updated : 0..MaxTime]
      BY <1>1, <2>1
    <2>3. QED BY <1>1, <1>t, <2>1, <2>2 DEF Typed
  <1>5. VersionInv'
    BY <1>1, <1>3, <1>t, TimesAre DEF IInv, VersionInv
  <1>6. TimeInv'
    <2>1. (\A f \in Files : f.taken < clock) /\ (\A q \in Rows : Exists(q) => row[q].updated < clock)
      BY DEF IInv, TimeInv
    <2>2. (\A f \in Files : f.taken < clock' /\ f.taken # clock) /\ (\A q \in Rows : Exists(q) => row[q].updated < clock')
      BY <1>1, <1>t, <2>1, TimesAre
    <2>3. write' # None => write'.updated < clock' /\ \A f \in Files : f.taken # write'.updated
      BY <1>1, <1>3, <1>t, <2>2, TimesAre
    <2>4. QED BY <1>1, <1>2, <2>2, <2>3 DEF IInv, TimeInv, Exists
  <1>7. BaselineInv'
    BY <1>1, <1>2 DEF IInv, BaselineInv
  <1>8. DumpInv'
    BY <1>1 DEF IInv, DumpInv, Holds, Selects, Past, Exists
  <1>9. IndexInv'
    BY <1>1 DEF IInv, IndexInv
  <1>10. QED BY <1>4, <1>5, <1>6, <1>7, <1>8, <1>9 DEF IInv

\* A row that is gone stays as it is and is not asked about.
LEMMA StepDeleteRow ==
    ASSUME IInv, NEW r \in Rows, DeleteRow(r)
    PROVE  IInv'
  <1>1. row' = [row EXCEPT ![r] = Deleted] /\ UNCHANGED <<write, job, index, late, clock, faults>>
    BY DEF DeleteRow
  <1>t. Typed
    BY DEF IInv
  <1>2. Files' = Files
    BY <1>1 DEF Files
  <1>3. \A q \in Rows : row'[q] = IF q = r THEN Deleted ELSE row[q]
    BY <1>1, <1>t DEF Typed
  <1>4. Deleted.version = -1
    BY DEF Deleted
  <1>5. \A q \in Rows : Exists(q)' => Exists(q) /\ row'[q] = row[q]
    BY <1>3, <1>4 DEF Exists
  <1>6. Typed'
    <2>1. Deleted \in Row
      BY <1>t, TimesAre DEF Deleted, Row, Versions
    <2>2. QED BY <1>1, <1>t, <2>1 DEF Typed
  <1>7. VersionInv'
    <2>1. \A q \in Rows : row'[q].version <= clock
      BY <1>3, <1>4, <1>t, TimesAre DEF IInv, VersionInv
    <2>2. write # None => row'[write.row].version < clock
      BY <1>3, <1>4, <1>t, TimesAre DEF IInv, VersionInv
    <2>3. QED BY <1>1, <2>1, <2>2 DEF VersionInv
  <1>8. TimeInv'
    <2>1. \A q \in Rows : Exists(q)' => row'[q].updated < clock /\ \A f \in Files : f.taken # row'[q].updated
      BY <1>5 DEF IInv, TimeInv
    <2>2. QED BY <1>1, <1>2, <2>1 DEF IInv, TimeInv
  <1>9. BaselineInv'
    BY <1>1, <1>2 DEF IInv, BaselineInv
  <1>10. DumpInv'
    <2>1. ASSUME NEW f, NEW q \in Rows, Holds(f, q)
          PROVE  Holds(f, q)'
      BY <1>1, <1>5, <2>1 DEF Holds, Selects
    <2>2. \A f, q : q \in Rows /\ Holds(f, q) => Holds(f, q)'
      BY <2>1
    <2>3. \A j \in Jobs, q \in Rows : Past(j, q)' = Past(j, q)
      BY <1>1 DEF Past
    <2>4. QED BY <1>1, <2>2, <2>3 DEF IInv, DumpInv
  <1>11. IndexInv'
    BY <1>1 DEF IInv, IndexInv
  <1>12. QED BY <1>6, <1>7, <1>8, <1>9, <1>10, <1>11 DEF IInv

\* Whoever holds an older version of the row with a later time makes it late.
LEMMA StepCommitWrite ==
    ASSUME IInv, CommitWrite
    PROVE  IInv'
  <1> DEFINE r == write.row
             s == IF TableOf[r] \in Stamped THEN write.updated ELSE clock
  <1>t. Typed
    BY DEF IInv
  <1>1. /\ write # None /\ write' = None /\ UNCHANGED <<job, index, faults>> /\ r \in Rows
        /\ IF TableOf[r] \in Stamped THEN clock' = clock ELSE clock < MaxTime /\ clock' = clock + 1
    <2>1. write # None /\ write' = None /\ UNCHANGED <<job, index, faults>>
      BY DEF CommitWrite
    <2>2. r \in Rows
      BY <1>t, <2>1 DEF Typed
    <2>3. IF TableOf[r] \in Stamped THEN clock' = clock ELSE clock < MaxTime /\ clock' = clock + 1
      BY DEF CommitWrite, Now
    <2>4. QED BY <2>1, <2>2, <2>3
  <1>2. \/ UNCHANGED <<row, late>>
        \/ /\ row' = [row EXCEPT ![r] = [version |-> row[r].version + 1, updated |-> s]]
           /\ late' = IF DumpedBefore(r, s) THEN late \cup {r} ELSE late \ {r}
    BY DEF CommitWrite
  <1>3. Files' = Files
    BY <1>1 DEF Files
  <1>4. clock \in 0..MaxTime /\ clock' \in 0..MaxTime /\ clock <= clock'
    BY <1>1, <1>t, TimesAre DEF Typed
  <1>5. /\ s \in Nat /\ s < clock' /\ s <= MaxTime
        /\ \A f \in Files : f.taken # s
    <2>1. CASE TableOf[r] \in Stamped
      <3>1. s = write.updated /\ write.updated \in 0..MaxTime
        BY <1>1, <1>t, <2>1 DEF Typed
      <3>2. s < clock /\ \A f \in Files : f.taken # s
        BY <1>1, <3>1 DEF IInv, TimeInv
      <3>3. QED BY <1>4, <3>1, <3>2, <1>t, TimesAre
    <2>2. CASE TableOf[r] \notin Stamped
      <3>1. s = clock /\ clock' = clock + 1
        BY <1>1, <2>2
      <3>2. \A f \in Files : f.taken # clock
        BY <1>t, TimesAre DEF IInv, TimeInv
      <3>3. QED BY <1>4, <3>1, <3>2, <1>t, TimesAre
    <2>3. QED BY <2>1, <2>2
  <1>6. \A q \in Rows : q # r => row'[q] = row[q] /\ (q \in late' <=> q \in late)
    BY <1>2, <1>t DEF Typed
  <1>7. \/ UNCHANGED <<row, late>>
        \/ /\ row'[r].version = row[r].version + 1 /\ row'[r].updated = s
           /\ late' = IF DumpedBefore(r, s) THEN late \cup {r} ELSE late \ {r}
    BY <1>1, <1>2, <1>t DEF Typed
  <1>8. row[r].version < clock /\ row[r].version \in Versions /\ MaxTime \in Nat
    BY <1>1, <1>t, TimesAre DEF IInv, VersionInv, Typed, Row
  <1> HIDE DEF s
  <1>9. Typed'
    <2>1. [version |-> row[r].version + 1, updated |-> s] \in Row
      BY <1>4, <1>5, <1>8 DEF Row, Versions
    <2>2. row' \in [Rows -> Row]
      BY <1>2, <1>t, <2>1 DEF Typed
    <2>3. late' \subseteq Rows
      BY <1>1, <1>2, <1>t DEF Typed
    <2>4. QED BY <1>1, <1>4, <1>t, <2>2, <2>3 DEF Typed
  <1>10. VersionInv'
    <2>1. \A q \in Rows : q # r => row'[q].version <= clock'
      BY <1>4, <1>6, <1>t, TimesAre DEF IInv, VersionInv
    <2>2. row'[r].version <= clock'
      BY <1>4, <1>7, <1>8, <1>t, TimesAre DEF Versions
    <2>3. QED BY <1>1, <2>1, <2>2 DEF VersionInv
  <1>11. TimeInv'
    <2>1. \A f \in Files : f.taken < clock'
      BY <1>4, <1>t, TimesAre DEF IInv, TimeInv
    <2>2. \A q \in Rows : Exists(q)' => row'[q].updated < clock' /\ \A f \in Files : f.taken # row'[q].updated
      <3>1. ASSUME NEW q \in Rows, Exists(q)', row'[q] = row[q]
            PROVE  row'[q].updated < clock' /\ \A f \in Files : f.taken # row'[q].updated
        BY <1>4, <1>t, <3>1, TimesAre DEF IInv, TimeInv, Exists
      <3>2. QED BY <1>5, <1>6, <1>7, <3>1
    <2>3. QED BY <1>1, <1>3, <2>1, <2>2 DEF IInv, TimeInv
  <1>12. BaselineInv'
    BY <1>1, <1>3 DEF IInv, BaselineInv
  <1>13. DumpInv'
    <2>1. ASSUME NEW f, NEW q \in Rows, Holds(f, q), row'[q] = row[q], q \in late' <=> q \in late
          PROVE  Holds(f, q)'
      BY <2>1 DEF Holds, Selects, Exists
    <2>2. ASSUME NEW f \in index, NEW q \in Rows
          PROVE  Holds(f, q)'
      <3>1. Holds(f, q)
        BY DEF IInv, DumpInv
      <3>2. CASE f.taken > s
        <4>1. DumpedBefore(r, s)
          BY <3>2 DEF DumpedBefore
        <4>2. UNCHANGED <<row, late>> \/ late' = late \cup {r}
          BY <1>7, <4>1
        <4>3. QED BY <1>6, <2>1, <3>1, <4>2 DEF Holds
      <3>3. CASE ~(f.taken > s)
        <4>1. ~(s < f.taken)
          BY <1>5, <1>t, <3>3, TimesAre DEF Files
        <4>2. QED BY <1>6, <1>7, <2>1, <3>1, <4>1 DEF Holds
      <3>4. QED BY <3>2, <3>3
    <2>3. ASSUME NEW j \in Jobs, NEW q \in Rows, job[j] # Idle
          PROVE  IF Past(j, q) THEN Holds(job[j].file, q)' ELSE job[j].file.data[q] = None
      <3>1. IF Past(j, q) THEN Holds(job[j].file, q) ELSE job[j].file.data[q] = None
        BY <2>3 DEF IInv, DumpInv
      <3>2. CASE Past(j, q) /\ job[j].file.taken > s
        <4>1. q = r => DumpedBefore(r, s)
          BY <2>3, <3>2 DEF DumpedBefore, Past
        <4>2. q = r => UNCHANGED <<row, late>> \/ late' = late \cup {r}
          BY <1>7, <4>1
        <4>3. Holds(job[j].file, q)'
          BY <1>1, <1>6, <2>1, <3>1, <3>2, <4>2 DEF Holds
        <4>4. QED BY <3>2, <4>3
      <3>3. CASE ~(job[j].file.taken > s)
        <4>1. ~(s < job[j].file.taken)
          BY <1>5, <1>t, <2>3, <3>3, TimesAre, JobFields
        <4>2. Holds(job[j].file, q) => Holds(job[j].file, q)'
          BY <1>1, <1>6, <1>7, <2>1, <4>1 DEF Holds
        <4>3. QED BY <3>1, <4>2
      <3>4. QED BY <3>1, <3>2, <3>3
    <2>4. \A j \in Jobs, q \in Rows : Past(j, q)' = Past(j, q)
      BY <1>1 DEF Past
    <2>5. QED BY <1>1, <2>2, <2>3, <2>4 DEF DumpInv
  <1>14. IndexInv'
    BY <1>1 DEF IInv, IndexInv
  <1>15. QED BY <1>9, <1>10, <1>11, <1>12, <1>13, <1>14 DEF IInv

-----------------------------------------------------------------------------
(* Steps of backups.                                                       *)

\* The baseline found in the index is the time of one of its backups.
LEMMA Baseline ==
    \/ Since(LastSuccessful) = -1
    \/ \E b \in index : Since(LastSuccessful) = b.taken
  <1>1. CASE LastSuccessful = {}
    BY <1>1 DEF Since
  <1>2. CASE LastSuccessful # {}
    <2>1. {b.taken : b \in LastSuccessful} # {}
      BY <1>2
    <2>2. Since(LastSuccessful) \in {b.taken : b \in LastSuccessful}
      BY <1>2, <2>1 DEF Since
    <2>3. LastSuccessful \subseteq index
      BY DEF LastSuccessful, Latest
    <2>4. QED BY <2>2, <2>3
  <1>3. QED BY <1>1, <1>2

\* A backup begins at an instant of its own, with the time of an earlier one or none.
LEMMA StepTake ==
    ASSUME IInv, NEW j \in Jobs, NEW kind \in Kinds, Take(j, kind)
    PROVE  IInv'
  <1> DEFINE since == IF kind = "full" THEN -1 ELSE Since(LastSuccessful)
             file == [kind |-> kind, taken |-> clock, since |-> since,
                      data |-> [r \in Rows |-> None], skipped |-> {}]
             begun == [pc |-> "dump", next |-> 1, file |-> file]
  <1>t. Typed
    BY DEF IInv
  <1>1. /\ job[j] = Idle /\ clock < MaxTime /\ clock' = clock + 1
        /\ job' = [job EXCEPT ![j] = begun]
        /\ UNCHANGED <<row, write, index, late, faults>>
    BY DEF Take, Now
  <1>2. since = -1 \/ (\E b \in index : b.taken = since)
    <2>1. CASE kind = "full"
      BY <2>1
    <2>2. CASE kind # "full"
      <3>1. since = Since(LastSuccessful)
        BY <2>2
      <3>2. QED BY <3>1, Baseline
    <2>3. QED BY <2>1, <2>2
  <1>3. \A b \in index : b.taken \in 0..MaxTime
    BY <1>t, FileFields DEF Typed
  <1>4. since \in -1..MaxTime /\ since < clock
    <2>1. MaxTime \in Nat /\ clock \in Nat
      BY <1>t, TimesAre
    <2>2. \A b \in index : b.taken < clock
      BY DEF IInv, TimeInv, Files
    <2>3. QED BY <1>2, <1>3, <2>1, <2>2
  <1> HIDE DEF since
  <1>5. /\ file.kind = kind /\ file.taken = clock /\ file.since = since
        /\ file.data = [r \in Rows |-> None] /\ file.skipped = {}
    OBVIOUS
  <1>6. file \in File
    <2>1. clock \in 0..MaxTime
      BY <1>t DEF Typed
    <2>2. QED BY <1>4, <2>1 DEF File
  <1>7. begun.pc = "dump" /\ begun.next = 1 /\ begun.file = file
    OBVIOUS
  <1> HIDE DEF file
  <1>8. begun \in Taking /\ begun # Idle
    <2>1. Len(Tables) \in Nat
      BY BackupAssumption
    <2>2. begun \in Taking
      BY <1>6, <2>1 DEF Taking
    <2>3. begun # Idle
      BY <1>7 DEF Idle
    <2>4. QED BY <2>2, <2>3
  <1> HIDE DEF begun
  <1>9. job'[j] = begun /\ \A i \in Jobs : i # j => job'[i] = job[i]
    BY <1>1, <1>t DEF Typed
  <1>10. Files' = Files \cup {file}
    <2>1. {job'[i].file : i \in {k \in Jobs : job'[k] # Idle}} = {job[i].file : i \in {k \in Jobs : job[k] # Idle}} \cup {file}
      <3>1. {k \in Jobs : job'[k] # Idle} = {k \in Jobs : job[k] # Idle} \cup {j}
        BY <1>8, <1>9
      <3>2. QED BY <1>1, <1>7, <1>9, <3>1
    <2>2. QED BY <1>1, <2>1 DEF Files
  <1>11. clock \in 0..MaxTime /\ clock' \in 0..MaxTime /\ clock < clock'
    BY <1>1, <1>t, TimesAre DEF Typed
  <1>12. Typed'
    BY <1>1, <1>8, <1>11, <1>t DEF Typed
  <1>13. VersionInv'
    BY <1>1, <1>11, <1>t, TimesAre DEF IInv, VersionInv
  <1>14. TimeInv'
    <2>1. \A f \in Files : f.taken < clock /\ f.taken # clock
      BY <1>t, TimesAre DEF IInv, TimeInv
    <2>2. \A f \in Files' : f.taken < clock'
      BY <1>5, <1>10, <1>11, <1>t, <2>1, TimesAre
    <2>3. ASSUME NEW i \in Jobs, job'[i] # Idle
          PROVE  /\ \A b \in index : b.taken # job'[i].file.taken
                 /\ \A k \in Jobs : job'[k] # Idle /\ job'[k].file.taken = job'[i].file.taken => k = i
      <3>1. \A b \in index : b.taken # clock
        BY <2>1 DEF Files
      <3>2. \A k \in Jobs : k # j /\ job'[k] # Idle => job'[k].file.taken # clock
        BY <1>9, <2>1 DEF Files
      <3>3. job'[j].file.taken = clock
        BY <1>5, <1>7, <1>9
      <3>4. CASE i = j
        BY <3>1, <3>2, <3>3, <3>4
      <3>5. CASE i # j
        BY <1>9, <2>3, <3>2, <3>3, <3>5 DEF IInv, TimeInv
      <3>6. QED BY <3>4, <3>5
    <2>4. \A r \in Rows : Exists(r)' => row'[r].updated < clock' /\ \A f \in Files' : f.taken # row'[r].updated
      <3>1. ASSUME NEW r \in Rows, Exists(r)
            PROVE  row[r].updated < clock' /\ \A f \in Files' : f.taken # row[r].updated
        <4>1. row[r].updated < clock /\ \A f \in Files : f.taken # row[r].updated
          BY <3>1 DEF IInv, TimeInv
        <4>2. QED BY <1>5, <1>10, <1>11, <1>t, <4>1, TimesAre
      <3>2. QED BY <1>1, <3>1 DEF Exists
    <2>5. write # None => write.updated < clock' /\ \A f \in Files' : f.taken # write.updated
      <3>1. write # None => write.updated < clock /\ \A f \in Files : f.taken # write.updated
        BY DEF IInv, TimeInv
      <3>2. QED BY <1>5, <1>10, <1>11, <1>t, <3>1, TimesAre
    <2>6. QED BY <1>1, <2>2, <2>3, <2>4, <2>5 DEF IInv, TimeInv
  <1>15. BaselineInv'
    <2>1. file.since < file.taken /\ (file.kind = "full" => file.since = -1)
      BY <1>2, <1>4, <1>5 DEF since
    <2>2. file.since = -1 \/ \E b \in index : b.taken = file.since
      BY <1>2, <1>5
    <2>3. QED BY <1>1, <1>10, <2>1, <2>2 DEF IInv, BaselineInv
  <1>16. DumpInv'
    <2>1. \A f, r : Holds(f, r)' = Holds(f, r)
      BY <1>1 DEF Holds, Exists, Selects
    <2>2. ASSUME NEW i \in Jobs, NEW r \in Rows, job'[i] # Idle
          PROVE  IF Past(i, r)' THEN Holds(job'[i].file, r) ELSE job'[i].file.data[r] = None
      <3>1. CASE i = j
        <4>1. ~Past(i, r)'
          BY <1>7, <1>9, <3>1 DEF Past
        <4>2. job'[i].file.data[r] = None
          BY <1>5, <1>7, <1>9, <3>1
        <4>3. QED BY <4>1, <4>2
      <3>2. CASE i # j
        <4>1. job'[i] = job[i] /\ Past(i, r)' = Past(i, r)
          BY <1>9, <3>2 DEF Past
        <4>2. QED BY <2>2, <4>1 DEF IInv, DumpInv
      <3>3. QED BY <3>1, <3>2
    <2>3. QED BY <1>1, <2>1, <2>2 DEF IInv, DumpInv
  <1>17. IndexInv'
    BY <1>1 DEF IInv, IndexInv
  <1>18. QED BY <1>12, <1>13, <1>14, <1>15, <1>16, <1>17 DEF IInv

\* A backup under way goes on to the next table with a file of the same time and
\* baseline, in which every row of the tables it has come past is as DumpInv says.
LEMMA Refiled ==
    ASSUME IInv, NEW j \in Jobs, job[j] # Idle, NEW new \in Taking,
           job' = [job EXCEPT ![j] = new], UNCHANGED <<row, write, index, late, clock>>, faults' \in Nat,
           new.file.kind = job[j].file.kind, new.file.taken = job[j].file.taken,
           new.file.since = job[j].file.since,
           \A r \in Rows : IF \E i \in 1..(new.next - 1) : Tables[i] = TableOf[r]
                           THEN Holds(new.file, r) ELSE new.file.data[r] = None
    PROVE  IInv'
  <1>t. Typed
    BY DEF IInv
  <1>1. new # Idle
    BY DEF Taking, Idle
  <1>2. job'[j] = new /\ \A i \in Jobs : i # j => job'[i] = job[i]
    BY <1>t DEF Typed
  <1>3. \A f \in Files' : \E g \in Files : f.kind = g.kind /\ f.taken = g.taken /\ f.since = g.since
    <2>1. ASSUME NEW i \in Jobs, job'[i] # Idle
          PROVE  \E g \in Files : job'[i].file.kind = g.kind /\ job'[i].file.taken = g.taken /\ job'[i].file.since = g.since
      <3>1. CASE i = j
        BY <1>2, <3>1 DEF Files
      <3>2. CASE i # j
        BY <1>2, <2>1, <3>2 DEF Files
      <3>3. QED BY <3>1, <3>2
    <2>2. QED BY <2>1 DEF Files
  <1>4. Typed'
    BY <1>t DEF Typed
  <1>5. VersionInv'
    BY DEF IInv, VersionInv
  <1>6. TimeInv'
    <2>1. \A f \in Files' : /\ f.taken < clock
                            /\ \A r \in Rows : Exists(r) => f.taken # row[r].updated
                            /\ write # None => f.taken # write.updated
      BY <1>3 DEF IInv, TimeInv
    <2>2. ASSUME NEW i \in Jobs, job'[i] # Idle
          PROVE  job[i] # Idle /\ job'[i].file.taken = job[i].file.taken
      BY <1>2, <2>2
    <2>3. \A i \in Jobs : job'[i] # Idle => /\ \A b \in index : b.taken # job'[i].file.taken
                                            /\ \A k \in Jobs : job'[k] # Idle /\ job'[k].file.taken = job'[i].file.taken => k = i
      BY <2>2 DEF IInv, TimeInv
    <2>4. (\A r \in Rows : Exists(r) => row[r].updated < clock) /\ (write # None => write.updated < clock)
      BY DEF IInv, TimeInv
    <2>5. \A b, c \in index : b # c => b.taken # c.taken
      BY DEF IInv, TimeInv
    <2>6. QED BY <2>1, <2>3, <2>4, <2>5 DEF TimeInv, Exists
  <1>7. BaselineInv'
    BY <1>3 DEF IInv, BaselineInv
  <1>8. DumpInv'
    <2>1. \A f, r : Holds(f, r)' = Holds(f, r)
      BY DEF Holds, Exists, Selects
    <2>2. ASSUME NEW i \in Jobs, NEW r \in Rows, job'[i] # Idle
          PROVE  IF Past(i, r)' THEN Holds(job'[i].file, r) ELSE job'[i].file.data[r] = None
      <3>1. CASE i = j
        BY <1>2, <3>1 DEF Past
      <3>2. CASE i # j
        <4>1. job'[i] = job[i] /\ Past(i, r)' = Past(i, r)
          BY <1>2, <3>2 DEF Past
        <4>2. QED BY <2>2, <4>1 DEF IInv, DumpInv
      <3>3. QED BY <3>1, <3>2
    <2>3. QED BY <2>1, <2>2 DEF IInv, DumpInv
  <1>9. IndexInv'
    BY DEF IInv, IndexInv
  <1>10. QED BY <1>4, <1>5, <1>6, <1>7, <1>8, <1>9 DEF IInv

\* What one more dump makes of a row: its table is past, or was before.
LEMMA PastNext ==
    ASSUME Typed, NEW j \in Jobs, job[j] # Idle, NEW r \in Rows, NEW n, n = job[j].next + 1
    PROVE  (\E i \in 1..(n - 1) : Tables[i] = TableOf[r])
               <=> Past(j, r) \/ Tables[job[j].next] = TableOf[r]
  <1>1. job[j].next \in Nat \ {0}
    BY JobFields
  <1>2. 1..(n - 1) = 1..(job[j].next - 1) \cup {job[j].next}
    BY <1>1
  <1>3. QED BY <1>2 DEF Past

\* A dump takes every row it selects as it is now.
LEMMA StepDumpTable ==
    ASSUME IInv, NEW j \in Jobs, DumpTable(j)
    PROVE  IInv'
  <1> DEFINE file == job[j].file
             t == Tables[job[j].next]
             dumped == Dumped(file, t)
             new == [job[j] EXCEPT !.file = dumped, !.next = job[j].next + 1]
  <1>t. Typed
    BY DEF IInv
  <1>1. /\ job[j] # Idle /\ job[j].next <= Len(Tables)
        /\ job' = [job EXCEPT ![j].file = Dumped(@, Tables[job[j].next]), ![j].next = @ + 1]
        /\ UNCHANGED <<row, write, index, late, clock, faults>>
    BY DEF DumpTable
  <1>2. job[j] \in Taking /\ file \in File /\ job[j].next \in 1..(Len(Tables) + 1) /\ Len(Tables) \in Nat
    BY <1>1, <1>t, JobFields
  <1>3. dumped = [file EXCEPT !.data = [r \in Rows |-> IF r \in Selected(t, file.since) THEN row[r].version ELSE file.data[r]]]
    BY DEF Dumped
  <1>4. /\ dumped.kind = file.kind /\ dumped.taken = file.taken /\ dumped.since = file.since
        /\ dumped.skipped = file.skipped
        /\ \A r \in Rows : dumped.data[r] = IF r \in Selected(t, file.since) THEN row[r].version ELSE file.data[r]
    BY <1>2, <1>3 DEF File
  <1>5. dumped \in File
    <2>1. \A r \in Rows : row[r].version \in Versions
      BY <1>t DEF Typed, Row
    <2>2. [r \in Rows |-> IF r \in Selected(t, file.since) THEN row[r].version ELSE file.data[r]] \in [Rows -> Versions \cup {None}]
      BY <1>2, <2>1, FileFields
    <2>3. QED BY <1>2, <1>3, <2>2 DEF File
  <1> HIDE DEF dumped
  <1>6. new \in Taking /\ new.file = dumped /\ new.next = job[j].next + 1
    <2> HIDE DEF dumped
    <2>1. job[j].next + 1 \in 1..(Len(Tables) + 1)
      BY <1>1, <1>2
    <2>2. new.pc = job[j].pc /\ new.file = dumped /\ new.next = job[j].next + 1
      BY <1>2 DEF Taking
    <2>3. new \in Taking
      BY <1>2, <1>5, <2>1 DEF Taking
    <2>4. QED BY <2>2, <2>3
  <1>7. job' = [job EXCEPT ![j] = new]
    BY <1>1, <1>t DEF Typed, dumped
  <1>8. ASSUME NEW r \in Rows
        PROVE  IF \E i \in 1..(new.next - 1) : Tables[i] = TableOf[r] THEN Holds(new.file, r) ELSE new.file.data[r] = None
    <2>1. IF Past(j, r) THEN Holds(file, r) ELSE file.data[r] = None
      BY <1>1 DEF IInv, DumpInv
    <2>2. (\E i \in 1..(new.next - 1) : Tables[i] = TableOf[r]) <=> Past(j, r) \/ t = TableOf[r]
      <3>1. new.next = job[j].next + 1
        BY <1>6
      <3> HIDE DEF new
      <3>2. QED BY <1>1, <1>t, <3>1, PastNext
    <2>3. r \in Selected(t, file.since) <=> t = TableOf[r] /\ Exists(r) /\ Selects(file, r)
      BY DEF Selected, Selects
    <2>4. Holds(dumped, r) <=>
              (Exists(r) /\ r \notin late /\ TableOf[r] \notin file.skipped /\ row[r].updated < file.taken
                   => dumped.data[r] = IF Selects(file, r) THEN row[r].version ELSE None)
      BY <1>4 DEF Holds, Selects
    <2>5. CASE t = TableOf[r]
      <3>1. Holds(dumped, r)
        <4>1. CASE Exists(r) /\ Selects(file, r)
          BY <1>4, <2>3, <2>4, <2>5, <4>1
        <4>2. CASE Exists(r) /\ ~Selects(file, r)
          <5>1. dumped.data[r] = file.data[r]
            BY <1>4, <2>3, <4>2
          <5>2. QED BY <2>1, <2>4, <4>2, <5>1 DEF Holds
        <4>3. CASE ~Exists(r)
          BY <2>4, <4>3
        <4>4. QED BY <4>1, <4>2, <4>3
      <3>2. QED BY <1>6, <2>2, <2>5, <3>1
    <2>6. CASE t # TableOf[r]
      <3>1. dumped.data[r] = file.data[r]
        BY <1>4, <2>3, <2>6
      <3>2. Holds(file, r) => Holds(dumped, r)
        BY <2>4, <3>1 DEF Holds
      <3>3. QED BY <1>6, <2>1, <2>2, <2>6, <3>1, <3>2
    <2>7. QED BY <2>5, <2>6
  <1>9. faults' \in Nat
    BY <1>1, <1>t DEF Typed
  <1> HIDE DEF new
  <1>10. QED BY <1>1, <1>4, <1>6, <1>7, <1>8, <1>9, Refiled

\* A backup that goes on without a table says so in its file.
LEMMA StepDumpFails ==
    ASSUME IInv, NEW j \in Jobs, DumpFails(j)
    PROVE  IInv'
  <1> DEFINE file == job[j].file
             t == Tables[job[j].next]
             without == [file EXCEPT !.skipped = file.skipped \cup {t}]
             new == [job[j] EXCEPT !.file = without, !.next = job[j].next + 1]
  <1>t. Typed
    BY DEF IInv
  <1>1. /\ job[j] # Idle /\ job[j].next <= Len(Tables) /\ faults' = faults + 1
        /\ job' = [job EXCEPT ![j].file.skipped = @ \cup {Tables[job[j].next]}, ![j].next = @ + 1]
        /\ UNCHANGED <<row, write, index, late, clock>>
    BY DEF DumpFails
  <1>2. job[j] \in Taking /\ file \in File /\ job[j].next \in 1..(Len(Tables) + 1) /\ Len(Tables) \in Nat
    BY <1>1, <1>t, JobFields
  <1>3. /\ without.kind = file.kind /\ without.taken = file.taken /\ without.since = file.since
        /\ without.skipped = file.skipped \cup {t} /\ without.data = file.data
    BY <1>2 DEF File
  <1>4. without \in File
    <2>1. job[j].next \in DOMAIN Tables
      BY <1>1, <1>2, BackupAssumption
    <2>2. t \in Range(Tables)
      BY <2>1 DEF Range
    <2>3. file.skipped \cup {t} \subseteq Range(Tables)
      BY <1>2, <2>2, FileFields
    <2>4. QED BY <1>2, <2>3 DEF File
  <1>5. new \in Taking /\ new.file = without /\ new.next = job[j].next + 1
    <2> HIDE DEF without
    <2>1. job[j].next + 1 \in 1..(Len(Tables) + 1)
      BY <1>1, <1>2
    <2>2. new.pc = job[j].pc /\ new.file = without /\ new.next = job[j].next + 1
      BY <1>2 DEF Taking
    <2>3. new \in Taking
      BY <1>2, <1>4, <2>1 DEF Taking
    <2>4. QED BY <2>2, <2>3
  <1>6. job' = [job EXCEPT ![j] = new]
    BY <1>1, <1>t DEF Typed
  <1> HIDE DEF without
  <1>7. ASSUME NEW r \in Rows
        PROVE  IF \E i \in 1..(new.next - 1) : Tables[i] = TableOf[r] THEN Holds(new.file, r) ELSE new.file.data[r] = None
    <2>1. IF Past(j, r) THEN Holds(file, r) ELSE file.data[r] = None
      BY <1>1 DEF IInv, DumpInv
    <2>2. (\E i \in 1..(new.next - 1) : Tables[i] = TableOf[r]) <=> Past(j, r) \/ t = TableOf[r]
      <3>1. new.next = job[j].next + 1
        BY <1>5
      <3> HIDE DEF new
      <3>2. QED BY <1>1, <1>t, <3>1, PastNext
    <2>3. t = TableOf[r] => Holds(without, r)
      BY <1>3 DEF Holds
    <2>4. Holds(file, r) => Holds(without, r)
      BY <1>3 DEF Holds, Selects
    <2>5. QED BY <1>3, <1>5, <2>1, <2>2, <2>3, <2>4
  <1>8. faults' \in Nat
    BY <1>1, <1>t DEF Typed
  <1> HIDE DEF new
  <1>9. QED BY <1>1, <1>3, <1>5, <1>6, <1>7, <1>8, Refiled

\* A finished backup has come past every table.
LEMMA StepInsert ==
    ASSUME IInv, NEW j \in Jobs, Insert(j)
    PROVE  IInv'
  <1> DEFINE file == job[j].file
  <1>t. Typed
    BY DEF IInv
  <1>1. /\ job[j] # Idle /\ job[j].next > Len(Tables)
        /\ index' = index \cup {[file EXCEPT !.taken = file.taken]}
        /\ job' = [job EXCEPT ![j] = Idle]
        /\ UNCHANGED <<row, write, late, clock, faults>>
    BY DEF Insert, TakenAt
  <1>2. file \in File /\ file \in Files /\ job[j].next = Len(Tables) + 1
    BY <1>1, <1>t, JobFields
  <1>3. index' = index \cup {file}
    BY <1>1, <1>2, FileFields
  <1>4. job'[j] = Idle /\ \A i \in Jobs : i # j => job'[i] = job[i]
    BY <1>1, <1>t DEF Typed
  <1>5. Files' \subseteq Files
    <2>1. ASSUME NEW i \in Jobs, job'[i] # Idle
          PROVE  job'[i].file \in Files
      BY <1>4, <2>1 DEF Files
    <2>2. index' \subseteq Files
      BY <1>2, <1>3 DEF Files
    <2>3. QED BY <2>1, <2>2 DEF Files
  <1> HIDE DEF file
  <1>6. Typed'
    BY <1>1, <1>2, <1>3, <1>t DEF Typed
  <1>7. VersionInv'
    BY <1>1 DEF IInv, VersionInv
  <1>8. TimeInv'
    <2>1. \A b \in index : b.taken # file.taken
      BY <1>1 DEF IInv, TimeInv, file
    <2>2. \A b, c \in index' : b # c => b.taken # c.taken
      BY <1>3, <2>1 DEF IInv, TimeInv
    <2>3. ASSUME NEW i \in Jobs, job'[i] # Idle
          PROVE  /\ \A b \in index' : b.taken # job'[i].file.taken
                 /\ \A k \in Jobs : job'[k] # Idle /\ job'[k].file.taken = job'[i].file.taken => k = i
      <3>1. i # j /\ job'[i] = job[i]
        BY <1>4, <2>3
      <3>2. file.taken # job[i].file.taken
        BY <1>1, <2>3, <3>1 DEF IInv, TimeInv, file
      <3>3. \A b \in index : b.taken # job[i].file.taken
        BY <2>3, <3>1 DEF IInv, TimeInv
      <3>4. \A k \in Jobs : job'[k] # Idle => job[k] # Idle /\ job'[k] = job[k]
        BY <1>4
      <3>5. \A k \in Jobs : job'[k] # Idle /\ job'[k].file.taken = job'[i].file.taken => k = i
        BY <2>3, <3>1, <3>4 DEF IInv, TimeInv
      <3>6. QED BY <1>3, <3>1, <3>2, <3>3, <3>5
    <2>4. \A f \in Files' : f.taken < clock
      BY <1>5 DEF IInv, TimeInv
    <2>5. \A r \in Rows : Exists(r) => row[r].updated < clock /\ \A f \in Files' : f.taken # row[r].updated
      BY <1>5 DEF IInv, TimeInv
    <2>6. write # None => write.updated < clock /\ \A f \in Files' : f.taken # write.updated
      BY <1>5 DEF IInv, TimeInv
    <2>7. QED BY <1>1, <2>2, <2>3, <2>4, <2>5, <2>6 DEF TimeInv, Exists
  <1>9. BaselineInv'
    BY <1>3, <1>5 DEF IInv, BaselineInv
  <1>10. DumpInv'
    <2>1. \A f, r : Holds(f, r)' = Holds(f, r)
      BY <1>1 DEF Holds, Exists, Selects
    <2>2. \A r \in Rows : Past(j, r)
      <3>1. ASSUME NEW r \in Rows
            PROVE  \E i \in DOMAIN Tables : Tables[i] = TableOf[r]
        BY BackupAssumption
      <3>2. Len(Tables) \in Nat /\ DOMAIN Tables = 1..Len(Tables)
        BY BackupAssumption
      <3>3. DOMAIN Tables = 1..(job[j].next - 1)
        BY <1>2, <3>2
      <3>4. QED BY <3>1, <3>3 DEF Past
    <2>3. \A r \in Rows : Holds(file, r)
      BY <1>1, <2>2 DEF IInv, DumpInv, file
    <2>4. \A f \in index', r \in Rows : Holds(f, r)
      BY <1>3, <2>3 DEF IInv, DumpInv
    <2>5. ASSUME NEW i \in Jobs, NEW r \in Rows, job'[i] # Idle
          PROVE  IF Past(i, r)' THEN Holds(job'[i].file, r) ELSE job'[i].file.data[r] = None
      <3>1. job'[i] = job[i] /\ Past(i, r)' = Past(i, r)
        BY <1>4, <2>5 DEF Past
      <3>2. QED BY <2>5, <3>1 DEF IInv, DumpInv
    <2>6. QED BY <2>1, <2>4, <2>5 DEF DumpInv
  <1>11. IndexInv'
    <2>1. ASSUME NEW bs \in SUBSET index', bs # {}
          PROVE  /\ \E b \in bs : \A c \in bs : c.taken <= b.taken
                 /\ \E b \in bs : \A c \in bs : b.taken <= c.taken
      <3>1. \A b \in bs : b.taken \in Int
        <4>1. \A b \in index' : b \in Files
          BY <1>2, <1>3 DEF Files
        <4>2. QED BY <1>t, <4>1, <2>1, TimesAre
      <3>2. bs \ {file} \in SUBSET index
        BY <1>3, <2>1
      <3>3. CASE bs \ {file} = {}
        <4>1. bs = {file}
          BY <2>1, <3>3
        <4>2. QED BY <3>1, <4>1
      <3>4. CASE bs \ {file} # {}
        <4>1. PICK b \in bs \ {file} : \A c \in bs \ {file} : c.taken <= b.taken
          BY <3>2, <3>4 DEF IInv, IndexInv
        <4>2. PICK a \in bs \ {file} : \A c \in bs \ {file} : a.taken <= c.taken
          BY <3>2, <3>4 DEF IInv, IndexInv
        <4>3. \E d \in bs : \A c \in bs : c.taken <= d.taken
          <5>1. CASE file \in bs /\ file.taken > b.taken
            BY <3>1, <4>1, <5>1
          <5>2. CASE ~(file \in bs /\ file.taken > b.taken)
            BY <3>1, <4>1, <5>2
          <5>3. QED BY <5>1, <5>2
        <4>4. \E d \in bs : \A c \in bs : d.taken <= c.taken
          <5>1. CASE file \in bs /\ file.taken < a.taken
            BY <3>1, <4>2, <5>1
          <5>2. CASE ~(file \in bs /\ file.taken < a.taken)
            BY <3>1, <4>2, <5>2
          <5>3. QED BY <5>1, <5>2
        <4>5. QED BY <4>3, <4>4
      <3>5. QED BY <3>3, <3>4
    <2>2. QED BY <2>1 DEF IndexInv
  <1>12. QED BY <1>6, <1>7, <1>8, <1>9, <1>10, <1>11 DEF IInv

\* A failed backup leaves nothing behind.
LEMMA StepTakeFails ==
    ASSUME IInv, NEW j \in Jobs, TakeFails(j)
    PROVE  IInv'
  <1>t. Typed
    BY DEF IInv
  <1>1. /\ job' = [job EXCEPT ![j] = Idle] /\ faults' = faults + 1
        /\ UNCHANGED <<row, write, index, late, clock>>
    BY DEF TakeFails
  <1>2. job'[j] = Idle /\ \A i \in Jobs : i # j => job'[i] = job[i]
    BY <1>1, <1>t DEF Typed
  <1>3. \A i \in Jobs : job'[i] # Idle => job[i] # Idle /\ job'[i] = job[i]
    BY <1>2
  <1>4. Files' \subseteq Files
    <2>1. ASSUME NEW i \in Jobs, job'[i] # Idle
          PROVE  job'[i].file \in Files
      BY <1>3, <2>1 DEF Files
    <2>2. index' \subseteq Files
      BY <1>1 DEF Files
    <2>3. QED BY <2>1, <2>2 DEF Files
  <1>5. Typed'
    <2>1. faults' \in Nat
      BY <1>1, <1>t DEF Typed
    <2>2. QED BY <1>1, <1>t, <2>1 DEF Typed
  <1>6. VersionInv'
    BY <1>1 DEF IInv, VersionInv
  <1>7. TimeInv'
    <2>1. \A i \in Jobs : job'[i] # Idle => /\ \A b \in index : b.taken # job'[i].file.taken
                                            /\ \A k \in Jobs : job'[k] # Idle /\ job'[k].file.taken = job'[i].file.taken => k = i
      BY <1>3 DEF IInv, TimeInv
    <2>2. QED BY <1>1, <1>4, <2>1 DEF IInv, TimeInv, Exists
  <1>8. BaselineInv'
    BY <1>1, <1>4 DEF IInv, BaselineInv
  <1>9. DumpInv'
    <2>1. \A f, r : Holds(f, r)' = Holds(f, r)
      BY <1>1 DEF Holds, Exists, Selects
    <2>2. ASSUME NEW i \in Jobs, NEW r \in Rows, job'[i] # Idle
          PROVE  IF Past(i, r)' THEN Holds(job'[i].file, r) ELSE job'[i].file.data[r] = None
      <3>1. job[i] # Idle /\ job'[i] = job[i] /\ Past(i, r)' = Past(i, r)
        BY <1>3, <2>2 DEF Past
      <3>2. QED BY <3>1 DEF IInv, DumpInv
    <2>3. QED BY <1>1, <2>1, <2>2 DEF IInv, DumpInv
  <1>10. IndexInv'
    BY <1>1 DEF IInv, IndexInv
  <1>11. QED BY <1>5, <1>6, <1>7, <1>8, <1>9, <1>10 DEF IInv

-----------------------------------------------------------------------------
(* The theorems.                                                           *)

\* Nothing is stored at first.
LEMMA Initially ==
    ASSUME Init
    PROVE  IInv
  <1>1. Files = {} /\ index = {}
    BY DEF Init, Files
  <1>2. Typed
    BY BackupAssumption DEF Init, Typed, Row, Versions, NoRow
  <1>3. VersionInv
    BY DEF Init, VersionInv, NoRow
  <1>4. \A r \in Rows : ~Exists(r)
    BY DEF Init, Exists, NoRow
  <1>5. TimeInv
    BY <1>1, <1>4 DEF Init, TimeInv
  <1>6. BaselineInv
    BY <1>1 DEF BaselineInv
  <1>7. DumpInv
    BY <1>1 DEF Init, DumpInv
  <1>8. IndexInv
    BY <1>1 DEF IndexInv
  <1>9. QED BY <1>2, <1>3, <1>5, <1>6, <1>7, <1>8 DEF IInv

\* Every step preserves the inductive invariant.
LEMMA Preserved ==
    ASSUME IInv, [Next]_vars
    PROVE  IInv'
  <1>1. ASSUME UNCHANGED vars
        PROVE  IInv'
    <2>1. UNCHANGED <<row, write, job, index, late, clock, faults>>
      BY <1>1 DEF vars
    <2>2. Files' = Files
      BY <2>1 DEF Files
    <2>3. Typed' /\ VersionInv'
      BY <2>1 DEF IInv, Typed, VersionInv
    <2>4. TimeInv' /\ BaselineInv'
      BY <2>1, <2>2 DEF IInv, TimeInv, BaselineInv, Exists
    <2>5. DumpInv' /\ IndexInv'
      BY <2>1 DEF IInv, DumpInv, IndexInv, Holds, Exists, Selects, Past
    <2>6. QED BY <2>3, <2>4, <2>5 DEF IInv
  <1>2. CASE \E r \in Rows : BeginWrite(r)
    BY <1>2, StepBeginWrite
  <1>3. CASE CommitWrite
    BY <1>3, StepCommitWrite
  <1>4. CASE \E r \in Rows : DeleteRow(r)
    BY <1>4, StepDeleteRow
  <1>5. CASE \E j \in Jobs, kind \in Kinds : Take(j, kind)
    BY <1>5, StepTake
  <1>6. CASE \E j \in Jobs : DumpTable(j)
    BY <1>6, StepDumpTable
  <1>7. CASE \E j \in Jobs : DumpFails(j)
    BY <1>7, StepDumpFails
  <1>8. CASE \E j \in Jobs : Insert(j)
    BY <1>8, StepInsert
  <1>9. CASE \E j \in Jobs : TakeFails(j)
    BY <1>9, StepTakeFails
  <1>10. CASE BackupRestorePlan
    BY <1>1, <1>10 DEF BackupRestorePlan
  <1>11. QED
    BY <1>1, <1>2, <1>3, <1>4, <1>5, <1>6, <1>7, <1>8, <1>9, <1>10 DEF Next

\* Init, take and the writers: the inductive invariant.
THEOREM Inductive == Spec => []IInv
  <1>1. Init => IInv
    BY Initially
  <1>2. IInv /\ [Next]_vars => IInv'
    BY Preserved
  <1>3. QED BY <1>1, <1>2, PTL DEF Spec

\* The table backups and its files: every backup has its own time, later than its
\* baseline, and no row counts more versions than there were instants.
THEOREM TypeCorrect == Spec => []TypeOK
  <1>1. ASSUME IInv
        PROVE  TypeOK
    <2>1. \A b, c \in index : (b # c => b.taken # c.taken) /\ b.since < b.taken
      BY <1>1 DEF IInv, TimeInv, BaselineInv, Files
    <2>2. QED BY <1>1, <2>1 DEF IInv, Typed, Row, TypeOK
  <1>2. QED BY <1>1, Inductive, PTL

-----------------------------------------------------------------------------
(* The restore plan.                                                       *)

\* An incremental backup of the plan that came after row r was written, and that
\* does not select r, has a baseline in the plan that came after r was written, too.
LEMMA BaselineInPlan ==
    ASSUME IInv, NEW r \in Rows, Exists(r), NEW f \in Plan, row[r].updated < f.taken, ~Selects(f, r)
    PROVE  \E b \in Plan : row[r].updated < b.taken /\ b.taken < f.taken
  <1> DEFINE full == Latest({b \in index : b.kind = "full"})
             s == row[r].updated
  <1>t. Typed
    BY DEF IInv
  <1>1. /\ full \subseteq index /\ \A b \in full : b.kind = "full"
        /\ \A b \in index, l \in full : b.kind = "full" => b.taken <= l.taken
    BY DEF Latest
  <1>2. \A b : b \in Plan <=> b \in full \/ (b \in index /\ b.kind = "incremental" /\ \E l \in full : b.taken > l.taken)
    BY DEF Plan
  <1>3. f \in index /\ Plan \subseteq index /\ index \subseteq Files
    BY <1>1, <1>2 DEF Files
  <1> HIDE DEF full
  <1>4. f.since >= 0 /\ ~(s > f.since)
    BY DEF Selects
  <1>5. f.kind # "full"
    <2>1. f.kind = "full" => f.since = -1
      BY <1>3 DEF IInv, BaselineInv
    <2>2. QED BY <1>4, <2>1
  <1>6. PICK l \in full : f.taken > l.taken
    BY <1>1, <1>2, <1>5
  <1>7. PICK b \in index : b.taken = f.since
    <2>1. f.since # -1
      BY <1>4
    <2>2. QED BY <1>3, <2>1 DEF IInv, BaselineInv
  <1>8. b.taken < f.taken
    BY <1>3, <1>7 DEF IInv, BaselineInv
  <1>9. s \in Int /\ \A c \in index : c.taken \in Int /\ c.since \in Int /\ c.taken # s
    BY <1>3, <1>t, TimesAre DEF IInv, TimeInv
  <1>10. s < b.taken
    BY <1>3, <1>4, <1>7, <1>9
  <1>11. CASE b \in Plan
    BY <1>8, <1>10, <1>11
  \* Then the last full backup came after it.
  <1>12. CASE b \notin Plan
    <2>1. b.kind \in {"full", "incremental"}
      BY <1>3, <1>t, FilesTyped, FileFields DEF Kinds
    <2>2. b.taken <= l.taken
      BY <1>1, <1>2, <1>9, <1>12, <2>1, <1>6, <1>7
    <2>3. l \in Plan /\ l \in index
      BY <1>1, <1>2
    <2>4. s < l.taken
      BY <1>9, <1>10, <2>2, <2>3
    <2>5. QED BY <1>6, <2>3, <2>4
  <1>13. QED BY <1>11, <1>12

\* The oldest backup of the plan that came after row r was written holds r.
LEMMA PlanHolds ==
    ASSUME IInv, NEW r \in Rows, Exists(r), NEW g \in Plan, row[r].updated < g.taken
    PROVE  \E f \in Plan : row[r].updated < f.taken /\ Selects(f, r)
  <1> DEFINE after == {f \in Plan : row[r].updated < f.taken}
  <1>1. Plan \subseteq index
    BY DEF Plan, Latest
  <1>2. PICK f \in after : \A c \in after : f.taken <= c.taken
    <2>1. after \in SUBSET index /\ after # {}
      BY <1>1
    <2>2. QED BY <2>1 DEF IInv, IndexInv
  <1>3. CASE Selects(f, r)
    BY <1>2, <1>3
  <1>4. CASE ~Selects(f, r)
    <2>1. f \in Plan /\ row[r].updated < f.taken
      BY <1>2
    <2>2. PICK b \in Plan : row[r].updated < b.taken /\ b.taken < f.taken
      BY <1>4, <2>1, BaselineInPlan
    <2>3. f.taken <= b.taken
      BY <1>2, <2>2
    <2>4. f.taken \in Int /\ b.taken \in Int
      BY <1>1, <2>1, TimesAre DEF IInv, Files
    <2>5. QED BY <2>2, <2>3, <2>4
  <1>5. QED BY <1>3, <1>4

\* PlanRestore and the chain of baselines: applying "the most recent full plus
\* every incremental written after it" gives back every row written before the
\* plan's last backup as it is, whichever backups overlapped or failed, unless it
\* was committed too late for a backup or its table was left out.
THEOREM CompleteRestore == Spec => []RestoreComplete
  <1>1. ASSUME IInv, NEW r \in Rows, Exists(r), r \notin late,
               \A b \in Plan : TableOf[r] \notin b.skipped,
               \E b \in Latest(Plan) : row[r].updated < b.taken
        PROVE  Restored(r) = row[r].version
    <2> DEFINE s == row[r].updated
               v == row[r].version
               held == {b \in Plan : b.data[r] # None}
               values == {b.data[r] : b \in Latest(held)}
    <2>1. PICK g \in Plan : s < g.taken
      BY <1>1 DEF Latest
    <2>2. Plan \subseteq index
      BY DEF Plan, Latest
    <2>3. v # None
      BY <1>1, BackupAssumption DEF IInv, Typed, Row, Versions, Exists
    <2>4. \A f \in Plan : s < f.taken => f.data[r] = IF Selects(f, r) THEN v ELSE None
      BY <1>1, <2>2 DEF IInv, DumpInv, Holds
    <2>5. PICK f \in Plan : s < f.taken /\ Selects(f, r)
      BY <1>1, <2>1, PlanHolds
    <2>6. f \in held
      BY <2>3, <2>4, <2>5
    <2>7. Latest(held) # {}
      <3>1. held \in SUBSET index /\ held # {}
        BY <2>2, <2>6
      <3>2. PICK b \in held : \A c \in held : c.taken <= b.taken
        BY <1>1, <3>1 DEF IInv, IndexInv
      <3>3. QED BY <3>2 DEF Latest
    <2>8. \A b \in Latest(held) : b.data[r] = v
      <3>1. ASSUME NEW b \in Latest(held)
            PROVE  b.data[r] = v
        <4>1. b \in held /\ f.taken <= b.taken
          BY <2>6 DEF Latest
        <4>2. s \in Int /\ f.taken \in Int /\ b.taken \in Int
          BY <1>1, <2>2, <2>5, <4>1, TimesAre DEF IInv, Files
        <4>3. s < b.taken
          BY <2>5, <4>1, <4>2
        <4>4. QED BY <2>4, <4>1, <4>3
      <3>2. QED BY <3>1
    <2>9. held # {} /\ values = {v}
      BY <2>6, <2>7, <2>8
    <2>10. Restored(r) = CHOOSE x \in values : TRUE
      BY <2>9 DEF Restored
    <2> HIDE DEF values
    <2>11. QED BY <2>9, <2>10
  <1>2. IInv => RestoreComplete
    BY <1>1 DEF RestoreComplete
  <1>3. QED BY <1>2, Inductive, PTL
=============================================================================
