------------------------------- MODULE Backup -------------------------------
(***************************************************************************)
(* Full and incremental backups and the plan to restore from them.  A      *)
(* backup dumps one table after the other while the server writes, and     *)
(* several may run at once: two tickers and two admin endpoints start      *)
(* them.  Applying the plan is not in the repository; Restored says what   *)
(* the plan is for.  Every reading of the clock is an instant of its own,  *)
(* so two backups never share a file; in the code a file is named by its   *)
(* kind and the second it was taken in.                                    *)
(***************************************************************************)
EXTENDS Integers, Sequences, FiniteSets

CONSTANTS
    Tables,      \* backupTables, in dump order
    Stamped,     \* the tables with an updated_at column
    Rows,        \* row ids (a bound)
    TableOf,     \* the table each row belongs to
    Jobs,        \* goroutines that take backups
    MaxTime,     \* bound on the clock
    MaxBackups,  \* bound on finished backups
    MaxFaults,   \* bound on failed dumps and failed backups
    None

ASSUME BackupAssumption ==
    /\ Tables \in Seq(STRING) /\ Stamped \subseteq {Tables[i] : i \in DOMAIN Tables}
    /\ TableOf \in [Rows -> {Tables[i] : i \in DOMAIN Tables}]
    /\ {MaxTime, MaxBackups, MaxFaults} \subseteq Nat
    /\ None \notin Nat /\ None \notin Rows

VARIABLES
    row,     \* the database: each row's version and updated_at
    write,   \* the write in flight: its row and the updated_at it will store
    job,     \* the backups being taken
    index,   \* backups, with the contents of their files
    late,    \* history: rows whose version was committed too late for a backup
    clock,
    faults   \* history: failed dumps and failed backups

vars == <<row, write, job, index, late, clock, faults>>

Kinds == {"full", "incremental"}

\* Versions of a row: 0 before it is inserted, -1 once it is deleted.
Versions == -1..MaxTime

NoRow == [version |-> 0, updated |-> 0]

Deleted == [version |-> -1, updated |-> 0]

Idle == [pc |-> "idle"]

Range(s) == {s[i] : i \in DOMAIN s}

\* A file: the version of every row it holds, and the tables whose dump failed.
\* "since" is -1 for the zero time.
File == [kind : Kinds, taken : 0..MaxTime, since : -1..MaxTime,
         data : [Rows -> Versions \cup {None}], skipped : SUBSET Range(Tables)]

Taking == [pc : {"dump"}, next : 1..(Len(Tables) + 1), file : File]

Exists(r) == row[r].version > 0

-----------------------------------------------------------------------------
(* Plausible faults of the operators defined below, for checking that the  *)
(* properties notice; no specification uses them.                          *)

\* A missing or failed lookup of the last backup counts as "now".
SinceOrNow(last) == IF last = {} THEN clock ELSE CHOOSE t \in {b.taken : b \in last} : TRUE

\* taken_at is read when the backup is finished.
TakenAtEnd(j) == clock

-----------------------------------------------------------------------------
(* The index and the dumps.                                                *)

Latest(bs) == {b \in bs : \A c \in bs : c.taken <= b.taken}

\* LastSuccessful: the newest backup of either kind.
LastSuccessful == Latest(index)

\* TakeIncremental's baseline, the zero time without one.
Since(last) == IF last = {} THEN -1 ELSE CHOOSE t \in {b.taken : b \in last} : TRUE

TakenAt(j) == job[j].file.taken

\* The rows of table t that a dump with this baseline selects.
Selected(t, since) ==
    {r \in Rows : /\ TableOf[r] = t /\ Exists(r)
                  /\ since >= 0 /\ t \in Stamped => row[r].updated > since}

\* dumpTable's rows added to the file.
Dumped(file, t) ==
    [file EXCEPT !.data = [r \in Rows |-> IF r \in Selected(t, file.since) THEN row[r].version ELSE @[r]]]

\* PlanRestore: the last full backup and the incrementals after it.
Plan ==
    LET full == Latest({b \in index : b.kind = "full"})
    IN  full \cup {b \in index : b.kind = "incremental" /\ \E f \in full : b.taken > f.taken}

\* What applying the plan in the order of taken_at leaves of row r.
Restored(r) ==
    LET holding == Latest({b \in Plan : b.data[r] # None})
    IN  IF holding = {} THEN 0 ELSE CHOOSE v \in {b.data[r] : b \in holding} : TRUE

-----------------------------------------------------------------------------
Init ==
    /\ row = [r \in Rows |-> NoRow]
    /\ write = None
    /\ job = [j \in Jobs |-> Idle]
    /\ index = {}
    /\ late = {}
    /\ clock = 0
    /\ faults = 0

Now == clock < MaxTime /\ clock' = clock + 1

\* A service reads the time for updated_at, and its statement commits later.
BeginWrite(r) ==
    /\ write = None
    /\ row[r] # Deleted
    /\ Now
    /\ write' = [row |-> r, updated |-> clock]
    /\ UNCHANGED <<row, job, index, late, faults>>

\* The table of r was dumped by a backup that the stamp s says came later.
DumpedBefore(r, s) ==
    \/ \E b \in index : b.taken > s
    \/ \E j \in Jobs : /\ job[j] # Idle /\ job[j].file.taken > s
                       /\ \E i \in 1..(job[j].next - 1) : Tables[i] = TableOf[r]

\* A table without updated_at shows no time but that of the commit, and a row
\* that is gone by now is not written.
CommitWrite ==
    /\ write # None
    /\ LET r == write.row
           s == IF TableOf[r] \in Stamped THEN write.updated ELSE clock
       IN  /\ IF TableOf[r] \in Stamped THEN UNCHANGED clock ELSE Now
           /\ IF row[r] = Deleted THEN UNCHANGED <<row, late>>
              ELSE /\ row' = [row EXCEPT ![r] = [version |-> @.version + 1, updated |-> s]]
                   /\ late' = IF DumpedBefore(r, s) THEN late \cup {r} ELSE late \ {r}
    /\ write' = None
    /\ UNCHANGED <<job, index, faults>>

\* A row is deleted, with its account for instance.
DeleteRow(r) ==
    /\ Exists(r)
    /\ row' = [row EXCEPT ![r] = Deleted]
    /\ UNCHANGED <<write, job, index, late, clock, faults>>

\* take, up to its first dump; the baseline is read before the time.
Take(j, kind) ==
    /\ job[j] = Idle
    /\ Cardinality(index) < MaxBackups
    /\ Now
    /\ job' = [job EXCEPT ![j] =
           [pc |-> "dump", next |-> 1,
            file |-> [kind |-> kind, taken |-> clock,
                      since |-> IF kind = "full" THEN -1 ELSE Since(LastSuccessful),
                      data |-> [r \in Rows |-> None], skipped |-> {}]]]
    /\ UNCHANGED <<row, write, index, late, faults>>

DumpTable(j) ==
    /\ job[j] # Idle /\ job[j].next <= Len(Tables)
    /\ job' = [job EXCEPT ![j].file = Dumped(@, Tables[job[j].next]), ![j].next = @ + 1]
    /\ UNCHANGED <<row, write, index, late, clock, faults>>

\* A failed dump is logged, and the backup goes on without the table.
DumpFails(j) ==
    /\ faults < MaxFaults
    /\ job[j] # Idle /\ job[j].next <= Len(Tables)
    /\ faults' = faults + 1
    /\ job' = [job EXCEPT ![j].file.skipped = @ \cup {Tables[job[j].next]}, ![j].next = @ + 1]
    /\ UNCHANGED <<row, write, index, late, clock>>

\* The file is written and the backup entered into the index.
Insert(j) ==
    /\ job[j] # Idle /\ job[j].next > Len(Tables)
    /\ index' = index \cup {[job[j].file EXCEPT !.taken = TakenAt(j)]}
    /\ job' = [job EXCEPT ![j] = Idle]
    /\ UNCHANGED <<row, write, late, clock, faults>>

\* The file cannot be written, its entry not inserted, or the process dies.
TakeFails(j) ==
    /\ faults < MaxFaults
    /\ job[j] # Idle
    /\ faults' = faults + 1
    /\ job' = [job EXCEPT ![j] = Idle]
    /\ UNCHANGED <<row, write, index, late, clock>>

\* The endpoint that answers with the plan, or with an error when there is none.
BackupRestorePlan == UNCHANGED vars

Next ==
    \/ \E r \in Rows : BeginWrite(r)
    \/ CommitWrite
    \/ \E r \in Rows : DeleteRow(r)
    \/ \E j \in Jobs, kind \in Kinds : Take(j, kind)
    \/ \E j \in Jobs : DumpTable(j)
    \/ \E j \in Jobs : DumpFails(j)
    \/ \E j \in Jobs : Insert(j)
    \/ \E j \in Jobs : TakeFails(j)
    \/ BackupRestorePlan

Spec == Init /\ [][Next]_vars

-----------------------------------------------------------------------------
(* Properties.                                                             *)

\* Rows, files and backups under way are of their types; every backup has its own
\* time, later than its baseline.
TypeOK ==
    /\ row \in [Rows -> [version : Versions, updated : 0..MaxTime]]
    /\ write = None \/ write \in [row : Rows, updated : 0..MaxTime]
    /\ job \in [Jobs -> {Idle} \cup Taking]
    /\ index \subseteq File
    /\ \A b, c \in index : (b # c => b.taken # c.taken) /\ b.since < b.taken
    /\ late \subseteq Rows /\ clock \in 0..MaxTime /\ faults \in Nat

\* "the most recent full plus every incremental written after it": applying the
\* plan gives back every row as it is, if it was written before the plan's last
\* backup, whichever backups overlapped or failed; except for a write committed
\* after a backup that its updated_at precedes, and for tables a backup left out.
RestoreComplete ==
    \A r \in Rows :
        /\ Exists(r) /\ r \notin late
        /\ \A b \in Plan : TableOf[r] \notin b.skipped
        /\ \E b \in Latest(Plan) : row[r].updated < b.taken
        => Restored(r) = row[r].version
=============================================================================
