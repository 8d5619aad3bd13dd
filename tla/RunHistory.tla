----------------------------- MODULE RunHistory -----------------------------
(***************************************************************************)
(* The run history of one output folder: run_export_star appends a line to *)
(* star/quality_history.jsonl and then stores the run in dqt.db.  Exports  *)
(* are processes of their own and share both files.                        *)
(*                                                                         *)
(* An append is one write at the end of the file, which a full disk or the *)
(* death of the process can cut short.  A transaction of SQLite is one     *)
(* step: it takes the write lock with its first change, and whatever fails *)
(* is rolled back.  A process that dies or fails at an append leaves the   *)
(* database alone.                                                         *)
(***************************************************************************)
EXTENDS Naturals, Sequences, FiniteSets

CONSTANTS
    Run,        \* exports, each with a run_id of its own (uuid4)
    Dataset,    \* dataset_ids
    DatasetOf,  \* DatasetOf[r]: the dataset of run r
    Garbage,    \* a line of the history that is no JSON
    MaxTorn     \* bound: how many appends are cut short

ASSUME DatasetAssumption == DatasetOf \in [Run -> Dataset]
ASSUME GarbageAssumption == Garbage \notin Run
ASSUME MaxTornAssumption == MaxTorn \in Nat

VARIABLES
    lines,  \* the history: on each line a run or Garbage
    open,   \* whether the last line has no newline yet
    row,    \* table runs: "none", "imported" (from a line), "full"
    source, \* table datasets: "absent", "blank" (empty source_path), "known"
    stage,     \* where each export is
    seen,   \* the length of the history when an export counted the runs
    acked,  \* history: exports whose append returned
    torn    \* how many appends were cut short

dbVars == <<row, source>>
logVars == <<lines, open>>
runsVars == <<lines, open, row, source, stage, seen, acked, torn>>

-----------------------------------------------------------------------------
\* What becomes of the history when `line` is written at its end: it starts on a
\* line of its own only if the line before it was finished.
WithLine(line) ==
    IF open THEN [lines EXCEPT ![Len(lines)] = Garbage] ELSE Append(lines, line)

\* read_jsonl_records and import_jsonl_history: malformed lines are skipped.
Readable(history) == {r \in Run : \E i \in DOMAIN history : history[i] = r}

Reach(r, place) == stage' = [stage EXCEPT ![r] = place]

RunsInit ==
    /\ lines = <<>>
    /\ open = FALSE
    /\ row = [r \in Run |-> "none"]
    /\ source = [d \in Dataset |-> "absent"]
    /\ stage = [r \in Run |-> "export"]
    /\ seen = [r \in Run |-> 0]
    /\ acked = {}
    /\ torn = 0

-----------------------------------------------------------------------------
\* Seeded fault, not used below: the UPDATE of the datasets is missing.
SetSourceNot(r) ==
    /\ stage[r] = "source"
    /\ Reach(r, "persisted")
    /\ UNCHANGED <<logVars, dbVars, seen, acked, torn>>

-----------------------------------------------------------------------------
\* append_jsonl_record.
AppendRecord(r) ==
    /\ stage[r] = "export"
    /\ lines' = WithLine(r)
    /\ open' = FALSE
    /\ acked' = acked \cup {r}
    /\ Reach(r, "ensure")
    /\ UNCHANGED <<dbVars, seen, torn>>

\* The write is cut short: part of the line is in the file, or all of it but the
\* newline.  The exception, or the death of the process, ends the export.
AppendTorn(r) ==
    /\ stage[r] = "export"
    /\ torn < MaxTorn
    /\ \E line \in {r, Garbage} : lines' = WithLine(line)
    /\ open' = TRUE
    /\ torn' = torn + 1
    /\ Reach(r, "dead")
    /\ UNCHANGED <<dbVars, seen, acked>>

\* ensure_db: the tables exist, the runs are counted; only an empty table makes
\* the history be imported.
EnsureDb(r) ==
    /\ stage[r] = "ensure"
    /\ seen' = [seen EXCEPT ![r] = Len(lines)]
    /\ Reach(r, IF \A q \in Run : row[q] = "none" THEN "import" ELSE "delete")
    /\ UNCHANGED <<logVars, dbVars, acked, torn>>

\* import_jsonl_history, INSERT OR IGNORE, of what the file holds when it is read
\* to its end: n lines.
Import(r, n) ==
    /\ stage[r] = "import"
    /\ n \in seen[r] .. Len(lines)
    /\ LET imported == {q \in Readable(SubSeq(lines, 1, n)) : row[q] = "none"}
       IN  /\ row' = [q \in Run |-> IF q \in imported THEN "imported" ELSE row[q]]
           /\ source' = [d \in Dataset |->
                            IF source[d] = "absent" /\ \E q \in imported : DatasetOf[q] = d
                              THEN "blank" ELSE source[d]]
    /\ Reach(r, "delete")
    /\ UNCHANGED <<logVars, seen, acked, torn>>

\* DELETE FROM runs, committed: the row the import may have made of this run.
Delete(r) ==
    /\ stage[r] = "delete"
    /\ row' = [row EXCEPT ![r] = "none"]
    /\ Reach(r, "persist")
    /\ UNCHANGED <<logVars, source, seen, acked, torn>>

\* persist_export_run: the run with its metrics and issues.
Persist(r) ==
    /\ stage[r] = "persist"
    /\ row[r] = "none"
    /\ row' = [row EXCEPT ![r] = "full"]
    /\ source' = [source EXCEPT ![DatasetOf[r]] = IF @ = "absent" THEN "known" ELSE @]
    /\ Reach(r, "source")
    /\ UNCHANGED <<logVars, seen, acked, torn>>

\* The INSERT finds a row of this run: another export has imported it meanwhile.
PersistConflicts(r) ==
    /\ stage[r] = "persist"
    /\ row[r] # "none"
    /\ Reach(r, "failed")
    /\ UNCHANGED <<logVars, dbVars, seen, acked, torn>>

\* UPDATE datasets, then quality_db_status is "persisted".
SetSource(r) ==
    /\ stage[r] = "source"
    /\ source' = [source EXCEPT ![DatasetOf[r]] = "known"]
    /\ Reach(r, "persisted")
    /\ UNCHANGED <<logVars, row, seen, acked, torn>>

\* The database is locked or cannot be written; the export goes on without it,
\* with quality_db_status "failed".
DatabaseFails(r) ==
    /\ stage[r] \in {"ensure", "import", "delete", "persist", "source"}
    /\ Reach(r, "failed")
    /\ UNCHANGED <<logVars, dbVars, seen, acked, torn>>

\* The process dies, or the export fails before its append.
Die(r) ==
    /\ stage[r] \notin {"persisted", "failed", "dead"}
    /\ Reach(r, "dead")
    /\ UNCHANGED <<logVars, dbVars, seen, acked, torn>>

RunsNext ==
    \E r \in Run :
        \/ AppendRecord(r)
        \/ AppendTorn(r)
        \/ EnsureDb(r)
        \/ \E n \in 0 .. Len(lines) : Import(r, n)
        \/ Delete(r)
        \/ Persist(r)
        \/ PersistConflicts(r)
        \/ SetSource(r)
        \/ DatabaseFails(r)
        \/ Die(r)

RunsSpec == RunsInit /\ [][RunsNext]_runsVars

-----------------------------------------------------------------------------
(***************************************************************************)
(* Properties                                                              *)
(***************************************************************************)

Lost == acked \ Readable(lines)

LossIsBounded == Cardinality(Lost) <= torn

PersistedIsWhole ==
    \A r \in Run : stage[r] = "persisted" =>
        row[r] = "full" /\ source[DatasetOf[r]] = "known"

\* Concurrent appends do not cost each other a line of the history, and a line that
\* was cut short costs one later record, the one that is written behind it.
\* What an export reports as persisted is in the database for good: the run with
\* its metrics, and a dataset whose source is known, whoever counts, imports or
\* deletes at the same time (_persist_star_to_sqlite: "ensure_db's history import
\* may already have created this dataset's row with an empty source").
HistoryIsKept == LossIsBounded /\ PersistedIsWhole
=============================================================================
