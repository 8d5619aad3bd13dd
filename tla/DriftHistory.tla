---------------------------- MODULE DriftHistory ----------------------------
(* The monitoring of drift: detections write an evidence report and append *)
(* a history record (api.detect_drift), imports copy the history into the  *)
(* database in three commits (storage/importer.py), and reports,           *)
(* dashboards, workbooks, plots, notifications and the Drift Explorer read *)
(* the database seam by seam, each on a connection of its own.  Any number *)
(* of them run at once, and any of them may die between two steps.         *)
EXTENDS DriftDetection, SequencesExt

CONSTANTS
    Detectors, Importers,            \* processes
    Runs,                            \* the run ids detections may draw
    Paths, NoPath,                   \* evidence reports
    Datasets, NoDataset,             \* current dataset ids
    Results,                         \* results a detection may come to
    Unlimited                        \* limit of a read: none

\* A run id is ordered and drawn once; finitely many are.
ASSUME RunsAssumption ==
    Runs \subseteq Nat /\ IsFiniteSet(Runs) /\ NoPath \notin Paths /\ Unlimited \notin Nat

VARIABLES
    report,     \* path -> the evidence report it holds
    history,    \* the records of the JSONL file, oldest first
    driftRuns,  \* the rows of drift_runs, a set of records
    driftCols,  \* run -> the rows of drift_columns
    driftBins,  \* run -> the rows of drift_column_distributions
    detector,   \* detector -> where it is
    importer,   \* importer -> where it is
    quiet       \* importer -> since it began, no report was written and no
                \* other import added a run

driftVars == <<report, history, driftRuns, driftCols, driftBins, detector,
               importer, quiet>>

NoReport == [run |-> NoPath, columns |-> {}]
NoEvidence == [of |-> NoPath, columns |-> {}]
Idle == [step |-> "idle"]
UsedRuns == {r.run_id : r \in ToSet(history)}
            \cup {report[p].run : p \in Paths}
            \cup {detector[d].run_id : d \in {x \in Detectors : detector[x] # Idle}}

---------------------------------------------------------------------------
(* Detection *)

\* The record of a run: a detection that tested nothing says FALSE, too.
HistoryRecord(call) ==
    LET result == call.result
    IN
    [run_id |-> call.run_id, created_at |-> call.created_at,
     current_dataset_id |-> call.ds, status |-> result.status, columns_tested |-> result.summary.columns_tested,
     columns_skipped |-> result.summary.columns_skipped,
     columns_drifted |-> result.summary.columns_drifted,
     drift_detected |-> result.summary.drift_detected,
     report_path |-> call.path]

\* The identity is drawn when the comparison is done; it is new.
BeginDetection(d, ds, result, path, keep) ==
    /\ detector[d] = Idle
    /\ path # NoPath \/ keep
    /\ \E run \in Runs \ UsedRuns :
         detector' = [detector EXCEPT ![d] =
            [step |-> IF path = NoPath THEN "append" ELSE "write", run_id |-> run,
             created_at |-> Cardinality(UsedRuns) + 1, ds |-> ds, result |-> result,
             path |-> path, keep |-> keep]]
    /\ UNCHANGED <<report, history, driftRuns, driftCols, driftBins, importer,
                   quiet>>

\* _write_drift_report: the temporary file is renamed over the path, whatever
\* report of whatever run it held.
WriteDriftReport(d) ==
    /\ detector[d].step = "write"
    /\ report' = [report EXCEPT ![detector[d].path] =
                    [run |-> detector[d].run_id, columns |-> detector[d].result.columns]]
    /\ detector' = [detector EXCEPT ![d] =
                      IF detector[d].keep THEN [@ EXCEPT !.step = "append"] ELSE Idle]
    /\ quiet' = [i \in Importers |-> FALSE]
    /\ UNCHANGED <<history, driftRuns, driftCols, driftBins, importer>>

AppendDriftHistory(d) ==
    /\ detector[d].step = "append"
    /\ history' = Append(history, HistoryRecord(detector[d]))
    /\ detector' = [detector EXCEPT ![d] = Idle]
    /\ UNCHANGED <<report, driftRuns, driftCols, driftBins, importer, quiet>>

\* A write that fails, or a process that dies, before its next file.
DetectionFails(d) ==
    /\ detector[d] # Idle
    /\ detector' = [detector EXCEPT ![d] = Idle]
    /\ UNCHANGED <<report, history, driftRuns, driftCols, driftBins, importer,
                   quiet>>

---------------------------------------------------------------------------
(* Import *)

\* INSERT OR IGNORE by run id, committed before the evidence is looked at.
ImportRuns(i) ==
    /\ importer[i] \in {"idle", "done"}
    /\ driftRuns' = driftRuns \cup
         {r \in ToSet(history) : r.run_id \notin {s.run_id : s \in driftRuns}}
    /\ importer' = [importer EXCEPT ![i] = "columns"]
    /\ quiet' = [x \in Importers |-> x = i \/ (quiet[x] /\ driftRuns' = driftRuns)]
    /\ UNCHANGED <<report, history, driftCols, driftBins, detector>>

\* A report that is missing, unreadable or without columns gives none.
LoadReportColumns(path) == IF path = NoPath THEN {} ELSE report[path].columns

\* A column without a usable distribution inserts no bins.
HasDistribution(c) == c.bins > 0

Stored(run) == {s \in driftRuns : s.run_id = run /\ s.report_path # NoPath}

\* A run that has rows already is not read again.
EvidenceOfNewRuns(rows, binned) ==
    [run \in Runs |->
       IF \E s \in Stored(run) : LoadReportColumns(s.report_path) # {} /\ rows[run].columns = {}
       THEN LET path == (CHOOSE s \in Stored(run) : TRUE).report_path
            IN [of |-> report[path].run,
                columns |-> {c \in LoadReportColumns(path) : binned => HasDistribution(c)}]
       ELSE rows[run]]

\* Every run of the table is read again: deleted and inserted from whatever
\* its report path holds now.  One whose report yields nothing keeps its rows.
Evidence(rows, binned) ==
    [run \in Runs |->
       IF \E s \in Stored(run) : LoadReportColumns(s.report_path) # {}
       THEN LET path == (CHOOSE s \in Stored(run) : TRUE).report_path
            IN [of |-> report[path].run,
                columns |-> {c \in LoadReportColumns(path) : binned => HasDistribution(c)}]
       ELSE rows[run]]

ImportDriftColumns(i) ==
    /\ importer[i] = "columns"
    /\ driftCols' = Evidence(driftCols, FALSE)
    /\ importer' = [importer EXCEPT ![i] = "bins"]
    /\ UNCHANGED <<report, history, driftRuns, driftBins, detector, quiet>>

ImportDriftDistributions(i) ==
    /\ importer[i] = "bins"
    /\ driftBins' = Evidence(driftBins, TRUE)
    /\ importer' = [importer EXCEPT ![i] = "done"]
    /\ UNCHANGED <<report, history, driftRuns, driftCols, detector, quiet>>

\* The process dies, or the database is locked, between two commits.
ImportFails(i) ==
    /\ importer[i] \in {"columns", "bins"}
    /\ importer' = [importer EXCEPT ![i] = "idle"]
    /\ UNCHANGED <<report, history, driftRuns, driftCols, driftBins, detector,
                   quiet>>

---------------------------------------------------------------------------
(* Queries (storage/queries.py, storage/trends.py) *)

Newest(r, s) ==
    r.created_at > s.created_at \/ (r.created_at = s.created_at /\ r.run_id < s.run_id)

ReadDriftRuns(ds, limit) ==
    LET found == {r \in driftRuns : ds \in {NoDataset, r.current_dataset_id}}
        before(r) == {s \in found : Newest(s, r)}
        rows == [k \in 1 .. Cardinality(found) |->
                   CHOOSE r \in found : Cardinality(before(r)) = k - 1]
    IN IF limit = Unlimited \/ limit > Len(rows) THEN rows ELSE SubSeq(rows, 1, limit)

Unscoped == {NoPath}

InScopeUnlessEmpty(run, ids) == ids \in {Unscoped, {}} \/ run \in ids
InScope(run, ids) == ids = Unscoped \/ run \in ids

\* The rows of the runs asked for; no run asked for, no row.
FetchRunScoped(table, ids) ==
    UNION {{[run_id |-> run, of |-> table[run].of, column |-> c] : c \in table[run].columns} :
             run \in {r \in Runs : InScope(r, ids)}}

ReadDriftColumns(ids) == FetchRunScoped(driftCols, ids)
ReadDriftDistributions(ids) == FetchRunScoped(driftBins, ids)

SummarizeDriftTrends(ds, limit) ==
    LET rows == ReadDriftRuns(ds, limit)
        drifted == {i \in DOMAIN rows : rows[i].drift_detected}
    IN [total_runs |-> Len(rows), drifted_runs |-> Cardinality(drifted),
        latest |-> IF rows = <<>> THEN NoPath ELSE rows[1].run_id,
        latest_drift_detected |-> rows # <<>> /\ rows[1].drift_detected,
        tested_total |-> MapThenSumSet(LAMBDA i : rows[i].columns_tested, DOMAIN rows),
        drifted_total |-> MapThenSumSet(LAMBDA i : rows[i].columns_drifted, DOMAIN rows)]

---------------------------------------------------------------------------
DriftInit ==
    /\ report = [p \in Paths |-> NoReport]
    /\ history = <<>>
    /\ driftRuns = {}
    /\ driftCols = [r \in Runs |-> NoEvidence]
    /\ driftBins = [r \in Runs |-> NoEvidence]
    /\ detector = [d \in Detectors |-> Idle]
    /\ importer = [i \in Importers |-> "idle"]
    /\ quiet = [i \in Importers |-> FALSE]

DriftNext ==
    \/ \E d \in Detectors :
         \/ \E ds \in Datasets, result \in Results, path \in Paths \cup {NoPath},
               keep \in BOOLEAN : BeginDetection(d, ds, result, path, keep)
         \/ WriteDriftReport(d)
         \/ AppendDriftHistory(d)
         \/ DetectionFails(d)
    \/ \E i \in Importers :
         \/ ImportRuns(i)
         \/ ImportDriftColumns(i)
         \/ ImportDriftDistributions(i)
         \/ ImportFails(i)

DriftSpec == DriftInit /\ [][DriftNext]_driftVars

---------------------------------------------------------------------------
\* QuietImportIsComplete: an import repairs what an import before it left
\* undone.  When one has come to its end and since it began no report was
\* replaced and no other import added a run, the column rows and the bins of every run come from one and the same
\* report, the one its path holds: never the columns of one detection beside
\* the bins of another, nor a run whose evidence a crash between the three
\* commits has left out for good.
QuietImportIsComplete ==
    \A i \in Importers : importer[i] = "done" /\ quiet[i] =>
      \A s \in driftRuns : LoadReportColumns(s.report_path) # {} =>
        /\ driftCols[s.run_id] = [of |-> report[s.report_path].run,
                                  columns |-> LoadReportColumns(s.report_path)]
        /\ driftBins[s.run_id].of = driftCols[s.run_id].of
        /\ driftBins[s.run_id].columns
             = {c \in driftCols[s.run_id].columns : HasDistribution(c)}

\* EvidenceIsOwn: the column rows stored for a run are those of the run's own
\* evidence report ("from each drift run's evidence-report columns", says
\* api.read_drift_columns_sqlite).
EvidenceIsOwn ==
    \A r \in Runs : driftCols[r].of \in {NoPath, r}
=============================================================================
