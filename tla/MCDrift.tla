------------------------------ MODULE MCDrift ------------------------------
(* Instances of the drift modules for TLC.  Two detections may share a      *)
(* report path and an import may die between its commits; one reader works  *)
(* beside one of them.  The comparison itself is checked over all pairs of  *)
(* small columns.                                                           *)
EXTENDS DriftReaders

CONSTANT MaxHistory    \* bound: the records of the history

Column == "x"
OtherColumn == "y"

Series(dtype, n) == {[dtype |-> dtype, vals |-> v] : v \in [1..n -> 0..2]}
Small == UNION {Series(t, n) : t \in {"number", "text"}, n \in 0..3}
         \cup {[dtype |-> "other", vals |-> <<1, 2>>], [dtype |-> "bool", vals |-> <<0, 1, 1>>]}
MCComparedFrames == {Column :> s : s \in Small} \cup {OtherColumn :> [dtype |-> "bool", vals |-> <<0, 1>>]}

mcDriftVars == <<readerVars, baseline, current>>

NoFrame == Column :> [dtype |-> "other", vals |-> <<>>]

\* The results the detections of the other part come to: one that tested
\* nothing, one without drift and one with.
Alike == Column :> [dtype |-> "number", vals |-> <<0, 1, 2>>]
Apart == (Column :> [dtype |-> "number", vals |-> <<2, 2, 2>>])
         @@ (OtherColumn :> [dtype |-> "text", vals |-> <<>>])
Drifted ==
    [status |-> "ok",
     summary |-> [columns_tested |-> 1, columns_skipped |-> 1, columns_drifted |-> 1,
                  drift_detected |-> TRUE],
     columns |-> {Skip(Entry(OtherColumn, "categorical", <<>>, <<>>), "column_missing"),
                  [FinishTested(Entry(Column, "numeric", Alike[Column].vals, Apart[Column].vals),
                                "ks", TRUE)
                     EXCEPT !.psi = 1, !.js = 1, !.wasserstein = 1, !.bins = PsiBins]}]
Untested ==
    [status |-> "unavailable", columns |-> {},
     summary |-> [columns_tested |-> 0, columns_skipped |-> 0, columns_drifted |-> 0,
                  drift_detected |-> FALSE]]
ASSUME ResultsAreReal ==
    /\ Drifted \in DetectDriftFrames(Alike, Apart, MinSamples, MaxCategories, TRUE)
    /\ Untested \in DetectDriftFrames(Alike, Alike, MinSamples, MaxCategories, FALSE)
MCResults == {Untested, Drifted}

Ask(kind, ds, limit) ==
    [kind |-> kind, ds |-> ds, limit |-> limit, columns |-> TRUE, bins |-> TRUE,
     chart |-> "all", maxRate |-> 20, maxPsi |-> 0, send |-> TRUE, plan |-> <<>>]
Calls ==
    {Ask(kind, NoDataset, Unlimited) :
        kind \in {"report", "mirror", "notify", "list", "trend", "columns", "explorer"}}
    \cup {Ask(kind, NoDataset, 1) : kind \in {"report", "dashboard", "workbook", "explorer"}}
    \cup {Ask("report", "other", Unlimited),
          [Ask("plots", "other", Unlimited) EXCEPT !.chart = "psi-by-column"],
          Ask("plots", NoDataset, Unlimited)}

ComparisonOff == baseline = NoFrame /\ current = NoFrame

Bounded == Len(history') <= MaxHistory /\ UNCHANGED <<baseline, current>>

ImportingNext == DriftNext /\ Bounded /\ UNCHANGED <<reader, output>>

\* While one reads, a single process detects, and keeps the report of a drift.
Plain ==
    /\ \A d \in Detectors : d # (CHOOSE x \in Detectors : TRUE) => detector'[d] = Idle
    /\ \A d \in Detectors : detector'[d] # Idle =>
         detector'[d].keep /\ detector'[d].path \in Paths /\ detector'[d].result = Drifted

ReadingNext ==
    /\ ReadersNext(Calls)
    /\ Plain
    /\ \A r \in Readers : reader[r] # NothingAsked /\ Answered(reader[r]) => reader' = reader
    /\ Bounded

\* The evidence of a run, for the disagreement with the documentation.
EvidenceSpec == ReadersInit /\ ComparisonOff /\ [][ImportingNext]_mcDriftVars
=============================================================================
