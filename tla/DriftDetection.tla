--------------------------- MODULE DriftDetection ---------------------------
(* The comparison of a reference frame with a current one                  *)
(* (domain/statistics/drift.py).  A frame is a function from its columns   *)
(* to series; a series is its kind of dtype and the sequence of its values *)
(* that are not null, small integers.  A p-value below alpha is an         *)
(* external choice, except that equal samples never differ.  The metrics   *)
(* are 0 when the two distributions they compare are the same and 1 when   *)
(* they are not; the smoothing by 1e-6 is left out.                        *)
EXTENDS Integers, FiniteSets, Sequences, FiniteSetsExt

CONSTANTS
    MinExpected,        \* MIN_EXPECTED_FREQUENCY
    PsiBins             \* _PSI_N_BINS

ASSUME DetectionAssumption == MinExpected \in Nat /\ PsiBins \in Nat \ {0}

NoValue == "none"
Unmeasured == -1        \* a metric that was not computed
OtherBucket == -1       \* OTHER_BUCKET: no value of a frame

ColumnKind(series) ==
    CASE series.dtype \in {"bool", "category", "text"} -> "categorical"
      [] series.dtype = "number" -> "numeric"
      [] OTHER -> NoValue

Entry(column, kind, ref, cur) ==
    [column |-> column, kind |-> kind, test |-> NoValue, drift |-> NoValue,
     reference_n |-> Len(ref), current_n |-> Len(cur), status |-> "skipped",
     skip_reason |-> NoValue, psi |-> Unmeasured, js |-> Unmeasured,
     wasserstein |-> Unmeasured,
     bins |-> 0]

Skip(entry, reason) ==
    [entry EXCEPT !.status = "skipped", !.skip_reason = reason]

FinishTested(entry, test, below) ==
    [entry EXCEPT !.test = test, !.drift = IF below THEN "yes" ELSE "no", !.status = "tested",
                  !.skip_reason = NoValue]

Occurrences(v, vals) == Cardinality({i \in DOMAIN vals : vals[i] = v})
Values(vals) == {vals[i] : i \in DOMAIN vals}

\* The categories that keep a column of their own: the most frequent ones of
\* both samples together.  Ties are broken by the sort, which is not stable.
KeptCategories(ref, cur, max) ==
    LET all == Values(ref) \cup Values(cur)
        total(v) == Occurrences(v, ref) + Occurrences(v, cur)
    IN {keep \in SUBSET all :
          /\ Cardinality(keep) = IF Cardinality(all) < max
                                 THEN Cardinality(all) ELSE max
          /\ \A k \in keep, d \in all \ keep : total(k) >= total(d)}

Bucketed(vals, keep, v) ==
    IF v = OtherBucket THEN Cardinality({i \in DOMAIN vals : vals[i] \notin keep})
    ELSE Occurrences(v, vals)

\* Row by row: a bucket for the rest appears when either side needs it.
ContingencyTable(ref, cur, keep) ==
    LET other == IF Bucketed(ref, keep, OtherBucket) > 0
                    \/ Bucketed(cur, keep, OtherBucket) > 0
                 THEN {OtherBucket} ELSE {}
    IN [v \in keep \cup other |->
          [reference |-> Bucketed(ref, keep, v), current |-> Bucketed(cur, keep, v)]]

\* Every value is in one bucket: the row of a sample sums to its size.
RowTotals(ref, cur) == [reference |-> Len(ref), current |-> Len(cur)]

SameProportions(table, total) ==
    \A v \in DOMAIN table :
        table[v].reference * total.current = table[v].current * total.reference

\* Quantile k/PsiBins of a sorted sample, scaled by PsiBins: numpy's linear
\* interpolation between neighbours is exact in integers.
Quantile(sorted, k) ==
    LET position == k * (Len(sorted) - 1)
        low == position \div PsiBins
        rest == position % PsiBins
    IN IF rest = 0 THEN PsiBins * sorted[low + 1]
       ELSE (PsiBins - rest) * sorted[low + 1] + rest * sorted[low + 2]

SortedSample(vals) ==
    CHOOSE s \in [DOMAIN vals -> Values(vals)] :
        /\ \A i, j \in DOMAIN vals : i < j => s[i] <= s[j]
        /\ \A v \in Values(vals) : Occurrences(v, s) = Occurrences(v, vals)

\* Bins by the quantiles of the reference.  The outer edges become infinite,
\* so only the inner ones cut; no bins for a reference of one value.
ProbVectorsNumeric(ref, cur) ==
    LET sorted == SortedSample(ref)
        edges == {Quantile(sorted, k) : k \in 0..PsiBins}
        inner == edges \ {Min(edges), Max(edges)}
        bin(v) == Cardinality({e \in inner : e <= PsiBins * v})
        count(vals, b) == Cardinality({i \in DOMAIN vals : bin(vals[i]) = b})
    IN IF Cardinality(edges) < 2 THEN <<>>
       ELSE [b \in 1..(Cardinality(inner) + 1) |->
               [reference |-> count(ref, b - 1), current |-> count(cur, b - 1)]]

Distance(table, total) == IF SameProportions(table, total) THEN 0 ELSE 1

AttachMetrics(entry, ref, cur, keep) ==
    LET distance(table) == Distance(table, RowTotals(ref, cur))
    IN IF entry.kind = "numeric"
       THEN LET vectors == ProbVectorsNumeric(ref, cur)
                far == distance(ContingencyTable(ref, cur, Values(ref) \cup Values(cur)))
            IN IF vectors = <<>> THEN [entry EXCEPT !.wasserstein = far]
               ELSE [entry EXCEPT !.psi = distance(vectors), !.js = distance(vectors),
                                  !.bins = Len(vectors), !.wasserstein = far]
       ELSE LET table == ContingencyTable(ref, cur, keep)
            IN [entry EXCEPT !.psi = distance(table), !.js = distance(table),
                             !.bins = Cardinality(DOMAIN table)]

ExpectedTooLow(table, total) ==
    \E v \in DOMAIN table, side \in {"reference", "current"} :
        total[side] * (table[v].reference + table[v].current)
          < MinExpected * (total.reference + total.current)

\* Whether a test can find a p-value below alpha: not on equal samples.
PossiblyBelow(table, total) == IF SameProportions(table, total) THEN {FALSE} ELSE BOOLEAN

TestCategorical(entry, table, total) ==
    IF Cardinality(DOMAIN table) < 2 THEN {Skip(entry, "single_category")}
    ELSE IF ExpectedTooLow(table, total) THEN {Skip(entry, "expected_frequency_too_low")}
    ELSE {FinishTested(entry, "chi_square", below) : below \in PossiblyBelow(table, total)}

TooFewInReference(ref, cur, minSamples) == Len(ref) < minSamples
TooFew(ref, cur, minSamples) == Len(ref) < minSamples \/ Len(cur) < minSamples

\* The entries the comparison of one column may come to.
DriftForColumn(column, reference, current, minSamples, maxCategories) ==
    IF ~(column \in DOMAIN reference /\ column \in DOMAIN current)
    THEN LET side == IF column \in DOMAIN reference THEN reference[column]
                     ELSE current[column]
         IN {Skip(Entry(column, ColumnKind(side), <<>>, <<>>), "column_missing")}
    ELSE LET refKind == ColumnKind(reference[column])
             curKind == ColumnKind(current[column])
             ref == reference[column].vals
             cur == current[column].vals
             entry == Entry(column, refKind, ref, cur)
         IN CASE NoValue \in {refKind, curKind} ->
                   {Skip(Entry(column, IF refKind = NoValue THEN curKind ELSE refKind,
                               <<>>, <<>>), "unsupported_dtype")}
              [] NoValue \notin {refKind, curKind} /\ refKind # curKind ->
                   {Skip(Entry(column, refKind, <<>>, <<>>), "dtype_mismatch")}
              [] refKind = curKind /\ refKind # NoValue /\ <<>> \in {ref, cur} ->
                   {Skip(entry, "all_null")}
              [] refKind = curKind /\ refKind # NoValue /\ <<>> \notin {ref, cur}
                   /\ TooFew(ref, cur, minSamples) ->
                   {Skip(entry, "insufficient_samples")}
              [] OTHER ->
                   UNION {LET measured == AttachMetrics(entry, ref, cur, keep)
                              total == RowTotals(ref, cur)
                          IN IF refKind = "numeric"
                             THEN {FinishTested(measured, "ks", below) :
                                     below \in PossiblyBelow(ContingencyTable(
                                         ref, cur, Values(ref) \cup Values(cur)), total)}
                             ELSE TestCategorical(measured, ContingencyTable(ref, cur, keep), total) :
                          keep \in KeptCategories(ref, cur, maxCategories)}

Summarize(columns) ==
    LET tested == {c \in columns : c.status = "tested"}
        drifted == {c \in tested : c.drift = "yes"}
    IN [columns_tested |-> Cardinality(tested),
        columns_skipped |-> Cardinality(columns) - Cardinality(tested),
        columns_drifted |-> Cardinality(drifted),
        drift_detected |-> drifted # {}]

\* The results of a comparison: none at all for limits that raise, one that
\* tested nothing without scipy.
DetectDriftFrames(reference, current, minSamples, maxCategories, scipy) ==
    IF minSamples < 2 \/ maxCategories < 2 THEN {}
    ELSE IF ~scipy
    THEN {[status |-> "unavailable", columns |-> {}, summary |-> Summarize({})]}
    ELSE LET seen == DOMAIN reference \cup DOMAIN current
             outcomes(c) == DriftForColumn(c, reference, current, minSamples, maxCategories)
         IN {[status |-> "ok", columns |-> {picked[c] : c \in seen},
              summary |-> Summarize({picked[c] : c \in seen})] :
               picked \in {f \in [seen -> UNION {outcomes(c) : c \in seen}] :
                             \A c \in seen : f[c] \in outcomes(c)}}

\* What the verdict on a column is, whatever its metrics are.
Verdicts(entries) ==
    {[test |-> e.test, drift |-> e.drift, status |-> e.status,
      skip_reason |-> e.skip_reason] : e \in entries}

\* The same verdicts on every column.
Symmetric(reference, current, minSamples, maxCategories) ==
    \A c \in DOMAIN reference \cup DOMAIN current :
        Verdicts(DriftForColumn(c, reference, current, minSamples, maxCategories))
          = Verdicts(DriftForColumn(c, current, reference, minSamples, maxCategories))

-----------------------------------------------------------------------------
(***************************************************************************)
(* Two frames that are compared, within the limits of a call.              *)
(***************************************************************************)
CONSTANTS Frames, MinSamples, MaxCategories

ASSUME FramesAssumption == \A f \in Frames : \A c \in DOMAIN f : f[c].vals \in Seq(Int)

VARIABLES baseline, current

ComparisonInit == baseline \in Frames /\ current \in Frames

ComparisonSpec == ComparisonInit /\ [][FALSE]_<<baseline, current>>

\* Which of two frames is called the baseline decides the bins of the metrics, but
\* never whether a column is tested, by which test, why it is skipped, or whether it
\* can be found to drift (detect_drift_frames).  A comparison that looked at one side
\* only (its size, its dtype, its rare categories) would answer differently for the
\* same pair of files in the other order.
VerdictIsSymmetric == Symmetric(baseline, current, MinSamples, MaxCategories)
=============================================================================
