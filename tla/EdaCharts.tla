------------------------------ MODULE EdaCharts ------------------------------
(***************************************************************************)
(* The builders of the EDA Explorer (adapters/ui/eda.py): what a view of a *)
(* frame draws of the columns it is given, which rows its marks count, and *)
(* when it refuses.                                                        *)
(* A frame is a table of StatisticsTests over its own columns, ColumnSeq   *)
(* in their order.  A date is a cell of its own kind, with its day for a   *)
(* value, in a column of texts; a missing cell has one value, which a text *)
(* "(missing)" of the file shares.  Equal frequencies are ordered by the   *)
(* value.  Coordinates, quantiles and coefficients are left out.  Frames   *)
(* have no more columns than the summaries take (MAX_SUMMARY_COLUMNS): of  *)
(* wider ones, most views and rules look at the first of them alone.       *)
(***************************************************************************)
EXTENDS StatisticsTests

CONSTANTS
    ColumnSeq,       \* the columns of the frames
    MissingLabel,    \* the value of "(missing)"
    OtherLabel,      \* the value of "(other)"
    PlotRows,        \* MAX_PLOT_ROWS, and the other caps on points
    TopMax,          \* MAX_TOP_CATEGORIES, and the other caps on levels
    RareBelow,       \* PARETO_MIN_CATEGORY_COUNT
    QQMin,           \* QQ_MIN_OBSERVATIONS
    OutlierColumns,  \* MAX_OUTLIER_COLUMNS
    CorrColumns,     \* MAX_CORRELATION_COLUMNS
    AssocColumns,    \* CATEGORICAL_ASSOC_MAX_COLUMNS, MISSINGNESS_ASSOC_MAX_COLUMNS
    PairsMax,        \* TOP_RELATIONSHIP_PAIRS
    HistogramMin, HistogramMax  \* MIN_HISTOGRAM_BINS, MAX_HISTOGRAM_BINS

\* MAX_SUMMARY_COLUMNS.
SummaryColumns == 100

AllColumns == {ColumnSeq[k] : k \in DOMAIN ColumnSeq}

ASSUME ChartsAssumption ==
    /\ ColumnSeq \in Seq(AllColumns) /\ IsInjective(ColumnSeq) /\ Len(ColumnSeq) <= SummaryColumns
    /\ {MissingLabel, OtherLabel} \subseteq Int
    /\ {PlotRows, TopMax, QQMin, HistogramMin} \subseteq Nat \ {0, 1}
    /\ {RareBelow, OutlierColumns, CorrColumns, AssocColumns, PairsMax} \subseteq Nat
    /\ HistogramMax \in HistogramMin .. 50

(***************************************************************************)
(* What a view answers: its status, how many rows each of its marks        *)
(* counts, how many rows it says it covers, and whether it says that it    *)
(* shows less than there is.                                               *)
(***************************************************************************)
View(status, marks, covers, less) ==
    [status |-> status, marks |-> marks, covers |-> covers, less |-> less]

NoMarks == <<>>

Refused(status) == View(status, NoMarks, 0, FALSE)

Drawn(v) == SumFunction(v.marks)

Atmost(n, seq) == SubSeq(seq, 1, IF n < Len(seq) THEN n ELSE Len(seq))

Smaller(a, b) == IF a < b THEN a ELSE b

-----------------------------------------------------------------------------
(***************************************************************************)
(* Columns                                                                 *)
(***************************************************************************)

\* select_dtypes("number") leaves the flags out, is_numeric_dtype does not.
IsNumber(t, x) == t /= <<>> /\ IsNumeric(t, x)

IsFlags(t, x) == t /= <<>> /\ \A i \in DOMAIN t : t[i][x].kind = "flag"

IsNumericDtype(t, x) == IsNumber(t, x) \/ IsFlags(t, x)

\* Columns by an order of them, given as the set of its pairs.
ColumnsBy(S, order) ==
    [r \in 1 .. Cardinality(S) |-> CHOOSE x \in S : Cardinality({y \in S : <<y, x>> \in order}) = r]

FrameOrder ==
    {<<ColumnSeq[p[1]], ColumnSeq[p[2]]>> :
        p \in {q \in (DOMAIN ColumnSeq) \X (DOMAIN ColumnSeq) : q[1] <= q[2]}}

InFrame(S) == ColumnsBy(S, FrameOrder)

NumberColumns(t) == {x \in AllColumns : IsNumber(t, x)}

NumberSeq(t) == InFrame(NumberColumns(t))

Usable(t, x) == Finite(t, x, DOMAIN t)

Distinct(t, x, rows) == {t[i][x].value : i \in rows}

CountsOf(t, x, rows) ==
    [v \in Distinct(t, x, rows) |-> Size({i \in rows : t[i][x].value = v})]

\* value_counts().head(n) of the levels.
TopOf(counts, levels, n) ==
    CHOOSE top \in kSubset(Smaller(n, Cardinality(levels)), levels) :
        \A a \in top, b \in levels \ top :
            counts[a] > counts[b] \/ (counts[a] = counts[b] /\ a < b)

Total(counts, levels) == SumFunction([v \in levels |-> counts[v]])

\* Mutation: the bucket replaces the level of its name.
FoldedOver(counts, kept) ==
    LET rest == Total(counts, DOMAIN counts \ kept)
        labels == kept \cup (IF rest > 0 THEN {OtherLabel} ELSE {})
    IN  [v \in labels |-> IF v = OtherLabel /\ rest > 0 THEN rest ELSE counts[v]]

\* The levels beyond the kept ones fall into one bucket, which a level with
\* the bucket's name shares.
Folded(counts, kept) ==
    LET rest == Total(counts, DOMAIN counts \ kept)
        labels == kept \cup (IF rest > 0 THEN {OtherLabel} ELSE {})
    IN  [v \in labels |-> (IF v \in kept THEN counts[v] ELSE 0)
                          + (IF v = OtherLabel THEN rest ELSE 0)]

\* Dates are texts that parse; a column of them is offered when 0.8 of it does.
Parsed(t, d) == {i \in DOMAIN t : t[i][d].kind = "date text"}

Confident(t, d) == 10 * Size(Parsed(t, d)) >= 8 * Len(t)

DateColumns(t) == {x \in AllColumns : t /= <<>> /\ ~IsNumericDtype(t, x) /\ Confident(t, x)}

DatetimeCandidates(t) == InFrame(DateColumns(t))

Period(day, granularity) ==
    CASE granularity = "week"  -> 7 * (day \div 7)
      [] granularity = "month" -> 30 * (day \div 30)
      [] OTHER                 -> day

\* _deterministic_row_positions: linspace, rounded half to even.
RoundHalfEven(n, d) ==
    LET q == n \div d
        r == 2 * (n % d)
    IN  IF r > d \/ (r = d /\ q % 2 = 1) THEN q + 1 ELSE q

RowPositions(count, max) ==
    IF count <= max THEN 1 .. count
                    ELSE {1 + RoundHalfEven(k * (count - 1), max - 1) : k \in 0 .. max - 1}

-----------------------------------------------------------------------------
(***************************************************************************)
(* One numeric column                                                      *)
(***************************************************************************)

\* Equal widths, closed on the right; the least value falls into the first.
BinOf(values, bins, v) ==
    LET low == Min(values)
        span == Max(values) - low
    IN  IF v = low THEN 1 ELSE (((v - low) * bins) + span - 1) \div span

NumericHistogram(t, x, bins) ==
    LET rows == Usable(t, x)
        values == Distinct(t, x, rows)
    IN  CASE ~IsNumericDtype(t, x)         -> Refused("invalid_type")
          [] Cardinality(values) < 2       -> Refused("insufficient_data")
          [] OTHER ->
                View("ok", [b \in 1 .. bins |-> Size({i \in rows : BinOf(values, bins, t[i][x].value) = b})],
                     Size(rows), FALSE)

\* Freedman and Diaconis, or the square root, between the two bounds.
AutoHistogramBins == HistogramMin .. HistogramMax

DensityCurve(t, x, bins) ==
    LET histogram == NumericHistogram(t, x, bins)
    IN  IF histogram.status = "ok" /\ Drawn(histogram) = 0 THEN Refused("insufficient_data") ELSE histogram

Sampled(n) == Smaller(n, PlotRows)

Boxplot(t, x) ==
    LET n == Size(Usable(t, x))
    IN  CASE ~IsNumericDtype(t, x) -> Refused("invalid_type")
          [] n < 1                 -> Refused("insufficient_data")
          [] OTHER                 -> View("ok", [k \in 1 .. Sampled(n) |-> 1], Sampled(n), n > PlotRows)

\* The marks of a distribution function are the steps that are left, with the
\* rows up to each of them.
NumericEcdf(t, x) ==
    LET rows == Usable(t, x)
        values == Distinct(t, x, rows)
        Below(v) == Size({i \in rows : t[i][x].value <= v})
        Rank(v) == Cardinality({w \in values : w <= v})
        left == {v \in values : Rank(v) \in RowPositions(Cardinality(values), PlotRows)}
    IN  CASE ~IsNumericDtype(t, x) -> Refused("invalid_type")
          [] rows = {}             -> Refused("insufficient_data")
          [] OTHER                 -> View("ok", [v \in left |-> Below(v)], Size(rows), left /= values)

\* Both scales vanish when all values are one.
RobustScaleExists(values) == Cardinality(values) >= 2

\* The ranks that are plotted.
QQNormal(t, x) ==
    LET n == Size(Usable(t, x))
        ranks == RowPositions(n, PlotRows)
    IN  CASE ~IsNumericDtype(t, x) /\ n = 0                        -> Refused("invalid_type")
          [] n < QQMin                                             -> Refused("insufficient_data")
          [] ~RobustScaleExists(Distinct(t, x, Usable(t, x)))      -> Refused("insufficient_variation")
          [] OTHER -> View("ok", [k \in ranks |-> k], n, Cardinality(ranks) < n)

\* The finite values alone are looked at; without enough of them a column
\* counts nothing.
OutlierSummary(t) ==
    LET columns == Atmost(OutlierColumns, NumberSeq(t))
    IN  IF columns = <<>> THEN Refused("no_numeric")
        ELSE View("ok", [k \in DOMAIN columns |-> Size(Usable(t, columns[k])) >= 4],
                  0, Len(NumberSeq(t)) > OutlierColumns)

\* Skewness takes three values, kurtosis four.
SkewKurtosis(t) ==
    [k \in DOMAIN NumberSeq(t) |->
        LET n == Size(Usable(t, NumberSeq(t)[k]))
        IN  [count |-> n, skewness |-> n > 2, kurtosis |-> n > 3]]

-----------------------------------------------------------------------------
(***************************************************************************)
(* One categorical column                                                  *)
(***************************************************************************)

\* With the missing cells as a category of their own.
CategoryCounts(t, x, withMissing) ==
    CountsOf(t, x, IF withMissing THEN DOMAIN t ELSE Present(t, x))

Population(t, x, withMissing) == IF withMissing THEN Len(t) ELSE Size(Present(t, x))

\* The missing bucket takes the last place when it is not frequent enough.
TopKept(counts, n, withMissing) ==
    LET top == TopOf(counts, DOMAIN counts, n)
    IN  IF withMissing /\ MissingLabel \in DOMAIN counts \ top
        THEN TopOf(counts, DOMAIN counts, n - 1) \cup {MissingLabel}
        ELSE top

TopFrequency(t, x, n, withMissing, otherBucket) ==
    LET counts == CategoryCounts(t, x, withMissing)
        kept == TopKept(counts, Smaller(n, TopMax), withMissing)
    IN  CASE IsNumericDtype(t, x)  -> Refused("invalid_type")
          [] kept = {}             -> Refused("no_data")
          [] OTHER -> View("ok", IF otherBucket THEN Folded(counts, kept)
                                                ELSE [v \in kept |-> counts[v]],
                           Population(t, x, withMissing), kept /= DOMAIN counts)

\* More levels than the view shows, and nine tenths of the rows.
IsNearUnique(levels, rows) == rows > 0 /\ levels > TopMax /\ 10 * levels >= 9 * rows

\* Rare levels are never shown; the missing bucket is no level.
ParetoShown(counts, withMissing) ==
    LET shown == {v \in DOMAIN counts : counts[v] >= RareBelow \/ (withMissing /\ v = MissingLabel)}
    IN  TopOf(counts, shown, TopMax)

ParetoCategory(t, x, withMissing) ==
    LET counts == CategoryCounts(t, x, withMissing)
        shown == ParetoShown(counts, withMissing)
        rows == Population(t, x, withMissing)
    IN  CASE IsNumericDtype(t, x)                        -> Refused("invalid_type")
          [] rows = 0                                    -> Refused("no_data")
          [] IsNearUnique(Cardinality(DOMAIN counts), rows) -> Refused("near_unique")
          [] OTHER -> View("ok", Folded(counts, shown), rows, shown /= DOMAIN counts)

-----------------------------------------------------------------------------
(***************************************************************************)
(* Two columns                                                             *)
(***************************************************************************)

FinitePairs(t, x, y) == Usable(t, x) \cap Usable(t, y)

PairRefusal(t, x, y) ==
    LET rows == FinitePairs(t, x, y)
    IN  CASE ~IsNumericDtype(t, x) \/ ~IsNumericDtype(t, y) -> "invalid_type"
          [] \E z \in {x, y} : IsConstant(t, z, rows)       -> "insufficient_data"
          [] OTHER                                          -> ""

\* The rows a scatter may plot: all of them, or a random sample.
Plots(t, x, y) ==
    kSubset(Sampled(Size(FinitePairs(t, x, y))), FinitePairs(t, x, y))

BoundedScatter(t, x, y, plot) ==
    IF PairRefusal(t, x, y) /= "" THEN Refused(PairRefusal(t, x, y))
    ELSE View("ok", [i \in plot |-> 1], Size(plot), plot /= FinitePairs(t, x, y))

\* A line through the rows that are plotted, from end to end.
LinearTrendline(t, x, y, plot) ==
    IF IsConstant(t, x, plot) THEN Refused("insufficient_data")
    ELSE View("ok", <<Min(Distinct(t, x, plot)), Max(Distinct(t, x, plot))>>, Size(plot), FALSE)

\* The percentiles of few rows lie strictly inside the least and the greatest
\* value, unless these occur twice.
InDomain(t, x, rows) ==
    LET Beyond(S) == IF Cardinality(S) = 1 THEN S ELSE {}
        values == Distinct(t, x, rows)
    IN  rows \ (Beyond({i \in rows : t[i][x].value = Min(values)})
                \cup Beyond({i \in rows : t[i][x].value = Max(values)}))

\* One mark: how the rows fall into the cells of the grid plays no part.
DensityHeatmap(t, x, y, clip) ==
    LET rows == FinitePairs(t, x, y)
        counted == IF clip THEN InDomain(t, x, rows) \cap InDomain(t, y, rows) ELSE rows
    IN  CASE PairRefusal(t, x, y) /= ""  -> Refused(PairRefusal(t, x, y))
          [] counted = {}                -> Refused("insufficient_data")
          [] OTHER                       -> View("ok", <<Size(counted)>>, Size(counted), clip)

NumericByCategory(t, x, g) ==
    LET rows == Usable(t, x) \cap Present(t, g)
        counts == CountsOf(t, g, rows)
        top == TopOf(counts, DOMAIN counts, TopMax)
    IN  CASE ~IsNumericDtype(t, x) \/ IsNumericDtype(t, g) -> Refused("invalid_type")
          [] rows = {}                                     -> Refused("no_data")
          [] OTHER -> View("ok", [v \in top |-> counts[v]], Size(rows), top /= DOMAIN counts)

Crosstab(t, x, y) ==
    LET rows == Present(t, x) \cap Present(t, y)
        Top(z) == TopOf(CountsOf(t, z, rows), Distinct(t, z, rows), TopMax)
        capped == {i \in rows : t[i][x].value \in Top(x) /\ t[i][y].value \in Top(y)}
        cells == Distinct(t, x, capped) \X Distinct(t, y, capped)
    IN  CASE IsNumericDtype(t, x) \/ IsNumericDtype(t, y) -> Refused("invalid_type")
          [] capped = {}                                  -> Refused("no_data")
          [] OTHER ->
                View("ok", [c \in cells |-> Size({i \in capped : <<t[i][x].value, t[i][y].value>> = c})],
                     Size(rows), \E z \in {x, y} : Distinct(t, z, rows) /= Top(z))

\* The same table, cell by cell.
CrosstabHeatmap(t, x, y) == Crosstab(t, x, y)

-----------------------------------------------------------------------------
(***************************************************************************)
(* Columns of dates                                                        *)
(***************************************************************************)

Periods(t, d, rows, granularity) == {Period(t[i][d].value, granularity) : i \in rows}

InPeriods(t, d, rows, granularity) ==
    [p \in Periods(t, d, rows, granularity) |-> Size({i \in rows : Period(t[i][d].value, granularity) = p})]

\* The rows of a trend: without a metric, all that have a date.
DatedRows(t, d, metric) == IF metric = "" THEN Parsed(t, d) ELSE Parsed(t, d) \cap Usable(t, metric)

MetricRefused(t, metric) == metric /= "" /\ ~IsNumericDtype(t, metric)

InTime(t, d, metric, granularity) ==
    LET rows == DatedRows(t, d, metric)
    IN  CASE MetricRefused(t, metric)                            -> Refused("invalid_type")
          [] ~Confident(t, d)                                    -> Refused("low_parse_confidence")
          [] rows = {}                                           -> Refused("no_data")
          [] Cardinality(Periods(t, d, rows, granularity)) < 2   -> Refused("insufficient_data")
          [] OTHER -> View("ok", InPeriods(t, d, rows, granularity), Size(rows), rows /= DOMAIN t)

DatetimeTrend(t, d, metric, granularity) ==
    IF t = <<>> THEN Refused("no_data") ELSE InTime(t, d, metric, granularity)

DatetimeAggregation(t, d, metric, granularity) == InTime(t, d, metric, granularity)

\* The missing cells are a category, and every level beyond the top is another.
DatetimeCategories(t, d, x, granularity, n) ==
    LET rows == Parsed(t, d)
        counts == CountsOf(t, x, rows)
        kept == TopOf(counts, DOMAIN counts, n)
        LabelOf(i) == IF t[i][x].value \in kept THEN t[i][x].value ELSE OtherLabel
        cells == {<<Period(t[i][d].value, granularity), LabelOf(i)>> : i \in rows}
    IN  CASE IsNumericDtype(t, x)  -> Refused("invalid_type")
          [] ~Confident(t, d)      -> Refused("low_parse_confidence")
          [] rows = {}             -> Refused("no_data")
          [] OTHER ->
                View("ok",
                     [c \in cells |-> Size({i \in rows : <<Period(t[i][d].value, granularity), LabelOf(i)>> = c})],
                     Size(rows), kept /= DOMAIN counts)

-----------------------------------------------------------------------------
(***************************************************************************)
(* All columns                                                             *)
(***************************************************************************)

MissingIn(t, x) == DOMAIN t \ Present(t, x)

\* By their share, most first.
MissingOrder(t) ==
    {p \in AllColumns \X AllColumns :
        \/ Size(MissingIn(t, p[1])) > Size(MissingIn(t, p[2]))
        \/ Size(MissingIn(t, p[1])) = Size(MissingIn(t, p[2])) /\ p \in FrameOrder}

MissingnessSummary(t) == ColumnsBy(AllColumns, MissingOrder(t))

\* How many cells of each column are missing.
MissingnessBar(t) ==
    View("ok", [k \in DOMAIN MissingnessSummary(t) |-> Size(MissingIn(t, MissingnessSummary(t)[k]))], 0, FALSE)

\* The names of the columns are in the order of the columns.
MissingColumns(t, varying) ==
    ColumnsBy({x \in AllColumns : MissingIn(t, x) /= {} /\ (varying => MissingIn(t, x) /= DOMAIN t)},
              MissingOrder(t))

MissingnessPattern(t) ==
    LET columns == MissingColumns(t, FALSE)
        rows == RowPositions(Len(t), PlotRows)
    IN  IF columns = <<>> THEN Refused("no_missing_values")
        ELSE View("ok",
                  [k \in DOMAIN Atmost(AssocColumns, columns) |-> Size(MissingIn(t, columns[k]) \cap rows)],
                  0, rows /= DOMAIN t \/ Len(columns) > AssocColumns)

MissingnessAssociation(t) ==
    LET columns == Atmost(AssocColumns, MissingColumns(t, TRUE))
        rows == RowPositions(Len(t), PlotRows)
        varying == {k \in DOMAIN columns : MissingIn(t, columns[k]) \cap rows \notin {{}, rows}}
    IN  CASE Len(MissingColumns(t, TRUE)) < 2 -> Refused("insufficient_columns")
          [] Cardinality(varying) < 2         -> Refused("insufficient_variation")
          [] OTHER                            -> View("ok", varying, 0, rows /= DOMAIN t)

\* The pairs of a matrix whose strength is defined, each once, the strongest of
\* them; which these are is left out.
RankedPairs(columns, comparable) ==
    LET pairs == {p \in (DOMAIN columns) \X (DOMAIN columns) :
                     p[1] < p[2] /\ <<columns[p[1]], columns[p[2]]>> \in comparable}
    IN  View(IF pairs = {} THEN "none" ELSE "ok", pairs, 0, Cardinality(pairs) > PairsMax)

\* What was selected, in the order of the frame; nothing usable selects the first.
CorrelationColumns(t, selected) ==
    LET chosen == NumberColumns(t) \cap selected
    IN  Atmost(CorrColumns, InFrame(IF chosen = {} THEN NumberColumns(t) ELSE chosen))

\* The pairs with a coefficient: two rows in which both are finite, and both vary
\* over these (min_periods = 2).
CorrelationMatrix(t, selected) ==
    LET columns == CorrelationColumns(t, selected)
        over == {columns[k] : k \in DOMAIN columns}
    IN  {p \in over \X over :
            LET rows == FinitePairs(t, p[1], p[2])
            IN  Size(rows) >= 2 /\ ~IsConstant(t, p[1], rows) /\ ~IsConstant(t, p[2], rows)}

CorrelationHeatmap(t, selected) ==
    LET columns == CorrelationColumns(t, selected)
    IN  IF Len(columns) < 2 THEN Refused("insufficient_numeric")
        ELSE View("ok", columns, 0, Len(NumberSeq(t)) > CorrColumns)

\* Mutation: the cap itself counts as too many levels.
ColumnRefusalAtCap(t, x) ==
    LET n == Size(Present(t, x))
        levels == Cardinality(Distinct(t, x, Present(t, x)))
    IN  CASE n = 0      -> "empty"
          [] levels = 1 -> "constant"
          [] levels >= TopMax /\ 10 * levels >= 9 * n -> "near_unique"
          [] OTHER      -> ""

ColumnRefusal(t, x) ==
    LET n == Size(Present(t, x))
        levels == Cardinality(Distinct(t, x, Present(t, x)))
    IN  CASE n = 0                 -> "empty"
          [] levels = 1            -> "constant"
          [] levels > TopMax /\ 10 * levels >= 9 * n -> "near_unique"
          [] OTHER                 -> ""

AssociationCandidates(t, selected) ==
    InFrame({x \in AllColumns : x \in selected /\ ~IsNumericDtype(t, x) /\ ColumnRefusal(t, x) = ""})

\* The levels a column keeps in the rows looked at, missing cells among them;
\* all others are one.
CappedLevels(t, x, rows) ==
    LET counts == CountsOf(t, x, rows)
        kept == TopOf(counts, DOMAIN counts, TopMax)
    IN  kept \cup (IF kept = DOMAIN counts THEN {} ELSE {OtherLabel})

\* The corrected coefficient exists when both have levels, and fewer than rows.
CramersVExists(t, x, y, rows) ==
    \A z \in {x, y} : Cardinality(CappedLevels(t, z, rows)) \in 2 .. Size(rows) - 1

CategoricalAssociation(t, selected) ==
    LET usable == AssociationCandidates(t, selected)
        rows == RowPositions(Len(t), PlotRows)
    IN  IF Len(Atmost(AssocColumns, usable)) < 2 THEN Refused("insufficient_columns")
        ELSE View("ok", Atmost(AssocColumns, usable), 0, rows /= DOMAIN t \/ Len(usable) > AssocColumns)
=============================================================================
