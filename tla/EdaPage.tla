------------------------------- MODULE EdaPage -------------------------------
(***************************************************************************)
(* The EDA Explorer over a loaded frame (pages/eda_explorer.py): what its  *)
(* tabs offer and which views (EdaCharts) they draw for a choice           *)
(* (eda_sections.py), and what its Smart Guide suggests to look at         *)
(* (eda_guide.py).  Opt-in views are opted for.  Only the views of the     *)
(* last choice are kept.                                                   *)
(***************************************************************************)
EXTENDS EdaCharts

CONSTANTS
    EdaFrames,   \* the frames that can be explored
    GuideMax,    \* GUIDE_MAX_RECOMMENDATIONS
    SkewAbove    \* _SKEWNESS_THRESHOLD

ASSUME EdaAssumption ==
    /\ {GuideMax, SkewAbove} \subseteq Nat
    /\ EdaFrames \subseteq Seq([AllColumns -> [kind : STRING, class : STRING, value : Int, text : STRING]])

VARIABLES
    explored,    \* the frame of the page
    drawn        \* the views on the page, by name

edaVars == <<explored, drawn>>

EdaInit ==
    /\ explored \in EdaFrames
    /\ drawn = <<>>

Draw(views) == drawn' = views /\ UNCHANGED explored

ViewNamed(name, view) == [n \in {name} |-> view]

\* The views of both.
views ++ others ==
    [n \in DOMAIN views \cup DOMAIN others |-> IF n \in DOMAIN views THEN views[n] ELSE others[n]]

Granularity == {"day", "week", "month"}

-----------------------------------------------------------------------------
(***************************************************************************)
(* The Overview tab                                                        *)
(***************************************************************************)

RenderMissingness(t) == ViewNamed("missing", MissingnessBar(t))

RenderMissingnessPattern(t) == ViewNamed("pattern", MissingnessPattern(t))

RenderMissingnessAssociation(t) == ViewNamed("missing together", MissingnessAssociation(t))

\* What is missing together stands below the pattern.
RenderStructuralMissingness(t) ==
    LET pattern == RenderMissingnessPattern(t)
    IN  pattern ++ (IF pattern["pattern"].status = "ok" THEN RenderMissingnessAssociation(t) ELSE <<>>)

RenderOverviewTab ==
    Draw(RenderMissingness(explored) ++ RenderStructuralMissingness(explored))

-----------------------------------------------------------------------------
(***************************************************************************)
(* The Columns and Time tabs                                               *)
(***************************************************************************)

\* The same bins, when every edge is positive; the least lies a thousandth of
\* the span below the least value.
RenderLogHistogram(t, x, bins) ==
    LET values == Distinct(t, x, Usable(t, x))
    IN  ViewNamed("log histogram", IF 1000 * Min(values) > Max(values) - Min(values)
                               THEN NumericHistogram(t, x, bins) ELSE Refused("linear"))

RenderQQDiagnostic(t, x) == ViewNamed("qq", QQNormal(t, x))

RenderUnivariateNumeric ==
    \E col \in NumberColumns(explored), bins \in AutoHistogramBins :
        LET histogram == NumericHistogram(explored, col, bins)
            below == IF histogram.status /= "ok" THEN <<>>
                     ELSE ViewNamed("density", DensityCurve(explored, col, bins))
                          ++ ViewNamed("box", Boxplot(explored, col))
                          ++ RenderLogHistogram(explored, col, bins)
        IN  Draw(ViewNamed("histogram", histogram) ++ ViewNamed("ecdf", NumericEcdf(explored, col))
                 ++ RenderQQDiagnostic(explored, col) ++ below)

\* Every column that is no number is offered, flags too.
CategoricalOptions(t) == AllColumns \ NumberColumns(t)

RenderPareto(t, x, withMissing) == ViewNamed("pareto", ParetoCategory(t, x, withMissing))

\* The Pareto view stands below the most frequent values, if there are any.
RenderUnivariateCategorical ==
    \E x \in CategoricalOptions(explored), n \in 1 .. TopMax, withMissing, other \in BOOLEAN :
        LET top == TopFrequency(explored, x, n, withMissing, other)
        IN  Draw(ViewNamed(IF other THEN "top and other" ELSE "top", top)
                 ++ (IF top.status = "ok" THEN RenderPareto(explored, x, withMissing) ELSE <<>>))

RenderDatetimeTrend ==
    \E d \in DateColumns(explored), granularity \in Granularity, metric \in NumberColumns(explored) \cup {""} :
        Draw(ViewNamed("trend", DatetimeTrend(explored, d, metric, granularity)))

-----------------------------------------------------------------------------
(***************************************************************************)
(* The Advanced tab.  Both selections are cut to their caps, and an empty  *)
(* one stands for the first columns there are; with fewer than two columns *)
(* nothing is offered, and the builder takes what there is.                *)
(***************************************************************************)

\* Texts alone: no flags.
TextColumns(t) == {x \in AllColumns : ~IsNumericDtype(t, x)}

GuideCategorical(t) == InFrame(TextColumns(t))

Offered(options, chosen, max) ==
    LET taken == options \cap chosen
        kept == Atmost(max, InFrame(IF taken = {} THEN options ELSE taken))
    IN  IF Cardinality(options) < 2 THEN {} ELSE {kept[k] : k \in DOMAIN kept}

SelectCorrelationColumns(t, chosen) == Offered(NumberColumns(t), chosen, CorrColumns)

CategoricalAssociationColumns(t, chosen) == Offered(TextColumns(t), chosen, AssocColumns)

RenderNumericShape(t) ==
    ViewNamed("shape", IF NumberColumns(t) = {} THEN Refused("no_numeric")
                       ELSE View("ok", SkewKurtosis(t), 0, FALSE))

RenderCorrelationMatrix(t, chosen) ==
    ViewNamed("correlation", CorrelationHeatmap(t, SelectCorrelationColumns(t, chosen)))

\* From the matrix that was drawn.
RenderCorrelationPairs(t, chosen, heatmap) ==
    IF heatmap.status /= "ok" THEN <<>>
    ELSE ViewNamed("correlated",
                   RankedPairs(heatmap.marks, CorrelationMatrix(t, SelectCorrelationColumns(t, chosen))))

RenderCategoricalAssociation(t, chosen) ==
    LET selected == CategoricalAssociationColumns(t, chosen)
        matrix == CategoricalAssociation(t, selected)
        rows == RowPositions(Len(t), PlotRows)
        columns == {matrix.marks[k] : k \in DOMAIN matrix.marks}
        comparable == {p \in columns \X columns : CramersVExists(t, p[1], p[2], rows)}
    IN  ViewNamed("association", matrix)
        ++ (IF matrix.status = "ok" THEN ViewNamed("associated", RankedPairs(matrix.marks, comparable))
                                    ELSE <<>>)

RenderOutlierSummary(t) == ViewNamed("outliers", OutlierSummary(t))

RenderAdvancedTab ==
    \E chosen \in SUBSET AllColumns :
        LET correlation == RenderCorrelationMatrix(explored, chosen)
        IN  Draw(RenderNumericShape(explored) ++ correlation
                 ++ RenderCorrelationPairs(explored, chosen, correlation["correlation"])
                 ++ RenderCategoricalAssociation(explored, chosen)
                 ++ RenderOutlierSummary(explored))

-----------------------------------------------------------------------------
(***************************************************************************)
(* The Relationships tab                                                   *)
(***************************************************************************)

RenderDtNum(t, d, x, granularity) == ViewNamed("aggregation", DatetimeAggregation(t, d, x, granularity))

RenderDtCat(t, d, x, granularity, n) ==
    ViewNamed("time categories", DatetimeCategories(t, d, x, granularity, n))

RenderNumNumVega(t, x, y, plot) == ViewNamed("trend line", LinearTrendline(t, x, y, plot))

RenderNumNumDensity(t, x, y, clip) == ViewNamed("heatmap", DensityHeatmap(t, x, y, clip))

\* The scatter plots a sample, the heatmap below it counts every row.
RenderNumNum(t, x, y, clip, plot) ==
    LET scatter == BoundedScatter(t, x, y, plot)
    IN  ViewNamed("scatter", scatter)
        ++ (IF scatter.status = "ok" THEN RenderNumNumVega(t, x, y, plot) ++ RenderNumNumDensity(t, x, y, clip)
                                     ELSE <<>>)

RenderNumCat(t, x, g) == ViewNamed("by category", NumericByCategory(t, x, g))

RenderCatCatHeatmap(t, x, y) == ViewNamed("crosstab heatmap", CrosstabHeatmap(t, x, y))

RenderCatCatStacked(t, x, y) == ViewNamed("stacked", CrosstabHeatmap(t, x, y))

RenderCatCat(t, x, y) ==
    LET crossed == Crosstab(t, x, y)
    IN  ViewNamed("crosstab", crossed)
        ++ (IF crossed.status = "ok" THEN RenderCatCatHeatmap(t, x, y) ++ RenderCatCatStacked(t, x, y)
                                     ELSE <<>>)

\* Which view a pair of columns gets.
Route(t, x, y) ==
    LET WithDate(d, z) == <<IF IsNumericDtype(t, z) THEN "aggregation" ELSE "time categories", d, z>>
        OnlyDate(d, z) == d \in DateColumns(t) /\ z \notin DateColumns(t)
    IN  IF OnlyDate(x, y) THEN WithDate(x, y)
        ELSE IF OnlyDate(y, x) THEN WithDate(y, x)
        ELSE CASE IsNumericDtype(t, x) /\ IsNumericDtype(t, y)  -> <<"scatter", x, y>>
               [] IsNumericDtype(t, x) /\ ~IsNumericDtype(t, y) -> <<"by category", x, y>>
               [] IsNumericDtype(t, y) /\ ~IsNumericDtype(t, x) -> <<"by category", y, x>>
               [] OTHER                                         -> <<"crosstab", x, y>>

DispatchBivariate(t, x, y, granularity, n, clip, plot) ==
    LET route == Route(t, x, y)
        a == route[2]
        b == route[3]
    IN  CASE route[1] = "aggregation"     -> RenderDtNum(t, a, b, granularity)
          [] route[1] = "time categories" -> RenderDtCat(t, a, b, granularity, n)
          [] route[1] = "scatter"         -> RenderNumNum(t, a, b, clip, plot)
          [] route[1] = "by category"     -> RenderNumCat(t, a, b)
          [] OTHER                        -> RenderCatCat(t, a, b)

\* BIV_COL1 and BIV_COL2 may hold any two columns; the buttons that swap them
\* and step through them reach no other pair.
RenderBivariate ==
    \E x, y \in AllColumns, granularity \in Granularity, n \in 1 .. TopMax, clip \in BOOLEAN :
        /\ x /= y
        /\ \E plot \in Plots(explored, x, y) :
               Draw(DispatchBivariate(explored, x, y, granularity, n, clip, plot))

\* A click draws the page anew: nothing of an earlier choice stays.
ClearPage ==
    /\ drawn /= <<>>
    /\ drawn' = <<>>
    /\ UNCHANGED explored

EdaNext ==
    \/ /\ drawn = <<>>
       /\ \/ RenderUnivariateNumeric
          \/ RenderUnivariateCategorical
          \/ RenderDatetimeTrend
          \/ RenderAdvancedTab
          \/ RenderOverviewTab
          \/ RenderBivariate
    \/ ClearPage

EdaSpec == EdaInit /\ [][EdaNext]_edaVars

-----------------------------------------------------------------------------
(***************************************************************************)
(* The Smart Guide: what to look after, rule by rule, as many as there is  *)
(* room for.                                                               *)
(***************************************************************************)

Advice(title, columns) == [k \in DOMAIN columns |-> [title |-> title, columns |-> <<columns[k]>>]]

OneAdvice(title, columns, given) == IF given THEN <<[title |-> title, columns |-> columns]>> ELSE <<>>

\* More than a fifth.
HighMissingness(t) ==
    Advice("missing", ColumnsBy({x \in AllColumns : 5 * Size(MissingIn(t, x)) > Len(t)}, MissingOrder(t)))

HighCardinality(t) ==
    LET levels(x) == Cardinality(Distinct(t, x, Present(t, x)))
    IN  Advice("cardinality",
               InFrame({x \in TextColumns(t) : levels(x) > TopMax \/ 10 * levels(x) > 9 * Size(Present(t, x))}))

\* The deviations from the mean, times the number of rows.
Deviation(t, x, rows, i) ==
    Size(rows) * t[i][x].value - SumFunction([j \in rows |-> t[j][x].value])

\* |r| >= 0.8, squared; a column that does not vary has no r.
Strong(t, x, y) ==
    LET rows == FinitePairs(t, x, y)
        Product(a, b) == SumFunction([i \in rows |-> Deviation(t, a, rows, i) * Deviation(t, b, rows, i)])
    IN  /\ Product(x, x) > 0
        /\ Product(y, y) > 0
        /\ 25 * Product(x, y) * Product(x, y) >= 16 * Product(x, x) * Product(y, y)

\* The strongest pair alone; which one it is is left out.
StrongCorrelation(t) ==
    LET columns == Atmost(CorrColumns, NumberSeq(t))
    IN  OneAdvice("correlation", <<>>,
                  \E j, k \in DOMAIN columns : j < k /\ Strong(t, columns[j], columns[k]))

\* The second and the third moment.
Spread(t, x) ==
    SumFunction([i \in Usable(t, x) |-> LET away == Deviation(t, x, Usable(t, x), i) IN away * away])

Lean(t, x) ==
    SumFunction([i \in Usable(t, x) |-> LET away == Deviation(t, x, Usable(t, x), i) IN away * away * away])

\* The adjusted skewness of three values or more, squared.
Skewed(t, x) ==
    LET n == Size(Usable(t, x))
    IN  n > 2 /\ n * n * (n - 1) * Lean(t, x) * Lean(t, x)
                   > SkewAbove * SkewAbove * (n - 2) * (n - 2) * Spread(t, x) * Spread(t, x) * Spread(t, x)

SkewedNumeric(t) == Advice("skewness", InFrame({x \in NumberColumns(t) : Skewed(t, x)}))

UseTheTimeTab(t) == OneAdvice("time", DatetimeCandidates(t), DateColumns(t) /= {})

\* Texts and flags, of which more than nine tenths are one value.
DominantCategory(t) ==
    LET counts(x) == CountsOf(t, x, Present(t, x))
    IN  Advice("imbalance",
               InFrame({x \in CategoricalOptions(t) :
                           \E v \in DOMAIN counts(x) : 10 * counts(x)[v] > 9 * Size(Present(t, x))}))

LargeDataset(t) == OneAdvice("sampling", <<>>, Len(t) > PlotRows)

WideNumeric(t) == OneAdvice("capped correlation", <<>>, Cardinality(NumberColumns(t)) > CorrColumns)

EdaActions(t) ==
    Atmost(GuideMax,
           HighMissingness(t) \o HighCardinality(t) \o StrongCorrelation(t) \o SkewedNumeric(t)
           \o UseTheTimeTab(t) \o DominantCategory(t) \o LargeDataset(t) \o WideNumeric(t))

-----------------------------------------------------------------------------
(***************************************************************************)
(* The suggested views.  A rule suggests at most one; it takes the first   *)
(* columns that qualify, and has no suggestion without them.               *)
(***************************************************************************)

Suggestion(visual, columns, available) ==
    <<[visual |-> visual, columns |-> columns, available |-> available]>>

NoSuggestion == <<>>

IsIdentifierLike(t, x) ==
    LET n == Size(Present(t, x))
        levels == Cardinality(Distinct(t, x, Present(t, x)))
    IN  n > 0 /\ ~(levels <= TopMax) /\ 10 * levels >= 9 * n

Identifiers(t) == {x \in TextColumns(t) : IsIdentifierLike(t, x)}

GuideCategories(t) == InFrame(TextColumns(t) \ Identifiers(t))

GuideIdentifiers(t) == InFrame(Identifiers(t))

QQEligible(t, x) == Size(Usable(t, x)) >= QQMin /\ ~IsConstant(t, x, Usable(t, x))

\* The first of a list.
FirstOne(visual, columns) ==
    IF columns = <<>> THEN NoSuggestion ELSE Suggestion(visual, <<Head(columns)>>, TRUE)

NumericShape(t) == FirstOne("shape", InFrame({x \in NumberColumns(t) : QQEligible(t, x)}))

\* Skewed to the right, and every value positive.
SkewedNumericView(t) ==
    FirstOne("log", InFrame({x \in NumberColumns(t) : /\ Skewed(t, x) /\ Lean(t, x) > 0
                                                /\ \A i \in Usable(t, x) : t[i][x].value > 0}))

CategoricalConcentration(t) == FirstOne("pareto", GuideCategories(t))

IdentifierLikeColumns(t) ==
    IF Identifiers(t) = {} THEN NoSuggestion ELSE Suggestion("none", GuideIdentifiers(t), FALSE)

MissingnessStructure(t) ==
    LET columns == MissingColumns(t, FALSE)
    IN  (IF columns = <<>> THEN NoSuggestion ELSE Suggestion("pattern", columns, TRUE))
        \o (IF Len(columns) < 2 THEN NoSuggestion ELSE Suggestion("missing together", columns, TRUE))

\* The first of each of two lists.
PairOf(visual, first, second) ==
    IF first = <<>> \/ second = <<>> THEN NoSuggestion
                                     ELSE Suggestion(visual, <<Head(first), Head(second)>>, TRUE)

\* The first two of one.
FirstTwo(visual, columns) ==
    IF Len(columns) < 2 THEN NoSuggestion ELSE Suggestion(visual, <<columns[1], columns[2]>>, TRUE)

NumericPair(t) == FirstTwo("scatter", NumberSeq(t))

NumericCategorical(t) == PairOf("by category", NumberSeq(t), GuideCategories(t))

CategoricalPair(t) == FirstTwo("crosstab", GuideCategories(t))

DatetimeNumeric(t) == PairOf("aggregation", DatetimeCandidates(t), NumberSeq(t))

DatetimeCategorical(t) ==
    PairOf("time categories", DatetimeCandidates(t),
           InFrame((TextColumns(t) \ Identifiers(t)) \ DateColumns(t)))

VisualExplorations(t) ==
    Atmost(GuideMax,
           NumericShape(t) \o SkewedNumericView(t) \o CategoricalConcentration(t) \o IdentifierLikeColumns(t)
           \o MissingnessStructure(t) \o NumericPair(t) \o NumericCategorical(t) \o CategoricalPair(t)
           \o DatetimeNumeric(t) \o DatetimeCategorical(t))

-----------------------------------------------------------------------------
(***************************************************************************)
(* What the guide and the views must agree on                              *)
(***************************************************************************)

IdentifiersAgree(t) ==
    \A col \in TextColumns(t) :
        /\ IsIdentifierLike(t, col) <=> (ParetoCategory(t, col, FALSE).status = "near_unique")
        /\ IsIdentifierLike(t, col) <=> (ColumnRefusal(t, col) = "near_unique")

SuggestionIsDrawn(t, s) ==
    LET usual == \A j \in DOMAIN s.columns : Present(t, s.columns[j]) /= {}
    IN  CASE s.visual = "shape" ->
                /\ QQNormal(t, s.columns[1]).status = "ok"
                /\ NumericHistogram(t, s.columns[1], HistogramMin).status = "ok"
          [] s.visual = "log"     ->
                LET values == Distinct(t, s.columns[1], Usable(t, s.columns[1]))
                IN  1000 * Min(values) > Max(values) - Min(values) =>
                        RenderLogHistogram(t, s.columns[1], HistogramMin)["log histogram"].status = "ok"
          [] s.visual = "pareto"  -> usual => ParetoCategory(t, s.columns[1], FALSE).status = "ok"
          [] s.visual = "pattern" -> MissingnessPattern(t).status = "ok"
          [] s.visual = "missing together" ->
                usual => MissingnessAssociation(t).status /= "insufficient_columns"
          [] s.visual = "none"    -> TRUE
          [] OTHER ->
                \/ Route(t, s.columns[1], s.columns[2])[1] = s.visual
                \/ /\ s.visual \in {"by category", "crosstab"}
                   /\ {s.columns[1], s.columns[2]} \cap DateColumns(t) /= {}

ScatterIsCorrelation(t) ==
    Cardinality(NumberColumns(t)) <= CorrColumns =>
        \A one, two \in NumberColumns(t) :
            one /= two => (<<one, two>> \in CorrelationMatrix(t, {}) <=> PairRefusal(t, one, two) = "")

LessWasSaid(t, name) ==
    LET titles == {EdaActions(t)[k].title : k \in DOMAIN EdaActions(t)}
    IN  CASE name \in {"scatter", "box"} -> "sampling" \in titles
          [] name = "correlation"        -> "capped correlation" \in titles
          [] OTHER                       -> TRUE

HiddenLevelsWereSaid(t) ==
    \A col \in TextColumns(t) :
        TopFrequency(t, col, TopMax, FALSE, FALSE).less =>
            \E n \in DOMAIN EdaActions(t) : EdaActions(t)[n] = [title |-> "cardinality", columns |-> <<col>>]

-----------------------------------------------------------------------------
(***************************************************************************)
(* Properties                                                              *)
(***************************************************************************)

\* What a view draws adds up to the rows it says it covers, however it folds,
\* hides, samples or buckets them; a view that leaves rows out of its marks says
\* that there is more; a sampled view keeps both ends; and a line is missing from a
\* scatter only because of its sample (the builders of eda.py, whose captions
\* quote these numbers).
ChartsAddUp ==
    \A name \in DOMAIN drawn :
        LET v == drawn[name]
        IN  IF v.status /= "ok" THEN name = "trend line" => drawn["scatter"].less
            ELSE
            CASE name \in {"histogram", "density", "box", "scatter", "heatmap", "pareto", "top and other",
                           "trend", "aggregation", "time categories", "log histogram"} -> Drawn(v) = v.covers
              [] name \in {"top", "by category", "crosstab", "crosstab heatmap", "stacked"} ->
                    IF v.less THEN Drawn(v) < v.covers ELSE Drawn(v) = v.covers
              [] name = "ecdf" -> v.marks[Max(DOMAIN v.marks)] = v.covers
              [] name = "qq"   -> {1, v.covers} \subseteq DOMAIN v.marks
              [] name = "pattern" -> v.less \/ Drawn(v) = Drawn(drawn["missing"])
              [] OTHER         -> TRUE

\* What a tab offers and the guide suggests, the builder behind it takes: the page
\* and the guide tell the types of columns apart by other means than the builders do
\* (select_dtypes and is_numeric_dtype).  A column of flags is offered as a category
\* and refused.  The guide, the Pareto view and the association matrix take the same
\* columns for identifiers, each by its own rule; a suggested pair is drawn as the
\* view it was suggested for; the pairs of the correlation matrix are those a scatter
\* draws; and what a view samples, caps or hides the guide has said, unless there
\* was no room.  A date may be suggested as a category, columns without any value for
\* what they are missing, and a logarithmic scale for positive values of which the
\* least is a thousandth of the span or less, where the first edge is not positive.
OfferedIsDrawn ==
    /\ \A name \in DOMAIN drawn :
           drawn[name].status \in {"invalid_type", "low_parse_confidence"} =>
               /\ name \in {"top", "top and other"}
               /\ \E x \in CategoricalOptions(explored) : IsFlags(explored, x)
    /\ IdentifiersAgree(explored)
    /\ \A k \in DOMAIN VisualExplorations(explored) :
           SuggestionIsDrawn(explored, VisualExplorations(explored)[k])
    /\ ScatterIsCorrelation(explored)
    /\ Len(EdaActions(explored)) < GuideMax =>
           /\ HiddenLevelsWereSaid(explored)
           /\ \A name \in DOMAIN drawn :
                  drawn[name].status = "ok" /\ drawn[name].less => LessWasSaid(explored, name)
=============================================================================
