---------------------------- MODULE StatisticsLab ----------------------------
(***************************************************************************)
(* The Statistics Lab page over a loaded table: what its panels offer,     *)
(* what they check again before they call the statistical services         *)
(* (StatisticsTests), and what they then show.                             *)
(* The page runs from top to bottom on every click.  A selection lives in  *)
(* the session longer than the table it was made for, so a panel may be    *)
(* asked for any column and any value, whatever it offers: each action     *)
(* takes them freely and notes in "offered" whether they were offered.     *)
(* Only the last answer is kept.                                           *)
(***************************************************************************)
EXTENDS StatisticsTests

CONSTANTS
    Tables,        \* the tables that can be loaded
    Alternatives   \* two-sided, greater, less

ASSUME TablesAssumption == \A t \in Tables : t \in Seq({t[i] : i \in DOMAIN t})

VARIABLES
    table,         \* the frame of the page
    shown          \* the last answer: which panel, and what; below: the panel that follows it

labVars == <<table, shown>>

NoAnswer == Refusal("", "")

Nothing == [panel |-> "", offered |-> FALSE, answer |-> NoAnswer, below |-> NoAnswer]

LabInit ==
    /\ table \in Tables
    /\ shown = Nothing

ShowBoth(panel, offered, answer, below) ==
    /\ shown' = [panel |-> panel, offered |-> offered, answer |-> answer, below |-> below]
    /\ UNCHANGED table

Show(panel, offered, answer) == ShowBoth(panel, offered, answer, NoAnswer)

-----------------------------------------------------------------------------
(***************************************************************************)
(* What the panels offer                                                   *)
(***************************************************************************)

NumericColumns(t) == {x \in Column : IsNumeric(t, x)}

\* The grouping columns of the numeric panels count the values of pandas, the
\* infinite ones and the texts too.
GroupCandidates(t) ==
    {g \in Column : Cardinality({t[i][g].value : i \in Present(t, g)}) \in 2..MaxLevels}

\* The categories of a column when its selector is drawn.
Options(t, x) == Identities(t, x, ValidRows(t, x))

AllValues(t) == {Identity(t[i][x]) : i \in DOMAIN t, x \in Column}

AllTexts(t) == {t[i][x].text : i \in DOMAIN t, x \in Column}

-----------------------------------------------------------------------------
(***************************************************************************)
(* Proportions and chi-square tests                                        *)
(***************************************************************************)

\* The selectors of the outcome: the column is classified again, its categories
\* are built, and there have to be two of them.
OutcomeRefusal(t, x) ==
    IF ClassifyBinary(t, x) /= "eligible" THEN Refusal("not eligible", ClassifyBinary(t, x))
    ELSE IF Undisplayable(t, x, ValidRows(t, x)) THEN Answer("refused", "unsafe", {x}, 0)
    ELSE IF Cardinality(Options(t, x)) /= 2 THEN Answer("refused", "not binary", {x}, 0)
    ELSE NoAnswer

GroupsRefusal(t, g) ==
    IF Undisplayable(t, g, ValidRows(t, g)) THEN Answer("refused", "unsafe", {g}, 0)
    ELSE IF Cardinality(Options(t, g)) < 2 THEN Answer("refused", "too few", {g}, 0)
    ELSE NoAnswer

RunOneProportion ==
    \E x \in Column, success \in AllValues(table), null \in {"inside", "boundary"} :
        LET refusal == OutcomeRefusal(table, x)
        IN  /\ Binary(table) /= {}
            /\ Show("one proportion", x \in Binary(table) /\ success \in Options(table, x),
                    IF refusal = NoAnswer THEN OneProportion(table, x, success, null)
                                                ELSE refusal)

RunTwoProportions ==
    \E x, g \in Column, success, a, b \in AllValues(table) :
        LET offered == /\ x \in Binary(table) /\ g \in Categorical(table) \ {x}
                       /\ success \in Options(table, x)
                       /\ {a, b} \subseteq Options(table, g) /\ a /= b
            refusal == IF OutcomeRefusal(table, x) /= NoAnswer THEN OutcomeRefusal(table, x)
                       ELSE IF Classify(table, g) /= "eligible"
                            THEN Answer("not eligible", Classify(table, g), {x}, 0)
                       ELSE GroupsRefusal(table, g)
        IN  /\ Binary(table) /= {} /\ Categorical(table) \ {x} /= {}
            /\ Show("two proportions", offered,
                    IF refusal = NoAnswer THEN TwoProportions(table, x, success, g, a, b)
                                                ELSE refusal)

Building(x, answer) == Answer(answer.status, answer.reason, answer.built \cup {x}, answer.counted)

\* The categories are built for the selector before the test runs; beyond
\* MaxCustom of them no proportions are asked for.
RunGoodnessOfFit ==
    \E x \in Column, wanted \in {"equal", "custom", "not one"} :
        LET custom == Cardinality(Options(table, x)) \in 2..MaxCustom
            proportions == IF custom THEN wanted ELSE "equal"
            answer == IF Classify(table, x) /= "eligible"
                           THEN Refusal("not eligible", Classify(table, x))
                      ELSE IF GroupsRefusal(table, x) /= NoAnswer THEN GroupsRefusal(table, x)
                      ELSE Building(x, GoodnessOfFit(table, x, proportions))
        IN  /\ Categorical(table) /= {}
            /\ Show("goodness of fit", x \in Categorical(table), answer)

\* _confirm_eligible: the first column that no longer qualifies refuses.
NotEligible(t, columns) == {x \in columns : Classify(t, x) /= "eligible"}

RunContingency(panel) ==
    \E r, c \in Column :
        /\ Cardinality(Categorical(table)) >= 2
        /\ Show(panel, r /= c /\ {r, c} \subseteq Categorical(table),
                IF NotEligible(table, {r, c}) /= {} THEN Refusal("not eligible", "")
                                                   ELSE Contingency(table, r, c))

RunIndependence == RunContingency("independence")

RunHomogeneity == RunContingency("homogeneity")

-----------------------------------------------------------------------------
(***************************************************************************)
(* Numeric tests                                                           *)
(***************************************************************************)

RunOneSample ==
    \E m \in Column :
        /\ NumericColumns(table) /= {}
        /\ Show("one sample", m \in NumericColumns(table), OneSampleT(table, m))

\* The two values are offered by their texts.
GroupsOffered(t, m, g, a, b) ==
    /\ m \in NumericColumns(t) /\ g \in GroupCandidates(t)
    /\ {a, b} \subseteq TextsOffered(t, g) /\ a /= b

RunTwoSample ==
    \E m, g \in Column, a, b \in AllTexts(table) :
        /\ NumericColumns(table) /= {} /\ GroupCandidates(table) /= {}
        /\ Cardinality(TextsOffered(table, g)) >= 2
        /\ Show("two samples", GroupsOffered(table, m, g, a, b),
                TwoSampleT(table, m, g, a, b))

\* The A/B panel asks for the group first and calls the same test.
RunAB ==
    \E m, g \in Column, a, b \in AllTexts(table) :
        /\ NumericColumns(table) /= {} /\ GroupCandidates(table) /= {}
        /\ Cardinality(TextsOffered(table, g)) >= 2
        /\ Show("A/B", GroupsOffered(table, m, g, a, b), TwoSampleT(table, m, g, a, b))

RunPairedT ==
    \E x, y \in Column :
        /\ Cardinality(NumericColumns(table)) >= 2
        /\ Show("paired t", x /= y /\ {x, y} \subseteq NumericColumns(table), PairedT(table, x, y))

RunWilcoxon ==
    \E x, y \in Column :
        /\ Cardinality(NumericColumns(table)) >= 2
        /\ Show("Wilcoxon", x /= y /\ {x, y} \subseteq NumericColumns(table), Wilcoxon(table, x, y))

\* Two values as pandas counts them go to the comparison of two groups, which
\* counts texts; the effect sizes stand below it.
RunGroupComparison ==
    \E m, g \in Column :
        LET levels == Cardinality({table[i][g].value : i \in Present(table, g)})
            offered == m /= g /\ m \in NumericColumns(table) /\ g \in GroupCandidates(table)
        IN  /\ NumericColumns(table) /= {} /\ GroupCandidates(table) /= {}
            /\ IF levels = 2
               THEN ShowBoth("two groups", offered, CompareTwoGroups(table, m, g),
                             EffectSizes(table, m, g))
               ELSE Show("groups", offered, CompareMultiGroup(table, m, g))

CheckAssumptions ==
    \E m \in Column, g \in Column \cup {""} :
        /\ NumericColumns(table) /= {}
        /\ Show("assumptions", m \in NumericColumns(table) /\ (g = "" \/ g \in GroupCandidates(table) \ {m}),
                AssumptionChecks(table, m, g))

\* Every click starts the page again.
Rerun ==
    /\ shown /= Nothing
    /\ shown' = Nothing
    /\ UNCHANGED table

\* The wizard names a test; the test is then run with what was chosen for it.
RunWizard ==
    \E variable \in {"numeric", "proportion", "variance", "categorical"},
       group \in {"one_sample", "paired", "two_independent", "multi_group",
                  "goodness_of_fit", "contingency"},
       sigma \in {"known", "unknown", "?"}, equalVariance \in {"yes", "no", "?"},
       alternative \in Alternatives :
        LET selected == SelectTest(variable, group, sigma, equalVariance, alternative)
            run == CalculatePValue(selected.key, alternative)
        IN  Show("wizard", TRUE,
                 Answer(run.status, IF run.alternative = selected.alternative THEN ""
                                                                            ELSE "alternative", {}, 0))

LabNext ==
    \/ Rerun
    \/ /\ shown = Nothing
       /\ \/ RunOneProportion
          \/ RunTwoProportions
          \/ RunGoodnessOfFit
          \/ RunIndependence
          \/ RunHomogeneity
          \/ RunOneSample
          \/ RunTwoSample
          \/ RunAB
          \/ RunPairedT
          \/ RunWilcoxon
          \/ RunGroupComparison
          \/ CheckAssumptions
          \/ RunWizard

LabSpec == LabInit /\ [][LabNext]_labVars

-----------------------------------------------------------------------------
(***************************************************************************)
(* Properties                                                              *)
(***************************************************************************)

\* No two values of a column are equal without being the same, no text is taken
\* for a number and all of them can be displayed.
Plain(t) ==
    \A x \in Column :
        /\ \A i \in DOMAIN t : t[i][x].kind \notin {"infinity text", "unsafe text"}
        /\ \A i, j \in Present(t, x) :
               /\ (t[i][x].value = t[j][x].value) <=> (Identity(t[i][x]) = Identity(t[j][x]))
               /\ (t[i][x].value = t[j][x].value) <=> (t[i][x].text = t[j][x].text)

\* Over a plain table the three notions of a category agree: what a panel offers
\* is never refused by the service behind it for what the offer promised, that
\* the column is narrow enough, binary, numeric or has two categories at all
\* (statistics_eligibility.py against services/statistics.py).  A test of two
\* columns may still find too few categories in the rows that have both.  And
\* whatever stale selection the session holds, over any table, no category is built
\* for a column with too many levels or with a level per row: the services stop at
\* the cheap count, and where they do not (chi_square_gof_options) the page does.
OfferedIsRun ==
    /\ (shown.offered /\ Plain(table)) =>
           /\ shown.answer.status /= "not eligible"
           /\ shown.answer.reason \notin {"too wide", "unsafe", "not binary", "unknown value",
                                          "not numeric"}
           /\ shown.panel \in {"one proportion", "goodness of fit"} =>
                  shown.answer.reason /= "too few"
    /\ \A x \in shown.answer.built : Classify(table, x) \notin {"identifier_like", "too_many_levels"}

\* The counts of an answer about categories add up to the rows of the table: no
\* row is lost between a category, the rest and what was excluded, whichever of
\* the two columns excludes it (run_two_proportion_z_test, _build_contingency).
RowsAreAccounted ==
    (shown.answer.status = "ok" /\ shown.panel \in {"one proportion", "two proportions",
        "goodness of fit", "independence", "homogeneity"}) => shown.answer.counted = Len(table)

\* Panels that speak of the same data agree: the paired tests count the same
\* pairs, the effect sizes the rows of the comparison they stand under, and a
\* test runs with the alternative that its selection announced, by lists kept in
\* two files (selection.py, inference.py). What they count accounts for every row.
PanelsAgree ==
    /\ RowsAreAccounted
    /\ \A x, y \in NumericColumns(table) : x /= y =>
           PairedT(table, x, y).counted = Wilcoxon(table, x, y).counted
    /\ (shown.panel = "two groups" /\ shown.answer.status = "ok") =>
           /\ shown.below.status = "ok"
           /\ shown.below.counted = shown.answer.counted
    /\ shown.panel = "wizard" => shown.answer.reason = ""
=============================================================================
