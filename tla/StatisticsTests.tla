--------------------------- MODULE StatisticsTests ---------------------------
(***************************************************************************)
(* The decisions of the statistical services: which columns count as       *)
(* categorical or binary (statistics_eligibility.py), how the tests on a   *)
(* loaded table split, count and refuse its rows (services/statistics.py), *)
(* and what the kernels behind them answer (inference.py, inferential.py). *)
(* Two notions of a category meet here.  The cheap count of pandas merges  *)
(* values that compare equal (1 and True) and takes the text "inf" for an  *)
(* infinite number; the services keep values of different types apart and  *)
(* know only the floats as infinite; the numeric comparisons go by text.   *)
(*                                                                         *)
(* A table is a sequence of rows, a row a function from columns to cells.  *)
(* A cell is a record: kind, class (its Python type), value (what == and   *)
(* hash see) and text (what str() gives).  Numbers are small integers;     *)
(* statistics and p-values are left out but for whether they exist.        *)
(***************************************************************************)
EXTENDS Integers, FiniteSets, Sequences, FiniteSetsExt

CONSTANTS
    Column,
    MaxLevels,      \* STATS_CATEGORICAL_MAX_LEVELS, 50 in the code
    IdentifierMin,  \* STATS_IDENTIFIER_LIKE_MIN_LEVELS, 50 in the code
    MaxCustom,      \* GOF_CUSTOM_PROPORTION_MAX_CATEGORIES, 40 in the code
    MinGroup,       \* MIN_GROUP_N of inferential.py, 3 in the code
    MinPairs        \* WILCOXON_MIN_PAIRS, 3 in the code

ASSUME BoundsAssumption ==
    /\ {MaxLevels, IdentifierMin, MaxCustom, MinGroup, MinPairs} \subseteq Nat
    /\ 2 <= MaxCustom /\ MaxCustom <= MaxLevels
    /\ 2 <= MinGroup

Present(t, x) == {i \in DOMAIN t : t[i][x].kind /= "missing"}

\* A numeric dtype: flags and texts make a column of objects.
IsNumeric(t, x) == \A i \in DOMAIN t : t[i][x].kind \in {"missing", "number", "infinite"}

-----------------------------------------------------------------------------
(***************************************************************************)
(* Eligibility: the cheap count                                            *)
(***************************************************************************)

CheapRows(t, x) == {i \in Present(t, x) : t[i][x].kind \notin {"infinite", "infinity text"}}

Levels(t, x) == Cardinality({t[i][x].value : i \in CheapRows(t, x)})

TooWide(t, x) == Levels(t, x) > MaxLevels

\* At least 0.9 distinct values per row.
IdentifierLike(t, x) ==
    /\ Levels(t, x) >= IdentifierMin
    /\ CheapRows(t, x) /= {}
    /\ 10 * Levels(t, x) >= 9 * Cardinality(CheapRows(t, x))

Classify(t, x) ==
    IF Levels(t, x) = 0 THEN "empty"
    ELSE IF Levels(t, x) = 1 THEN "constant"
    ELSE IF IdentifierLike(t, x) THEN "identifier_like"
    ELSE IF TooWide(t, x) THEN "too_many_levels" ELSE "eligible"

ClassifyBinary(t, x) ==
    IF Classify(t, x) = "eligible" /\ Levels(t, x) /= 2 THEN "not_binary" ELSE Classify(t, x)

Categorical(t) == {x \in Column : Classify(t, x) = "eligible"}

Binary(t) == {x \in Column : ClassifyBinary(t, x) = "eligible"}

-----------------------------------------------------------------------------
(***************************************************************************)
(* Typed categories                                                        *)
(***************************************************************************)

IsValid(c) == c.kind \notin {"missing", "infinite"}

ValidRows(t, x) == {i \in DOMAIN t : IsValid(t[i][x])}

Identity(c) == <<c.class, c.value>>

Identities(t, x, rows) == {Identity(t[i][x]) : i \in rows}

\* A text that cannot be displayed refuses the whole column.
Undisplayable(t, x, rows) == \E i \in rows : t[i][x].kind = "unsafe text"

Having(t, x, rows, id) == {i \in rows : Identity(t[i][x]) = id}

-----------------------------------------------------------------------------
(***************************************************************************)
(* Kernels.  A standard error is zero exactly when the values it comes     *)
(* from are all the same.                                                  *)
(***************************************************************************)

TwoSidedOnly == {"ANOVA", "CHI_GOF", "CHI_IND", "CHI_HOMOG"}

\* The alternative of a run: four of the tests know one only.
CalculatePValue(key, alternative) ==
    IF key = "UNKNOWN" THEN [status |-> "unsupported", alternative |-> alternative]
    ELSE IF key \in TwoSidedOnly THEN [status |-> "ok", alternative |-> "two-sided"]
    ELSE [status |-> "ok", alternative |-> alternative]

OneSampleKernel(n, constant) ==
    IF n < 2 THEN "insufficient_data" ELSE IF constant THEN "invalid_input" ELSE "ok"

TwoSampleKernel(nA, nB, constant) ==
    IF nA < 2 \/ nB < 2 THEN "insufficient_data" ELSE IF constant THEN "invalid_input" ELSE "ok"

\* The one-sample test of the differences.
PairedKernel(differences, n) == OneSampleKernel(n, Cardinality(differences) <= 1)

OneProportionKernel(successes, n) ==
    IF n <= 0 \/ successes \notin 0..n THEN "invalid_input" ELSE "ok"

\* A pooled proportion of 0 or 1 has no standard error.
TwoProportionKernel(successesA, nA, successesB, nB) ==
    IF \/ nA <= 0 \/ nB <= 0
       \/ successesA \notin 0..nA \/ successesB \notin 0..nB
       \/ successesA + successesB \in {0, nA + nB}
    THEN "invalid_input"
    ELSE "ok"

GofKernel(categories, total) == IF categories < 2 \/ total <= 0 THEN "invalid_input" ELSE "ok"

TableKernel(rows, columns, total) ==
    IF rows < 2 \/ columns < 2 \/ total <= 0 THEN "invalid_input" ELSE "ok"

(***************************************************************************)
(* The decision matrix of the wizard.  A choice that says nothing is "?".  *)
(***************************************************************************)

SelectNumeric(group, sigma, equalVariance) ==
    CASE group = "paired"                               -> "PAIRED_T"
      [] group = "one_sample" /\ sigma = "known"        -> "ONE_Z"
      [] group = "one_sample" /\ sigma = "unknown"      -> "ONE_T"
      [] group = "two_independent" /\ sigma = "known"   -> "TWO_Z"
      [] group = "two_independent" /\ sigma = "unknown" /\ equalVariance /= "?" ->
             IF equalVariance = "yes" THEN "TWO_T_EQ" ELSE "TWO_T_WELCH"
      [] group = "multi_group"                          -> "ANOVA"
      [] OTHER                                          -> "UNKNOWN"

SelectOther(variable, group) ==
    CASE <<variable, group>> = <<"proportion", "one_sample">>       -> "ONE_PROP_Z"
      [] <<variable, group>> = <<"proportion", "two_independent">>  -> "TWO_PROP_Z"
      [] <<variable, group>> = <<"variance", "one_sample">>         -> "ONE_VAR_CHI"
      [] <<variable, group>> = <<"variance", "two_independent">>    -> "F_VAR"
      [] <<variable, group>> = <<"categorical", "goodness_of_fit">> -> "CHI_GOF"
      [] <<variable, group>> = <<"categorical", "contingency">>     -> "CHI_IND"
      [] <<variable, group>> = <<"categorical", "multi_group">>     -> "CHI_HOMOG"
      [] OTHER                                                      -> "UNKNOWN"

\* Mutation: one of the two lists misses a test.
SelectedTwoSidedShort == {"ANOVA", "CHI_GOF", "CHI_IND"}

\* The list in selection.py; the one in inference.py is its own.
SelectedTwoSidedOnly == {"ANOVA", "CHI_GOF", "CHI_IND", "CHI_HOMOG"}

SelectTest(variable, group, sigma, equalVariance, alternative) ==
    LET key == IF variable = "numeric" THEN SelectNumeric(group, sigma, equalVariance)
                                       ELSE SelectOther(variable, group)
    IN  [status |-> IF key = "UNKNOWN" THEN "unsupported" ELSE "ok",
         key |-> key,
         alternative |-> IF key \in SelectedTwoSidedOnly THEN "two-sided" ELSE alternative]

-----------------------------------------------------------------------------
(***************************************************************************)
(* Answers.  "built" are the columns whose categories the call constructs, *)
(* "counted" how many rows the parts it reports add up to: the observed    *)
(* counts, the rows outside the groups and the rows that are excluded.     *)
(***************************************************************************)

Answer(status, reason, built, counted) ==
    [status |-> status, reason |-> reason, built |-> built, counted |-> counted]

Refusal(status, reason) == Answer(status, reason, {}, 0)

Ok(built, counted) == Answer("ok", "", built, counted)

Size(rows) == Cardinality(rows)

Excluded(t, rows) == Len(t) - Size(rows)

\* What a kernel answers is what the service answers.
Kernel(verdict, built, counted) ==
    IF verdict = "ok" THEN Ok(built, counted) ELSE Answer(verdict, "degenerate", built, counted)

\* The observed counts of categories.
Observed(t, x, rows, ids) == SumFunction([id \in ids |-> Size(Having(t, x, rows, id))])

\* Mutation: the ceiling itself is too wide.
TooWideAtCeiling(t, x, rows) ==
    Cardinality({t[i][x].value : i \in rows \cap CheapRows(t, x)}) >= MaxLevels

TooWideIn(t, x, rows) ==
    Cardinality({t[i][x].value : i \in rows \cap CheapRows(t, x)}) > MaxLevels

\* The ceiling comes before the categories.
BuiltIn(t, x, rows) == IF TooWideIn(t, x, rows) THEN {} ELSE {x}

\* What an outcome column is refused for, "" if for nothing.
BinaryError(t, x, success) ==
    LET rows == ValidRows(t, x)
    IN  IF TooWideIn(t, x, rows) THEN "too wide"
        ELSE IF Undisplayable(t, x, rows) THEN "unsafe"
        ELSE IF Size(Identities(t, x, rows)) /= 2 THEN "not binary"
        ELSE IF success \notin Identities(t, x, rows) THEN "unknown value"
        ELSE ""

OneProportion(t, x, success, null) ==
    LET rows == ValidRows(t, x)
        hits == Having(t, x, rows, success)
        built == BuiltIn(t, x, rows)
        counted == Size(hits) + Size(rows \ hits) + Excluded(t, rows)
    IN  IF null = "boundary" THEN Refusal("invalid_input", "proportion")
        ELSE IF rows = {} THEN Refusal("insufficient_data", "no rows")
        ELSE IF BinaryError(t, x, success) /= ""
             THEN Answer("invalid_input", BinaryError(t, x, success), built, 0)
        ELSE Kernel(OneProportionKernel(Size(hits), Size(rows)), built, counted)

GroupError(t, g, groups) ==
    LET rows == ValidRows(t, g)
    IN  IF TooWideIn(t, g, rows) THEN "too wide"
        ELSE IF Undisplayable(t, g, rows) THEN "unsafe"
        ELSE IF Size(Identities(t, g, rows)) < 2 THEN "too few"
        ELSE IF ~(groups \subseteq Identities(t, g, rows)) THEN "unknown value"
        ELSE ""

TwoProportions(t, x, success, g, a, b) ==
    LET error == IF BinaryError(t, x, success) /= "" THEN BinaryError(t, x, success)
                                                     ELSE GroupError(t, g, {a, b})
        rows == ValidRows(t, x) \cap ValidRows(t, g)
        inA == Having(t, g, rows, a)
        inB == Having(t, g, rows, b)
        built == BuiltIn(t, x, ValidRows(t, x)) \cup BuiltIn(t, g, ValidRows(t, g))
        counted == Excluded(t, rows) + Size(rows \ (inA \cup inB)) + Size(inA) + Size(inB)
        test == TwoProportionKernel(Size(Having(t, x, inA, success)), Size(inA),
                                    Size(Having(t, x, inB, success)), Size(inB))
    IN  IF x = g \/ a = b THEN Refusal("invalid_input", "same choice")
        ELSE IF error /= "" THEN Answer("invalid_input", error, built, 0)
        ELSE IF inA = {} \/ inB = {} THEN Answer("insufficient_data", "no rows", built, counted)
        ELSE Kernel(test, built, counted)

\* One axis of a chi-square test: the cheap ceiling, then the exact one.
AxisError(t, x, rows) ==
    IF TooWideIn(t, x, rows) THEN "too wide"
    ELSE IF Undisplayable(t, x, rows) THEN "unsafe"
    ELSE IF Size(Identities(t, x, rows)) < 2 THEN "too few"
    ELSE IF Size(Identities(t, x, rows)) > MaxLevels THEN "too wide"
    ELSE ""

\* proportions: equal, or entered by hand, adding up to one or not.
GoodnessOfFit(t, x, proportions) ==
    LET rows == ValidRows(t, x)
        ids == Identities(t, x, rows)
        built == BuiltIn(t, x, rows)
        observed == Observed(t, x, rows, ids)
    IN  IF rows = {} THEN Refusal("insufficient_data", "no rows")
        ELSE IF AxisError(t, x, rows) /= ""
             THEN Answer("invalid_input", AxisError(t, x, rows), built, 0)
        ELSE IF proportions = "not one" THEN Answer("invalid_input", "proportions", built, 0)
        ELSE Kernel(GofKernel(Size(ids), observed), built, observed + Excluded(t, rows))

ContingencyTable(t, r, c, rows) ==
    [id \in Identities(t, r, rows) |->
        Observed(t, c, Having(t, r, rows, id), Identities(t, c, rows))]

\* Independence and homogeneity differ in the names of their axes only.
Contingency(t, r, c) ==
    LET rows == ValidRows(t, r) \cap ValidRows(t, c)
        built == BuiltIn(t, r, rows) \cup BuiltIn(t, c, rows)
        table == ContingencyTable(t, r, c, rows)
        cells == SumFunction(table)
        error == IF AxisError(t, r, rows) /= "" THEN AxisError(t, r, rows)
                                                ELSE AxisError(t, c, rows)
        test == TableKernel(Cardinality(DOMAIN table), Size(Identities(t, c, rows)), cells)
    IN  IF r = c THEN Refusal("invalid_input", "same choice")
        ELSE IF rows = {} THEN Refusal("insufficient_data", "no rows")
        ELSE IF error /= "" THEN Answer("invalid_input", error, built, 0)
        ELSE Kernel(test, built, cells + Excluded(t, rows))

-----------------------------------------------------------------------------
(***************************************************************************)
(* Numeric tests.  Groups go by the text of their values.  Standard errors *)
(* are zero exactly when all the values of a sample are the same; the      *)
(* kernels drop what is not finite, the comparisons of inferential.py do   *)
(* not, and answer with a p-value that is not a number then.               *)
(***************************************************************************)

Texts(t, g, rows) == {t[i][g].text : i \in rows}

InGroup(t, g, rows, text) == {i \in rows : t[i][g].text = text}

Finite(t, m, rows) == {i \in rows : t[i][m].kind = "number"}

IsConstant(t, m, rows) == Size({t[i][m].value : i \in rows}) <= 1

\* The texts of values that appear in a column, as the page offers them.
TextsOffered(t, g) == Texts(t, g, Present(t, g))

NumericKernel(verdict, counted) ==
    IF verdict = "ok" THEN Ok({}, counted)
    ELSE IF verdict = "insufficient_data" THEN Answer(verdict, "no rows", {}, counted)
    ELSE Answer(verdict, "degenerate", {}, counted)

OneSampleT(t, m) ==
    LET rows == Finite(t, m, DOMAIN t)
    IN  IF IsNumeric(t, m)
        THEN NumericKernel(OneSampleKernel(Size(rows), IsConstant(t, m, rows)), Size(rows))
        ELSE Refusal("invalid_input", "not numeric")

TwoSampleT(t, m, g, a, b) ==
    LET rows == Finite(t, m, Present(t, m) \cap Present(t, g))
        inA == InGroup(t, g, rows, a)
        inB == InGroup(t, g, rows, b)
        constant == IsConstant(t, m, inA) /\ IsConstant(t, m, inB)
        test == TwoSampleKernel(Size(inA), Size(inB), constant)
    IN  IF ~IsNumeric(t, m) THEN Refusal("invalid_input", "not numeric")
        ELSE IF m = g \/ a = b THEN Refusal("invalid_input", "same choice")
        ELSE NumericKernel(test, Size(inA) + Size(inB))

PairedT(t, x, y) ==
    LET rows == Finite(t, x, DOMAIN t) \cap Finite(t, y, DOMAIN t)
        differences == {t[i][x].value - t[i][y].value : i \in rows}
    IN  IF x = y THEN Refusal("invalid_input", "same choice")
        ELSE IF ~IsNumeric(t, x) \/ ~IsNumeric(t, y)
             THEN Refusal("invalid_input", "not numeric")
        ELSE NumericKernel(PairedKernel(differences, Size(rows)), Size(rows))

Wilcoxon(t, x, y) ==
    LET rows == Finite(t, x, DOMAIN t) \cap Finite(t, y, DOMAIN t)
    IN  IF x = y THEN Refusal("invalid_input", "same choice")
        ELSE IF ~IsNumeric(t, x) \/ ~IsNumeric(t, y) THEN Refusal("invalid_type", "not numeric")
        ELSE IF Size(rows) < MinPairs
             THEN Answer("insufficient_data", "no rows", {}, Size(rows))
        ELSE IF \A i \in rows : t[i][x].value = t[i][y].value
             THEN Answer("insufficient_data", "degenerate", {}, Size(rows))
        ELSE Ok({}, Size(rows))

\* What ANOVA, Welch and Mann-Whitney return for infinite or identical values.
PValue(t, m, rows) ==
    IF Finite(t, m, rows) /= rows \/ IsConstant(t, m, rows) THEN "nan" ELSE ""

\* The rows of a split: neither the metric nor the group is missing.
Split(t, m, g) == Present(t, m) \cap Present(t, g)

CompareTwoGroups(t, m, g) ==
    LET rows == Split(t, m, g)
        texts == Texts(t, g, rows)
    IN  IF ~IsNumeric(t, m) THEN Refusal("invalid_type", "not numeric")
        ELSE IF m = g THEN Refusal("invalid_type", "same choice")
        ELSE IF Size(texts) < 2 THEN Refusal("too_few_groups", "too few")
        ELSE IF Size(texts) > 2 THEN Refusal("too_many_groups", "too wide")
        ELSE IF \E a \in texts : Size(InGroup(t, g, rows, a)) < MinGroup
             THEN Refusal("insufficient_data", "no rows")
        ELSE Answer("ok", PValue(t, m, rows), {}, Size(rows))

\* Cliff's delta and the Hodges-Lehmann shift of the same split, by the samples
\* of the two texts.
EffectSizes(t, m, g) ==
    LET rows == Split(t, m, g)
        texts == Texts(t, g, rows)
    IN  IF ~IsNumeric(t, m) THEN Refusal("invalid_input", "not numeric")
        ELSE IF m = g THEN Refusal("invalid_input", "same choice")
        ELSE IF Size(texts) < 2 THEN Refusal("too_few_groups", "too few")
        ELSE IF Size(texts) > 2 THEN Refusal("too_many_groups", "too wide")
        ELSE IF \E a \in texts : Size(InGroup(t, g, rows, a)) < 2
             THEN Refusal("insufficient_data", "no rows")
        ELSE Ok({}, SumFunction([a \in texts |-> Size(InGroup(t, g, rows, a))]))

\* Only the groups that are large enough take part.  Kruskal-Wallis, unlike the
\* others, raises when all the values are the same.  That only the 20 most
\* frequent groups are looked at is left out.
CompareMultiGroup(t, m, g) ==
    LET rows == Split(t, m, g)
        texts == Texts(t, g, rows)
        large == {a \in texts : Size(InGroup(t, g, rows, a)) >= MinGroup}
        kept == UNION {InGroup(t, g, rows, a) : a \in large}
    IN  IF ~IsNumeric(t, m) THEN Refusal("invalid_type", "not numeric")
        ELSE IF m = g THEN Refusal("invalid_type", "same choice")
        ELSE IF Size(texts) < 2 THEN Refusal("too_few_groups", "too few")
        ELSE IF Size(large) < 2 THEN Refusal("insufficient_data", "no rows")
        ELSE IF IsConstant(t, m, kept) THEN Refusal("raised", "degenerate")
        ELSE Answer("ok", PValue(t, m, kept), {}, Size(kept))

\* The informational checks of a metric count what the split leaves and what is
\* missing; they refuse nothing else.  "" is no group.
AssumptionChecks(t, m, g) ==
    LET rows == IF g = "" THEN Present(t, m) ELSE Split(t, m, g)
    IN  IF ~IsNumeric(t, m) THEN Refusal("invalid_input", "not numeric")
        ELSE IF m = g THEN Refusal("invalid_input", "same choice")
        ELSE Ok({}, Size(rows) + Excluded(t, rows))
=============================================================================
