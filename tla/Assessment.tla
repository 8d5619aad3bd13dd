------------------------------ MODULE Assessment ------------------------------
(***************************************************************************)
(* The assessment of a profile: the rules of dqt.yaml, the issues of       *)
(* domain/assessment, the two scores, and the explanation the Quality      *)
(* Score page derives from them (services/quality_score.py).               *)
(* Scores are in ten-thousandths and penalties in points of a hundred of   *)
(* them, thresholds in percent; an issue's percentage and message are left *)
(* out.  A rule a column does not state is NoRule's: the empty set where   *)
(* the code falls back to a default.                                       *)
(***************************************************************************)
EXTENDS Profiling

CONSTANTS
    NameStrip, NameLower,   \* strip() and lower() of the names
    NameQuoted,             \* repr() of the names
    PlaceholderNames,       \* _PLACEHOLDER_NAMES and what starts with a prefix
    NullThreshold           \* DEFAULT_NULL_THRESHOLD, in percent

NoRule ==
    [null |-> {}, card |-> {}, outlier |-> {}, gate |-> {}, weight |-> 1, critical |-> FALSE,
     required |-> FALSE, unique |-> FALSE, dtype |-> {}, accepted |-> {}]

RuleOf(rules, name) == IF name \in DOMAIN rules THEN rules[name] ELSE NoRule

Stated(rule, default) == IF rule = {} THEN default ELSE CHOOSE t \in rule : TRUE

-----------------------------------------------------------------------------
(***************************************************************************)
(* dqt.yaml: one rule out of range refuses every assessment.               *)
(***************************************************************************)

ThresholdValid(rule) == \A t \in rule : t \in 0 .. 100

WeightValid(weight) == weight > 0

ColumnRulesValid(rule) ==
    /\ \A t \in {rule.null, rule.card, rule.outlier, rule.gate} : ThresholdValid(t)
    /\ WeightValid(rule.weight)

ConfigValid(rules) == \A name \in DOMAIN rules : ColumnRulesValid(rules[name])

-----------------------------------------------------------------------------
(***************************************************************************)
(* Issues of a profile                                                     *)
(***************************************************************************)

Issue(type, column, severity, category) ==
    [type |-> type, column |-> column, severity |-> severity, category |-> category]

ColumnSet(profile) == {profile.columns[c] : c \in DOMAIN profile.columns}

AtLeastOne(rows) == IF rows < 1 THEN 1 ELSE rows

\* quality_checker.detect_issues; an all-null column is issue_detector's.
MissingIssues(profile, rules) ==
    LET rows == AtLeastOne(profile.rows)
        Reported(col) ==
            /\ col.nulls < rows
            /\ 100 * col.nulls >= Stated(RuleOf(rules, col.name).null, NullThreshold) * rows
    IN  {Issue("missing", col.name, IF 2 * col.nulls >= rows THEN "critical" ELSE "high", "Completeness") :
            col \in {d \in ColumnSet(profile) : Reported(d)}}

DuplicateNames(profile) ==
    {Issue("duplicate_column_name", profile.columns[c].name, "high", "Schema") :
        c \in {d \in DOMAIN profile.columns : \E b \in 1 .. d - 1 :
                  NameLower[profile.columns[b].name] = NameLower[profile.columns[d].name]}}

\* A blank or padded name is reported in quotes, where no rule of its column is found.
BlankNames(profile) ==
    {Issue("blank_column_name", NameQuoted[col.name], "high", "Schema") :
        col \in {d \in ColumnSet(profile) : NameStrip[d.name] = ""}}

PaddedNames(profile) ==
    {Issue("padded_column_name", NameQuoted[col.name], "medium", "Schema") :
        col \in {d \in ColumnSet(profile) : NameStrip[d.name] \notin {"", d.name}}}

IsPlaceholder(name) == NameLower[NameStrip[name]] \in PlaceholderNames

PlaceholderIssues(profile) ==
    {Issue("placeholder_column_name", col.name, "medium", "Schema") :
        col \in {d \in ColumnSet(profile) : NameStrip[d.name] /= "" /\ IsPlaceholder(d.name)}}

ConstantColumns(profile) ==
    {Issue("constant_column", col.name, "medium", "Completeness") :
        col \in {d \in ColumnSet(profile) : d.unique = {1}}}

AllNullColumns(profile) ==
    {Issue("all_null_column", col.name, "high", "Completeness") :
        col \in {d \in ColumnSet(profile) : profile.rows > 0 /\ d.nulls >= profile.rows}}

RequiredColumns(profile, rules) ==
    {Issue("missing_required_column", name, "critical", "Schema") :
        name \in {n \in DOMAIN rules : rules[n].required} \ {col.name : col \in ColumnSet(profile)}}

DtypeMismatch(profile, rules) ==
    {Issue("dtype_mismatch", col.name, "high", "Schema") :
        col \in {d \in ColumnSet(profile) :
                    d.name \in DOMAIN rules /\ rules[d.name].dtype \notin {{}, {d.dtype}}}}

\* issue_detector.detect_issues.
StructuralIssues(profile, rules) ==
    UNION {DuplicateNames(profile), BlankNames(profile), PaddedNames(profile),
           PlaceholderIssues(profile), ConstantColumns(profile), AllNullColumns(profile),
           RequiredColumns(profile, rules), DtypeMismatch(profile, rules)}

QualityGates(profile, rules) ==
    LET rows == AtLeastOne(profile.rows)
    IN  {Issue("column_quality_gate_failed", col.name, "critical", "Completeness") :
            col \in {d \in ColumnSet(profile) :
                        \E gate \in RuleOf(rules, d.name).gate : 100 * (rows - d.nulls) < gate * rows}}

-----------------------------------------------------------------------------
(***************************************************************************)
(* Issues of a frame                                                       *)
(***************************************************************************)

TooManyDistinct(profile, rules) ==
    {Issue("high_cardinality", col.name, "medium", "Cardinality") :
        col \in {d \in ColumnSet(profile) :
                    /\ profile.rows > 1
                    /\ d.dtype \notin {"int64", "float64"}
                    /\ \E u \in d.unique : 100 * u > Stated(RuleOf(rules, d.name).card, 90) * profile.rows}}

\* Four times the quantile k/4 of an ordered sequence, interpolated.
QuantileOf(s, k) ==
    LET at == k * (Len(s) - 1)
        below == s[1 + at \div 4]
    IN  4 * below + (at % 4) * (IF at % 4 = 0 THEN 0 ELSE s[2 + at \div 4] - below)

ValueSeq(cells) ==
    LET values == SelectSeq(cells, LAMBDA cell : cell.k /= "na")
    IN  SortSeq([i \in DOMAIN values |-> values[i].v], LAMBDA a, b : a < b)

\* The values outside one and a half ranges of the middle half.
FarValues(s) ==
    LET q1 == QuantileOf(s, 1)
        q3 == QuantileOf(s, 3)
    IN  {i \in DOMAIN s : 8 * s[i] < 2 * q1 - 3 * (q3 - q1) \/ 8 * s[i] > 2 * q3 + 3 * (q3 - q1)}

HasOutliers(cells, threshold) ==
    LET s == ValueSeq(cells)
    IN  /\ ReadDtype(cells) \in {"int64", "float64"}
        /\ Len(s) >= 4
        /\ QuantileOf(s, 1) /= QuantileOf(s, 3)
        /\ 100 * Cardinality(FarValues(s)) > threshold * Len(s)

NumericOutliers(frame, rules) ==
    {Issue("numeric_outliers", frame.names[c], "low", "Distribution") :
        c \in {d \in ColumnsOf(frame) :
                  HasOutliers(frame.cells[d], Stated(RuleOf(rules, frame.names[d]).outlier, 5))}}

AcceptedValueViolations(frame, rules) ==
    {Issue("accepted_values_violation", frame.names[c], "high", "Schema") :
        c \in {d \in ColumnsOf(frame) :
                  LET accepted == RuleOf(rules, frame.names[d]).accepted
                  IN  accepted /= {} /\ ~(Tokens(frame.cells[d], DOMAIN frame.cells[d]) \subseteq accepted)}}

UniquenessViolations(frame, rules) ==
    {Issue("uniqueness_violation", frame.names[c], "medium", "Schema") :
        c \in {d \in ColumnsOf(frame) :
                  /\ RuleOf(rules, frame.names[d]).unique
                  /\ Cardinality(Tokens(frame.cells[d], DOMAIN frame.cells[d]))
                        < Cardinality(PresentRows(frame.cells[d]))}}

AdvancedIssues(frame, profile, rules) ==
    UNION {TooManyDistinct(profile, rules), NumericOutliers(frame, rules),
           AcceptedValueViolations(frame, rules), UniquenessViolations(frame, rules)}

-----------------------------------------------------------------------------
(***************************************************************************)
(* Scores                                                                  *)
(***************************************************************************)

Rounded(n, d) == (2 * n + d) \div (2 * d)

ComputeScore(profile, rules) ==
    LET rows == AtLeastOne(profile.rows)
        weight == [c \in DOMAIN profile.columns |-> RuleOf(rules, profile.columns[c].name).weight]
        complete == [c \in DOMAIN profile.columns |-> weight[c] * (rows - profile.columns[c].nulls)]
    IN  IF SumFunction(weight) = 0 THEN 0
        ELSE Rounded(10000 * SumFunction(complete), rows * SumFunction(weight))

SeverityPenalties == [critical |-> 5, high |-> 3, medium |-> 2, low |-> 1]
SchemaPenaltyCap == 30
DistPenaltyCap == 15
ExcludedPenaltyTypes == {"missing", "all_null_column"}

AtMostCap(n, cap) == IF n < cap THEN n ELSE cap

Clamped(score) == IF score < 0 THEN 0 ELSE AtMostCap(score, 10000)

\* Seeded fault: one of the two exclusions is forgotten.
CountedButMissing(issues) == {i \in issues : i.type /= "missing"}

Counted(issues) == {i \in issues : i.type \notin ExcludedPenaltyTypes}

OfSchema(issues) == {i \in issues : i.category = "Schema"}

Doubled(issue, rules) == issue.column /= "" /\ RuleOf(rules, issue.column).critical

Penalty(issue, rules) ==
    SeverityPenalties[issue.severity] * (IF Doubled(issue, rules) THEN 2 ELSE 1)

Penalties(issues, rules) == SumFunction([i \in issues |-> Penalty(i, rules)])

\* A score less the penalties of the two buckets, each up to its cap.
Penalised(score, schema, other) ==
    Clamped(score - 100 * AtMostCap(schema, SchemaPenaltyCap) - 100 * AtMostCap(other, DistPenaltyCap))

ComputeQualityScore(score, issues, rules) ==
    Penalised(score, Penalties(OfSchema(Counted(issues)), rules),
                     Penalties(Counted(issues) \ OfSchema(issues), rules))

\* assess: with the frame, or without one where frames is empty.
Assess(profile, rules, frames) ==
    LET issues == UNION {MissingIssues(profile, rules), StructuralIssues(profile, rules),
                         UNION {AdvancedIssues(frame, profile, rules) : frame \in frames},
                         QualityGates(profile, rules)}
        score == ComputeScore(profile, rules)
    IN  [score |-> score, quality |-> ComputeQualityScore(score, issues, rules), issues |-> issues]

-----------------------------------------------------------------------------
(***************************************************************************)
(* The explanation                                                         *)
(***************************************************************************)

\* One row per issue: whether it counts, in which bucket, and its base penalty.
ContributionRows(issues) ==
    {[issue |-> i, counted |-> i.type \notin ExcludedPenaltyTypes,
      bucket |-> IF i.category = "Schema" THEN "schema" ELSE "distribution",
      points |-> IF i.type \in ExcludedPenaltyTypes THEN 0 ELSE SeverityPenalties[i.severity]] : i \in issues}

PenaltyBreakdown(assessment) ==
    LET rows == {r \in ContributionRows(assessment.issues) : r.counted}
        points(bucket) == SumFunction([r \in {s \in rows : s.bucket = bucket} |-> r.points])
        schema == points("schema")
        other == points("distribution")
    IN  [schema |-> AtMostCap(schema, SchemaPenaltyCap), other |-> AtMostCap(other, DistPenaltyCap),
         derived |-> Penalised(assessment.score, schema, other),
         reported |-> assessment.quality]

\* PUBLISH_THRESHOLD of the headline.
MeetsThreshold(assessment) == assessment.quality >= 9000
=============================================================================
