--------------------------- MODULE RecipeAdmission ---------------------------
(***************************************************************************)
(* revalidate_durable_recipe: which recipes a reprocessing accepts.        *)
(*                                                                         *)
(* A step names an operation, columns and parameters, all of them as a     *)
(* JSON file may hold them: a value carries the type it was read with, an  *)
(* absent parameter is a missing key.  What is wrong with a step otherwise *)
(* (an unknown key, facts that are no mapping) is its form.  Which code    *)
(* refuses a step is left out.                                             *)
(***************************************************************************)
EXTENDS Integers, Sequences, FiniteSets

CONSTANTS
    Strip(_),        \* str.strip
    Lower(_),        \* str.lower
    CanRead(_, _),   \* CanRead(type, text): whether pandas reads the text as that type
    MinBins,         \* MIN_BINS
    MaxBins,         \* MAX_BINS
    MaxCardinality,  \* _MAX_CARDINALITY_CEILING
    MaxSteps         \* _MAX_STEPS

\* n counts for numbers, s for texts, items for lists.  A number is an int, a
\* float that is whole, or a fraction just above n.
ParameterValue(type, n, s, items) == [type |-> type, n |-> n, s |-> s, items |-> items]
TextValue(s) == ParameterValue("str", 0, s, <<>>)
IntValue(n) == ParameterValue("int", n, "", <<>>)
NoValue == ParameterValue("none", 0, "", <<>>)

NumberTypes == {"int", "whole", "fraction"}

\* params.get(key)
Get(step, key) ==
    IF key \in DOMAIN step.parameters THEN step.parameters[key] ELSE NoValue

Given(step) == DOMAIN step.parameters

-----------------------------------------------------------------------------
(***************************************************************************)
(* Operations                                                              *)
(***************************************************************************)

ColumnPolicy ==
    [op \in {"type_cast", "missing_value", "iqr_outlier", "encoding", "scaling"} |-> "required"]

Calculated ==
    {"calc_arithmetic", "calc_scalar", "calc_conditional", "calc_binning", "calc_string"}

Operations ==
    DOMAIN ColumnPolicy \cup {"drop_duplicates", "derived_column"} \cup Calculated

OutputKeys == {"output_mode", "output_column"}

Allowed(op) ==
    CASE op = "type_cast"        -> {"target_type", "errors"}
      [] op = "missing_value"    -> {"strategy", "fill_value"}
      [] op = "drop_duplicates"  -> {"subset"}
      [] op = "encoding"         -> {"strategy", "max_cardinality"}
      [] op = "derived_column"   -> {"source_column", "derived_kind"}
      [] op = "calc_arithmetic"  -> {"left_column", "right_column", "operator"} \cup OutputKeys
      [] op = "calc_scalar"      ->
             {"source_column", "operator", "scalar", "constant_role"} \cup OutputKeys
      [] op = "calc_conditional" ->
             {"source_column", "comparator", "compare_value", "result_value", "fallback_value"}
                 \cup OutputKeys
      [] op = "calc_binning"     -> {"source_column", "num_bins"} \cup OutputKeys
      [] op = "calc_string"      ->
             {"source_column", "operation", "find", "replace", "other_column", "literal"}
                 \cup OutputKeys
      [] OTHER                   -> {"strategy"}

TypeTargets == {"numeric", "string", "datetime", "boolean"}
MissingStrategies == {"drop", "mean", "median", "mode", "constant"}
OutlierStrategies == {"flag", "clip", "remove"}
EncodingStrategies == {"one_hot", "frequency", "label"}
ScalingStrategies == {"minmax", "zscore"}
DerivedKinds == {"year", "month", "day", "day_of_week", "text_length"}
ArithmeticOps == {"add", "subtract", "multiply", "divide", "power"}
ScalarOps == ArithmeticOps \cup {"round"}
OrderedComparators == {">", ">=", "<", "<="}
Comparators == OrderedComparators \cup {"==", "!="}
StringOps == {"upper", "lower", "strip", "length", "replace", "concat"}

ColumnNames(step) == [i \in DOMAIN step.columns |-> step.columns[i].s]

\* deterministic_output_names: what a step creates under names of its own.
Suffix == [frequency |-> "__freq", label |-> "__label"]

SourceColumn(step) ==
    IF Get(step, "source_column").s # "" THEN Get(step, "source_column").s
    ELSE IF step.columns = <<>> THEN "" ELSE ColumnNames(step)[1]

DeterministicNames(step) ==
    LET suffixed(suffix) == {ColumnNames(step)[i] \o suffix : i \in DOMAIN step.columns}
        strategy == Get(step, "strategy").s
    IN  CASE step.operation = "iqr_outlier" /\ strategy = "flag" -> suffixed("__outlier")
          [] step.operation = "encoding" /\ strategy \in DOMAIN Suffix -> suffixed(Suffix[strategy])
          [] step.operation = "derived_column" /\ Get(step, "derived_kind").s \in DerivedKinds ->
                 {SourceColumn(step) \o "__" \o Get(step, "derived_kind").s}
          [] OTHER -> {}

-----------------------------------------------------------------------------
(***************************************************************************)
(* Values                                                                  *)
(***************************************************************************)

\* _column_error
AdmitName(v) == v.type = "str" /\ v.s # "" /\ Strip(v.s) = v.s

AdmitNames(names) ==
    /\ \A i \in DOMAIN names : AdmitName(names[i])
    /\ \A i, j \in DOMAIN names : i # j => names[i] # names[j]

AdmitScalarValue(v) == v.type \in {"none", "str"} \cup NumberTypes

RequireEnum(step, key, allowed) ==
    /\ Get(step, key).type = "str"
    /\ Get(step, key).s \in allowed

\* The engine strips and lowers these: only what it leaves as it is.
RequireNormalizedEnum(step, key, allowed) ==
    /\ RequireEnum(step, key, allowed)
    /\ Get(step, key).s = Lower(Strip(Get(step, key).s))

\* Seeded fault, not used below: one above the largest number the engine takes.
RequireIntTooLarge(step, key, low, high) ==
    /\ Get(step, key).type = "int"
    /\ Get(step, key).n \in low .. high + 1

RequireInt(step, key, low, high) ==
    /\ Get(step, key).type = "int"
    /\ Get(step, key).n \in low .. high

RequireNumber(step, key) == Get(step, key).type \in NumberTypes

RequireColumnName(step, key) == AdmitName(Get(step, key))

-----------------------------------------------------------------------------
(***************************************************************************)
(* The check of each operation                                             *)
(***************************************************************************)

CheckTypeCast(step) ==
    /\ RequireEnum(step, "target_type", TypeTargets)
    /\ "errors" \in Given(step) => Get(step, "errors").s = "coerce"

CheckMissingValue(step) ==
    /\ RequireEnum(step, "strategy", MissingStrategies)
    /\ IF Get(step, "strategy").s = "constant"
       THEN "fill_value" \in Given(step) /\ AdmitScalarValue(Get(step, "fill_value"))
       ELSE "fill_value" \notin Given(step)

CheckEncoding(step) ==
    /\ RequireEnum(step, "strategy", EncodingStrategies)
    /\ "max_cardinality" \in Given(step) =>
         /\ Get(step, "strategy").s = "one_hot"
         /\ RequireInt(step, "max_cardinality", 1, MaxCardinality)

CheckDerivedColumn(step) ==
    /\ RequireColumnName(step, "source_column")
    /\ RequireEnum(step, "derived_kind", DerivedKinds)

CheckCalcArithmetic(step) ==
    /\ RequireColumnName(step, "left_column")
    /\ RequireColumnName(step, "right_column")
    /\ RequireEnum(step, "operator", ArithmeticOps)

\* A role only with a power; a whole number to round to.
CheckScalarOperator(step) ==
    /\ "constant_role" \in Given(step) =>
         /\ Get(step, "operator").s = "power"
         /\ RequireNormalizedEnum(step, "constant_role", {"exponent", "base"})
    /\ Get(step, "operator").s = "round" => Get(step, "scalar").type # "fraction"

CheckCalcScalar(step) ==
    /\ RequireColumnName(step, "source_column")
    /\ RequireEnum(step, "operator", ScalarOps)
    /\ RequireNumber(step, "scalar")
    /\ CheckScalarOperator(step)

CheckConditionalComparison(step) ==
    LET v == Get(step, "compare_value")
    IN  Get(step, "comparator").s \in OrderedComparators =>
            v.type \in NumberTypes \/ (v.type = "str" /\ CanRead("numeric", v.s))

CheckCalcConditional(step) ==
    /\ RequireColumnName(step, "source_column")
    /\ RequireEnum(step, "comparator", Comparators)
    /\ \A key \in {"compare_value", "result_value", "fallback_value"} :
         key \in Given(step) /\ AdmitScalarValue(Get(step, key))
    /\ CheckConditionalComparison(step)

CheckCalcBinning(step) ==
    /\ RequireColumnName(step, "source_column")
    /\ RequireInt(step, "num_bins", MinBins, MaxBins)

CheckStringReplace(step) ==
    /\ Get(step, "find").type = "str" /\ Get(step, "find").s # ""
    /\ Get(step, "replace").type \in {"none", "str"}

\* "(none)" is what the page offers for no column.
CheckStringConcat(step) ==
    /\ "other_column" \in Given(step) =>
         RequireColumnName(step, "other_column") /\ Get(step, "other_column").s # "(none)"
    /\ "literal" \in Given(step) =>
         Get(step, "literal").type = "str" /\ Get(step, "literal").s # ""

CheckStringFields(step) ==
    LET ofReplace == {"find", "replace"} \cap Given(step)
        ofConcat == {"other_column", "literal"} \cap Given(step)
    IN  CASE Get(step, "operation").s = "replace" -> ofConcat = {} /\ CheckStringReplace(step)
          [] Get(step, "operation").s = "concat"  -> ofReplace = {} /\ CheckStringConcat(step)
          [] OTHER                                -> ofReplace = {} /\ ofConcat = {}

CheckCalcString(step) ==
    /\ RequireColumnName(step, "source_column")
    /\ RequireEnum(step, "operation", StringOps)
    /\ CheckStringFields(step)

CheckOperation(step) ==
    CASE step.operation = "type_cast"        -> CheckTypeCast(step)
      [] step.operation = "missing_value"    -> CheckMissingValue(step)
      [] step.operation = "drop_duplicates"  -> TRUE
      [] step.operation = "iqr_outlier"      -> RequireEnum(step, "strategy", OutlierStrategies)
      [] step.operation = "encoding"         -> CheckEncoding(step)
      [] step.operation = "scaling"          -> RequireEnum(step, "strategy", ScalingStrategies)
      [] step.operation = "derived_column"   -> CheckDerivedColumn(step)
      [] step.operation = "calc_arithmetic"  -> CheckCalcArithmetic(step)
      [] step.operation = "calc_scalar"      -> CheckCalcScalar(step)
      [] step.operation = "calc_conditional" -> CheckCalcConditional(step)
      [] step.operation = "calc_binning"     -> CheckCalcBinning(step)
      [] step.operation = "calc_string"      -> CheckCalcString(step)

-----------------------------------------------------------------------------
(***************************************************************************)
(* Steps and recipes                                                       *)
(***************************************************************************)

AdmitSubsetColumns(step) ==
    LET subset == Get(step, "subset")
    IN  \/ subset.type = "none"
        \/ /\ subset.type = "list" /\ subset.items # <<>>
           /\ step.columns = <<>>
           /\ AdmitNames(subset.items)

AdmitDerivedColumns(step) ==
    \/ step.columns = <<>>
    \/ (Len(step.columns) = 1 /\ step.columns[1] = Get(step, "source_column"))

AdmitColumnsPolicy(step) ==
    CASE step.operation \in DOMAIN ColumnPolicy -> step.columns # <<>>
      [] step.operation \in Calculated          -> step.columns = <<>>
      [] step.operation = "drop_duplicates"     -> AdmitSubsetColumns(step)
      [] step.operation = "derived_column"      -> AdmitDerivedColumns(step)

OutputMode(step) == IF "output_mode" \in Given(step) THEN Get(step, "output_mode").s ELSE "new"

\* Control characters are left out of texts.
AdmitOutputName(step) ==
    LET name == Get(step, "output_column")
    IN  /\ name.type \in {"none", "str"}
        /\ name.s = Strip(name.s)
        /\ OutputMode(step) = "existing" => name.s # ""

\* What an admitted step reserves: a calculation only the name it was given.
Reserved(step) ==
    IF step.operation \in Calculated THEN {Get(step, "output_column").s} \ {""}
                                     ELSE DeterministicNames(step)

AdmitOutput(step, outputs) ==
    /\ step.operation \in Calculated =>
         /\ "output_mode" \in Given(step) =>
              RequireNormalizedEnum(step, "output_mode", {"new", "existing"})
         /\ AdmitOutputName(step)
    /\ Reserved(step) \cap outputs = {}

\* _admit_step_shape, _admit_columns and _admit_step_metadata
AdmitShape(step) ==
    /\ step.form = "plain"
    /\ step.operation \in Operations
    /\ step.status \in {"pending", "applied", "skipped"}
    /\ AdmitNames(step.columns)

AdmitOperation(step, outputs) ==
    /\ Given(step) \subseteq Allowed(step.operation)
    /\ AdmitColumnsPolicy(step)
    /\ CheckOperation(step)
    /\ AdmitOutput(step, outputs)

AdmitStep(step, outputs) == AdmitShape(step) /\ AdmitOperation(step, outputs)

\* _run_admission: the first step that is refused refuses the recipe.
Admitted(steps) ==
    /\ Len(steps) \in 1 .. MaxSteps
    /\ \A i \in DOMAIN steps :
         AdmitStep(steps[i], UNION {Reserved(steps[j]) : j \in 1 .. i - 1})
=============================================================================
