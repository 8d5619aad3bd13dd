------------------------------ MODULE MCRecipe ------------------------------
(***************************************************************************)
(* Instance for TLC of the recipes: two managed versions, one of them with *)
(* a recipe of one step, well formed or with one thing wrong about it, or  *)
(* of two steps that want the same column.                                 *)
(***************************************************************************)
EXTENDS RecipeReplay

MCStrip(text) ==
    CASE text = " n"   -> "n"
      [] text = " new" -> "new"
      [] text = " out" -> "out"
      [] OTHER         -> text

MCLower(text) ==
    CASE text = "NEW"  -> "new"
      [] text = "Base" -> "base"
      [] OTHER         -> text

MCSomeTexts(kind) ==
    CASE kind = "number" -> {"1", "2"}
      [] kind = "text"   -> {"a", "b"}
      [] kind = "date"   -> {"2020"}
      [] kind = "flag"   -> {"True", "False"}

MCCanRead(type, text) ==
    CASE type = "numeric"  -> text \in {"1", "2", "2020"}
      [] type = "datetime" -> text = "2020"
      [] type = "boolean"  -> text \in {"1", "True", "False"}
      [] type = "string"   -> TRUE

-----------------------------------------------------------------------------
FileColumn(kind, texts) == ContentOf(kind, texts, Unmade, <<>>)

Numbers == FileColumn("number", {"1", "2"})
Words == FileColumn("text", {"a", "b"})

\* In the first, the columns that one-hot encoding makes of t are there already.
MCFrames ==
    << [columns |-> [n |-> Numbers, t |-> Words, t_a |-> Numbers, d |-> FileColumn("text", {"2020", "x"})],
        rows |-> <<>>],
       [columns |-> [n |-> Numbers, t |-> Words], rows |-> <<>>] >>

Step(operation, columns, parameters) ==
    [operation |-> operation,
     columns |-> [i \in DOMAIN columns |-> TextValue(columns[i])],
     parameters |-> parameters, form |-> "plain", status |-> "pending"]

T(s) == TextValue(s)
I(n) == IntValue(n)
Whole(n) == ParameterValue("whole", n, "", <<>>)
Fraction(n) == ParameterValue("fraction", n, "", <<>>)
Flag01 == ParameterValue("bool", 1, "", <<>>)
List(items) == ParameterValue("list", 0, "", items)

Casting(target) == Step("type_cast", <<"n", "d">>, [target_type |-> T(target)])
Filling(strategy) == Step("missing_value", <<"n">>, [strategy |-> T(strategy)])
FillingWith(v) == Step("missing_value", <<"n">>, [strategy |-> T("constant"), fill_value |-> v])
Outliers(strategy) == Step("iqr_outlier", <<"n">>, [strategy |-> T(strategy)])
Encoding(strategy) == Step("encoding", <<"t">>, [strategy |-> T(strategy)])
Deriving(kind) == Step("derived_column", <<>>, [source_column |-> T("d"), derived_kind |-> T(kind)])
Scalar(operator, v) == Step("calc_scalar", <<>>, [source_column |-> T("n"), operator |-> T(operator), scalar |-> v])
Conditional(comparator, v) ==
    Step("calc_conditional", <<>>,
         [source_column |-> T("t"), comparator |-> T(comparator), compare_value |-> v,
          result_value |-> T("yes"), fallback_value |-> NoValue])
Binning(v) == Step("calc_binning", <<>>, [source_column |-> T("n"), num_bins |-> v])
Strings(operation) == Step("calc_string", <<>>, [source_column |-> T("t"), operation |-> T(operation)])
Adding == Step("calc_arithmetic", <<>>, [left_column |-> T("n"), right_column |-> T("t_a"), operator |-> T("add")])

WithParameter(step, key, v) == [step EXCEPT !.parameters = (key :> v) @@ @]
On(step, columns) == [step EXCEPT !.columns = [i \in DOMAIN columns |-> TextValue(columns[i])]]

WellFormed ==
    {Casting(target) : target \in TypeTargets}
    \cup {Filling("mean"), Filling("drop"), FillingWith(I(0)), FillingWith(NoValue)}
    \cup {Outliers(strategy) : strategy \in OutlierStrategies}
    \cup {Encoding(strategy) : strategy \in EncodingStrategies}
    \cup {Step("scaling", <<"n">>, [strategy |-> T("minmax")]), Step("drop_duplicates", <<>>, <<>>)}
    \cup {Deriving("year"), Deriving("text_length"), Adding, Binning(I(2)), Conditional(">", T("1"))}
    \cup {Scalar("divide", I(0)), Scalar("add", I(1)), Scalar("round", Whole(1)), Strings("upper")}

Wrong ==
    { On(Casting("string"), <<>>), On(Casting("string"), <<" n">>), On(Casting("string"), <<"n", "n">>),
      WithParameter(Casting("string"), "errors", T("raise")), Casting("complex"),
      WithParameter(Filling("mean"), "fill_value", I(0)), Filling("constant"), FillingWith(Flag01),
      WithParameter(Encoding("label"), "max_cardinality", I(1)), WithParameter(Encoding("one_hot"), "max_cardinality", I(4)),
      On(WithParameter(Step("drop_duplicates", <<>>, <<>>), "subset", List(<<T("n")>>)), <<"t">>),
      On(Deriving("year"), <<"n">>), On(Adding, <<"n">>),
      Scalar("add", T("1")), Scalar("round", Fraction(1)), Scalar("add", Flag01),
      WithParameter(Scalar("add", I(1)), "constant_role", T("base")),
      WithParameter(Scalar("power", I(1)), "constant_role", T("Base")),
      Binning(I(1)), Binning(I(5)), Binning(Whole(3)), Conditional("<", T("a")), Conditional("<", NoValue),
      WithParameter(Strings("upper"), "find", T("a")), WithParameter(Strings("replace"), "find", T("")),
      WithParameter(Strings("concat"), "other_column", T("(none)")), WithParameter(Strings("concat"), "literal", T("")),
      WithParameter(Binning(I(2)), "output_mode", T("NEW")), WithParameter(Binning(I(2)), "output_mode", T("existing")),
      WithParameter(Binning(I(2)), "output_column", T(" out")), WithParameter(Binning(I(2)), "colour", T("a")),
      [Adding EXCEPT !.form = "unknown key"], [Adding EXCEPT !.status = "error"],
      [Adding EXCEPT !.operation = "cast"] }

Overwriting ==
    WithParameter(WithParameter(Binning(I(2)), "output_mode", T("existing")), "output_column", T("t_a"))

MCRecipes ==
    {<<step>> : step \in WellFormed \cup Wrong \cup {Overwriting}}
    \cup { <<Outliers("flag"), Outliers("flag")>>, <<Encoding("one_hot"), Adding>>, <<Adding, Adding>>,
           <<Overwriting, Overwriting>>, <<Outliers("flag"), On(Outliers("clip"), <<"n__outlier">>)>> }

MCStudioSteps == {Encoding("one_hot"), Outliers("flag")}
=============================================================================
