---------------------------- MODULE RecipeEngine ----------------------------
(***************************************************************************)
(* apply_recipe: what the steps of a recipe make of a frame.               *)
(*                                                                         *)
(* Of a column the frame keeps its kind, the texts it holds and what its   *)
(* values were made by and from; of the rows, the steps that took some     *)
(* away.  Every numeric column has the four numbers the fences ask for,    *)
(* and two different ones to bin; arithmetic on bool columns is as on      *)
(* numbers.                                                                *)
(***************************************************************************)
EXTENDS RecipeAdmission, SequencesExt, TLC

CONSTANTS
    Unmade,         \* what made the columns of a file
    SomeTexts(_),   \* SomeTexts(kind): the texts a column of that kind holds, once made
    OneHotDefault   \* MAX_ONEHOT_CARDINALITY

\* ContentOf(kind, texts, by, from): by a step, from the contents it read.
ContentOf(kind, texts, by, from) == [kind |-> kind, texts |-> texts, by |-> by, from |-> from]

Trace(step) == [operation |-> step.operation, columns |-> step.columns, parameters |-> step.parameters]

Made(kind, step, from) == ContentOf(kind, SomeTexts(kind), Trace(step), from)

Outcome(status, frame) == [status |-> status, frame |-> frame]

Columns(frame) == DOMAIN frame.columns

\* Numeric for pandas: bool columns are.
HasNumbers(frame, name) == frame.columns[name].kind \in {"number", "flag"}

\* out[name] = content, for every name of new
Write(frame, new) ==
    [frame EXCEPT !.columns =
        [name \in Columns(frame) \cup DOMAIN new |->
            IF name \in DOMAIN new THEN new[name] ELSE frame.columns[name]]]

DropRows(frame, step) == [frame EXCEPT !.rows = Append(@, Trace(step))]

Rewrite(frame, names, step, kind) ==
    Write(frame, [name \in names |-> Made(kind, step, <<frame.columns[name]>>)])

\* output_collisions for names that are made only once
Collide(frame, names) == names \cap Columns(frame) # {}

\* _present_columns
PresentColumns(frame, step) == {ColumnNames(step)[i] : i \in DOMAIN step.columns} \cap Columns(frame)

-----------------------------------------------------------------------------
(***************************************************************************)
(* Transforms of given columns.  None is called without a present column.  *)
(***************************************************************************)

KindOf == [numeric |-> "number", string |-> "text", datetime |-> "date", boolean |-> "flag"]

\* What cannot be read as the type becomes null; flags are numbers already.
ApplyTypeCast(frame, step) ==
    LET target == Get(step, "target_type").s
        kept(col) ==
            \/ target = "numeric" /\ col.kind # "text"
            \/ target = "datetime" /\ col.kind \in {"date", "number"}
        kind(col) == IF target = "numeric" /\ col.kind = "flag" THEN "flag" ELSE KindOf[target]
        cast(col) ==
            ContentOf(kind(col), {t \in col.texts : kept(col) \/ CanRead(target, t)}, Trace(step), <<col>>)
    IN  Outcome("applied",
                Write(frame, [name \in PresentColumns(frame, step) |-> cast(frame.columns[name])]))

\* fillna(None) raises; a mean and a median are of numbers only.
ApplyMissing(frame, step) ==
    LET strategy == Get(step, "strategy").s
        names == {name \in PresentColumns(frame, step) :
                      strategy \in {"mean", "median"} => HasNumbers(frame, name)}
        filled == [name \in names |->
                      [frame.columns[name] EXCEPT !.by = Trace(step), !.from = <<frame.columns[name]>>]]
    IN  CASE strategy = "drop" -> Outcome("applied", DropRows(frame, step))
          [] strategy = "constant" /\ Get(step, "fill_value").type = "none" -> Outcome("error", frame)
          [] OTHER -> Outcome("applied", Write(frame, filled))

\* A subset none of whose columns is there counts as none.
ApplyDropDuplicates(frame, step) == Outcome("applied", DropRows(frame, step))

\* The quantiles of a bool column raise.
ApplyOutliers(frame, step) ==
    LET names == {name \in PresentColumns(frame, step) : HasNumbers(frame, name)}
        flag(name) == name \o "__outlier"
        flags == [new \in {flag(name) : name \in names} |->
                     Made("flag", step, <<frame.columns[CHOOSE name \in names : flag(name) = new]>>)]
    IN  CASE names = {} -> Outcome("skipped", frame)
          [] \E name \in names : frame.columns[name].kind = "flag" -> Outcome("error", frame)
          [] Get(step, "strategy").s = "clip" -> Outcome("applied", Rewrite(frame, names, step, "number"))
          [] Get(step, "strategy").s = "remove" -> Outcome("applied", DropRows(frame, step))
          [] Collide(frame, DOMAIN flags) -> Outcome("error", frame)
          [] OTHER -> Outcome("applied", Write(frame, flags))

\* _apply_one_hot: each text of a column becomes a column, the column itself goes.
OneHotNames(frame, step) ==
    LET most == IF "max_cardinality" \in Given(step) THEN Get(step, "max_cardinality").n ELSE OneHotDefault
    IN  {name \in PresentColumns(frame, step) : Cardinality(frame.columns[name].texts) <= most}

Dummies(frame, names) == UNION {{<<name, text>> : text \in frame.columns[name].texts} : name \in names}

DummyName(dummy) == dummy[1] \o "_" \o dummy[2]

\* Seeded fault, not used below: the names are not looked at.
NoOneHotCollides(frame, names) == FALSE

OneHotCollides(frame, names) ==
    LET dummies == Dummies(frame, names)
    IN  \/ {DummyName(d) : d \in dummies} \cap (Columns(frame) \ names) # {}
        \/ \E d, e \in dummies : d # e /\ DummyName(d) = DummyName(e)

ApplyOneHot(frame, step) ==
    LET names == OneHotNames(frame, step)
        dummies == Dummies(frame, names)
        rest == [frame EXCEPT !.columns = [name \in Columns(frame) \ names |-> frame.columns[name]]]
        made == [new \in {DummyName(d) : d \in dummies} |->
                    Made("flag", step,
                         <<frame.columns[(CHOOSE d \in dummies : DummyName(d) = new)[1]]>>)]
    IN  IF OneHotCollides(frame, names) THEN Outcome("error", frame)
                                        ELSE Outcome("applied", Write(rest, made))

\* _apply_suffix_encoding
ApplySuffixEncoding(frame, step) ==
    LET suffix == Suffix[Get(step, "strategy").s]
        names == PresentColumns(frame, step)
        made == [new \in {name \o suffix : name \in names} |->
                    Made("number", step,
                         <<frame.columns[CHOOSE name \in names : name \o suffix = new]>>)]
    IN  IF Collide(frame, DOMAIN made) THEN Outcome("error", frame)
                                       ELSE Outcome("applied", Write(frame, made))

ApplyEncoding(frame, step) ==
    IF Get(step, "strategy").s = "one_hot" THEN ApplyOneHot(frame, step)
                                           ELSE ApplySuffixEncoding(frame, step)

ApplyScaling(frame, step) ==
    LET names == {name \in PresentColumns(frame, step) : HasNumbers(frame, name)}
    IN  Outcome("applied", Rewrite(frame, names, step, "number"))

\* Dates are read from dates, numbers and the texts that are dates.
ApplyDerived(frame, step) ==
    LET source == frame.columns[SourceColumn(step)]
        kind == Get(step, "derived_kind").s
        target == SourceColumn(step) \o "__" \o kind
        dated == source.kind \in {"date", "number"} \/ \E t \in source.texts : CanRead("datetime", t)
    IN  CASE Collide(frame, {target}) -> Outcome("error", frame)
          [] kind # "text_length" /\ ~dated -> Outcome("skipped", frame)
          [] OTHER -> Outcome("applied", Write(frame, [new \in {target} |-> Made("number", step, <<source>>)]))

-----------------------------------------------------------------------------
(***************************************************************************)
(* Calculations                                                            *)
(***************************************************************************)

Absent == ""

\* _resolve_output: the destination, Absent when there is none.
ResolveOutput(frame, step, default) ==
    LET name == Strip(Get(step, "output_column").s)
        target == IF name # "" THEN name ELSE default
    IN  IF Lower(Strip(OutputMode(step))) = "existing"
        THEN IF name \in Columns(frame) THEN name ELSE Absent
        ELSE IF target \in Columns(frame) THEN Absent ELSE target

\* Every calculation: its columns, its destination, what it writes there.
Calculate(frame, step, sources, default, possible, kind) ==
    LET target == ResolveOutput(frame, step, default)
        from == [i \in DOMAIN sources |-> frame.columns[sources[i]]]
    IN  IF target = Absent \/ ~possible
        THEN Outcome("skipped", frame)
        ELSE Outcome("applied", Write(frame, [new \in {target} |-> Made(kind, step, from)]))

ApplyArithmetic(frame, step) ==
    LET left == Get(step, "left_column").s
        right == Get(step, "right_column").s
    IN  Calculate(frame, step, <<left, right>>,
                  left \o "__" \o Get(step, "operator").s \o "__" \o right, TRUE, "number")

\* _scalar_result
ScalarIsPossible(step) == ~(Get(step, "operator").s = "divide" /\ Get(step, "scalar").n = 0
                               /\ Get(step, "scalar").type # "fraction")

ApplyScalar(frame, step) ==
    Calculate(frame, step, <<SourceColumn(step)>>, SourceColumn(step) \o "__" \o Get(step, "operator").s,
              ScalarIsPossible(step), "number")

\* _build_condition_mask: an order needs a number to compare with.
ConditionIsPossible(step) == CheckConditionalComparison(step)

ApplyConditional(frame, step) ==
    Calculate(frame, step, <<SourceColumn(step)>>, SourceColumn(step) \o "__flag",
              ConditionIsPossible(step), "text")

\* Texts are binned by the numbers among them.
ApplyBinning(frame, step) ==
    LET source == frame.columns[SourceColumn(step)]
        numbers == {t \in source.texts : CanRead("numeric", t)}
    IN  Calculate(frame, step, <<SourceColumn(step)>>, SourceColumn(step) \o "__bin",
                  source.kind # "text" \/ Cardinality(numbers) >= 2, "text")

\* Concatenation reads the other column where there is one.
ApplyString(frame, step) ==
    LET operation == Get(step, "operation").s
        other == Get(step, "other_column").s
        sources == IF operation = "concat" /\ other \in Columns(frame)
                   THEN <<SourceColumn(step), other>> ELSE <<SourceColumn(step)>>
    IN  Calculate(frame, step, sources, SourceColumn(step) \o "__" \o operation,
                  operation = "replace" => Get(step, "find").s # "",
                  IF operation = "length" THEN "number" ELSE "text")

-----------------------------------------------------------------------------
(***************************************************************************)
(* Replay                                                                  *)
(***************************************************************************)

\* The columns a calculation or a derivation cannot do without.
Needed(step) ==
    IF step.operation = "calc_arithmetic"
    THEN {Get(step, "left_column").s, Get(step, "right_column").s}
    ELSE {SourceColumn(step)}

NeedsSource == Calculated \cup {"derived_column"}

HasItsColumns(frame, step) ==
    /\ step.operation \in DOMAIN ColumnPolicy => PresentColumns(frame, step) # {}
    /\ step.operation \in NeedsSource => Needed(step) \subseteq Columns(frame)

\* _dispatch_step
Dispatch(frame, step) ==
    CASE step.operation = "type_cast"        -> ApplyTypeCast(frame, step)
      [] step.operation = "missing_value"    -> ApplyMissing(frame, step)
      [] step.operation = "drop_duplicates"  -> ApplyDropDuplicates(frame, step)
      [] step.operation = "iqr_outlier"      -> ApplyOutliers(frame, step)
      [] step.operation = "encoding"         -> ApplyEncoding(frame, step)
      [] step.operation = "scaling"          -> ApplyScaling(frame, step)
      [] step.operation = "derived_column"   -> ApplyDerived(frame, step)
      [] step.operation = "calc_arithmetic"  -> ApplyArithmetic(frame, step)
      [] step.operation = "calc_scalar"      -> ApplyScalar(frame, step)
      [] step.operation = "calc_conditional" -> ApplyConditional(frame, step)
      [] step.operation = "calc_binning"     -> ApplyBinning(frame, step)
      [] step.operation = "calc_string"      -> ApplyString(frame, step)
      [] OTHER                               -> Outcome("skipped", frame)

\* Of a step the engine is given its operation, its columns and its parameters.
ApplyStep(frame, step) ==
    LET given == Trace(step)
    IN  IF HasItsColumns(frame, given) THEN Dispatch(frame, given) ELSE Outcome("skipped", frame)

WithStatus(step, status) == [step EXCEPT !.status = status]

ReplayStep(done, step) ==
    LET outcome == ApplyStep(done.frame, step)
    IN  [frame |-> outcome.frame,
         executed |-> Append(done.executed, WithStatus(step, outcome.status))]

\* apply_recipe goes on after an error, with the frame from before it.
Replay(frame, steps) ==
    LET replayed[n \in 0 .. Len(steps)] ==
            IF n = 0 THEN [frame |-> frame, executed |-> <<>>]
                     ELSE ReplayStep(replayed[n - 1], steps[n])
    IN  replayed[Len(steps)]

\* replay_refusal_code: of a replay as apply_recipe reports it.
IsComplete(executed) ==
    /\ executed # <<>>
    /\ \A i \in DOMAIN executed : executed[i].status \in {"applied", "skipped"}

\* to_csv and read_csv: kinds are told from the texts again.
Stored(frame) ==
    LET kind(col) ==
            IF col.kind = "date" THEN "text"
            ELSE IF col.kind = "text" /\ \A t \in col.texts : CanRead("numeric", t) THEN "number"
            ELSE col.kind
    IN  [frame EXCEPT !.columns =
            [name \in Columns(frame) |-> [frame.columns[name] EXCEPT !.kind = kind(frame.columns[name])]]]
=============================================================================
