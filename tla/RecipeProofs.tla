---------------------------- MODULE RecipeProofs ----------------------------
(***************************************************************************)
(* Proofs about the recipes of the Preprocess Studio, for any frames,      *)
(* recipes, steps and numbers of versions.                                 *)
(*                                                                         *)
(* A replay is a recursion over the steps of a recipe, so its properties   *)
(* are proved by induction over their number.  The theorems of the library *)
(* that take a predicate cannot be used, so Induction is proved first, of  *)
(* a set, from what the library says of one-to-one functions on a finite   *)
(* set.  Then, of every transform: it writes under names that are free or  *)
(* that it was asked for.  Of a replay: reported and replayed again, it    *)
(* does the same.  Of the studio: each version is one its recipe makes.    *)
(***************************************************************************)
EXTENDS RecipeReplay, FiniteSetTheorems, TLAPS

\* What holds of 0 and passes on to the next number holds of all: otherwise the
\* numbers up to one that lacks it would be moved down into themselves, one to one
\* and not onto.
LEMMA Induction ==
    ASSUME NEW T, 0 \in T, \A n \in Nat : n \in T => n + 1 \in T
    PROVE  Nat \subseteq T
<1>1. SUFFICES ASSUME NEW n \in Nat, n \notin T PROVE FALSE
  OBVIOUS
<1> DEFINE D == {k \in 0 .. n : k \notin T}
           before == [k \in D |-> k - 1]
<1>2. D \subseteq 0 .. n /\ n \in D /\ 0 \notin D
  BY <1>1
<1>3. \A k \in D : k - 1 \in D
  <2>1. TAKE k \in D
  <2>2. k \in 1 .. n
    BY <1>2
  <2>3. k - 1 \in Nat /\ k - 1 \in 0 .. n /\ (k - 1) + 1 = k
    BY <2>2
  <2> QED
    BY <2>1, <2>3
<1>4. before \in Injection(D, D)
  <2>1. before \in [D -> D]
    BY <1>3
  <2>2. \A j, k \in D : before[j] = before[k] => j = k
    BY <1>2
  <2> QED
    BY <2>1, <2>2 DEF Injection, IsInjective
<1>5. IsFiniteSet(D)
  <2>1. IsFiniteSet(0 .. n)
    BY FS_Interval
  <2> HIDE DEF D
  <2> QED
    BY <1>2, <2>1, FS_Subset
<1>6. before \in Surjection(D, D)
  <2> HIDE DEF D, before
  <2> QED
    BY <1>4, <1>5, FS_Injection
<1>7. PICK k \in D : before[k] = n
  BY <1>2, <1>6 DEF Surjection
<1> QED
  BY <1>2, <1>7

-----------------------------------------------------------------------------
(***************************************************************************)
(* Replay                                                                  *)
(***************************************************************************)

Started(frame) == [frame |-> frame, executed |-> <<>>]

\* The states of a replay up to its n-th step.
IsRun(run, frame, steps, n) ==
    /\ run = [i \in 0 .. n |-> run[i]]
    /\ run[0] = Started(frame)
    /\ \A i \in 1 .. n : run[i] = ReplayStep(run[i - 1], steps[i])

\* The recursion of Replay has a solution: one step after the other.
LEMMA ReplayIsRun ==
    ASSUME NEW frame, NEW steps, Len(steps) \in Nat
    PROVE  \E run : IsRun(run, frame, steps, Len(steps)) /\ Replay(frame, steps) = run[Len(steps)]
<1> DEFINE size == Len(steps)
           T == {n \in Nat : n <= size => \E run : IsRun(run, frame, steps, n)}
<1>1. 0 \in T
  <2> DEFINE run == [i \in 0 .. 0 |-> Started(frame)]
  <2>1. IsRun(run, frame, steps, 0)
    BY DEF IsRun
  <2> QED
    BY <2>1
<1>2. ASSUME NEW n \in Nat, n \in T PROVE n + 1 \in T
  <2>1. SUFFICES ASSUME n + 1 <= size PROVE \E next : IsRun(next, frame, steps, n + 1)
    OBVIOUS
  <2>2. PICK run : IsRun(run, frame, steps, n)
    BY <1>2, <2>1
  <2> DEFINE next == [i \in 0 .. n + 1 |-> IF i = n + 1 THEN ReplayStep(run[n], steps[n + 1]) ELSE run[i]]
  <2>3. ASSUME NEW i \in 1 .. n + 1 PROVE next[i] = ReplayStep(next[i - 1], steps[i])
    <3>1. i - 1 \in 0 .. n + 1 /\ i - 1 # n + 1 /\ next[i - 1] = run[i - 1]
      OBVIOUS
    <3>2. CASE i = n + 1
      BY <3>1, <3>2
    <3>3. CASE i # n + 1
      <4>1. i \in 1 .. n /\ next[i] = run[i]
        BY <3>3
      <4> HIDE DEF next
      <4> QED
        BY <2>2, <3>1, <4>1 DEF IsRun
    <3> QED
      BY <3>2, <3>3
  <2>4. next[0] = Started(frame)
    BY <2>2 DEF IsRun
  <2>5. next = [i \in 0 .. n + 1 |-> next[i]]
    OBVIOUS
  <2> HIDE DEF next
  <2> QED
    BY <2>3, <2>4, <2>5 DEF IsRun
<1>3. size \in T
  <2> HIDE DEF T
  <2> QED
    BY <1>1, <1>2, Induction
<1>4. PICK run : IsRun(run, frame, steps, size)
  BY <1>3
<1> DEFINE Solves(f) == f = [n \in 0 .. size |-> IF n = 0 THEN Started(frame)
                                                ELSE ReplayStep(f[n - 1], steps[n])]
           replayed == CHOOSE f : Solves(f)
<1>5. Solves(run)
  BY <1>4 DEF IsRun
<1>6. Solves(replayed)
  <2> HIDE DEF Solves
  <2> QED
    BY <1>5
<1>7. Replay(frame, steps) = replayed[size]
  BY DEF Replay, Started
<1>8. IsRun(replayed, frame, steps, size)
  <2> HIDE DEF replayed
  <2> QED
    BY <1>6 DEF IsRun
<1> QED
  BY <1>7, <1>8

-----------------------------------------------------------------------------
(***************************************************************************)
(* What a step does to a frame                                             *)
(***************************************************************************)

Outcomes == {"applied", "skipped", "error"}

\* The columns that were not asked for are there, with what they were made by and from.
Kept(frame, after, asked) ==
    \A name \in Columns(frame) \ asked :
        /\ name \in Columns(after)
        /\ after.columns[name].from = frame.columns[name].from
        /\ after.columns[name].by = frame.columns[name].by

\* What is proved of every transform.
Sound(frame, step, outcome) ==
    /\ outcome.status \in Outcomes
    /\ IsFrame(outcome.frame)
    /\ Kept(frame, outcome.frame, Asked(step))

\* What is written under new names, or under names that were asked for, keeps the rest.
LEMMA WriteIsSound ==
    ASSUME NEW frame, IsFrame(frame), NEW new, NEW step,
           \A name \in DOMAIN new : IsContent(new[name]),
           DOMAIN new \cap Columns(frame) \subseteq Asked(step)
    PROVE  Sound(frame, step, Outcome("applied", Write(frame, new)))
<1> DEFINE after == Write(frame, new)
<1>1. /\ Columns(after) = Columns(frame) \cup DOMAIN new
      /\ after = [columns |-> after.columns, rows |-> after.rows]
      /\ \A name \in Columns(after) :
             after.columns[name] = IF name \in DOMAIN new THEN new[name] ELSE frame.columns[name]
      /\ after.columns = [name \in DOMAIN after.columns |-> after.columns[name]]
  BY DEF Write, Columns, IsFrame
<1>2. IsFrame(after)
  BY <1>1 DEF IsFrame, Columns
<1>3. Kept(frame, after, Asked(step))
  BY <1>1 DEF Kept
<1> QED
  BY <1>2, <1>3 DEF Sound, Outcome, Outcomes

\* What leaves the columns alone keeps them.
LEMMA UntouchedIsSound ==
    ASSUME NEW frame, IsFrame(frame), NEW step, NEW status \in Outcomes
    PROVE  /\ Sound(frame, step, Outcome(status, frame))
           /\ Sound(frame, step, Outcome(status, DropRows(frame, step)))
<1>1. IsFrame(DropRows(frame, step)) /\ DropRows(frame, step).columns = frame.columns
  BY DEF DropRows, IsFrame
<1> QED
  BY <1>1 DEF Sound, Outcome, Kept, Columns

LEMMA MadeIsContent ==
    ASSUME NEW kind, NEW step, NEW from PROVE IsContent(Made(kind, step, from))
BY DEF IsContent, Made, ContentOf

LEMMA RewriteIsSound ==
    ASSUME NEW frame, IsFrame(frame), NEW names, NEW step, NEW kind, names \subseteq Asked(step)
    PROVE  Sound(frame, step, Outcome("applied", Rewrite(frame, names, step, kind)))
BY WriteIsSound, MadeIsContent DEF Rewrite

LEMMA PresentIsNamed ==
    ASSUME NEW frame, NEW step
    PROVE  PresentColumns(frame, step) \subseteq NamedColumns(step) \cap Columns(frame)
BY DEF PresentColumns, NamedColumns

LEMMA TypeCastIsSound ==
    ASSUME NEW frame, IsFrame(frame), NEW step, step.operation = "type_cast"
    PROVE  Sound(frame, step, ApplyTypeCast(frame, step))
<1>1. PICK new : /\ ApplyTypeCast(frame, step) = Outcome("applied", Write(frame, new))
                 /\ DOMAIN new = PresentColumns(frame, step)
                 /\ \A name \in DOMAIN new : IsContent(new[name])
  <2> DEFINE target == Get(step, "target_type").s
             kept(col) ==
                \/ target = "numeric" /\ col.kind # "text"
                \/ target = "datetime" /\ col.kind \in {"date", "number"}
             kind(col) == IF target = "numeric" /\ col.kind = "flag" THEN "flag" ELSE KindOf[target]
             cast(col) ==
                ContentOf(kind(col), {t \in col.texts : kept(col) \/ CanRead(target, t)}, Trace(step), <<col>>)
             new == [name \in PresentColumns(frame, step) |-> cast(frame.columns[name])]
  <2>1. ApplyTypeCast(frame, step) = Outcome("applied", Write(frame, new))
    BY DEF ApplyTypeCast
  <2>2. \A col : IsContent(cast(col))
    BY DEF IsContent, ContentOf
  <2> HIDE DEF cast
  <2> QED
    BY <2>1, <2>2
<1>2. Asked(step) = NamedColumns(step)
  BY DEF Asked, RewritesNamed, InPlace
<1> QED
  BY <1>1, <1>2, PresentIsNamed, WriteIsSound

LEMMA MissingIsSound ==
    ASSUME NEW frame, IsFrame(frame), NEW step, step.operation = "missing_value"
    PROVE  Sound(frame, step, ApplyMissing(frame, step))
<1> DEFINE strategy == Get(step, "strategy").s
           names == {name \in PresentColumns(frame, step) :
                        strategy \in {"mean", "median"} => HasNumbers(frame, name)}
           filled == [name \in names |->
                        [frame.columns[name] EXCEPT !.by = Trace(step), !.from = <<frame.columns[name]>>]]
<1>1. names \subseteq NamedColumns(step) \cap Columns(frame)
  BY PresentIsNamed
<1>2. \A name \in DOMAIN filled : IsContent(filled[name])
  BY <1>1 DEF IsFrame, IsContent, ContentOf, Columns
<1>3. Asked(step) = NamedColumns(step)
  BY DEF Asked, RewritesNamed, InPlace
<1>4. Sound(frame, step, Outcome("applied", Write(frame, filled)))
  <2>1. DOMAIN filled = names
    OBVIOUS
  <2> HIDE DEF filled, names
  <2> QED
    BY <1>1, <1>2, <1>3, <2>1, WriteIsSound
<1>5. ApplyMissing(frame, step) \in {Outcome("applied", DropRows(frame, step)), Outcome("error", frame),
                                    Outcome("applied", Write(frame, filled))}
  BY DEF ApplyMissing
<1> HIDE DEF filled
<1> QED
  BY <1>4, <1>5, UntouchedIsSound DEF Outcomes

LEMMA ScalingIsSound ==
    ASSUME NEW frame, IsFrame(frame), NEW step, step.operation = "scaling"
    PROVE  Sound(frame, step, ApplyScaling(frame, step))
<1>1. Asked(step) = NamedColumns(step)
  BY DEF Asked, RewritesNamed, InPlace
<1> QED
  BY <1>1, PresentIsNamed, RewriteIsSound DEF ApplyScaling

\* A flag goes under a new name or nowhere.
LEMMA OutliersAreSound ==
    ASSUME NEW frame, IsFrame(frame), NEW step, step.operation = "iqr_outlier"
    PROVE  Sound(frame, step, ApplyOutliers(frame, step))
<1> DEFINE names == {name \in PresentColumns(frame, step) : HasNumbers(frame, name)}
           flag(name) == name \o "__outlier"
           flags == [new \in {flag(name) : name \in names} |->
                       Made("flag", step, <<frame.columns[CHOOSE name \in names : flag(name) = new]>>)]
<1>1. CASE Get(step, "strategy").s = "clip"
  <2>1. Asked(step) = NamedColumns(step)
    BY <1>1 DEF Asked, RewritesNamed
  <2>2. Sound(frame, step, Outcome("applied", Rewrite(frame, names, step, "number")))
    BY <2>1, PresentIsNamed, RewriteIsSound
  <2>3. ApplyOutliers(frame, step) \in {Outcome("skipped", frame), Outcome("error", frame),
                                       Outcome("applied", Rewrite(frame, names, step, "number"))}
    BY <1>1 DEF ApplyOutliers
  <2> HIDE DEF names
  <2> QED
    BY <2>2, <2>3, UntouchedIsSound DEF Outcomes
<1>2. CASE Get(step, "strategy").s # "clip"
  <2>1. ASSUME ~Collide(frame, DOMAIN flags)
        PROVE  Sound(frame, step, Outcome("applied", Write(frame, flags)))
    <3>1. \A name \in DOMAIN flags : IsContent(flags[name])
      BY MadeIsContent
    <3> HIDE DEF flags
    <3> QED
      BY <2>1, <3>1, WriteIsSound DEF Collide
  <2>2. \/ ApplyOutliers(frame, step) \in {Outcome("skipped", frame), Outcome("error", frame),
                                          Outcome("applied", DropRows(frame, step))}
        \/ /\ ~Collide(frame, DOMAIN flags)
           /\ ApplyOutliers(frame, step) = Outcome("applied", Write(frame, flags))
    BY <1>2 DEF ApplyOutliers
  <2> HIDE DEF names, flags
  <2> QED
    BY <2>1, <2>2, UntouchedIsSound DEF Outcomes
<1> QED
  BY <1>1, <1>2

\* The columns that become categories go, and these land on no other one.
LEMMA OneHotIsSound ==
    ASSUME NEW frame, IsFrame(frame), NEW step,
           step.operation = "encoding", Get(step, "strategy").s = "one_hot"
    PROVE  Sound(frame, step, ApplyOneHot(frame, step))
<1> DEFINE names == OneHotNames(frame, step)
           dummies == Dummies(frame, names)
           rest == [frame EXCEPT !.columns = [name \in Columns(frame) \ names |-> frame.columns[name]]]
           made == [new \in {DummyName(d) : d \in dummies} |->
                       Made("flag", step,
                            <<frame.columns[(CHOOSE d \in dummies : DummyName(d) = new)[1]]>>)]
<1>1. ApplyOneHot(frame, step) = IF OneHotCollides(frame, names) THEN Outcome("error", frame)
                                 ELSE Outcome("applied", Write(rest, made))
  BY DEF ApplyOneHot
<1>2. Asked(step) = NamedColumns(step) /\ names \subseteq NamedColumns(step)
  BY PresentIsNamed DEF Asked, RewritesNamed, OneHotNames
<1>3. /\ IsFrame(rest)
      /\ Columns(rest) = Columns(frame) \ names
      /\ \A name \in Columns(rest) : rest.columns[name] = frame.columns[name]
  BY DEF IsFrame, Columns
<1>4. \A name \in DOMAIN made : IsContent(made[name])
  BY MadeIsContent
<1>5. ~OneHotCollides(frame, names) => DOMAIN made \cap Columns(rest) = {}
  BY <1>3 DEF OneHotCollides
<1> HIDE DEF made, rest, names
<1>6. ~OneHotCollides(frame, names) => Sound(rest, step, Outcome("applied", Write(rest, made)))
  BY <1>3, <1>4, <1>5, WriteIsSound
<1>7. ~OneHotCollides(frame, names) => Sound(frame, step, Outcome("applied", Write(rest, made)))
  BY <1>2, <1>3, <1>6 DEF Sound, Kept, Outcome
<1> QED
  BY <1>1, <1>7, UntouchedIsSound DEF Outcomes

LEMMA SuffixEncodingIsSound ==
    ASSUME NEW frame, IsFrame(frame), NEW step
    PROVE  Sound(frame, step, ApplySuffixEncoding(frame, step))
<1> DEFINE suffix == Suffix[Get(step, "strategy").s]
           names == PresentColumns(frame, step)
           made == [new \in {name \o suffix : name \in names} |->
                      Made("number", step,
                           <<frame.columns[CHOOSE name \in names : name \o suffix = new]>>)]
<1>1. ApplySuffixEncoding(frame, step) = IF Collide(frame, DOMAIN made) THEN Outcome("error", frame)
                                         ELSE Outcome("applied", Write(frame, made))
  BY DEF ApplySuffixEncoding
<1>2. \A name \in DOMAIN made : IsContent(made[name])
  BY MadeIsContent
<1> HIDE DEF made
<1>3. ~Collide(frame, DOMAIN made) => Sound(frame, step, Outcome("applied", Write(frame, made)))
  BY <1>2, WriteIsSound DEF Collide
<1> QED
  BY <1>1, <1>3, UntouchedIsSound DEF Outcomes

LEMMA DerivedIsSound ==
    ASSUME NEW frame, IsFrame(frame), NEW step
    PROVE  Sound(frame, step, ApplyDerived(frame, step))
<1> DEFINE source == frame.columns[SourceColumn(step)]
           target == SourceColumn(step) \o "__" \o Get(step, "derived_kind").s
           new == [name \in {target} |-> Made("number", step, <<source>>)]
<1>1. DOMAIN new = {target} /\ \A name \in DOMAIN new : IsContent(new[name])
  BY MadeIsContent
<1>2. \/ ApplyDerived(frame, step) \in {Outcome("skipped", frame), Outcome("error", frame)}
      \/ ~Collide(frame, {target}) /\ ApplyDerived(frame, step) = Outcome("applied", Write(frame, new))
  BY DEF ApplyDerived
<1> HIDE DEF new
<1>3. ~Collide(frame, {target}) => Sound(frame, step, Outcome("applied", Write(frame, new)))
  BY <1>1, WriteIsSound DEF Collide
<1> QED
  BY <1>2, <1>3, UntouchedIsSound DEF Outcomes

\* A calculation writes under a name that is free, or under the one it was told to.
LEMMA CalculateIsSound ==
    ASSUME NEW frame, IsFrame(frame), NEW step, step.operation \in Calculated,
           NEW sources, NEW default, NEW possible \in BOOLEAN, NEW kind
    PROVE  Sound(frame, step, Calculate(frame, step, sources, default, possible, kind))
<1> DEFINE target == ResolveOutput(frame, step, default)
           from == [i \in DOMAIN sources |-> frame.columns[sources[i]]]
           new == [name \in {target} |-> Made(kind, step, from)]
<1>1. DOMAIN new = {target} /\ \A name \in DOMAIN new : IsContent(new[name])
  BY MadeIsContent
<1>2. \/ Calculate(frame, step, sources, default, possible, kind) = Outcome("skipped", frame)
      \/ /\ target # Absent
         /\ Calculate(frame, step, sources, default, possible, kind) = Outcome("applied", Write(frame, new))
  BY DEF Calculate
<1>3. target # Absent => {target} \cap Columns(frame) \subseteq Asked(step)
  <2>1. ~RewritesNamed(step)
    BY DEF RewritesNamed, InPlace, Calculated
  <2> QED
    BY <2>1 DEF ResolveOutput, Asked, WritesExisting
<1> HIDE DEF new, target
<1>4. target # Absent => Sound(frame, step, Outcome("applied", Write(frame, new)))
  BY <1>1, <1>3, WriteIsSound
<1> QED
  BY <1>2, <1>4, UntouchedIsSound DEF Outcomes

LEMMA DispatchIsSound ==
    ASSUME NEW frame, IsFrame(frame), NEW step
    PROVE  Sound(frame, step, Dispatch(frame, step))
<1> DEFINE op == step.operation
<1>1. CASE op = "type_cast"
  BY <1>1, TypeCastIsSound DEF Dispatch
<1>2. CASE op = "missing_value"
  BY <1>2, MissingIsSound DEF Dispatch
<1>3. CASE op = "drop_duplicates"
  BY <1>3, UntouchedIsSound DEF Dispatch, ApplyDropDuplicates, Outcomes
<1>4. CASE op = "iqr_outlier"
  BY <1>4, OutliersAreSound DEF Dispatch
<1>5. CASE op = "encoding"
  BY <1>5, OneHotIsSound, SuffixEncodingIsSound DEF Dispatch, ApplyEncoding
<1>6. CASE op = "scaling"
  BY <1>6, ScalingIsSound DEF Dispatch
<1>7. CASE op = "derived_column"
  BY <1>7, DerivedIsSound DEF Dispatch
<1>8. CASE op = "calc_arithmetic"
  <2> DEFINE sources == <<Get(step, "left_column").s, Get(step, "right_column").s>>
             default == Get(step, "left_column").s \o "__" \o Get(step, "operator").s \o "__" \o Get(step, "right_column").s
             possible == TRUE
             kind == "number"
  <2>1. Dispatch(frame, step) = Calculate(frame, step, sources, default, possible, kind)
    BY <1>8 DEF Dispatch, ApplyArithmetic
  <2>2. possible \in BOOLEAN
    OBVIOUS
  <2> HIDE DEF sources, default, possible, kind
  <2> QED
    BY <1>8, <2>1, <2>2, CalculateIsSound DEF Calculated
<1>9. CASE op = "calc_scalar"
  <2> DEFINE sources == <<SourceColumn(step)>>
             default == SourceColumn(step) \o "__" \o Get(step, "operator").s
             possible == ScalarIsPossible(step)
             kind == "number"
  <2>1. Dispatch(frame, step) = Calculate(frame, step, sources, default, possible, kind)
    BY <1>9 DEF Dispatch, ApplyScalar
  <2>2. possible \in BOOLEAN
    BY DEF ScalarIsPossible
  <2> HIDE DEF sources, default, possible, kind
  <2> QED
    BY <1>9, <2>1, <2>2, CalculateIsSound DEF Calculated
<1>10. CASE op = "calc_conditional"
  <2> DEFINE sources == <<SourceColumn(step)>>
             default == SourceColumn(step) \o "__flag"
             possible == ConditionIsPossible(step)
             kind == "text"
  <2>1. Dispatch(frame, step) = Calculate(frame, step, sources, default, possible, kind)
    BY <1>10 DEF Dispatch, ApplyConditional
  <2>2. possible \in BOOLEAN
    BY DEF ConditionIsPossible, CheckConditionalComparison
  <2> HIDE DEF sources, default, possible, kind
  <2> QED
    BY <1>10, <2>1, <2>2, CalculateIsSound DEF Calculated
<1>11. CASE op = "calc_binning"
  <2> DEFINE source == frame.columns[SourceColumn(step)]
             numbers == {t \in source.texts : CanRead("numeric", t)}
             sources == <<SourceColumn(step)>>
             default == SourceColumn(step) \o "__bin"
             possible == source.kind # "text" \/ Cardinality(numbers) >= 2
             kind == "text"
  <2>1. Dispatch(frame, step) = Calculate(frame, step, sources, default, possible, kind)
    BY <1>11 DEF Dispatch, ApplyBinning
  <2>2. possible \in BOOLEAN
    OBVIOUS
  <2> HIDE DEF sources, default, possible, kind
  <2> QED
    BY <1>11, <2>1, <2>2, CalculateIsSound DEF Calculated
<1>12. CASE op = "calc_string"
  <2> DEFINE operation == Get(step, "operation").s
             other == Get(step, "other_column").s
             sources == IF operation = "concat" /\ other \in Columns(frame)
                        THEN <<SourceColumn(step), other>> ELSE <<SourceColumn(step)>>
             default == SourceColumn(step) \o "__" \o operation
             possible == operation = "replace" => Get(step, "find").s # ""
             kind == IF operation = "length" THEN "number" ELSE "text"
  <2>1. Dispatch(frame, step) = Calculate(frame, step, sources, default, possible, kind)
    BY <1>12 DEF Dispatch, ApplyString
  <2>2. possible \in BOOLEAN
    OBVIOUS
  <2> HIDE DEF sources, default, possible, kind
  <2> QED
    BY <1>12, <2>1, <2>2, CalculateIsSound DEF Calculated
<1>13. CASE op \notin {"type_cast", "missing_value", "drop_duplicates", "iqr_outlier", "encoding",
                      "scaling", "derived_column"} \cup Calculated
  BY <1>13, UntouchedIsSound DEF Dispatch, Calculated, Outcomes
<1> QED
  BY <1>1, <1>2, <1>3, <1>4, <1>5, <1>6, <1>7, <1>8, <1>9, <1>10, <1>11, <1>12, <1>13
     DEF Calculated

LEMMA StepIsSound ==
    ASSUME NEW frame, IsFrame(frame), NEW step
    PROVE  Sound(frame, step, ApplyStep(frame, step))
<1>1. Sound(frame, Trace(step), ApplyStep(frame, step))
  BY DispatchIsSound, UntouchedIsSound DEF ApplyStep, Outcomes
<1>2. Asked(Trace(step)) = Asked(step)
  BY DEF Asked, RewritesNamed, WritesExisting, NamedColumns, ColumnNames, OutputMode, Get, Given, Trace
<1> QED
  BY <1>1, <1>2 DEF Sound

-----------------------------------------------------------------------------
(***************************************************************************)
(* What a recipe does to a frame                                           *)
(***************************************************************************)

\* The steps there are at first or can be built, and what a replay makes of them.
Written == StudioSteps \cup UNION {{recipe[i] : i \in DOMAIN recipe} : recipe \in FirstRecipes}

Step == Written \cup {WithStatus(step, status) : step \in Written, status \in Outcomes}

LEMMA StepShape == \A step \in Step : IsStep(step)
<1>1. ASSUME NEW step \in Written PROVE IsStep(step)
  <2>1. CASE step \in StudioSteps
    BY <2>1, StepsAssumption
  <2>2. CASE step \notin StudioSteps
    <3>1. PICK recipe \in FirstRecipes : \E i \in DOMAIN recipe : step = recipe[i]
      BY <2>2 DEF Written
    <3> QED
      BY <3>1, StepsAssumption
  <2> QED
    BY <2>1, <2>2
<1>2. ASSUME NEW step, IsStep(step), NEW status PROVE IsStep(WithStatus(step, status))
  BY <1>2 DEF IsStep, WithStatus
<1> QED
  BY <1>1, <1>2 DEF Step

LEMMA StatusOfStatus ==
    ASSUME NEW step, IsStep(step), NEW status, NEW other
    PROVE  WithStatus(WithStatus(step, status), other) = WithStatus(step, other)
BY DEF IsStep, WithStatus

LEMMA StatusOfStep ==
    ASSUME NEW step \in Step, NEW status \in Outcomes
    PROVE  WithStatus(step, status) \in Step
<1>1. CASE step \in Written
  BY <1>1 DEF Step
<1>2. CASE step \notin Written
  <2>1. PICK written \in Written, other \in Outcomes : step = WithStatus(written, other)
    BY <1>2 DEF Step
  <2>2. WithStatus(step, status) = WithStatus(written, status)
    BY <2>1, StepShape, StatusOfStatus DEF Step
  <2> QED
    BY <2>2 DEF Step
<1> QED
  BY <1>1, <1>2

\* The engine does not read the status of a step, and writes it anew.
LEMMA StatusIsNotRead ==
    ASSUME NEW done, NEW step \in Step, NEW status
    PROVE  ReplayStep(done, WithStatus(step, status)) = ReplayStep(done, step)
<1>1. IsStep(step)
  BY StepShape
<1>2. Trace(WithStatus(step, status)) = Trace(step)
  BY <1>1 DEF IsStep, Trace, WithStatus
<1> QED
  BY <1>1, <1>2, StatusOfStatus DEF ReplayStep, ApplyStep

AskedBy(steps, n) == UNION {Asked(steps[i]) : i \in 1 .. n}

\* After n steps of a replay: they are reported in order, and the frame has what
\* none of them was asked to rewrite.
LEMMA RunIsSound ==
    ASSUME NEW frame, IsFrame(frame), NEW steps \in Seq(Step),
           NEW run, IsRun(run, frame, steps, Len(steps)), NEW n \in 0 .. Len(steps)
    PROVE  /\ IsFrame(run[n].frame)
           /\ Kept(frame, run[n].frame, AskedBy(steps, n))
           /\ run[n].executed \in Seq(Step) /\ Len(run[n].executed) = n
           /\ \A i \in 1 .. n : \E status : run[n].executed[i] = WithStatus(steps[i], status)
<1> DEFINE P(m) == /\ IsFrame(run[m].frame)
                   /\ Kept(frame, run[m].frame, AskedBy(steps, m))
                   /\ run[m].executed \in Seq(Step) /\ Len(run[m].executed) = m
                   /\ \A i \in 1 .. m : \E status :
                         run[m].executed[i] = WithStatus(steps[i], status)
           T == {m \in Nat : m <= Len(steps) => P(m)}
<1>1. 0 \in T
  <2>1. run[0].frame = frame /\ run[0].executed = <<>>
    BY DEF IsRun, Started
  <2>2. Kept(frame, run[0].frame, AskedBy(steps, 0))
    BY <2>1 DEF Kept
  <2>3. run[0].executed \in Seq(Step) /\ Len(run[0].executed) = 0
    BY <2>1
  <2>4. IsFrame(run[0].frame)
    BY <2>1
  <2>5. P(0)
    BY <2>2, <2>3, <2>4
  <2> HIDE DEF P
  <2> QED
    BY <2>5
<1>2. ASSUME NEW m \in Nat, m \in T PROVE m + 1 \in T
  <2>1. SUFFICES ASSUME m + 1 <= Len(steps) PROVE P(m + 1)
    OBVIOUS
  <2> DEFINE step == steps[m + 1]
             outcome == ApplyStep(run[m].frame, step)
  <2>2. P(m) /\ step \in Step
    BY <1>2, <2>1
  <2>3. /\ run[m + 1].frame = outcome.frame
        /\ run[m + 1].executed = Append(run[m].executed, WithStatus(step, outcome.status))
    <3>1. run[m + 1] = ReplayStep(run[m], step)
      <4>1. m + 1 \in 1 .. Len(steps) /\ (m + 1) - 1 = m
        BY <2>1
      <4> QED
        BY <4>1 DEF IsRun
    <3> QED
      BY <3>1 DEF ReplayStep
  <2>4. Sound(run[m].frame, step, outcome)
    BY <2>2, StepIsSound
  <2>5. Kept(frame, run[m + 1].frame, AskedBy(steps, m + 1))
    <3>1. AskedBy(steps, m + 1) = AskedBy(steps, m) \cup Asked(step)
      BY DEF AskedBy
    <3> HIDE DEF outcome
    <3> QED
      BY <2>2, <2>3, <2>4, <3>1 DEF Sound, Kept
  <2>6. WithStatus(step, outcome.status) \in Step
    BY <2>2, <2>4, StatusOfStep DEF Sound
  <2>7. ASSUME NEW i \in 1 .. m + 1
        PROVE  \E status : run[m + 1].executed[i] = WithStatus(steps[i], status)
    <3>1. CASE i = m + 1
      BY <2>2, <2>3, <2>6, <3>1
    <3>2. CASE i # m + 1
      <4>1. i \in 1 .. m /\ run[m + 1].executed[i] = run[m].executed[i]
        BY <2>2, <2>3, <2>6, <3>2
      <4> QED
        BY <2>2, <4>1
    <3> QED
      BY <3>1, <3>2
  <2> QED
    BY <2>2, <2>3, <2>4, <2>5, <2>6, <2>7 DEF Sound
<1>3. n \in T
  <2> HIDE DEF T
  <2> QED
    BY <1>1, <1>2, Induction
<1> QED
  BY <1>3

\* A recipe as it was reported, replayed on the same frame, does the same again.
LEMMA ReplayIsRepeatable ==
    ASSUME NEW frame, IsFrame(frame), NEW steps \in Seq(Step)
    PROVE  LET replay == Replay(frame, steps)
           IN  /\ IsFrame(replay.frame)
               /\ Kept(frame, replay.frame, AskedBy(steps, Len(steps)))
               /\ replay.executed \in Seq(Step) /\ Len(replay.executed) = Len(steps)
               /\ Replay(frame, replay.executed) = replay
<1> DEFINE size == Len(steps)
           executed == Replay(frame, steps).executed
<1>1. PICK run : IsRun(run, frame, steps, size) /\ Replay(frame, steps) = run[size]
  BY ReplayIsRun
<1>2. \A n \in 0 .. size :
         /\ run[n].executed \in Seq(Step) /\ Len(run[n].executed) = n
         /\ \A i \in 1 .. n : \E status : run[n].executed[i] = WithStatus(steps[i], status)
  BY <1>1, RunIsSound
<1>3. /\ IsFrame(run[size].frame)
      /\ Kept(frame, run[size].frame, AskedBy(steps, size))
  BY <1>1, RunIsSound
<1>4. executed \in Seq(Step) /\ Len(executed) = size
  BY <1>1, <1>2
<1>5. PICK again : IsRun(again, frame, executed, size) /\ Replay(frame, executed) = again[size]
  BY <1>4, ReplayIsRun
<1> DEFINE T == {n \in Nat : n <= size => again[n] = run[n]}
<1>6. 0 \in T
  BY <1>1, <1>5 DEF IsRun
<1>7. ASSUME NEW n \in Nat, n \in T PROVE n + 1 \in T
  <2>1. SUFFICES ASSUME n + 1 <= size PROVE again[n + 1] = run[n + 1]
    OBVIOUS
  <2>2. n + 1 \in 1 .. size /\ (n + 1) - 1 = n /\ again[n] = run[n]
    BY <1>7, <2>1
  <2>3. PICK status : executed[n + 1] = WithStatus(steps[n + 1], status)
    BY <1>1, <1>2, <2>2
  <2>4. ReplayStep(run[n], executed[n + 1]) = ReplayStep(run[n], steps[n + 1])
    BY <2>2, <2>3, StatusIsNotRead
  <2> HIDE DEF executed
  <2> QED
    BY <1>1, <1>5, <2>2, <2>4 DEF IsRun
<1>8. size \in T
  <2> HIDE DEF T
  <2> QED
    BY <1>6, <1>7, Induction
<1> QED
  BY <1>1, <1>3, <1>4, <1>5, <1>8

-----------------------------------------------------------------------------
(***************************************************************************)
(* The studio                                                              *)
(***************************************************************************)

\* A version is a record; a child was made by replaying its recipe on its parent,
\* which is older.
IsVersion(v) ==
    LET version == versions[v]
    IN  /\ IsFrame(version.frame)
        /\ version.recipe \in Seq(Step)
        /\ version.parent # NoVersion =>
              /\ version.parent \in 1 .. v - 1
              /\ LET again == Replay(versions[version.parent].frame, version.recipe)
                 IN  Stored(again.frame) = version.frame /\ again.executed = version.recipe

\* What is loaded or built are steps, and every version is one that its recipe makes.
RecipeInv ==
    /\ versions \in Seq({versions[v] : v \in DOMAIN versions})
    /\ \A v \in DOMAIN versions : IsVersion(v)
    /\ current \in DOMAIN versions
    /\ loaded \in {NoVersion} \cup DOMAIN versions
    /\ built \in Seq(Step)
    /\ draft \in Seq(Step)

LEMMA StoredKeeps ==
    ASSUME NEW frame, IsFrame(frame)
    PROVE  /\ IsFrame(Stored(frame))
           /\ Columns(Stored(frame)) = Columns(frame)
           /\ \A name \in Columns(frame) :
                  /\ Stored(frame).columns[name].from = frame.columns[name].from
                  /\ Stored(frame).columns[name].by = frame.columns[name].by
<1>1. \E kind : /\ Stored(frame) = [columns |-> Stored(frame).columns, rows |-> Stored(frame).rows]
                /\ Stored(frame).columns
                     = [name \in Columns(frame) |-> [frame.columns[name] EXCEPT !.kind = kind[name]]]
  <2> DEFINE told(col) ==
                IF col.kind = "date" THEN "text"
                ELSE IF col.kind = "text" /\ \A t \in col.texts : CanRead("numeric", t) THEN "number"
                ELSE col.kind
             kind == [name \in Columns(frame) |-> told(frame.columns[name])]
  <2>1. Stored(frame) = [frame EXCEPT !.columns =
            [name \in Columns(frame) |-> [frame.columns[name] EXCEPT !.kind = told(frame.columns[name])]]]
    BY DEF Stored
  <2>2. \A name \in Columns(frame) : kind[name] = told(frame.columns[name])
    OBVIOUS
  <2> HIDE DEF told, kind
  <2>3. Stored(frame) = [frame EXCEPT !.columns =
            [name \in Columns(frame) |-> [frame.columns[name] EXCEPT !.kind = kind[name]]]]
    BY <2>1, <2>2
  <2> QED
    BY <2>3 DEF IsFrame
<1>2. \A name \in Columns(frame) : IsContent(frame.columns[name])
  BY DEF IsFrame, Columns
<1> QED
  BY <1>1, <1>2 DEF IsFrame, IsContent, ContentOf, Columns

\* A sequence with one more element.
LEMMA AppendToSequence ==
    ASSUME NEW S, NEW seq \in Seq(S), NEW e
    PROVE  /\ Append(seq, e) \in Seq(S \cup {e})
           /\ DOMAIN Append(seq, e) = 1 .. Len(seq) + 1
           /\ \A i \in DOMAIN seq : Append(seq, e)[i] = seq[i]
           /\ Append(seq, e)[Len(seq) + 1] = e
OBVIOUS

\* The values of a sequence are all that it is made of.
LEMMA OwnElements ==
    ASSUME NEW S, NEW seq \in Seq(S)
    PROVE  seq \in Seq({seq[i] : i \in DOMAIN seq})
OBVIOUS

\* A confirmed child is a version, and the others stay what they are.
LEMMA PublishKeeps ==
    ASSUME RecipeInv, NEW parent \in DOMAIN versions, NEW steps \in Seq(Step),
           Publish(parent, Replay(versions[parent].frame, steps))
    PROVE  RecipeInv'
<1> DEFINE frame == versions[parent].frame
           replay == Replay(frame, steps)
           child == VersionOf(parent, Stored(replay.frame), replay.executed)
<1>1. /\ versions' = Append(versions, child)
      /\ UNCHANGED <<current, built, loaded, draft>>
  BY DEF Publish
<1>2. PICK size \in Nat : size = Len(versions) /\ DOMAIN versions = 1 .. size
  BY DEF RecipeInv
<1>3. /\ DOMAIN versions' = 1 .. size + 1
      /\ \A v \in 1 .. size : versions'[v] = versions[v]
      /\ versions'[size + 1] = child
      /\ versions' \in Seq({versions'[v] : v \in DOMAIN versions'})
  <2>1. versions \in Seq({versions[v] : v \in DOMAIN versions})
    BY DEF RecipeInv
  <2> HIDE DEF child
  <2>2. /\ DOMAIN Append(versions, child) = 1 .. size + 1
        /\ \A v \in 1 .. size : Append(versions, child)[v] = versions[v]
        /\ Append(versions, child)[size + 1] = child
    BY <1>2, <2>1, AppendToSequence
  <2>3. \E S : versions' \in Seq(S)
    BY <1>1, <2>1, AppendToSequence
  <2>4. versions' \in Seq({versions'[v] : v \in DOMAIN versions'})
    BY <2>3, OwnElements
  <2> QED
    BY <1>1, <2>2, <2>4
<1>4. /\ IsFrame(replay.frame) /\ replay.executed \in Seq(Step)
      /\ Replay(frame, replay.executed) = replay
  BY ReplayIsRepeatable DEF RecipeInv, IsVersion
<1>5. ASSUME NEW v \in 1 .. size PROVE IsVersion(v)'
  <2>1. IsVersion(v)
    BY <1>2 DEF RecipeInv
  <2>2. versions[v].parent # NoVersion => versions[v].parent \in 1 .. size
    BY <1>2, <2>1 DEF IsVersion
  <2> QED
    BY <1>3, <2>1, <2>2 DEF IsVersion
<1>6. ASSUME NEW v, v = size + 1 PROVE IsVersion(v)'
  <2>1. child.parent = parent /\ child.frame = Stored(replay.frame) /\ child.recipe = replay.executed
    BY DEF VersionOf
  <2>2. versions'[parent] = versions[parent] /\ parent \in 1 .. v - 1
    BY <1>2, <1>3, <1>6
  <2>3. IsFrame(Stored(replay.frame))
    BY <1>4, StoredKeeps
  <2> HIDE DEF child, replay
  <2>4. versions'[v] = child
    BY <1>3, <1>6
  <2> QED
    BY <1>4, <2>1, <2>2, <2>3, <2>4 DEF IsVersion
<1>7. \A v \in DOMAIN versions' : IsVersion(v)'
  <2> TAKE v \in DOMAIN versions'
  <2>1. v \in 1 .. size \/ v = size + 1
    BY <1>2, <1>3
  <2> QED
    BY <1>5, <1>6, <2>1
<1>8. current' \in DOMAIN versions' /\ loaded' \in {NoVersion} \cup DOMAIN versions'
  BY <1>1, <1>2, <1>3 DEF RecipeInv
<1> HIDE DEF child
<1> QED
  BY <1>1, <1>3, <1>7, <1>8 DEF RecipeInv

\* What leaves the versions alone leaves them what they are.
LEMMA VersionsStay ==
    ASSUME RecipeInv, versions' = versions,
           current' \in DOMAIN versions, loaded' \in {NoVersion} \cup DOMAIN versions,
           built' \in Seq(Step), draft' \in Seq(Step)
    PROVE  RecipeInv'
BY DEF RecipeInv, IsVersion

LEMMA WithoutOne ==
    ASSUME NEW steps \in Seq(Step), NEW i \in DOMAIN steps
    PROVE  RemoveAt(steps, i) \in Seq(Step)
BY DEF RemoveAt

LEMMA RecipeInitially == RecipeInit => RecipeInv
<1> SUFFICES ASSUME RecipeInit PROVE RecipeInv
  OBVIOUS
<1>1. PICK recipe \in FirstRecipes :
        versions = [i \in DOMAIN FirstFrames |->
                      VersionOf(NoVersion, FirstFrames[i], IF i = 1 THEN recipe ELSE <<>>)]
  BY DEF RecipeInit
<1>2. recipe \in Seq(Step)
  <2>1. \A i \in DOMAIN recipe : recipe[i] \in Step
    BY DEF Step, Written
  <2>2. recipe \in Seq({recipe[i] : i \in DOMAIN recipe})
    BY StepsAssumption
  <2> QED
    BY <2>1, <2>2
<1>3. /\ DOMAIN versions = 1 .. Len(FirstFrames) /\ Len(FirstFrames) \in Nat \ {0}
      /\ \A v \in DOMAIN versions : /\ versions[v].parent = NoVersion
                                     /\ versions[v].frame = FirstFrames[v]
                                     /\ versions[v].recipe \in {recipe, <<>>}
  BY <1>1, FramesAssumption DEF VersionOf
<1>4. versions \in Seq({versions[v] : v \in DOMAIN versions})
  BY <1>1, <1>3
<1>5. \A v \in DOMAIN versions : IsVersion(v)
  <2>1. \A v \in DOMAIN versions : IsFrame(versions[v].frame)
    BY <1>1, <1>3, FramesAssumption
  <2>2. <<>> \in Seq(Step)
    OBVIOUS
  <2> QED
    BY <1>2, <1>3, <2>1, <2>2 DEF IsVersion
<1> QED
  BY <1>3, <1>4, <1>5 DEF RecipeInit, RecipeInv

LEMMA RecipeStep == RecipeInv /\ [RecipeNext]_recipeVars => RecipeInv'
<1> SUFFICES ASSUME RecipeInv, [RecipeNext]_recipeVars PROVE RecipeInv'
  OBVIOUS
<1>1. CASE UNCHANGED recipeVars
  BY <1>1, VersionsStay DEF recipeVars, RecipeInv
<1>2. ASSUME NEW v \in DOMAIN versions, ReopenVersion(v) PROVE RecipeInv'
  BY <1>2, VersionsStay DEF ReopenVersion, RecipeInv
<1>3. ASSUME NEW steps \in Seq(Step), Build(steps) PROVE RecipeInv'
  BY <1>3, VersionsStay DEF Build, RecipeInv
<1>4. ASSUME NEW step \in StudioSteps, AppendStep(step) PROVE RecipeInv'
  <2>1. step \in Step
    BY DEF Step, Written
  <2>2. Append(built, step) \in Seq(Step)
    BY <2>1 DEF RecipeInv
  <2> QED
    BY <1>3, <1>4, <2>2 DEF AppendStep
<1>5. ASSUME NEW i \in DOMAIN built, RemoveStep(i) PROVE RecipeInv'
  BY <1>3, <1>5, WithoutOne DEF RemoveStep, RecipeInv
<1>6. ASSUME NEW i \in DOMAIN built, MoveStep(i) PROVE RecipeInv'
  <2>1. [built EXCEPT ![i] = built[i - 1], ![i - 1] = built[i]] \in Seq(Step)
    BY <1>6 DEF MoveStep, RecipeInv
  <2> QED
    BY <1>3, <1>6, <2>1 DEF MoveStep
<1>7. CASE ClearSteps
  <2>1. <<>> \in Seq(Step)
    OBVIOUS
  <2> QED
    BY <1>3, <1>7, <2>1 DEF ClearSteps
<1>8. CASE ConfirmBuilt
  BY <1>8, PublishKeeps DEF ConfirmBuilt, RecipeInv
<1>9. CASE LoadRecipe
  <2>1. versions[current].recipe \in Seq(Step)
    BY DEF RecipeInv, IsVersion
  <2> QED
    BY <1>9, <2>1, VersionsStay DEF LoadRecipe, RecipeInv
<1>10. ASSUME NEW i \in DOMAIN draft, RemoveDraftStep(i) PROVE RecipeInv'
  BY <1>10, WithoutOne, VersionsStay DEF RemoveDraftStep, RecipeInv
<1>11. CASE ConfirmReprocessed
  BY <1>11, PublishKeeps DEF ConfirmReprocessed, ParentIsTrusted, RecipeInv
<1> QED
  BY <1>1, <1>2, <1>4, <1>5, <1>6, <1>7, <1>8, <1>9, <1>10, <1>11 DEF RecipeNext

LEMMA RecipesAlways == RecipeSpec => []RecipeInv
BY RecipeInitially, RecipeStep, PTL DEF RecipeSpec

\* The recipe of a confirmed version, replayed on its parent, makes the version once
\* more: for any frames, recipes, steps and numbers of versions, whatever is edited,
\* loaded and reopened in between.
THEOREM VersionsAreReproducible == RecipeSpec => []ReplayReproducesVersion
<1>1. RecipeInv => ReplayReproducesVersion
  BY DEF RecipeInv, IsVersion, ReplayReproducesVersion, ConfirmedChildren
<1> QED
  BY <1>1, RecipesAlways, PTL

\* A confirmed version holds every column of its parent that no step of its recipe was
\* asked to rewrite or to consume, as it was.
THEOREM UnaskedColumnsStay == RecipeSpec => []NothingReplacedUnasked
<1>1. ASSUME RecipeInv, NEW v \in ConfirmedChildren
      PROVE  LET before == Stored(versions[versions[v].parent].frame).columns
                 after == versions[v].frame.columns
                 asked == UNION {Asked(versions[v].recipe[i]) : i \in DOMAIN versions[v].recipe}
             IN  \A name \in DOMAIN before \ asked :
                     name \in DOMAIN after /\ after[name].from = before[name].from
                                           /\ after[name].by = before[name].by
  <2> DEFINE parent == versions[versions[v].parent].frame
             steps == versions[v].recipe
             again == Replay(parent, steps)
  <2>1. /\ IsFrame(parent) /\ steps \in Seq(Step)
        /\ Stored(again.frame) = versions[v].frame
    BY <1>1 DEF RecipeInv, IsVersion, ConfirmedChildren
  <2>2. IsFrame(again.frame) /\ Kept(parent, again.frame, AskedBy(steps, Len(steps)))
    BY <2>1, ReplayIsRepeatable
  <2>3. AskedBy(steps, Len(steps)) = UNION {Asked(steps[i]) : i \in DOMAIN steps}
    BY <2>1 DEF AskedBy
  <2> HIDE DEF parent, steps, again
  <2>4. Kept(Stored(parent), Stored(again.frame), UNION {Asked(steps[i]) : i \in DOMAIN steps})
    BY <2>1, <2>2, <2>3, StoredKeeps DEF Kept
  <2> QED
    BY <2>1, <2>4 DEF Kept, Columns, parent, steps
<1>2. RecipeInv => NothingReplacedUnasked
  BY <1>1 DEF NothingReplacedUnasked
<1> QED
  BY <1>2, RecipesAlways, PTL

-----------------------------------------------------------------------------
(***************************************************************************)
(* Admission                                                               *)
(***************************************************************************)

\* What a check of its operation leaves no room for.
LEMMA NumbersAreNotClamped ==
    ASSUME NEW step, NEW outputs, AdmitStep(step, outputs)
    PROVE  ~Clamps(step)
BY DEF AdmitStep, AdmitOperation, CheckOperation, CheckCalcBinning, RequireInt, Clamps

LEMMA OutputIsNormal ==
    ASSUME NEW step, NEW outputs, AdmitStep(step, outputs), step.operation \in Calculated
    PROVE  /\ OutputMode(step) = Lower(Strip(OutputMode(step)))
           /\ Get(step, "output_column").s = Strip(Get(step, "output_column").s)
<1>1. AdmitOutput(step, outputs)
  BY DEF AdmitStep, AdmitOperation
<1>2. "output_mode" \in Given(step) =>
        Get(step, "output_mode").s = Lower(Strip(Get(step, "output_mode").s))
  BY <1>1 DEF AdmitOutput, RequireNormalizedEnum
<1>3. Lower(Strip("new")) = "new"
  BY TextAssumption
<1> QED
  BY <1>1, <1>2, <1>3 DEF AdmitOutput, AdmitOutputName, OutputMode

LEMMA ScalarIsNormal ==
    ASSUME NEW step, NEW outputs, AdmitStep(step, outputs), step.operation = "calc_scalar"
    PROVE  /\ Get(step, "scalar").type # "str"
           /\ ~ (Get(step, "operator").s = "round" /\ Get(step, "scalar").type = "fraction")
           /\ Get(step, "constant_role").s = Lower(Strip(Get(step, "constant_role").s))
<1>1. CheckCalcScalar(step)
  BY DEF AdmitStep, AdmitOperation, CheckOperation
<1>2. "constant_role" \in Given(step) =>
        Get(step, "constant_role").s = Lower(Strip(Get(step, "constant_role").s))
  BY <1>1 DEF CheckCalcScalar, CheckScalarOperator, RequireNormalizedEnum
<1>3. "constant_role" \notin Given(step) => Get(step, "constant_role").s = ""
  BY DEF Get, Given, NoValue, ParameterValue
<1>4. Lower(Strip("")) = ""
  BY TextAssumption
<1>5. Get(step, "constant_role").s = Lower(Strip(Get(step, "constant_role").s))
  BY <1>2, <1>3, <1>4
<1> QED
  BY <1>1, <1>5 DEF CheckCalcScalar, CheckScalarOperator, RequireNumber, NumberTypes

LEMMA NothingIsNormalised ==
    ASSUME NEW step, NEW outputs, AdmitStep(step, outputs)
    PROVE  ~Normalises(step)
<1>1. step.operation = "calc_binning" => Get(step, "num_bins").type = "int"
  BY DEF AdmitStep, AdmitOperation, CheckOperation, CheckCalcBinning, RequireInt
<1> QED
  BY <1>1, OutputIsNormal, ScalarIsNormal DEF Normalises

\* Only parameters that the engine reads are given.
LEMMA ParametersAreRead ==
    ASSUME NEW step, NEW outputs, AdmitStep(step, outputs)
    PROVE  Given(step) \subseteq ParametersRead(step)
<1> DEFINE strategy == Get(step, "strategy").s
           operation == Get(step, "operation").s
<1>1. Given(step) \subseteq Allowed(step.operation)
  BY DEF AdmitStep, AdmitOperation
<1>2. CheckOperation(step)
  BY DEF AdmitStep, AdmitOperation
<1>3. step.operation = "missing_value" /\ strategy # "constant" => "fill_value" \notin Given(step)
  BY <1>2 DEF CheckOperation, CheckMissingValue
<1>4. step.operation = "encoding" /\ strategy # "one_hot" => "max_cardinality" \notin Given(step)
  BY <1>2 DEF CheckOperation, CheckEncoding
<1>5. step.operation = "calc_scalar" /\ Get(step, "operator").s # "power"
        => "constant_role" \notin Given(step)
  BY <1>2 DEF CheckOperation, CheckCalcScalar, CheckScalarOperator
<1>6. step.operation = "calc_string" =>
        /\ operation # "replace" => "find" \notin Given(step) /\ "replace" \notin Given(step)
        /\ operation # "concat" => "other_column" \notin Given(step) /\ "literal" \notin Given(step)
  BY <1>2 DEF CheckOperation, CheckCalcString, CheckStringFields
<1> HIDE DEF strategy, operation
<1> QED
  BY <1>1, <1>3, <1>4, <1>5, <1>6 DEF ParametersRead, strategy, operation

LEMMA SubsetIsOfDuplicates ==
    ASSUME NEW step, NEW outputs, AdmitStep(step, outputs), step.operation # "drop_duplicates"
    PROVE  "subset" \notin Given(step)
<1>1. Given(step) \subseteq Allowed(step.operation)
  BY DEF AdmitStep, AdmitOperation
<1>2. "subset" \notin Allowed(step.operation)
  BY DEF Allowed, OutputKeys
<1> QED
  BY <1>1, <1>2

LEMMA NothingIsIgnored ==
    ASSUME NEW step, IsStep(step), NEW outputs, AdmitStep(step, outputs)
    PROVE  ~Ignores(step)
<1>1. AdmitColumnsPolicy(step) /\ CheckOperation(step)
  BY DEF AdmitStep, AdmitOperation
<1>2. Given(step) \ ParametersRead(step) = {}
  BY ParametersAreRead
<1>3. step.operation \in Calculated => step.columns = <<>>
  BY <1>1 DEF AdmitColumnsPolicy, Calculated, ColumnPolicy
<1>4. ~ (Get(step, "subset").type # "none" /\ step.columns # <<>>)
  <2>1. CASE step.operation = "drop_duplicates"
    BY <1>1, <2>1 DEF AdmitColumnsPolicy, AdmitSubsetColumns, Calculated, ColumnPolicy
  <2>2. CASE step.operation # "drop_duplicates"
    BY <2>2, SubsetIsOfDuplicates DEF Get, Given, NoValue, ParameterValue
  <2> QED
    BY <2>1, <2>2
<1>5. step.operation = "derived_column" => \A i \in DOMAIN step.columns :
        step.columns[i] = Get(step, "source_column")
  <2>1. step.columns \in Seq({step.columns[i] : i \in DOMAIN step.columns})
    BY DEF IsStep
  <2>2. step.operation = "derived_column" => AdmitDerivedColumns(step)
    BY <1>1 DEF AdmitColumnsPolicy, Calculated, ColumnPolicy
  <2> QED
    BY <2>1, <2>2 DEF AdmitDerivedColumns
<1>6. Get(step, "other_column").s # "(none)"
  <2>1. CASE "other_column" \notin Given(step)
    BY <2>1 DEF Get, Given, NoValue, ParameterValue
  <2>2. CASE "other_column" \in Given(step)
    <3>1. step.operation = "calc_string"
      <4>1. "other_column" \in Allowed(step.operation)
        BY <2>2 DEF AdmitStep, AdmitOperation
      <4> QED
        BY <4>1 DEF Allowed, OutputKeys
    <3>2. CheckStringFields(step)
      BY <1>1, <3>1 DEF CheckOperation, CheckCalcString
    <3> QED
      BY <2>2, <3>2 DEF CheckStringFields, CheckStringConcat
  <2> QED
    BY <2>1, <2>2
<1> QED
  BY <1>2, <1>3, <1>4, <1>5, <1>6 DEF Ignores

\* Every value of a recipe that is admitted is one the engine uses as it is written: for
\* any recipe that is loaded or edited, whatever limits admission and engine share.
THEOREM AdmittedMeansWhatItSays == RecipeSpec => []AdmittedIsUsedAsWritten
<1>1. ASSUME RecipeInv, Admitted(draft), NEW i \in DOMAIN draft
      PROVE  ~ (Clamps(draft[i]) \/ Normalises(draft[i]) \/ Ignores(draft[i]))
  <2>1. \E outputs : AdmitStep(draft[i], outputs)
    BY <1>1 DEF Admitted
  <2>2. IsStep(draft[i])
    BY <1>1, StepShape DEF RecipeInv
  <2> QED
    BY <2>1, <2>2, NumbersAreNotClamped, NothingIsNormalised, NothingIsIgnored
<1>2. RecipeInv => AdmittedIsUsedAsWritten
  BY <1>1 DEF AdmittedIsUsedAsWritten
<1> QED
  BY <1>2, RecipesAlways, PTL
=============================================================================
