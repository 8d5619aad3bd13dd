---------------------------- MODULE RecipeReplay ----------------------------
(***************************************************************************)
(* The Preprocess Studio over a managed version: a recipe is built and     *)
(* confirmed with the version it makes; the confirmed recipe of a version  *)
(* is loaded, edited and replayed to confirm a child.                      *)
(***************************************************************************)
EXTENDS RecipeEngine

CONSTANTS
    FirstFrames,    \* the frames of the versions there are at first
    FirstRecipes,   \* the recipes one of them may hold
    StudioSteps,    \* the steps a user may build
    MaxVersions,
    MaxBuilt        \* steps in the studio at once

\* A step of a recipe, read from JSON or built, has its keys and a list of columns.
IsStep(step) ==
    /\ step = [operation |-> step.operation, columns |-> step.columns,
               parameters |-> step.parameters, form |-> step.form, status |-> step.status]
    /\ step.columns \in Seq({step.columns[i] : i \in DOMAIN step.columns})

IsContent(col) == col = ContentOf(col.kind, col.texts, col.by, col.from)

\* A frame has named columns, each with what the engine keeps of it.
IsFrame(frame) ==
    /\ frame = [columns |-> frame.columns, rows |-> frame.rows]
    /\ frame.columns = [name \in DOMAIN frame.columns |-> frame.columns[name]]
    /\ \A name \in DOMAIN frame.columns : IsContent(frame.columns[name])

ASSUME FramesAssumption ==
    /\ FirstFrames \in Seq({FirstFrames[i] : i \in DOMAIN FirstFrames}) \ {<<>>}
    /\ \A i \in DOMAIN FirstFrames : IsFrame(FirstFrames[i])

ASSUME StepsAssumption ==
    /\ \A step \in StudioSteps : IsStep(step)
    /\ \A recipe \in FirstRecipes :
           /\ recipe \in Seq({recipe[i] : i \in DOMAIN recipe})
           /\ \A i \in DOMAIN recipe : IsStep(recipe[i])

\* str.strip and str.lower leave these as they are.
ASSUME TextAssumption == \A text \in {"", "new"} : Strip(text) = text /\ Lower(text) = text

VARIABLES
    versions,   \* what is registered: parent, frame as read from the CSV, recipe
    current,       \* the version that is trusted and open
    built,      \* PREP_RECIPE_STEPS
    loaded,     \* prep_reload_loaded: the version whose recipe was loaded
    draft       \* prep_reload_draft

recipeVars == <<versions, current, built, loaded, draft>>

NoVersion == 0

VersionOf(parent, frame, recipe) == [parent |-> parent, frame |-> frame, recipe |-> recipe]

RecipeInit ==
    /\ \E recipe \in FirstRecipes :
         versions = [i \in DOMAIN FirstFrames |->
                        VersionOf(NoVersion, FirstFrames[i], IF i = 1 THEN recipe ELSE <<>>)]
    /\ current = 1
    /\ built = <<>>
    /\ loaded = NoVersion
    /\ draft = <<>>

\* A reopened version is another dataset: the studio's steps go, the draft stays.
ReopenVersion(v) ==
    /\ current' = v
    /\ built' = IF v = current THEN built ELSE <<>>
    /\ UNCHANGED <<versions, loaded, draft>>

-----------------------------------------------------------------------------
(***************************************************************************)
(* Building a recipe                                                       *)
(***************************************************************************)

Build(steps) == built' = steps /\ UNCHANGED <<versions, current, loaded, draft>>

\* _append_step
AppendStep(step) == Len(built) < MaxBuilt /\ Build(Append(built, step))

\* _remove_step
RemoveStep(i) == i \in DOMAIN built /\ Build(RemoveAt(built, i))

\* _move_step, by one up: down is another step's way up.
MoveStep(i) ==
    /\ i \in DOMAIN built /\ i - 1 \in DOMAIN built
    /\ Build([built EXCEPT ![i] = built[i - 1], ![i - 1] = built[i]])

\* "Clear recipe"
ClearSteps == built # <<>> /\ Build(<<>>)

Publish(parent, replay) ==
    /\ Len(versions) < MaxVersions
    /\ versions' = Append(versions, VersionOf(parent, Stored(replay.frame), replay.executed))
    /\ UNCHANGED <<current, built, loaded, draft>>

\* "Confirm processed version": only what is complete; nothing is admitted here.
ConfirmBuilt ==
    LET replay == Replay(versions[current].frame, built)
    IN  IsComplete(replay.executed) /\ Publish(current, replay)

-----------------------------------------------------------------------------
(***************************************************************************)
(* Reprocessing a confirmed recipe                                         *)
(***************************************************************************)

\* "Load confirmed recipe": what cannot be loaded leaves no draft behind.
LoadRecipe ==
    /\ IF versions[current].recipe = <<>>
       THEN loaded' = NoVersion /\ draft' = <<>>
       ELSE loaded' = current /\ draft' = versions[current].recipe
    /\ UNCHANGED <<versions, current, built>>

\* "Remove draft step"
RemoveDraftStep(i) ==
    /\ i \in DOMAIN draft
    /\ draft' = RemoveAt(draft, i)
    /\ UNCHANGED <<versions, current, built, loaded>>

\* Seeded fault, not used below: any parent will do.
AnyParent == TRUE

\* _parent_trust_error
ParentIsTrusted == loaded = current

\* "Confirm reprocessed child": the draft is replayed on the frame of the page,
\* the parent is the version it was loaded from.
ConfirmReprocessed ==
    LET replay == Replay(versions[current].frame, draft)
    IN  /\ loaded # NoVersion
        /\ Admitted(draft)
        /\ IsComplete(replay.executed)
        /\ Admitted(replay.executed)
        /\ ParentIsTrusted
        /\ Publish(loaded, replay)

RecipeNext ==
    \/ \E v \in DOMAIN versions : ReopenVersion(v)
    \/ \E step \in StudioSteps : AppendStep(step)
    \/ \E i \in DOMAIN built : RemoveStep(i) \/ MoveStep(i)
    \/ ClearSteps
    \/ ConfirmBuilt
    \/ LoadRecipe
    \/ \E i \in DOMAIN draft : RemoveDraftStep(i)
    \/ ConfirmReprocessed

RecipeSpec == RecipeInit /\ [][RecipeNext]_recipeVars

-----------------------------------------------------------------------------
(***************************************************************************)
(* Properties                                                              *)
(***************************************************************************)

ConfirmedChildren == {v \in DOMAIN versions : versions[v].parent # NoVersion}

\* The recipe of a version, replayed on its parent, makes the version once more,
\* however the draft and the open version changed between loading a recipe and
\* confirming (_confirm_reload_child, _parent_context, _run_confirmation).
ReplayReproducesVersion ==
    \A v \in ConfirmedChildren :
        LET again == Replay(versions[versions[v].parent].frame, versions[v].recipe)
        IN  Stored(again.frame) = versions[v].frame /\ again.executed = versions[v].recipe

InPlace == {"type_cast", "missing_value", "scaling"}

NamedColumns(step) == {ColumnNames(step)[i] : i \in DOMAIN step.columns}

RewritesNamed(step) ==
    \/ step.operation \in InPlace
    \/ step.operation = "iqr_outlier" /\ Get(step, "strategy").s = "clip"
    \/ step.operation = "encoding" /\ Get(step, "strategy").s = "one_hot"

WritesExisting(step) == step.operation \in Calculated /\ Lower(Strip(OutputMode(step))) = "existing"

\* What a step was asked to rewrite or to consume.
Asked(step) ==
    IF RewritesNamed(step) THEN NamedColumns(step)
    ELSE IF WritesExisting(step) THEN {Strip(Get(step, "output_column").s)} ELSE {}

\* A confirmed version holds every column of its parent as it was, but for
\* those a step of its recipe names as a column to rewrite: no generated column
\* lands on another one (output_collisions and its callers).
NothingReplacedUnasked ==
    \A v \in ConfirmedChildren :
        LET before == Stored(versions[versions[v].parent].frame).columns
            after == versions[v].frame.columns
            asked == UNION {Asked(versions[v].recipe[i]) : i \in DOMAIN versions[v].recipe}
        IN  \A name \in DOMAIN before \ asked :
                name \in DOMAIN after /\ after[name].from = before[name].from
                                      /\ after[name].by = before[name].by

\* The engine would take another number than the one that is written.
Clamps(step) ==
    step.operation = "calc_binning" /\ Get(step, "num_bins").n \notin MinBins .. MaxBins

\* The engine would take the value in another form.
Normalises(step) ==
    \/ /\ step.operation \in Calculated
       /\ \/ OutputMode(step) # Lower(Strip(OutputMode(step)))
          \/ Get(step, "output_column").s # Strip(Get(step, "output_column").s)
    \/ /\ step.operation = "calc_scalar"
       /\ \/ Get(step, "scalar").type = "str"
          \/ Get(step, "operator").s = "round" /\ Get(step, "scalar").type = "fraction"
          \/ LET role == Get(step, "constant_role").s IN role # Lower(Strip(role))
    \/ step.operation = "calc_binning" /\ Get(step, "num_bins").type # "int"

\* The parameters the engine reads, for the operation and what else is given.
ParametersRead(step) ==
    LET strategy == Get(step, "strategy").s
        operation == Get(step, "operation").s
        all == Allowed(step.operation)
    IN  CASE step.operation = "missing_value" /\ strategy # "constant" -> all \ {"fill_value"}
          [] step.operation = "encoding" /\ strategy # "one_hot" -> all \ {"max_cardinality"}
          [] step.operation = "calc_scalar" /\ Get(step, "operator").s # "power" ->
                 all \ {"constant_role"}
          [] step.operation = "calc_string" /\ operation # "replace" /\ operation # "concat" ->
                 all \ {"find", "replace", "other_column", "literal"}
          [] step.operation = "calc_string" /\ operation = "replace" -> all \ {"other_column", "literal"}
          [] step.operation = "calc_string" /\ operation = "concat" -> all \ {"find", "replace"}
          [] OTHER -> all

\* The engine would not look at a parameter or at the columns.
Ignores(step) ==
    \/ Given(step) \ ParametersRead(step) # {}
    \/ step.operation \in Calculated /\ step.columns # <<>>
    \/ Get(step, "subset").type # "none" /\ step.columns # <<>>
    \/ step.operation = "derived_column" /\ \E i \in DOMAIN step.columns :
           step.columns[i] # Get(step, "source_column")
    \/ Get(step, "other_column").s = "(none)"

\* Every value of an admitted recipe is one the engine uses as it is written,
\* so that the recipe of a reprocessed version says what was done
\* (revalidate_durable_recipe against _dispatch_step and CALC_DISPATCH).
AdmittedIsUsedAsWritten ==
    Admitted(draft) =>
        \A i \in DOMAIN draft : ~ (Clamps(draft[i]) \/ Normalises(draft[i]) \/ Ignores(draft[i]))

\* A step alone that finds all its columns and no column in its way.
HasItsWay(frame, step) == HasItsColumns(frame, step) /\ ~Collide(frame, Reserved(step))

\* "every value the engine would clamp, normalize, ignore, or skip is refused"
\* (revalidate_durable_recipe): an admitted step whose scalar the engine skips.
AdmittedIsNotSkipped ==
    (Len(draft) = 1 /\ Admitted(draft)) =>
        LET step == draft[1]
            frame == versions[current].frame
        IN  step.operation = "calc_scalar" /\ HasItsWay(frame, step) =>
                ApplyStep(frame, step).status # "skipped"
=============================================================================
