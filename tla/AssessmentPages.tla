---------------------------- MODULE AssessmentPages ----------------------------
(***************************************************************************)
(* The ways one CSV file is assessed: the Data Overview and the Quality    *)
(* Score page profile its frame, assess_csv (CLI, API, export) assesses    *)
(* the frame, too, and profile_csv and assess_csv with a chunk size stream *)
(* the file, as the Data Overview does in large-file mode.                 *)
(* A file is given with the SAMPLE_SIZE of the environment (0 when unset), *)
(* a chunk size, the rules of dqt.yaml, those after an edit of it, and     *)
(* where the pages take it from: the trusted root, a managed mirror        *)
(* without one, the dataset context, or a path.  The seeded samples of a   *)
(* frame are any of their size.  How a page is laid out is left out.       *)
(***************************************************************************)
EXTENDS Assessment, SmartOverview

CONSTANTS
    Inputs,          \* [file, sampleSize, chunk, rules, later, source, large]
    MaxExplanations  \* _MAX_ISSUE_EXPLANATIONS

CsvCell == [k : {"na", "int", "float", "bool", "text", "date"}, v : Int]

CsvFile(file) ==
    /\ file.names \in Seq(STRING) \ {<<>>} /\ IsInjective(file.names)
    /\ DOMAIN file.cells = DOMAIN file.names
    /\ \A c \in ColumnsOf(file) : file.cells[c] \in Seq(CsvCell) /\ Len(file.cells[c]) = RowsOf(file)

RuleSet(columns) ==
    /\ IsFiniteSet(DOMAIN columns)
    /\ \A name \in DOMAIN columns :
           columns[name].weight \in Int /\ {columns[name].critical, columns[name].required} \subseteq BOOLEAN

\* Every column of a file has a name of its own, as pandas gives it one, and a cell in
\* every row; a rule whose weight or threshold is out of range is refused later.
ASSUME InputsAssumption ==
    /\ MaxExplanations \in Nat
    /\ \A input \in Inputs :
          /\ CsvFile(input.file) /\ RuleSet(input.rules) /\ RuleSet(input.later)
          /\ input.sampleSize \in Nat /\ input.chunk \in Nat \ {0}

VARIABLES
    given,
    kept,     \* the rows the loader keeps
    extras,   \* the rows of the frame that minima and maxima are read from
    rules,    \* what dqt.yaml says
    cached,   \* what the pages keep of the file: nothing or one result
    read,     \* how many rows are streamed
    agg,      \* the aggregates of the chunks
    streamed, \* whether the last chunk was read
    answer    \* what was answered last, and how it was asked

inputVars == <<given, kept, extras>>
streamVars == <<read, agg, streamed>>
assessmentVars == <<inputVars, rules, cached, streamVars, answer>>

csv == given.file

FromRoot == given.source = "root"

Unasked == [way |-> "none", status |-> "none"]

\* The managed loader reads the file as it is, the other one may sample it.
AssessmentInit ==
    /\ given \in Inputs
    /\ kept \in IF FromRoot THEN {1 .. RowsOf(csv)} ELSE Loads(csv, given.sampleSize)
    /\ extras \in Samples(Frame(csv, kept), given.sampleSize)
    /\ rules = given.rules
    /\ cached = {}
    /\ read = 0 /\ agg = NoAggregates(csv) /\ streamed = FALSE
    /\ answer = Unasked

LoadedFrame == Frame(csv, kept)

LoadedProfile == RunProfiling(LoadedFrame, extras)

ConfigRefused == ~ConfigValid(rules)

LoadRefused == ~FromRoot /\ TooLarge(kept)

RefusedTo(way) == [way |-> way, status |-> "error"]

\* A page that shows a result.
Shows(way, page, result) ==
    [way |-> way, status |-> "ok", page |-> page,
     rules |-> result.rules, profile |-> result.profile, assessment |-> result.assessment]

-----------------------------------------------------------------------------
(***************************************************************************)
(* What the pages show                                                     *)
(***************************************************************************)

OverviewMetrics(assessment) ==
    [quality |-> assessment.quality, completeness |-> assessment.score,
     flagged |-> Cardinality(assessment.issues)]

\* Missing cells are listed before constants; within one type the order is left open.
IssueExplanations(issues) ==
    FirstOf(MaxExplanations, SetToSeq({i \in issues : i.type = "missing"})
                             \o SetToSeq({i \in issues : i.type = "constant_column"}))

\* The headline is given the completeness and calls it the quality score.
HeadlineStoryLens(assessment) ==
    [score |-> assessment.score, severity |-> IF assessment.score >= 9000 THEN "ok" ELSE "warn",
     flagged |-> Cardinality(assessment.issues)]

\* The rows of the preview with the columns it has room for.
SmartRecordFrame(frame, selection) ==
    [i \in DOMAIN selection.records |->
        [row |-> selection.records[i].position, pickedBy |-> selection.records[i].strategy,
         cells |-> {<<frame.names[c], frame.cells[c][selection.records[i].position]>> :
                       c \in {d \in ColumnsOf(frame) : frame.names[d] \in ToSet(selection.columns)}}]]

SmartRecords(overview, frames) ==
    IF ~overview.selection.available THEN <<>>
    ELSE SmartRecordFrame(CHOOSE frame \in frames : TRUE, overview.selection)

SmartPreview(overview, frames) ==
    [overview |-> overview, records |-> SmartRecords(overview, frames),
     signals |-> DisplayedSignals(overview), cut |-> GroupsTruncated(overview)]

OverviewTable(profile) ==
    {[column |-> c.name, dtype |-> c.dtype, nulls |-> c.nulls, unique |-> c.unique] : c \in ColumnSet(profile)}

NumericSummary(frame) ==
    {frame.names[c] : c \in {d \in ColumnsOf(frame) : ReadDtype(frame.cells[d]) \in {"int64", "float64"}}}

\* Unlike the rule of the assessment it flags numbers, too.
HighCardinalityFlags(profile) ==
    {c.name : c \in {d \in ColumnSet(profile) : \E u \in d.unique : 100 * u > 90 * profile.rows /\ profile.rows > 0}}

FullOverviewBody(result, identity) ==
    LET frames == {LoadedFrame}
    IN  [metrics |-> OverviewMetrics(result.assessment),
         headline |-> HeadlineStoryLens(result.assessment),
         explained |-> IssueExplanations(result.assessment.issues),
         preview |-> SmartPreview(BuildSmartOverview(identity, result.profile, frames, FALSE), frames),
         table |-> OverviewTable(result.profile),
         duplicates |-> DuplicateRows(LoadedFrame), numeric |-> NumericSummary(LoadedFrame),
         flags |-> HighCardinalityFlags(result.profile)]

LargeProfileOverview(profile, identity) ==
    [preview |-> SmartPreview(BuildSmartOverview(identity, profile, {}, TRUE), {}),
     table |-> OverviewTable(profile)]

ScoreCards(assessment) == OverviewMetrics(assessment) @@ [meets |-> MeetsThreshold(assessment)]

ScoreBody(assessment) ==
    [cards |-> ScoreCards(assessment), breakdown |-> PenaltyBreakdown(assessment),
     table |-> ContributionRows(assessment.issues)]

-----------------------------------------------------------------------------
(***************************************************************************)
(* The pages                                                               *)
(***************************************************************************)

\* _compute_load_and_assess and the assessor of the managed pages, which know the
\* profile only; the rules are a history of what was answered with which.
ComputeLoadAndAssess ==
    [rules |-> rules, profile |-> LoadedProfile, assessment |-> Assess(LoadedProfile, rules, {})]

\* _load_df_and_assess, get_managed_assessment: what was computed once is returned
\* as long as the file is the same; failures are not kept.
Loaded == IF cached = {} THEN {ComputeLoadAndAssess} ELSE cached

LoadFails == cached = {} /\ (LoadRefused \/ ConfigRefused)

StreamedProfile == FinalizeProfile(csv, agg)

PreviewOf(source, large) ==
    CASE source = "root" -> ManagedPreviewIdentity(large)
      [] source = "context" -> ContextPreviewIdentity({[large |-> large]})
      [] OTHER -> ContextPreviewIdentity({})

\* Where the page has a file, and may read it in the mode that is chosen.
Dispatched == given.source \in {"root", "context", "path"}

\* A managed mirror without a root fails closed; without a file the page asks for one.
Unserved(way) ==
    /\ ~Dispatched
    /\ answer' = IF given.source = "mirror" THEN RefusedTo(way)
                 ELSE [way |-> way, status |-> "asks"]
    /\ UNCHANGED <<inputVars, rules, cached, streamVars>>

\* The Data Overview in large-file mode: a profile, no assessment.
ShowLargeOverview ==
    /\ Dispatched /\ given.large
    /\ streamed
    /\ answer' = [way |-> "large", status |-> "ok", profile |-> StreamedProfile,
                  page |-> LargeProfileOverview(StreamedProfile, PreviewOf(given.source, TRUE))]
    /\ UNCHANGED <<inputVars, rules, cached, streamVars>>

ShowFullOverview ==
    /\ Dispatched /\ ~given.large
    /\ \/ LoadFails /\ answer' = RefusedTo("overview") /\ UNCHANGED cached
       \/ /\ ~LoadFails
          /\ cached' = Loaded
          /\ \E r \in Loaded :
                answer' = Shows("overview", FullOverviewBody(r, PreviewOf(given.source, FALSE)), r)
    /\ UNCHANGED <<inputVars, rules, streamVars>>

RenderDataOverview == Unserved("overview") \/ ShowLargeOverview \/ ShowFullOverview

\* The Quality Score page; it has no large-file mode for a path.
RenderQualityScore ==
    \/ Unserved("quality")
    \/ /\ Dispatched /\ given.large /\ given.source /= "path"
       /\ answer' = [way |-> "quality", status |-> "needs full analysis"]
       /\ UNCHANGED <<inputVars, rules, cached, streamVars>>
    \/ /\ Dispatched /\ (given.large => given.source = "path")
       /\ \/ LoadFails /\ answer' = RefusedTo("quality") /\ UNCHANGED cached
          \/ /\ ~LoadFails
             /\ cached' = Loaded
             /\ \E r \in Loaded :
                   answer' = Shows("quality", ScoreBody(r.assessment), r)
       /\ UNCHANGED <<inputVars, rules, streamVars>>

-----------------------------------------------------------------------------
(***************************************************************************)
(* The other ways, and the file dqt.yaml                                   *)
(***************************************************************************)

\* run_assessment.
AssessCsv ==
    /\ ~FromRoot
    /\ answer' = IF LoadRefused \/ ConfigRefused THEN RefusedTo("assess")
                 ELSE [way |-> "assess", status |-> "ok", profile |-> LoadedProfile,
                       assessment |-> Assess(LoadedProfile, rules, {LoadedFrame})]
    /\ UNCHANGED <<inputVars, rules, cached, streamVars>>

\* The next chunk goes through the aggregators; a file of no rows is one chunk.
ReadChunk ==
    /\ ~streamed
    /\ agg' = Aggregate(agg, Chunk(csv, read, given.chunk))
    /\ read' = agg'.rows
    /\ streamed' = (read' = RowsOf(csv))
    /\ UNCHANGED <<inputVars, rules, cached, answer>>

\* run_profile_chunked and run_assessment_chunked.
ProfileChunked ==
    /\ streamed
    /\ answer' = [way |-> "profile", status |-> "ok", profile |-> StreamedProfile]
    /\ UNCHANGED <<inputVars, rules, cached, streamVars>>

AssessChunked ==
    /\ streamed
    /\ answer' = IF ConfigRefused THEN RefusedTo("chunked")
                 ELSE LET assessment == Assess(StreamedProfile, rules, {})
                      IN  [way |-> "chunked", status |-> "ok", profile |-> StreamedProfile,
                           assessment |-> [score |-> assessment.score, issues |-> assessment.issues]]
    /\ UNCHANGED <<inputVars, rules, cached, streamVars>>

\* Someone edits dqt.yaml, once.
EditRules ==
    /\ rules = given.rules
    /\ rules' = given.later
    /\ answer' = Unasked
    /\ UNCHANGED <<inputVars, cached, streamVars>>

AssessmentNext ==
    \/ RenderDataOverview \/ RenderQualityScore
    \/ AssessCsv \/ ReadChunk \/ ProfileChunked \/ AssessChunked
    \/ EditRules

AssessmentSpec == AssessmentInit /\ [][AssessmentNext]_assessmentVars

-----------------------------------------------------------------------------
(***************************************************************************)
(* Properties                                                              *)
(***************************************************************************)

Answered(ways) == answer.way \in ways /\ answer.status = "ok"

\* _CHUNKED_UNSUPPORTED_RULES.
FrameRules == {"high_cardinality", "numeric_outliers", "accepted_values_violation", "uniqueness_violation"}
UnsupportedRules == FrameRules \cup {"constant_column"}

Of(issues, types) == {i \in issues : i.type \in types}

\* Flags beside numbers or missing cells: text as a whole, numbers by the chunk.
Mixed(c) == "bool" \in Kinds(csv.cells[c]) /\ Kinds(csv.cells[c]) /= {"bool"}

ChunkRows(k) == {i \in 1 .. RowsOf(csv) : (i - 1) \div given.chunk = k}

SomeChunkIsEmpty(c) ==
    \E i \in 1 .. RowsOf(csv) :
        ChunkRows((i - 1) \div given.chunk) \cap PresentRows(csv.cells[c]) = {}

\* A column that is numeric as a whole gets its own bounds or, when a chunk of it
\* has no value, none.
BoundsAreOfFile(c) ==
    LET col == answer.profile.columns[c]
        cells == csv.cells[c]
    IN  NumericDtype(ReadDtype(cells)) =>
            IF SomeChunkIsEmpty(c)
                THEN col.min = {} /\ col.max = {}
                ELSE /\ col.min = LeastOf(NumbersIn(cells, DOMAIN cells))
                     /\ col.max = GreatestOf(NumbersIn(cells, DOMAIN cells))

\* The file as a whole, read without a sample.
WholeProfile == RunProfiling(csv, 1 .. RowsOf(csv))

SameColumn(c) ==
    LET whole == WholeProfile.columns[c]
    IN  /\ whole.nulls = answer.profile.columns[c].nulls
        /\ Mixed(c) \/ whole.dtype = answer.profile.columns[c].dtype

\* The streamed assessment of a file is the part of the full one that it claims to
\* support, wherever the chunks are cut: the same rows, missing cells, types and
\* completeness, and the same issues of the supported rules; only a column that
\* mixes flags with others may differ in type (run_chunked_profiling, assess,
\* _CHUNKED_UNSUPPORTED_RULES).
ChunkedIsPartOfFull ==
    /\ Answered({"large", "profile", "chunked"}) =>
         /\ answer.profile.rows = WholeProfile.rows
         /\ \A c \in ColumnsOf(csv) : BoundsAreOfFile(c) /\ SameColumn(c)
    /\ Answered({"chunked"}) =>
         LET whole == Assess(WholeProfile, rules, {csv})
             mixed == {csv.names[c] : c \in {d \in ColumnsOf(csv) : Mixed(d)}}
             Comparable(i) == i.type /= "dtype_mismatch" \/ i.column \notin mixed
         IN  /\ answer.assessment.score = whole.score
             /\ {i \in answer.assessment.issues : Comparable(i)}
                  = {i \in whole.issues : i.type \notin UnsupportedRules /\ Comparable(i)}

\* What the Quality Score page derives from the issues it lists is the score it
\* explains, unless an issue that counts is of a critical column, which only lowers
\* it; and the page scores a file like assess_csv did under the same rules but for
\* those that need the frame, whose issues only lower the score (penalty_breakdown
\* against compute_quality_score, _compute_load_and_assess against run_assessment).
ScoreIsExplained ==
    Answered({"quality"}) =>
        LET breakdown == answer.page.breakdown
            shown == answer.assessment
            whole == Assess(answer.profile, answer.rules, {LoadedFrame})
            critical == {i \in Counted(shown.issues) : RuleOf(answer.rules, i.column).critical}
        IN  /\ breakdown.reported <= breakdown.derived
            /\ critical = {} => breakdown.reported = breakdown.derived
            /\ breakdown.derived <= shown.score
            /\ shown.score = whole.score /\ whole.quality <= shown.quality
            /\ shown.issues = whole.issues \ Of(whole.issues, FrameRules)

Named(overview, key) ==
    UNION {c.names : c \in {d \in ToSet(overview.callouts) : d.key = key}}

\* Nothing in the preview of a stream passes for a fact.  (What a frame yields does, even
\* if SAMPLE_SIZE has cut the frame: the preview is not told.)
SampleIsNoFact(overview) ==
    /\ overview.shape /= "fact" /\ overview.selection.evidence /= "fact"
    /\ \A c \in ToSet(overview.callouts) : c.evidence /= "fact"
    /\ \A c \in DOMAIN overview.signals : overview.signals[c].evidence /= "fact"

\* A row with the most missing fields among the scanned is among the records.
WorstRowIsShown(records) ==
    LET scanned == {i \in 1 .. RowsOf(LoadedFrame) : i <= ScanRows}
        missing == {MissingFields(LoadedFrame, i) : i \in scanned}
    IN  missing \in {{}, {0}} \/
            \E i \in DOMAIN records : MissingFields(LoadedFrame, records[i].row) = Max(missing)

\* What the assessment calls all-null or constant, the preview calls out.
AssessedIsCalledOut(overview) ==
    LET Columns(type) == {i.column : i \in Of(answer.assessment.issues, {type})}
    IN  /\ Columns("all_null_column") \subseteq Named(overview, "near_empty_columns")
        /\ \A c \in DOMAIN overview.signals :
               overview.signals[c].name \in Columns("all_null_column") =>
                   overview.signals[c].role = "other"
        /\ Len(overview.callouts) < MaxCallouts =>
               Columns("constant_column") = Named(overview, "constant_columns")

\* The smart preview agrees with the assessment beside it and with the frame it is
\* built from: a stream yields no facts, columns without values and constant columns
\* are called out as the assessment does, the rows with the
\* most missing fields are shown, and but for a path that was typed the identity line
\* names the mode of analysis (build_smart_overview against assess).
PreviewIsHonest ==
    /\ Answered({"large"}) =>
         LET overview == answer.page.preview.overview
         IN  /\ SampleIsNoFact(overview)
             /\ given.source /= "path" => overview.identity.mode = "large"
    /\ Answered({"overview"}) =>
         LET overview == answer.page.preview.overview
         IN  /\ AssessedIsCalledOut(overview)
             /\ WorstRowIsShown(answer.page.preview.records)
             /\ overview.identity.mode = "full"

\* What a comment says of the managed pages: "a changed assessment configuration can
\* never reuse a stale assessment" (get_managed_assessment; the pages pass it no
\* configuration, and assess reads dqt.yaml itself).
ManagedAssessmentIsOfRules ==
    FromRoot /\ Answered({"overview", "quality"}) => answer.rules = rules
=============================================================================
