--------------------------- MODULE PowerBIPackage ---------------------------
(***************************************************************************)
(* The star schema that an export writes and the Power BI package that is  *)
(* built from it: bi_star_schema.py, issue_export.py, powerbi_exporter.py, *)
(* powerbi_zero_config/generator.py and packager.py, the package panel of  *)
(* the Export page, the build-pbi command, and the check of the built-in   *)
(* measures against a package or a star folder.                            *)
(* Both folders outlive what is written to them: nothing is ever removed,  *)
(* and a process may die between two files.  A file is what its columns    *)
(* hold of the keys; all its other cells are left out.                     *)
(***************************************************************************)
EXTENDS DimTime

CONSTANTS
    ProfiledRuns,  \* what is exported: [data, day, columns, issues]
    FirstStars,    \* star folders of other origin
    BuildInputs,   \* the time ranges that build-pbi is asked for
    Listing,       \* the star tables in the order in which the folder lists their files
    MaxExports,    \* bound: exports
    MaxBuilds      \* bound: packages

VARIABLES
    star,          \* the star folder: its files by their tables
    package,       \* the package folder
    building,      \* the package under way
    reply,         \* the last reply of a build or a check
    exports, builds

packageVars == <<star, package, building, reply, exports, builds, timeVars>>

NoKey == 0   \* a cell without a value

-----------------------------------------------------------------------------
(***************************************************************************)
(* The star schema                                                         *)
(***************************************************************************)
StarTables == <<"dim_dataset", "dim_column", "fact_profile_runs", "fact_quality_metrics">>
RequiredTables == ToSet(StarTables) \cup {"fact_issues"}

FactIssuesColumns == {"run_id", "dataset_id", "column_id", "issue_type", "severity", "category", "message"}

\* A file of these columns with these keys.
FileOf(columns, keys) == [c \in columns |-> IF c \in DOMAIN keys THEN keys[c] ELSE {}]

MakeColumnId(data, column) == 10 * data + column

BuildStar(run) ==
    LET ids == {MakeColumnId(run.data, c) : c \in run.columns}
        Of(t) ==
            CASE t = "dim_dataset" -> FileOf({"dataset_id", "source_path"}, [dataset_id |-> {run.data}])
              [] t = "dim_column" ->
                     FileOf({"column_id", "dataset_id", "column_name", "dtype"},
                            [column_id |-> ids, dataset_id |-> IF ids = {} THEN {} ELSE {run.data}])
              [] t = "fact_profile_runs" ->
                     FileOf({"run_id", "dataset_id", "ts", "time_id", "rows", "cols", "memory_mb"},
                            [dataset_id |-> {run.data}, ts |-> {run.day}, time_id |-> {TimeId(run.day)}])
              [] t = "fact_quality_metrics" ->
                     FileOf({"run_id", "column_id", "null_pct", "distinct_count", "completeness"}, [column_id |-> ids])
    IN  [t \in ToSet(StarTables) |-> Of(t)]

StarIsConnectable(tables) ==
    /\ ToSet(StarTables) \subseteq DOMAIN tables
    /\ "dataset_id" \in DOMAIN tables["dim_dataset"]
    /\ {"column_id", "dataset_id"} \subseteq DOMAIN tables["dim_column"]
    /\ {"run_id", "dataset_id"} \subseteq DOMAIN tables["fact_profile_runs"]
    /\ {"run_id", "column_id"} \subseteq DOMAIN tables["fact_quality_metrics"]

\* An issue of the whole dataset, of a column that was not profiled or of a name that
\* is reported in quotes (blank or padded) has no column_id.
BuildFactIssues(run) ==
    FileOf(FactIssuesColumns,
           [dataset_id |-> IF run.issues = {} THEN {} ELSE {run.data},
            column_id |-> {IF c \in run.columns THEN MakeColumnId(run.data, c) ELSE NoKey : c \in run.issues}])

\* Files written over those of a folder: other files of the folder stay.
Over(files, folder) ==
    [t \in DOMAIN files \cup DOMAIN folder |-> IF t \in DOMAIN files THEN files[t] ELSE folder[t]]

StarOf(run) == Over([t \in {"fact_issues"} |-> BuildFactIssues(run)], BuildStar(run))

\* The tables of a run in the order they are written; an export that dies has written
\* the first of them only, and one that is still writing is one that is repeated.
WriteStarCsvs(run, n) ==
    LET order == Append(StarTables, "fact_issues")
    IN  Over([t \in {order[i] : i \in 1 .. n} |-> StarOf(run)[t]], star)

ExportStar(run, n) ==
    /\ exports < MaxExports
    /\ StarIsConnectable(BuildStar(run))
    /\ star' = WriteStarCsvs(run, n)
    /\ exports' = exports + 1
    /\ building' = [building EXCEPT !.whole = @ /\ (building.left = {} \/ star' = star)]
    /\ UNCHANGED <<package, reply, builds, timeVars>>

-----------------------------------------------------------------------------
(***************************************************************************)
(* The package folder                                                      *)
(***************************************************************************)
\* rels: whether relationships.json is there, and which relationships it adds.
NoPackage ==
    [made |-> FALSE, model |-> FALSE, params |-> FALSE, star |-> <<>>, time |-> <<>>,
     rels |-> [there |-> FALSE, time |-> FALSE, issues |-> FALSE]]

FolderOf(p, t) == IF t = "dim_time" THEN p.time ELSE p.star

\* A missing file has no columns; each one that is there can be read.
CsvHeaders(p, t) == IF t \in DOMAIN FolderOf(p, t) THEN DOMAIN FolderOf(p, t)[t] ELSE {}

Cells(p, t, c) == FolderOf(p, t)[t][c]

CsvHasColumn(p, t, c) == c \in CsvHeaders(p, t)

Relates(from, column, to) == [from |-> from, to |-> to, column |-> column]

FactIssuesRelationships ==
    {Relates("fact_issues", "dataset_id", "dim_dataset"), Relates("fact_issues", "column_id", "dim_column")}

HasFactIssuesColumns(p) == {"dataset_id", "column_id"} \subseteq CsvHeaders(p, "fact_issues")

RelationshipsOf(rels) ==
    {Relates("dim_column", "dataset_id", "dim_dataset"), Relates("fact_profile_runs", "dataset_id", "dim_dataset"),
     Relates("fact_quality_metrics", "column_id", "dim_column")}
    \cup (IF rels.time THEN {Relates("fact_profile_runs", "time_id", "dim_time")} ELSE {})
    \cup (IF rels.issues THEN FactIssuesRelationships ELSE {})

\* What relationships.json says of single tables, whatever files there are.
PrimaryKeys == {<<"dim_dataset", "dataset_id">>, <<"dim_column", "column_id">>, <<"dim_time", "time_id">>}

ForeignKeysOf(rels) ==
    {r \in RelationshipsOf(rels) : r.column /= "time_id"}

-----------------------------------------------------------------------------
(***************************************************************************)
(* The built-in catalog (builtin_quality.py), with where its measures come *)
(* from in the star schema.                                                *)
(***************************************************************************)
Measure(id, unit, table, columns) ==
    [id |-> id, title |-> id, grain |-> "global", unit |-> unit, needs |-> <<>>, hidden |-> FALSE,
     scaled |-> FALSE, table |-> table, columns |-> {<<table, c>> : c \in columns}]

BuiltinQuality ==
    <<Measure("completeness_rate", "percent", "fact_quality_metrics", {"completeness"}),
      Measure("null_rate", "percent", "fact_quality_metrics", {"null_pct"}),
      Measure("avg_distinct_count", "count", "fact_quality_metrics", {"distinct_count"}),
      Measure("run_count", "count", "fact_profile_runs", {"run_id"}),
      Measure("dataset_count", "count", "dim_dataset", {}),
      Measure("column_count", "count", "dim_column", {}),
      Measure("total_rows_profiled", "count", "fact_profile_runs", {"rows"}),
      Measure("issue_count", "count", "fact_issues", {}),
      Measure("critical_issue_count", "count", "fact_issues", {"severity"}),
      Measure("warning_issue_count", "count", "fact_issues", {"severity"}),
      [Measure("quality_score_proxy", "score", "", {}) EXCEPT
          !.needs = <<"completeness_rate", "null_rate">>,
          !.columns = {<<"fact_quality_metrics", "completeness">>, <<"fact_quality_metrics", "null_pct">>}]>>

-----------------------------------------------------------------------------
(***************************************************************************)
(* Validation: what is wrong with a package                                *)
(***************************************************************************)
MissingTables(p) == {<<"missing", t>> : t \in RequiredTables \ DOMAIN p.star}

\* Without model.pbit a package is only warned about; the template is a real archive.
CheckRequired(p) ==
    MissingTables(p)
    \cup (IF p.params THEN {} ELSE {<<"missing", "parameters">>})
    \cup (IF p.rels.there THEN {} ELSE {<<"missing", "relationships">>})
    \cup (IF "dim_time" \in DOMAIN p.time THEN {} ELSE {<<"missing", "dim_time">>})

RequiredWarnings(p) == IF p.model THEN {} ELSE {"model.pbit"}

CheckRequiredStarColumns(p) ==
    IF "fact_issues" \in DOMAIN p.star /\ ~ (FactIssuesColumns \subseteq CsvHeaders(p, "fact_issues"))
    THEN {<<"columns", "fact_issues">>} ELSE {}

NotFound(p, t, c) == IF CsvHasColumn(p, t, c) THEN {} ELSE {<<t, c>>}

ValidatePrimaryKeys(p) == UNION {NotFound(p, k[1], k[2]) : k \in PrimaryKeys}

\* The column referred to is looked for only when its table is there.
ValidateForeignKeys(p) ==
    UNION {NotFound(p, r.from, r.column)
           \cup (IF CsvHeaders(p, r.to) = {} THEN {} ELSE NotFound(p, r.to, r.column)) : r \in ForeignKeysOf(p.rels)}

ValidateRelationshipEntries(p) ==
    UNION {NotFound(p, r.from, r.column) \cup NotFound(p, r.to, r.column) : r \in RelationshipsOf(p.rels)}

ValidateRelationships(p) ==
    IF ~ p.rels.there THEN {<<"missing", "relationships">>}
    ELSE ValidatePrimaryKeys(p) \cup ValidateForeignKeys(p) \cup ValidateRelationshipEntries(p)

ValidatePackage(p) ==
    LET errors == CheckRequired(p) \cup ValidateRelationships(p) \cup CheckRequiredStarColumns(p)
    IN  [valid |-> errors = {}, errors |-> errors, warnings |-> RequiredWarnings(p)]

\* Where a measure comes from.  The proxy names its tables with its columns.
MeasureErrors(p, m) ==
    LET tables == {c[1] : c \in m.columns} \cup (IF m.table = "" THEN {} ELSE {m.table})
    IN  {<<"no source", t>> : t \in tables \ DOMAIN p.star}
        \cup UNION {NotFound(p, c[1], c[2]) : c \in {c \in m.columns : c[1] \in DOMAIN p.star}}

ValidateSemanticContract(p, layout) ==
    (IF layout = "package" THEN CheckRequired(p) ELSE MissingTables(p))
    \cup CheckRequiredStarColumns(p)
    \cup UNION {MeasureErrors(p, BuiltinQuality[i]) : i \in DOMAIN BuiltinQuality}

-----------------------------------------------------------------------------
(***************************************************************************)
(* Building a package, by the command or by the page                       *)
(***************************************************************************)
\* left: the tables that are still to be copied.  whole: history, whether those that
\* were are the tables of one finished export.
NoBuild ==
    [at |-> "idle", by |-> "", from |-> "", dim |-> "", left |-> {}, hasTime |-> FALSE, whole |-> FALSE]

NoReply ==
    [by |-> "", outcome |-> "none", exit |-> 0, label |-> "Not generated", whole |-> FALSE, hasTime |-> FALSE, warnings |-> {}]

LifecycleLabel(generated, outcome) ==
    CASE ~ generated          -> "Not generated"
      [] outcome = "valid"    -> "Validated - valid"
      [] outcome = "invalid"  -> "Validated - invalid"

\* build-pbi: whatever is raised is one error.
CmdBuildPbi(outcome) == [NoReply EXCEPT !.by = "command", !.outcome = outcome, !.exit = IF outcome = "valid" THEN 0 ELSE 1]

\* kpi-builtin validate-contract: a contract that is not met is not an error.
CmdValidateContract(valid) ==
    [NoReply EXCEPT !.by = "contract", !.outcome = IF valid THEN "valid" ELSE "invalid", !.exit = IF valid THEN 0 ELSE 2]

Failed(by) == IF by = "command" THEN CmdBuildPbi("failed") ELSE [NoReply EXCEPT !.by = by, !.outcome = "failed"]

\* The star folder is the export's, or the package's own by mistake.
SourceExists(from) == IF from = "export" THEN star /= <<>> ELSE package.made

BeginBuild(by, from, dim) ==
    /\ building' = [NoBuild EXCEPT !.at = "list", !.by = by, !.from = from, !.dim = dim]
    /\ reply' = NoReply

\* The template is there; what a file holds besides is left out.
CopyModel(p) == [p EXCEPT !.model = TRUE]

WriteParameters(p) == [p EXCEPT !.params = TRUE]

Scaffold(p) == WriteParameters(CopyModel([p EXCEPT !.made = TRUE]))

\* The time dimension is written first, to its place in the package.
ExportPowerbiPackage(from, p) ==
    /\ building.at = "idle" /\ builds < MaxBuilds
    /\ builds' = builds + 1
    /\ \/ /\ SourceExists(from) /\ ValidParams(p)
          /\ BeginBuild("command", from, "package")
          /\ package' = [Scaffold(package) EXCEPT !.time = [t \in {"dim_time"} |-> DimTimeFile(p)]]
       \/ /\ ~ (SourceExists(from) /\ ValidParams(p))
          /\ reply' = Failed("command")
          /\ UNCHANGED <<building, package>>
    /\ UNCHANGED <<star, exports, timeVars>>

GeneratePackage(from, dim) ==
    \/ /\ SourceExists(from)
       /\ BeginBuild("page", from, dim)
       /\ package' = Scaffold(package)
    \/ /\ ~ SourceExists(from)
       /\ reply' = Failed("page")
       /\ UNCHANGED <<building, package>>

\* The panel, with both folders entered: nothing without the tick.
RenderPowerbiPackage(from, dim, confirmed) ==
    /\ building.at = "idle" /\ builds < MaxBuilds
    /\ builds' = builds + 1
    /\ \/ confirmed /\ GeneratePackage(from, dim)
       \/ ~ confirmed /\ reply' = Failed("page") /\ UNCHANGED <<building, package>>
    /\ UNCHANGED <<star, exports, timeVars>>

\* Seeded fault: what is there is kept.
KeptInPlace(files, folder) == Over(folder, files)

\* What is copied replaces what is there.
CopiedOver(files, folder) == Over(files, folder)

\* The names are listed first.  A file is not copied onto itself: shutil.copy2 refuses.
ListStarCsvs ==
    /\ building.at = "list"
    /\ \/ /\ building.from = "package" /\ package.star /= <<>>
          /\ building' = NoBuild
          /\ reply' = Failed(building.by)
       \/ /\ building.from = "package" => package.star = <<>>
          /\ LET names == IF building.from = "package" THEN {} ELSE DOMAIN star
             IN  building' = [building EXCEPT !.at = IF names = {} THEN "time" ELSE "copy", !.left = names,
                                              !.whole = \E run \in ProfiledRuns : names /= {} /\ star = StarOf(run)]
          /\ UNCHANGED reply
    /\ UNCHANGED <<star, package, exports, builds, timeVars>>

\* Each is copied as it is when its turn comes.
CopyStarCsv(t) ==
    /\ building.at = "copy"
    /\ t = SelectSeq(Listing, LAMBDA n : n \in building.left)[1]
    /\ package' = [package EXCEPT !.star = CopiedOver([n \in {t} |-> star[n]], @)]
    /\ building' = [building EXCEPT !.left = @ \ {t}, !.at = IF building.left = {t} THEN "time" ELSE "copy"]
    /\ UNCHANGED <<star, reply, exports, builds, timeVars>>

\* A path that leads nowhere is the same as none, but for a line in the log.
CopyDimTime ==
    LET given == CASE building.dim = "none"    -> <<>>
                   [] building.dim = "own"     -> timeCsv
                   [] building.dim = "package" -> package.time
    IN  /\ building.at = "time"
        /\ package' = [package EXCEPT !.time = CopiedOver(given, @)]
        /\ building' = [building EXCEPT !.at = "relate", !.hasTime = given /= <<>>]
        /\ UNCHANGED <<star, reply, exports, builds, timeVars>>

WriteRelationships ==
    /\ building.at = "relate"
    /\ package' = [package EXCEPT !.rels =
           [there |-> TRUE, time |-> building.hasTime /\ CsvHasColumn(package, "fact_profile_runs", "time_id"),
            issues |-> HasFactIssuesColumns(package)]]
    /\ building' = [building EXCEPT !.at = "validate"]
    /\ UNCHANGED <<star, reply, exports, builds, timeVars>>

RenderPbiResult(found) ==
    LET outcome == IF found.valid THEN "valid" ELSE "invalid"
    IN  [NoReply EXCEPT !.by = "page", !.outcome = outcome, !.label = LifecycleLabel(TRUE, outcome)]

\* The command raises for an invalid package, which stays where it is.
ValidateBuilt ==
    LET found == ValidatePackage(package)
    IN  /\ building.at = "validate"
        /\ building' = NoBuild
        /\ reply' = [(IF building.by = "command" THEN CmdBuildPbi(IF found.valid THEN "valid" ELSE "failed")
                      ELSE RenderPbiResult(found)) EXCEPT
                         !.whole = building.whole, !.hasTime = building.hasTime, !.warnings = found.warnings]
        /\ UNCHANGED <<star, package, exports, builds, timeVars>>

BuildDies ==
    /\ building.at /= "idle"
    /\ building' = NoBuild
    /\ UNCHANGED <<star, package, reply, exports, builds, timeVars>>

-----------------------------------------------------------------------------
(***************************************************************************)
(* The built-in measures against a folder                                  *)
(***************************************************************************)
\* The folder an export writes to has a star folder and so looks like a package.
FolderAt(path) ==
    CASE path = "package" -> package
      [] path = "export"  -> [NoPackage EXCEPT !.star = star]
      [] path = "star"    -> [NoPackage EXCEPT !.star = star]

HasStarFolder(path) ==
    CASE path = "package" -> package.made
      [] path = "export"  -> star /= <<>>
      [] path = "star"    -> FALSE

ValidateBuiltinContract(path, mode) ==
    LET resolved == IF mode = "auto" THEN (IF HasStarFolder(path) THEN "package" ELSE "star") ELSE mode
        refused == (resolved = "package") /= HasStarFolder(path)
        valid == ~ refused /\ ValidateSemanticContract(FolderAt(path), resolved) = {}
    IN  /\ building.at = "idle"
        /\ reply' = CmdValidateContract(valid)
        /\ UNCHANGED <<star, package, building, exports, builds, timeVars>>

-----------------------------------------------------------------------------
PackageInit ==
    /\ star \in FirstStars
    /\ package = NoPackage
    /\ building = NoBuild
    /\ reply = NoReply
    /\ exports = 0 /\ builds = 0
    /\ TimeInit

PackageNext ==
    \/ \E run \in ProfiledRuns, n \in 1 .. Cardinality(RequiredTables) : ExportStar(run, n)
    \/ \E from \in {"export", "package"}, p \in BuildInputs : ExportPowerbiPackage(from, p)
    \/ \E from \in {"export", "package"}, dim \in {"none", "own", "package"}, confirmed \in BOOLEAN :
           RenderPowerbiPackage(from, dim, confirmed)
    \/ ListStarCsvs
    \/ \E t \in building.left : CopyStarCsv(t)
    \/ CopyDimTime
    \/ WriteRelationships
    \/ ValidateBuilt
    \/ BuildDies
    \/ \E path \in {"package", "export", "star"}, mode \in {"auto", "package", "star"} :
           ValidateBuiltinContract(path, mode)
    \/ \E p \in TimeInputs :
           CmdGenDimTime(p) /\ UNCHANGED <<star, package, building, reply, exports, builds>>

PackageSpec == PackageInit /\ [][PackageNext]_packageVars

-----------------------------------------------------------------------------
(***************************************************************************)
(* Properties                                                              *)
(***************************************************************************)
\* The rows of a relationship find theirs, but for a run on a day outside of dim_time.
Resolves(r) ==
    IF r.to = "dim_time"
    THEN Cells(package, r.from, "ts") \subseteq Cells(package, "dim_time", "date") =>
             Cells(package, r.from, "time_id") \subseteq Cells(package, "dim_time", "time_id")
    ELSE Cells(package, r.from, r.column) \ {NoKey} \subseteq Cells(package, r.to, r.column)

\* A package that is called valid and was built from one finished export is that
\* export's, whatever older packages and dying builds left in the folder: every
\* relationship finds its rows, the built-in measures find their sources, issues are
\* related, and runs to their days when the build was given a dim_time. The validation
\* looks at headers only: it is the generator, by the order of its steps, that lets
\* no older file through. (generate_powerbi_package, validate_package,
\* _validate_semantic_contract)
PackageIsConnected ==
    (reply.by \in {"command", "page"} /\ reply.outcome = "valid" /\ reply.whole) =>
        /\ \A r \in RelationshipsOf(package.rels) : Resolves(r)
        /\ ValidateSemanticContract(package, "package") = {}
        /\ package.rels.issues
        /\ package.rels.time = reply.hasTime
        /\ reply.by = "command" => reply.hasTime
=============================================================================
