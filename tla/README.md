# Verification of the data quality toolkit

This project models the data quality toolkit in TLA+: how a processed dataset
becomes a registered version in a shared workspace folder, what else happens to
the files of that folder, how a session decides which dataset it works on, how
histories are kept and read, and what the pages compute and show of a table.
TLC checks the models on small instances; TLAPS proves all but a few of the
safety properties for every number of calls, names, versions and rows.

Paths below are relative to `src/data_quality_toolkit/`; `services/`, `pages/`,
`components/` and `state/` are under `adapters/ui/`.

## 1. Inventory

The toolkit is a Python package with a command line and a Streamlit user
interface.  About half of its 61,000 lines render pages or format results.  The
rest is of two kinds: parts with a state that outlives a call, and algorithms
that decide something about a table.

### Parts with state

| Part | State it keeps | Operations | Hard behaviour |
|---|---|---|---|
| Dataset confirmation (`services/dataset_confirmation.py`, `confirmation_capability.py`) | three files per version in the workspace: CSV and sidecar in `preprocessed/`, recipe in `recipes/`; staging files beside them | `confirm_processed_version`: reserve, stage, publish, sweep | no lock; sessions and servers share the folder; any system call fails; crashes between links; file systems without hard links |
| Child confirmation (`services/managed_recipe_reprocessing.py`, end of the file) | a listing of both folders taken before the call | `confirm_reprocessed_child`: snapshot, confirm, roll back | rollback by name pattern among concurrent calls |
| Lifecycle maintenance (`services/lifecycle_maintenance.py`) | the report shown to the operator | scan for abandoned staging files, delete selected ones | time of check and time of deletion; live calls that stage |
| Workspace save (`services/workspace_save.py`) | unmanaged files in the same folders | `save_to_workspace` | existence probe, then an overwriting write |
| Dataset discovery (`services/dataset_discovery.py`, `dataset_versions.py`) | none: derived from sidecars | scan, classify, quarantine | scans while others publish, copy and delete |
| Version history and lineage (`services/managed_version_history.py`, `managed_version_lineage.py`, `managed_version_reopen.py`) | the rows of a drawn page | list, click, reopen, show relations | a click is resolved against another scan than the page was drawn from; records a user edits |
| Managed trust, activation, reopen (`services/managed_trust.py`, `dataset_activation.py`, `managed_version_reopen.py`) | the trust root, the mirror `DATASET_CONTEXT`, keys derived from them | commit, validate, retire, activate, clear, reconcile | two records of one fact that change at different clicks; rollback of a failing mapping |
| Session sources (`state/keys.py`, `components/source_hub.py`, pages that share entries) | entries of the session state for roots, paths, databases, identifiers | seed, type, derive, hand on, clear | widgets' entries are deleted by the framework; defaults against typed values |
| Managed frames (`services/managed_frame_loader.py`) | two caches for the whole process | load, assess, clear | shared by the threads of all sessions; eviction; keys that leave something out |
| Managed export (`services/managed_export_gateway.py`, `shared/managed_export_source.py`, `application/workflow/pipeline.py`, `lineage/manifest`) | output folder, manifest | verify the source, then run the pipeline on the path | the file changes between the two; exports share a folder |
| Run history (`adapters/storage`, `application/workflow/pipeline.py`) | `quality_history.jsonl`, an SQLite file | append, import once, persist | crash in the middle of a line, or between two transactions |
| Drift monitoring (`api.detect_drift`, `adapters/storage`, `adapters/reports`, exporters of drift) | evidence reports, `drift.jsonl`, drift tables | detect, import in three commits, read | reports share paths; readers open one connection per question |
| Preprocess Studio (`services/preprocessing*.py`, `managed_recipe_reprocessing.py`, `pages/preprocess_studio.py`) | the steps, the draft of a loaded recipe | build, confirm, load, edit, replay | a recipe outlives the version it was made for |
| Star schema and Power BI package (`adapters/exporters`) | the star folder, the package folder | export, build, validate | folders that are never emptied; processes that die between files |

### Algorithms

| Part | What it decides |
|---|---|
| Profiling and assessment (`domain/profiling`, `domain/assessment`, `shared/config.py`) | types, missing cells, issues and scores of a file, read as a whole or chunk by chunk, under the rules of `dqt.yaml` |
| Data Overview, Quality Score (`pages/data_overview.py`, `quality_score.py`, `services/smart_data_overview.py`, `quality_score.py`) | what is shown of an assessment, how the score is explained, which readings are facts |
| EDA Explorer (`adapters/ui/eda*.py`, `pages/eda_explorer.py`) | what is offered, suggested and drawn of a frame |
| Statistics Lab (`pages/statistics_lab*.py`, `services/statistics*.py`, `domain/statistics`) | which tests are offered, what they count, when they refuse |
| Drift detection (`domain/statistics/drift.py`) | which columns are tested how, and what the verdict is |
| KPI catalog (`domain/semantics`, `application/workflow/kpi.py`, `pages/kpi_catalog.py`) | cycles, order and rules of a catalog, the measures emitted from it |
| Time dimension (`adapters/exporters/time`, `pages/dim_time.py`) | the calendar, weeks and fiscal years of a range of days |

How they interact: the pages call services with Streamlit's `session_state`, one
thread per session.  Confirmation writes the workspace and never touches the
session; the page then offers to activate the result.  Reopen reads a version
through discovery, commits the trust root and activates the mirror.  The frame
loader and the export gateway ask the trust root first, other pages ask the
mirror.  Maintenance deletes staging files that confirmation left behind.  The
pipeline profiles and assesses a file and writes the star folder, the manifest and
the history into one output folder; the Power BI package copies the star folder.
Detections append to the drift history, imports copy it into the database, and
reports, dashboards and the Drift Explorer read that.

What makes each part correct, in one line each:

- confirmation: a version is registered whole or not at all, nothing that exists
  is overwritten, the result tells what is on disk;
- child confirmation: as above, and a call that did not confirm leaves nothing;
- maintenance: only staging files that are abandoned are deleted, and no
  published version is damaged by it;
- workspace save: a file that existed is not overwritten;
- discovery and history: a version is shown whole or not at all, copies are
  quarantined, a click reopens its row, relations read the same from both ends;
- trust, activation, sources: one dataset governs the session, nothing derived from
  one dataset is used for another, nothing a user typed is replaced unasked;
- frames: never a frame of another session or version;
- managed export: a manifest names the bytes that were exported;
- histories: what was appended is read back, what was reported as stored is stored,
  what is shown of a run is that run's;
- recipes: what is admitted is done as written, and done again makes the same version;
- pages: what is offered runs, what is drawn or counted adds up, what is said of a
  table agrees with what else is said of it;
- catalog, calendar, package: measures come after what they need, days and weeks
  line up, a package that is called valid is connected.

## 2. Plan

Done, in this order:

1. `VersionRegistry`, `Confirmation`, `ConfirmationProofs`: the confirmation
   protocol, its specification as a registry, and the proofs.
2. `ReprocessedChild`: the rollback around it.
3. `ManagedSession`: root, mirror and derived state of one session; `SessionSources`
   on top of it.
4. `LifecycleMaintenance`, `WorkspaceSave`, `Discovery`: what else touches the
   workspace, each among confirmations.
5. `VersionHistory`: what is listed and reopened, and how versions are related.
6. `RunHistory`; `DriftDetection`, `DriftHistory`, `DriftReaders`: what is appended,
   imported and read.
7. `ManagedFrames`: the process-wide frame cache.
8. `ManagedExport`: verification and export of a file that changes, into a folder that
   is shared.
9. `RecipeAdmission`, `RecipeEngine`, `RecipeReplay`: recipes from the studio to the
   child.
10. `StatisticsTests`, `StatisticsLab`; `EdaCharts`, `EdaPage`; `Profiling`,
    `Assessment`, `SmartOverview`, `AssessmentPages`: what pages decide of a table.
11. `KpiCatalog`, `DimTime`, `PowerBIPackage`: from an export to a package.

12. Proofs: `ReprocessedChildProofs` and `WorkspaceProofs` on top of
    `ConfirmationProofs`; `WorkbenchProofs` (session, sources, export); `HistoryProofs`
    (runs and drift); `RecipeProofs`; `PagesProofs` (frames, lineage, Statistics Lab,
    KPI catalog, calendar, Power BI package); `AnalysisProofs` (scores, streaming, smart preview, the
    charts and the guide of the EDA Explorer).

Left, most important first:

13. The rest of the Statistics Lab: power and theoretical distributions, the guidance.
14. The rebuilt lineage manifest (`lineage/manifest/collector.py`) as a reader of what
    `ManagedExport` leaves.
15. The studio's recommendations and its before/after facts.

Abstract specifications: the registry of versions exists.  Worth adding is an
authority that changes hands in one step, for `ManagedSession`, and a cache that is
a function of its keys, for `ManagedFrames`.  Elsewhere the reference is a definition
the model is compared with: the transitive closure of what KPIs need, the two
readings of one file, the replay of a recipe on its parent.

## 3. The models and the code

Common to all: contents are abstracted to who wrote them, paths to members of a
small set whose candidates overlap the way `data`, `data-1` do; a system call, a
dict operation and an SQLite transaction are one step each, and what lies between
two of them is interleaved with everything else.  A step that can fail has an
action for the failure.  Definitions under the heading *seeded faults* describe
plausible bugs; nothing uses them but the mutation runs of section 5.

### Confirmation (`dataset_confirmation.py`, `confirmation_capability.py`)

One attempt is one call of `confirm_processed_version`.  `pc` follows the code:

| Model | Code |
|---|---|
| `Begin`, `RejectInput` | validation of the evidence; a refusal touches nothing |
| `Reserve`, `TryNextSuffix`, `SuffixesExhausted` | `_reserve_linked_targets`: the three targets of a suffix are all free, or the next suffix |
| `RejectPlan` | the recipe or the record does not validate for the name found |
| `Stage`, `StageFails` | `_stage` of the CSV, the recipe, the sidecar: `mkstemp`, write; a failure can leave its file |
| `HardLinksUnsupported` | the first `os.link` says that the location has no hard links: the staged files are reported and stay |
| `Publish`, `PublishFails` | `_publish_exclusive`: `os.link`, in the order of `_finalize` |
| `Sweep`, `SweepFails`, `Return` | `_cleanup` in the `finally` block |
| `Crash` | the process dies; its files stay |

`final` and `temp` are the folders, `staged` and `linked` the lists the code
keeps, `status` its result; `stuck` is a history variable.  `VersionRegistry` is
what a caller relies on: a version appears whole, at one name, in one step, is
never replaced, and the answer is *confirmed* exactly if it is there.  The
refinement mapping (`RegisteredAt`, `AnswerOf`) sees a version when the trio is on
disk and an answer when the call has returned: the link of the sidecar is the step
that registers.

### ReprocessedChild (end of `managed_recipe_reprocessing.py`)

`Confirmation` with the listing of both folders before it (`SnapshotPreprocessed`,
`SnapshotRecipes`) and, after every result but CONFIRMED, the rollback: list again,
remove what is new and matches the reserved pattern, in listing order, one
`unlink` per step (`RestorePreprocessed`, `RestoreRecipes`, `Remove`,
`RemoveFails`), then answer.  `Reserved` is the name pattern: it identifies names,
not owners, which is what the properties are about.

### ManagedSession (`managed_trust.py`, `dataset_activation.py`, `managed_version_reopen.py`, Start and Preprocess Studio pages)

A session runs one script at a time, so a click is a step.  `root` is the trust
root, `mirror` is `DATASET_CONTEXT`, `steps`, `handoff` and `draft` are derived
state, `known` and `parent` are the sidecars in the workspace, `origin` is a history
variable: the dataset whose rows a version was really made from.  `Governing` is
`resolve_trust_authority`.  `ReopenInterrupted` is the activation that fails after
the commit: its rollback restores the mirror and retires the new root, and the old
root is gone.

### SessionSources (`state/keys.py`, `components/source_hub.py`, the pages that share entries)

On top of `ManagedSession`: `store` is the part of `session_state` that pages share,
`page` the page whose script run was last.  One script run is one step: `Visit`
renders another page, seeds its entries from the shared ones and loses the entries of
widgets that are not rendered; `Enter` is a text typed into a widget, `Choose` a click
that changes the active dataset, `ReopenFromStart`, `UseCurrentDatasetId`, `RunExport`
the clicks that hand values on.  `touched` and `taken` are history variables: which
entry the user set in this step, and which entries still hold what they took from the
mirror.  That a widget's entry is deleted with the first run that does not render it is
Streamlit's rule as `keys.py` states it, and an assumption here.

### LifecycleMaintenance (`lifecycle_maintenance.py`)

Confirmations, and cleaners that select files from a report (`Select`), check each
file again (`Revalidate`) and remove it (`Unlink`, `UnlinkFails`).  Any time may
pass between two of these steps.  `grace` tells whether a call always finishes
within the day after which its files count as abandoned; both cases are explored.

### WorkspaceSave (`workspace_save.py`)

Confirmations, and saves that probe names like them (`TryNextNumber`, `NameFree`)
but then open the name for writing (`Open`), which truncates whatever is there by
then.

### Discovery (`dataset_discovery.py`, `dataset_versions.py`)

`WorkspaceSave` with one scan among its confirmation and its saves.  `scan` follows
`discover_managed_versions`: `Prepare` captures the directory, the first `Recheck` is the
precheck, `OpenDirectory` and `Enumerate` list the names, the second `Recheck` is the
postcheck, `SidecarIsRead`/`SidecarIsRefused` read one sidecar each, `Quarantine`,
`CsvIsReadable`, `RecipeIsReadable`, `ArtifactUnavailable` classify it, `Finalize` assembles
the result.  Between any two of them the others act, and a user copies (`CopySidecar`) and
deletes (`DeleteSidecar`) sidecars or swaps the directory for another one and back, as
often as he likes (`ReplaceDirectory`).  `opened`, `broughtBack` and `present` are history
variables: which directory the names are of, whether the captured one came back since,
and which sidecars have stood there all along; a swap ends that for all of them, so that
the names read across it may be any.

### VersionHistory (`managed_version_history.py`, `managed_version_lineage.py`, `managed_version_reopen.py`)

A scan is one step here.  `rows` are the rows of the drawn page with their short
references, `ClickRow` and `Reopen` resolve one against a new scan, `EditRecord`,
`CopyVersion`, `ChangeFile` are what a user does to sidecars and files in between.
`ParentState`, `Children` and `RootState` are what the lineage panel shows of a version; the
walk up from parent to parent is a way, a function on as many steps as there are versions.

### RunHistory (`adapters/storage/*`, `application/workflow/pipeline.py`)

One export is one process.  `AppendRecord` writes a line, `AppendTorn` part of one;
`open` says whether the last line lacks its newline, for then the next record
continues it and both are lost.  Then the stages of `_persist_star_to_sqlite`, each
a transaction: `EnsureDb` (count the runs), `Import` (the history, once, if there
were none; the file may have grown since the count), `Delete`, `Persist` or
`PersistConflicts`, `SetSource`.  `DatabaseFails` and `Die` are possible everywhere.

### DriftDetection, DriftHistory, DriftReaders (`domain/statistics/drift.py`, `api.py`, `adapters/storage`, `adapters/reports`, drift exporters, Drift Explorer)

`DriftDetection` compares two columns: which test, why none, what verdict; a p-value is
an external choice.  `DriftHistory` follows a detection (`BeginDetection`,
`WriteDriftReport`, `AppendDriftHistory`) and an import, whose three commits are three
actions (`ImportRuns`, `ImportDriftColumns`, `ImportDriftDistributions`) that each read
the reports again.  `DriftReaders` adds the report, the dashboard, the workbook, the
plots, the notification, the mirror and the page, each as the sequence of connections
it opens; imports commit between them.

### ManagedFrames (`managed_frame_loader.py`)

`cache` is the dict in insertion order.  `Hit`, `Miss`, `Verify`, `Read` are
`get_managed_frame`; `Room`, `NoRoom`, `Pick`, `Pop`, `Store` are the statements of
`_bounded_store`, between which other threads run.  `Trust` is a commit or a
retirement, whose hook empties the cache for everyone.  `Pick` and `Pop` can raise
(`StopIteration`, `KeyError`) when another thread was faster.  `exposed` is a history
variable: versions whose file changed where no check could see it.

### ManagedExport (`pages/export.py`, `managed_export_gateway.py`, `shared/managed_export_source.py`, `pipeline.py`, `lineage/manifest`)

One call is one click.  `Job` decides by root, mirror and path what is exported and
whose identity the manifest gets; `Verify` hashes the file, `Read` opens it again;
`Open` and `Finish` write one file of `star/` in place; `Emit` replaces the manifest,
`EmitFails` is the warning with which the export goes on.  `raced` and `disturbed`
are history variables for the exceptions the properties make.

### RecipeAdmission, RecipeEngine, RecipeReplay (`managed_recipe_reprocessing.py`, `services/preprocessing*.py`, `pages/preprocess_studio.py`)

`RecipeAdmission` is `revalidate_durable_recipe`: a step is its operation, its columns
and its parameters with the types a JSON file gives them.  `RecipeEngine` is
`apply_recipe`: what each operation does to the columns of a frame, when it is skipped,
when it fails.  The two state their limits separately, which is what the properties
compare.  `Replay` is the recursive function that runs the steps.  `RecipeReplay` is the studio: steps are appended, moved and removed, a
version is confirmed, its recipe loaded, cut and replayed to confirm a child.

### StatisticsTests, StatisticsLab (`services/statistics*.py`, `domain/statistics`, `pages/statistics_lab*.py`)

`StatisticsTests` holds the three notions of a category the code has (pandas' count, the
services' identities, the comparison by text), what each service counts and refuses,
the selection of a test, and whether its kernel has a result.  `StatisticsLab` has one
action per panel.  A selection may be stale, so an action takes any columns and values
and notes whether they were offered.

### EdaCharts, EdaPage (`eda*.py`, `pages/eda_explorer.py`)

`EdaCharts` has one operator per builder: the rows and levels a view draws, what it
folds, hides or samples, when it refuses.  `EdaPage` has one action per tab, with what
it offers and draws of a choice, and the Smart Guide.

### Profiling, Assessment, SmartOverview, AssessmentPages (`domain/profiling`, `domain/assessment`, `shared/config.py`, `pages/data_overview.py`, `pages/quality_score.py`)

`Profiling` types and counts a file as a whole and, chunk by chunk, through the
aggregators.  `Assessment` is the rules, the issues, the scores and their explanation; an
issue of a blank or padded name bears `repr()` of that name (`NameQuoted`), under which
`compute_quality_score` finds no rule, so that such an issue of a critical column is not
doubled;
`SmartOverview` the preview with its evidence.  `AssessmentPages` asks for a file in one
of the ways the program has (the two pages, `assess_csv`, streaming in chunks), keeps
what the pages cache, and lets a user edit `dqt.yaml` once in between.

### KpiCatalog, DimTime, PowerBIPackage (`domain/semantics`, `application/workflow/kpi.py`, `adapters/exporters`, `pages/kpi_catalog.py`, `pages/dim_time.py`, `pages/export.py`)

`KpiCatalog` has the graph of a catalog, its cycles (`DetectCycles` with its
backtracking), its order (`TopoSort`), the validation and the emitters.  The two depth-first
searches of `dag.py` color alike and differ in what they note down, so both are one `Walk`:
its state holds the calls under way and how far each has come, a turn (`WalkStep`) goes on by
one need, and the walk is over when no turn is left.  The page reads
the file for the verdict, the measures and the graph, each a step, and `EditCatalog`
comes in between.  `DimTime` computes the rows of a range of days with a civil
calendar.  `PowerBIPackage` writes the star tables (`ExportStar`, which may stop after any
table), builds a package in the order of the generator (`ListStarCsvs`, `CopyStarCsv` for one
file after the other in the order of the folder, `CopyDimTime`,
`WriteRelationships`, `ValidateBuilt`), lets a build die anywhere (`BuildDies`), and
checks the contract of the built-in measures (`BuiltinQuality`).  A file is what its
columns hold of the keys.

## 4. Runs

A run with several parts explores models that share no state one at a time: the
others stand still, so the states of the parts add up instead of multiplying.
CHECK_DEADLOCK is off where all calls may have ended.

| Run | Instance | Shows |
|---|---|---|
| `Confirmation` | 2 calls, 2 stems that share a name, 1 suffix, 4 starting workspaces, any number of faults; fair | `RegistrationComplete`, `StatusIsTruth`, `StagingIsSwept`, `PublicationIsExclusive`; `RegistryIsImplemented`; `EveryCallReturns` |
| `Child` | 2 child confirmations, the same names, 2 faults | `NotConfirmedLeavesNothing`, `EarlierFilesSurvive` |
| `Child_competitor` | a child and a direct confirmation, 1 fault | violates `ConfirmedVersionSurvives` |
| `Maintenance` | 2 calls on one name, 2 cleaners, batches of 2, 1 fault, with and without grace | `LiveStagingIsKept`, `RegistrationComplete` |
| `Workbench` | *session*: 3 versions, 2 files, mutations may raise; *sources*: 2 root texts, 2 entries, 1 export on a session; *export*: 2 exports, 3 files each, 2 changes; *importing*: 2 detections into 1 path, 1 importer, 2 runs; *reading*: 1 reader beside them; *comparison*: all pairs of small columns | `LineageIsTruth`, `TrustIsNotOutranked`; `TypedValuesStay`, `TakenIsOfActive`; `RefusedLeavesNothing`, `AloneIsWhole`, `VerifiedIsRead`; `QuietImportIsComplete`; `DetailIsOfListedRuns`; `VerdictIsSymmetric` |
| `Session_steps` | the session, mutations succeed | violates `StepsAreOfGoverning` |
| `Export_fallback` | 1 export, no file changes | violates `IdentityIsVerified` |
| `Drift_evidence` | 2 detections into 1 path, 1 importer | violates `EvidenceIsOwn` |
| `Discovery` | *scan*: 1 confirmation, 1 save, 1 scan, 2 overlapping names, one disturbance; *history*: 3 versions, 2 with the same 8 digits, 1 act of a user; *runs*: 3 exports, 2 of one dataset, 1 torn append | `ScanIsComplete`, `ListedIsUnambiguous`, `SavesAreKept`; `ClickReopensItsRow`, `LineageIsMutual`; `HistoryIsKept` |
| `Pages` | *frames*: 3 sessions, 2 versions, 2 entries, 1 file change; *lab*: tables of 2 columns, up to 4 rows; *recipes*: up to 2 steps, 2 versions and a child; *eda*: frames of 3 columns, up to 4 rows; *assessment*: files of 2 columns, up to 6 rows, chunks of every size; *catalog*: every graph of 3 KPIs, 1 edit; *calendar*: days around the turns of months and years; *package*: 1 export over what others left, 2 builds | `OwnFramesOnly`; `OfferedIsRun`, `PanelsAgree`; `ReplayReproducesVersion`, `NothingReplacedUnasked`, `AdmittedIsUsedAsWritten`; `ChartsAddUp`, `OfferedIsDrawn`; `ChunkedIsPartOfFull`, `ScoreIsExplained`, `PreviewIsHonest`; `CatalogIsOrdered`; `CalendarIsAligned`; `PackageIsConnected` |
| `Recipe_divide` | the recipes of the run above and a division by 0 | violates `AdmittedIsNotSkipped` |
| `Assessment_rules` | one managed file, one edit of `dqt.yaml` | violates `ManagedAssessmentIsOfRules` |

What each property says is in the comment above its definition.  Type invariants are
proved where there are proofs (section 6) and no run repeats them.

**Why the bounds are enough.**

- The hazards of the workspace are races of two calls about a name: two calls with
  overlapping stems meet in every relative order, on the first candidate of both and
  on the suffix of one that is the stem of the other; the starting workspaces hold an
  older version and single leftovers.  What holds for any number of calls is proved
  (section 6).  `MaxFaults` bounds the faults where rollback or cleanup multiplies the
  states: one fault makes a call fail, the second makes its cleanup fail.  In
  `Maintenance` one fault leaves abandoned files; one name suffices because cleaners
  look at staging files, which no two calls share.
- A scan meets a confirmation and one disturbance (a save, a copied sidecar or a directory
  that is swapped and comes back: `MCOneDisturbance`); a copy makes the pair of duplicates a scan must not
  choose from, and a third sidecar would be another member of the same group.
- Three versions are needed in *session* for a draft, a root and a mirror that all
  differ, in *history* for a parent, a child and a version that takes over a reference;
  one act of a user is between the drawing and the click.
- Three exports in *runs* allow one to count, one to import and one to delete, and one
  torn line to swallow the record of another; a second torn line repeats that.
- Three sessions in *frames* race two at a time against one that clears, with fewer
  entries than there are keys.  Three files in *export* distinguish the first, a middle
  and the last one.
- Two detections share one path, so that the second replaces the evidence of the first
  before, between and after the commits of an import; readers differ in which
  connection an import falls behind, which one importer shows.
- The thresholds of the code (rows for a chart, levels for a category, bins, list
  lengths) are constants, set so low that tables of four rows lie on both sides of each:
  what counts is the relation between a threshold in one file and the one in another,
  and these relations are assumptions of the modules (`BoundsAssumption`,
  `ChartsAssumption`, `OverviewAssumption`).  The order of rows matters only to chunks
  and samples; the tables of the Lab and of the EDA Explorer are therefore bags of rows.
- Three KPIs have every shape of a dependency: chains, diamonds up to what three nodes
  allow, self-loops and cycles of two and three.
- The package folder outlives two builds, of which the first may die anywhere; the star
  folder starts empty, as an older version left it, or as a dead export left it over a
  complete one.

**The violations** are disagreements between the code and what it says of itself:

- `Child_competitor`: the rollback removes by name pattern what appeared since its
  snapshot, including the files of a version that another call confirmed in between;
  the docstring says that a competitor's file can never match.
- `Session_steps`: an activation clears derived state when it changes the mirror.
  Reopening B while B is the mirror and A the root changes the root only, so the
  steps chosen for A are applied to B.
- `Export_fallback`: with a managed mirror and no root the unmanaged export runs and
  attaches the version's identity without verifying it, which a comment at the
  button excludes.  (The mirror gets there when *Set active* writes it while another
  version is the root, or when a reopen is interrupted.)
- `Recipe_divide`: the admission accepts a division by 0, the engine skips the step, and
  the child is confirmed without the column its recipe names; the docstring says that
  every value the engine would skip is refused.
- `Drift_evidence`: an import takes whatever a run's report path holds by then; a later
  detection into the same path gives its columns to the earlier run.
- `Assessment_rules`: the pages pass no configuration to the cached assessment, so it
  survives an edit of `dqt.yaml`, although its docstring says that a changed
  configuration never reuses a stale assessment.

**What the passing properties leave room for** is deliberate, and as far as the code
goes; each of these limits is reached in the run:

- `NotConfirmedLeavesNothing` excepts names that the snapshot found taken and another
  rollback freed.
- `SavesAreKept` speaks of files that existed when the save was called; one that appears
  between the probe and the write is overwritten, be it the file of a version.
- `ScanIsComplete` excepts one order of events: the captured directory is away when
  `os.scandir` opens the path and back before the postcheck.  Both checks compare `st_dev`
  and `st_ino` at their own moment, so the names of the other directory pass as its own.
  TLC reaches this when the exception is dropped.
- `HistoryIsKept` allows one acknowledged record to be lost per torn line.
- `OwnFramesOnly` excepts versions whose file changed behind its size and modification
  time, or between the check and the reading, for the check does not look at the
  content.  The ceiling of the cache is no property, for several sessions may find room for
  one entry; what bounds the cache is that every commit empties it, so that no session has
  two entries in it (`OneEntryPerSession`, proved).  Some loads of
  `ManagedFrames` end in a `StopIteration` or a `KeyError` (`Pick`, `Pop`), not in a
  `ManagedFrameLoadError`.
- `VerifiedIsRead` excepts a file that is written to between its verification and its
  reading, and `AloneIsWhole` a manifest that could not be written: then an older
  manifest lies over new files.
- `QuietImportIsComplete` speaks of imports during which no report was written and no other
  import added a run.  Columns and bins are read from the report twice, in transactions
  of their own.
- `ClickReopensItsRow`: a reference of eight digits may pass to another version once its
  own is no longer listed.
- `OfferedIsRun` is about tables without values that are equal but not the same (1 and
  True), texts like `inf`, and values that cannot be displayed: there the panel and the
  service count differently.
- `OfferedIsDrawn`: a column of flags is offered as a category and refused; a date in text
  form may be suggested as a category; a wholly missing column counts for the guide and
  not for the association view; a logarithmic scale is suggested for positive values and
  refused when the least of them is a thousandth of their span or less.
- `ChunkedIsPartOfFull`: a column that mixes flags with others may widen differently; a
  numeric column with a chunk of missing cells only has no bounds when streamed.
- `ScoreIsExplained`: the explanation does not weigh critical columns, and the pages assess
  without the frame, so the rules that need it count on the command line only.
- `PreviewIsHonest` asks of the preview of a stream that nothing in it passes for a fact.
  A frame that `SAMPLE_SIZE` has cut when it was loaded counts as the full frame: the
  preview is not told of the cut.
- `PackageIsConnected` is about packages built from a finished export.  The validation
  looks at headers: a package of a star folder whose export died, or whose run lies on
  a day outside the calendar, is called valid.

Met while modelling, smaller than a finding, and visible in the models: `detect_cycles`
reports a cycle from its end to its start though its docstring says traversal order;
the built-in measure *Warning Issue Count* counts a severity no rule assigns; the KPI
page strips a path for the verdict and not for the artifacts; `build-pbi` called on the
package's own star folder fails after it has overwritten the template and the
parameters, and an invalid package stays on disk after the command has raised; a
`dim_time.csv` of an older build satisfies the validation of a newer one; a detection
that is unavailable is recorded like one without drift; the headline of the Data
Overview calls the completeness a quality score while the card shows the penalised one;
the guide suggests a log-scaled histogram for every skewed column of positive values, but
`pd.cut` puts the first edge a thousandth of the span below the least value, and with an
edge of zero or less the view asks for "strictly positive values" (`eda_sections.py:580`).

**Fairness.**  `FairSpec` of `Confirmation` assumes weak fairness of each call's steps
while it is alive: its thread executes it until it returns, unless its process dies
(`Crash` is no part of the assumption, and a call need not be made).  Nothing in the
code waits for another call, so no stronger fairness is needed.  No other run is
about liveness: everywhere else a process may stop for good at any step.

## 5. Mutations

For every property of a passing run PROJECT.json names a seeded fault: an operator
with the parameters of the one it replaces, such as a suffix loop that does not advance
(`TrySameSuffix`), a sidecar published before the recipe (`PublishSidecarBeforeRecipe`),
a rollback that ignores its snapshot (`ToRemoveIgnoringSnapshot`), a cache key without
the session (`KeyOfVersion`), an export source verified by size and time
(`VerifyByStat`), an import that reads evidence of new runs only (`EvidenceOfNewRuns`), a
chunked type that stays that of the first chunk (`KeepFirst`), a copy that keeps what is
there (`KeptInPlace`).  With the fault in place TLC finds the property violated.

## 6. Proofs

Forty-six theorems, checked by TLAPS to the last leaf, for every value of the
constants that satisfies the assumptions stated beside them.  Unless said otherwise
the properties are not inductive: an invariant that is, is named and conjoined to them,
holds initially, and each action preserves it, one step per action.

### Confirmation and what runs beside it

`ConfirmationProofs`, for any number of calls, stems, names and suffixes and any
leftovers, from `MaxSuffixAssumption`, `CandidateAssumption` and
`OwnerAssumption` (suffixes are numbers, candidates are names, and calls, foreign
files and free names are distinct): `TypeOK`, every property of the run
`Confirmation` but `EveryCallReturns`, that a trio that is linked stays where it is
(`LinkedTrio`), that the race for a name is decided at the CSV
(`CsvWinnerIsUnopposed`), and that the protocol implements `VersionRegistry`.  A link of
the sidecar keeps `RegistrationComplete` only if the CSV and the recipe this call linked
are still there and at the name it is about to use, so the inductive invariant `IInv`
conjoins to `TypeOK` that

- files stand where `linked` says, at the one target (`LinkedTrio`, `LinkedOnDisk`);
- the kinds are linked in order (`LinkedInOrder`), and a call that has not reached
  publication has linked nothing, one that is confirmed all (`PhaseAgrees`);
- the name a call has reserved, or linked at, bears no file that was there before all
  calls (`ReservedIsOurs`);
- the staging files that exist are those the call knows, or is stuck with
  (`StagingKnown`).

For the refinement, every step is shown to be a stutter of the registry but the link of
a sidecar, which registers, and those that return, which answer.

`ReprocessedChildProofs`, for any calls of either kind and any faults
(`ChildAssumption`, `MaxFaultsAssumption`): `NotConfirmedLeavesNothing` and the action
property `EarlierFilesSurvive`, which speaks of files that were there before all calls.  A
rollback removes files of other calls, so most of
`IInv` is lost.  `ChildInv` replaces it: a call's files stand at the one name its
rollback looks at (`OwnAtTarget`), a snapshot lists none of the staging files of its call
(`SnapshotIsForeign`) and, as far as it has come, all files of no call
(`SnapshotOfEarlier`), and the snapshot and what is still to be removed account for all
files of the call (`RollbackAccounts`).

`WorkspaceProofs`, for any number of cleaners, saves, copies and sidecars:

- `RegistrationComplete` and `LiveStagingIsKept` among cleaners (`MaintenanceInv`):
  whoever removes staging files leaves `IInv` as it is, and what a cleaner has checked
  was aged, hence of a call that has ended;
- `SavesAreKept` among saves and confirmations: what existed when a save was called is not
  written to, and no confirmation publishes over a save.  Of `IInv` only the shape of the state
  survives a save; `SaveInv` adds that what a save found is still there and that the
  place it is about to open is none it found;
- `ScanIsComplete` and `ListedIsUnambiguous` of a scan that takes no lock: its invariant
  says what each phase has established and what the others can no longer take away, that
  names of another directory pass the postcheck only if the captured one was brought back
  (`DirectoryIsOne`), and
  that a sidecar that stood there all along still claims to be the version it claimed to
  be.  `NameAssumption` (a free place is no name) is the only addition;
- `ClickReopensItsRow`: a row was drawn for a version and knows it by one of its two
  references (`RowsInv`).

### Sessions and exports

`WorkbenchProofs`, of `ManagedSession` for any versions and files
(`DatasetAssumption`): `TypeOK`, `LineageIsTruth`, `OnlyRegisteredVersions` and the action
property `TrustIsNotOutranked`.  Their conjunction is inductive: a parent is
registered because whatever governs is, and the parent of a child is true because the
child is made from the root and refused for another parent.  Of `SessionSources`:
`TypedValuesStay` as an action property of each visit, click and text, and `TakenIsOfActive`; what they need to
know is on which page the workspace root has a widget, and that the two agree there
(`StoreInv`).  Of
`ManagedExport`, for any number of exports, versions, files and changes
(`FilesAssumption`, `MaxWritesAssumption`, `SourceAssumption`): `TypeOK`,
`RefusedLeavesNothing`, `AloneIsWhole`, `VerifiedIsRead`.  What an export leaves in the
end depends on each file it has written so far, so the invariant adds that a call that
has not begun is in no file (`AbsentBefore`), that an undisturbed call owns the files up
to where it is (`WholeSoFar`), that a verified source has not changed unless `raced`
(`FreshUntilRead`), and that a manifest is only reported by a call that has returned
(`ToldHasReturned`).

### Histories

`HistoryProofs`, of `RunHistory` for any runs, datasets and torn appends: `HistoryIsKept`.
`IInv` counts the line that is open as a loss to come, so that every acknowledged record
that cannot be read is paid for by one torn append, and follows an export's row from its
own transaction on.  Of `DriftHistory`, for any detections, importers, files and runs
(`RunsAssumption`): `QuietImportIsComplete`.  An import reads the reports three times, once
per commit; the invariant says which tables are complete after each of the commits of an
import that is still `quiet`, and that nobody takes that back.  Of `DriftReaders`:
`DetailIsOfListedRuns`, by what each reader has seen in the connections it opened so far
and the order of those it has still to open.
Of `DriftDetection`: `Symmetric` for all pairs of frames and all limits, and with it
`VerdictIsSymmetric` of any frames whose samples are integers (`VerdictsAreSymmetric`);
rank by rank, the two directions take the same test or the same reason for none.

### Recipes

`RecipeProofs`, for any frames, recipes of any length and any number of versions
(`FramesAssumption`, `StepsAssumption`, `TextAssumption`: first frames and steps have the
shape a loader and a form give them, and a stripped text has nothing left to strip):
`ReplayReproducesVersion`, `NothingReplacedUnasked`, `AdmittedIsUsedAsWritten`.  `Replay` is a
recursive function over the steps; its facts are proved by induction over their number.
The induction theorems of the library cannot be instantiated, so `Induction` is proved
for sets first: a set of numbers with 0 and successors is all of them, for otherwise
taking 1 away would map those that are missing, up to some number, one to one into
themselves without reaching all.  Then,
for each transform, that it writes only under free names or those it was asked for
(the conditions of `Asked`), that a replay reported and replayed again does the same, and
that the studio's versions are what their recipes make (`RecipeInv`).

### Pages

`PagesProofs`, of `ManagedFrames` for any sessions, versions and size of the cache:
`OwnFramesOnly`, and that the cache has no key twice (`KeysDiffer`) and no two entries of one
session (`OneEntryPerSession`), so no more entries than there are sessions
(`CacheIsBounded`).  The property speaks of what is cached and
returned; the invariant also of the frame a call holds between its reading and its
storing, and of the version it has checked.  Of `VersionHistory`: `LineageIsMutual`.  That no
relation of honest versions is called corrupt rests on an order, parents are older than
their children (`LineageInv`), and on a pigeonhole argument: a way up that meets more
versions than are listed would meet one twice.

Of `StatisticsLab`, for any tables and limits (`TablesAssumption`: a table is a sequence of
its rows): `OfferedIsRun` and `PanelsAgree`.  The lemmas they share count: the rows of a
table are the sum, over any way to tell its rows apart, of the parts (`SumOfParts`,
proved for the fold over a finite function), and a coarser way to tell values apart has
no more of them (`ImageIsFinite`, `FewerValues`).  Then the offer is followed into each
service, and each answer to its counts.

Of `KpiCatalog`, for any catalogs and any edits of them (`CatalogAssumption`: a catalog is a
list of KPIs, each with an id and a list of needs that are text, as the schema has it):
`CatalogIsOrdered`.  The invariant of a walk (`WalkInv`) says that the calls under way are a way
along needs and, until a cycle is reported, that whatever a call has passed is done or is the
next call, and that a KPI stands in the order after what it needs.  A turn does
something that was never done before and there are only finitely many such things
(`WalkGoesOn`, `StepsAreFinite`), so the walk ends and has
visited all (`WalkIsOver`).  What is reported is a cycle, since it goes up the parents within the
calls under way (`CycleIsReal`); conversely a KPI on a cycle needs itself within as many joins
as there are KPIs (`CycleNeedsItself`), which none does where the walk left an order
(`AllNeedsGoBack`).  The emitters keep that order for the visible KPIs (`WhatIsShown`); for the
page, `CatalogInv` adds that what it has read is no newer than the file.

Of `DimTime`, for any range of days, week and fiscal year (`TimeAssumption`: they are
integers): `CalendarIsAligned`.  A day is taken apart into era, year, month and day, each a
quotient of the rest; the day after it is the next of its month, or begins a month, a
year or an era, and weeks, fiscal quarters and `time_id` follow.

Of `PowerBIPackage`, for any exports, star folders and builds, with no assumption on the
constants: `PackageIsConnected`.  The property speaks of a package that is done; its
invariant (`PackageInv`) of one under way (`BuildIsOnItsWay`): which tables are already those of
the one export (`IsCopied`), that a build that goes by the command has its calendar in the
folder from the start, and that nothing is replied before the end.  That what an older build left behind
cannot be mistaken for the new one is the conjunct that at the end no table is left to be
copied.  Then every key of a whole package is computed from the export's tables
(`KeysOfRun`) and every source of a built-in measure is looked up in their headers
(`WholeHeaders`, `SourcesOfMeasures`).

### Analysis of a file

`AnalysisProofs`, of `AssessmentPages` for any files, rules, edits, chunks and limits of the
preview (`InputsAssumption`: a file is a sheet of cells under distinct names, rules
are weights and flags, in range or not; `OverviewAssumption`: limits are
positive, a preview has room for all callouts that ask for attention and for the picks
of its three strategies, as the constants of `smart_data_overview.py` have;
`ProfilingAssumption`):

- `ScoreIsExplained`.  That what is kept and shown was assessed by rules that were in
  force (`AssessmentInv`) is inductive; the rest compares sums.  A sum of natural numbers
  counts its dots (`SumIsCount`), so sums are compared as sets are: the penalties without
  the frame are part of those with it (`PenaltiesGrow`), a bucket is explained point by
  point (`BucketAddsUp`), and an issue of no critical column weighs the same in both
  (`PenaltyOfIssue`).
- `ChunkedIsPartOfFull`.  The invariant (`StreamInv`) says what the aggregators know after
  the chunks read so far: they stand at the end of a chunk (`AtChunk`), the missing cells
  of the rows read are counted (`NullsAreCounted`), the widened type is that of the rows
  read for a column that does not mix flags with others (`TypeIsSeen`), and bounds are
  those of the rows read until a chunk without a value makes them void
  (`BoundsAreSeen`).  At the end of the file these are the columns of the whole file, and profiles
  that agree so far (`Alike`) have the same issues of the rules that both support.
- `PreviewIsHonest`.  `PreviewInv` adds how the preview of an answer was built.  From
  there: what a stream yields is no fact (`SampleIsNoFact`); an order given by its pairs
  numbers the elements from one on without gaps (`PlacesInOrder`), so the ranking loses
  none of the callouts that ask for attention, of which there are five at most
  (`WhatIsRanked`), and a row that misses the most fields leads its strategy and is
  recorded by it or an earlier one (`WorstRowIsRecorded`); and a column the assessment
  calls all null is called out by its name, as is one it calls constant if no callout
  was cut (`FlaggedIsCalledOut`).

Of `EdaPage`, for any frames of up to `MAX_SUMMARY_COLUMNS` columns, any caps, any choice
and any sample (`ChartsAssumption`: columns are distinct, labels are numbers, every cap on
points and levels is at least two and histograms have at most fifty bins, as in `eda.py`;
`EdaAssumption`: a frame is a table over these columns):

- `ChartsAddUp`.  The invariant (`EdaInv`) says of every view on the page what the property
  does (`EachAddsUp`), and of a trend line and a missingness pattern how they go with the
  view they are compared with; a page is put together of views (`ViewsTogether`), so each
  builder is proved by itself.  Rows are counted by what tells them apart: bins cover the
  values (`BinsCover`), the bucket takes up what is folded
  (`FoldedAddsUp`), the levels that are kept are levels (`TopIsOfLevels`), periods and
  cells tell every row apart (`ImageMarks`), sampled positions keep both ends
  (`EndsArePlotted`), and the bars and the pattern count the same missing cells
  (`BarAddsUp`, `PatternAddsUp`).
- `OfferedIsDrawn`.  `OfferInv` says of every view that it was not refused for the type of a
  column, but for flags, and that it leaves something out only where the guide has a rule
  (`AllTaken`): each tab picks columns by their types (`KindsOfColumns`) and a pair is
  routed by them (`RouteOfColumns`).  The other parts hold of every frame: the three rules
  for an identifier agree (`AllIdentifiersAgree`); each rule of the guide suggests, of
  any frame, only what its view draws (`SuggestionsAreDrawn`; a skewed column varies,
  `ConstantDoesNotLean`); and what is hidden has been said when the list had room
  (`AllIsSaid`).

### Model-checked only

- `EveryCallReturns`: liveness is out of TLAPS's reach here.
- The six violations of section 4.

## 7. Not modelled

- Numbers that are only computed and shown: statistics, p-values, quantiles, coefficients,
  coordinates, sums, memory.  They are floating point; the models keep whether they exist
  and which rows and columns they are of.
- Rendering, widgets and wording, and the command line as a parser of arguments: what a
  click or a command calls is modelled where it decides or changes something.
- The rest of the Statistics Lab (power, theoretical distributions, guidance), the
  recommendations and before/after facts of the Preprocess Studio, and the rebuilding of a
  session's lineage manifest from its folder.
- Queries and comparisons over stored runs, and exporters that write one file from one table
  in one go: they hold no state and decide nothing.
- The ELT pipeline, the executor and the workflow builder: they call given functions in order
  and keep no state.
- Frames of more than `MAX_SUMMARY_COLUMNS` (100) columns in the EDA Explorer: most views and
  rules then look at the first of them alone, and say so.
- Path confinement and name sanitising: names are members of a set.
- Durability after a power failure: the code calls `fsync` on the staging files but the models
  take what a system call did as done.
- Sessions as threads beyond the frame cache: one session's state is not shared.

Four hazards are known and have no model:

- A rerun that Streamlit delivers at an access of `session_state` leaves an activation through a
  `BaseException`, which its rollback does not catch (`dataset_activation.py`).
- The maintenance report is cut to 50 names before their age is looked at, so that 50 young files
  hide an abandoned one (`lifecycle_maintenance.py`).
- Staging files of recipes match none of the owned names and are never offered for deletion
  (the same file).
- A save that fails half-way leaves a truncated file, and the answer is only that it failed
  (`workspace_save.py`).
