---------------------------- MODULE SessionSources ----------------------------
(***************************************************************************)
(* The sources a session shares among its pages: the workspace root and    *)
(* the locations derived from it, databases, identifiers, the path and the *)
(* evidence of exports.                                                    *)
(*                                                                         *)
(* All of them are entries of the session state.  A script run renders one *)
(* page and may write to them; an entry that belongs to a widget of that   *)
(* page is deleted at the end of the first run that does not render it     *)
(* (the rule keys.py states), so an entry without a widget survives and    *)
(* one with a widget does not.  Every click and every visit is one run,    *)
(* and so one step here.                                                   *)
(*                                                                         *)
(* A value is a path, a sequence of its parts; an absent entry is the      *)
(* empty one and a blank text is <<"">>.  Texts of spaces are left out.    *)
(***************************************************************************)
EXTENDS ManagedSession, Sequences, Naturals

CONSTANTS
    RootText,     \* workspace roots a user types
    OtherText,    \* texts a user types elsewhere
    EnvDatabase,  \* the monitoring database of the environment, or <<>>
    MaxEntered,   \* bound: texts a user enters
    MaxExports    \* bound: exports

VARIABLES
    page,     \* the page the session shows
    store,    \* session_state: each key's value
    touched,  \* history: the key the last event was about, "none" else
    taken,    \* history: the keys whose value was taken from the active dataset
    latest,   \* EXPORT_ARTIFACT_CONTEXT
    exports,  \* how many exports have succeeded
    entered   \* how many texts have been entered

sourceHubVars == <<page, store, touched, taken, latest, exports, entered>>

Absent == <<>>
Blank == <<"">>
IsBlank(v) == v \in {Absent, Blank}

\* WORKSPACE_DERIVED_DEFAULTS; no database is ever derived.
Child == [sessionsRoot |-> "sessions", exportOut |-> "exports", pbiOut |-> "powerbi"]
DerivedKey == DOMAIN Child

\* The fields of SOURCE_HUB_FIELDS that hold a text.
SourceKey == DerivedKey \cup {"monitoringDb", "historyDb", "sessionRun", "datasetId"}

\* workspaceRoot and exportRun have no widget on any page.
Key == SourceKey \cup
    {"workspaceRoot", "workspaceInput", "exportRun", "csvPath", "exportOutLocal", "pbiOutLocal"}

\* The text inputs each page renders.  "artifacts" stands for the three pages
\* that look a session up.
Widgets ==
    [start |-> SourceKey \cup {"workspaceInput"},
     export |-> {"csvPath", "exportOutLocal", "pbiOutLocal"},
     history |-> {"historyDb", "datasetId"},
     artifacts |-> {"sessionRun", "sessionsRoot"},
     drift |-> {"monitoringDb"},
     other |-> {}]

NoExport == [run |-> 0]

-----------------------------------------------------------------------------
(* A script run *)

\* get_source_value
Value(s, k) == IF s[k] = Absent THEN Blank ELSE s[k]

\* Only a missing key is seeded, and only with something.
SeedSessionValue(s, k, v) == IF s[k] = Absent /\ ~IsBlank(v) THEN [s EXCEPT ![k] = v] ELSE s

SeedWidgetFromSource(s, target, source) == SeedSessionValue(s, target, Value(s, source))

DeriveWorkspaceDefaults(w) ==
    IF IsBlank(w) THEN <<>> ELSE [k \in DerivedKey |-> Append(w, Child[k])]

\* Seeded fault, not used below: a new root takes its locations along.
SeedDefaultsAlways(s, w) ==
    LET derived == DeriveWorkspaceDefaults(w)
    IN [k \in Key |-> IF k \in DOMAIN derived THEN derived[k] ELSE s[k]]

\* A blank entry is filled; the locations of an earlier root stay.
SeedWorkspaceDefaults(s, w) ==
    LET derived == DeriveWorkspaceDefaults(w)
    IN [k \in Key |-> IF k \in DOMAIN derived /\ IsBlank(s[k]) THEN derived[k] ELSE s[k]]

\* The widget is filled again from the canonical root, which then follows it.
RenderWorkspaceSourceBody(s) ==
    LET r == SeedWidgetFromSource(s, "workspaceInput", "workspaceRoot")
        text == Value(r, "workspaceInput")
    IN SeedWorkspaceDefaults([r EXCEPT !["workspaceInput"] = text, !["workspaceRoot"] = text], text)

SeedExportDefaults(s, context) ==
    LET path == IF context = None THEN Blank ELSE <<"path", context>>
        a == SeedSessionValue(s, "csvPath", path)
        b == SeedWidgetFromSource(a, "exportOutLocal", "exportOut")
    IN SeedWidgetFromSource(b, "pbiOutLocal", "pbiOut")

\* What a page writes before its inputs are rendered, which makes them present.
RunPage(p, s, context) ==
    LET seeded ==
          CASE p = "start"  -> RenderWorkspaceSourceBody(s)
            [] p = "export" -> SeedExportDefaults(s, context)
            [] p = "drift"  -> SeedSessionValue(s, "monitoringDb", EnvDatabase)
            [] OTHER        -> s
    IN [k \in Key |-> IF k \in Widgets[p] THEN Value(seeded, k) ELSE seeded[k]]

\* Entries that the Export page takes from the context in this run.
SeededNow(p, s, context) == IF p = "export" /\ s["csvPath"] = Absent /\ context # None THEN {"csvPath"} ELSE {}

Without(s, keys) == [k \in Key |-> IF k \in keys THEN Absent ELSE s[k]]

-----------------------------------------------------------------------------
(* Activation *)

\* The keys of DATASET_DERIVED_STATE_KEYS that are sources.
DatasetDerived == {"csvPath", "datasetId"}

\* Seeded fault, not used below: what the user may have typed always survives.
KeepTyped(hadContext) == {}

\* Nothing is stale before the first activation: these two survive it.
KeysToInvalidate(hadContext) == IF hadContext THEN DatasetDerived ELSE {}

\* activate_dataset_context, clear_dataset_context over the sources.
Cleared(s) ==
    IF mirror' = mirror THEN s ELSE Without(s, KeysToInvalidate(mirror # None))

SourcesInit ==
    /\ page = "start"
    /\ store = RunPage("start", [k \in Key |-> Absent], None)
    /\ touched = "none"
    /\ taken = {}
    /\ latest = NoExport
    /\ exports = 0
    /\ entered = 0

\* The two entries that were taken from a dataset and are still there.
StillTaken == {k \in taken : store'[k] # Absent}

\* Navigation: the new page is run, then the widgets of the old one are deleted.
Visit(p) ==
    /\ p # page
    /\ page' = p
    /\ store' = Without(RunPage(p, store, mirror), Widgets[page] \ Widgets[p])
    /\ taken' = StillTaken \cup SeededNow(p, store, mirror)
    /\ touched' = "none"
    /\ UNCHANGED <<vars, latest, exports, entered>>

Texts(k) ==
    {Blank} \cup
    CASE k = "workspaceInput" -> {<<w>> : w \in RootText}
      [] k = "csvPath"        -> {<<"path", d>> : d \in Manual \cup known}
      [] OTHER                -> {<<t>> : t \in OtherText}

\* The user types into an input of the page.
Enter(k, v) ==
    /\ k \in Widgets[page]
    /\ entered < MaxEntered
    /\ entered' = entered + 1
    /\ store' = RunPage(page, [store EXCEPT ![k] = v], mirror)
    /\ taken' = taken \ {k}
    /\ touched' = k
    /\ UNCHANGED <<vars, page, latest, exports>>

\* "Use dataset" and "Clear dataset", before the sources are rendered.
Choose ==
    /\ page = "start"
    /\ ClearDataset \/ \E m \in Manual : UseDataset(m)
    /\ store' = RunPage("start", Cleared(store), mirror')
    /\ taken' = {k \in taken : Cleared(store)[k] # Absent}
    /\ touched' = "none"
    /\ UNCHANGED <<page, latest, exports, entered>>

\* "Set active" in the history, after they are: a deleted entry is absent until
\* the next run.  An interrupted activation restores them.
ReopenFromStart ==
    /\ page = "start"
    /\ ~IsBlank(store["workspaceRoot"])
    /\ \E v \in Version : Reopen(v) \/ ReopenInterrupted(v)
    /\ store' = Cleared(store)
    /\ taken' = StillTaken
    /\ touched' = "none"
    /\ UNCHANGED <<page, latest, exports, entered>>

\* "Use current dataset": of the mirror, whether or not a root governs.
UseCurrentDatasetId ==
    /\ page \in {"start", "history"}
    /\ mirror # None
    /\ store' = RunPage(page, [store EXCEPT !["datasetId"] = <<"id", mirror>>], mirror)
    /\ taken' = taken \cup {"datasetId"}
    /\ touched' = "datasetId"
    /\ UNCHANGED <<vars, page, latest, exports, entered>>

-----------------------------------------------------------------------------
(* Export *)

\* By paths alone: two datasets never share one.
ClassifyExportSource(d, context) ==
    [status |-> IF context = None THEN "no_active_dataset"
                ELSE IF d # context THEN "explicit_override"
                ELSE IF d \in Version THEN "active_managed" ELSE "active_legacy",
     version |-> IF context = d /\ d \in Version THEN d ELSE None,
     binding |-> d]

ClassifyVerifiedManaged(v) == [status |-> "active_managed", version |-> v, binding |-> v]

\* Root first; without one the path in the input is exported.
ExportSource == IF root # None THEN root ELSE store["csvPath"][2]

ExportSourceAlignment ==
    IF root # None THEN ClassifyVerifiedManaged(root)
    ELSE ClassifyExportSource(ExportSource, mirror)

\* Blank entries only; a database that was not written is not handed on.
SeedQualityHistoryHandoff(s, result) ==
    LET handed(k, v) == IF ~IsBlank(v) /\ IsBlank(s[k]) THEN v ELSE s[k]
    IN [s EXCEPT
          !["historyDb"] = handed("historyDb", IF result.persisted THEN result.db ELSE Blank),
          !["datasetId"] = handed("datasetId", result.dataset)]

\* The latest success wins; the session's run is another entry.
RecordExportRunId(s, result) == [s EXCEPT !["exportRun"] = <<"run", result.run>>]

RunExport ==
    /\ page = "export" /\ exports < MaxExports
    /\ ~IsBlank(store["exportOutLocal"])
    /\ root # None \/ ~IsBlank(store["csvPath"])
    /\ exports' = exports + 1
    /\ \E persisted \in BOOLEAN :
         LET result == [run |-> exports + 1, dataset |-> <<"id", ExportSource>>,
                        db |-> Append(store["exportOutLocal"], "dqt.db"), persisted |-> persisted]
         IN store' = RecordExportRunId(SeedQualityHistoryHandoff(store, result), result)
    /\ latest' = [run |-> exports + 1, read |-> ExportSource, alignment |-> ExportSourceAlignment]
    /\ touched' = "none"
    /\ UNCHANGED <<vars, page, taken, entered>>

\* What the Artifact Center says of it.
CompareLatestExport(export, active) ==
    IF active = None THEN "no_active_dataset"
    ELSE IF active \in Version
      THEN IF export.alignment.version = active THEN "matches_active_managed" ELSE "other_dataset"
    ELSE IF export.alignment.binding = active THEN "matches_active_legacy" ELSE "other_dataset"

SourcesNext ==
    \/ \E p \in DOMAIN Widgets : Visit(p)
    \/ \E k \in Key : \E v \in Texts(k) : Enter(k, v)
    \/ Choose
    \/ ReopenFromStart
    \/ UseCurrentDatasetId
    \/ RunExport

SourcesSpec == Init /\ SourcesInit /\ [][SourcesNext]_<<vars, sourceHubVars>>

-----------------------------------------------------------------------------
(***************************************************************************)
(* Properties                                                              *)
(***************************************************************************)

\* A value a user gave is only replaced by the user, or deleted with the widget
\* or the dataset it belongs to: neither a workspace root, nor an export, nor a
\* visit to another page changes it, and the workspace root, which has no widget
\* of its own, survives every visit ("Existing explicit values always win").
TypedValuesStay ==
    [][\A k \in Key \ {"exportRun"} :
         ~IsBlank(store[k]) /\ store'[k] # store[k] =>
            \/ touched' = k
            \/ k = "workspaceRoot" /\ touched' = "workspaceInput"
            \/ k \in Widgets[page] \ Widgets[page'] /\ store'[k] = Absent
            \/ k \in DatasetDerived /\ mirror # mirror' /\ IsBlank(store'[k])]_<<vars, sourceHubVars>>

\* What was taken from an active dataset goes when another becomes active: "a new
\* dataset never inherits the previous dataset's identity" (_keys_to_invalidate); and an
\* export that is said to be of the active dataset has read it, whichever of root, mirror
\* and path it went by (compare_latest_export).
TakenIsOfActive ==
    /\ \A k \in taken : store[k] # Blank => store[k][2] = mirror
    /\ latest # NoExport /\ CompareLatestExport(latest, mirror) \in {"matches_active_managed", "matches_active_legacy"}
         => latest.read = mirror

===============================================================================
