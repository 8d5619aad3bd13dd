----------------------------- MODULE WorkbenchProofs -----------------------------
(***************************************************************************)
(* Proofs about what a user does with the datasets of a workspace: about   *)
(* ManagedSession and the sources of SessionSources, for any number of     *)
(* versions, files and texts, and about ManagedExport, for any number of   *)
(* calls, versions, files and changes.                                     *)
(*                                                                         *)
(* The lineage is true because confirmation takes its parent from the same *)
(* authority that gave the page its rows, and because reprocessing insists *)
(* that the draft belongs to the root.  Of exports, the invariant says of  *)
(* every point of a call what its properties say of the end.               *)
(***************************************************************************)
EXTENDS SessionSources, ManagedExport, TLAPS

IInv == TypeOK /\ LineageIsTruth /\ OnlyRegisteredVersions

\* A session starts with nothing governing and a truthful lineage.
LEMMA InitIInv == Init => IInv
BY DatasetAssumption DEF Init, IInv, TypeOK, LineageIsTruth, OnlyRegisteredVersions, Dataset

\* What a page can work on governs it, or is a file when nothing does.
LEMMA GoverningIsDataset ==
    ASSUME IInv
    PROVE  /\ Governing \in known \cup Manual \cup {None}
           /\ Governing # None => Governing = IF root # None THEN root ELSE mirror
BY DatasetAssumption
   DEF IInv, TypeOK, OnlyRegisteredVersions, Governing, FailClosed, Dataset

\* Registering one version whose parent is the dataset its rows are from keeps
\* the workspace part of the invariant.
LEMMA RegisterKeepsLineage ==
    ASSUME IInv, NEW v \in Version \ known, NEW d \in known \cup Manual,
           known' = known \cup {v},
           parent' = [parent EXCEPT ![v] = d],
           origin' = [origin EXCEPT ![v] = d],
           UNCHANGED <<root, mirror>>,
           handoff' \in {handoff, v}, UNCHANGED <<steps, draft>>
    PROVE  IInv'
<1> USE DatasetAssumption DEF IInv, TypeOK, LineageIsTruth, OnlyRegisteredVersions, Dataset
<1>1. TypeOK'
  OBVIOUS
<1>2. LineageIsTruth'
  OBVIOUS
<1>3. OnlyRegisteredVersions'
  <2>1. ({root, mirror, handoff, draft} \cap Version \subseteq known)'
    OBVIOUS
  <2>2. ASSUME NEW w \in Version
        PROVE  (parent[w] \in (known \ {w}) \cup Manual \cup {None})'
    OBVIOUS
  <2> QED BY <2>1, <2>2
<1> QED BY <1>1, <1>2, <1>3

\* Every click, and a stutter, keeps the invariant.
LEMMA NextIInv == IInv /\ [Next]_vars => IInv'
<1> SUFFICES ASSUME IInv, [Next]_vars PROVE IInv'
  OBVIOUS
<1> USE DatasetAssumption
<1>a. UNCHANGED vars => IInv'
  BY DEF vars, IInv, TypeOK, LineageIsTruth, OnlyRegisteredVersions, Dataset
<1>1. ASSUME NEW m \in Manual, UseDataset(m) PROVE IInv'
  BY <1>1 DEF UseDataset, Activate, workspaceVars,
              IInv, TypeOK, LineageIsTruth, OnlyRegisteredVersions, Dataset
<1>2. CASE ClearDataset
  BY <1>2 DEF ClearDataset, workspaceVars,
              IInv, TypeOK, LineageIsTruth, OnlyRegisteredVersions, Dataset
<1>3. ASSUME NEW v \in Version, Reopen(v) PROVE IInv'
  BY <1>3 DEF Reopen, Activate, workspaceVars,
              IInv, TypeOK, LineageIsTruth, OnlyRegisteredVersions, Dataset
<1>4. ASSUME NEW v \in Version, ReopenInterrupted(v) PROVE IInv'
  BY <1>4 DEF ReopenInterrupted, workspaceVars,
              IInv, TypeOK, LineageIsTruth, OnlyRegisteredVersions, Dataset
<1>5. ASSUME NEW d \in Dataset, AddStep(d) PROVE IInv'
  <2>1. d \in Version \cup Manual
    BY <1>5, GoverningIsDataset DEF AddStep, PageDatasets, IInv, TypeOK
  <2> QED BY <1>5, <2>1 DEF AddStep, workspaceVars,
              IInv, TypeOK, LineageIsTruth, OnlyRegisteredVersions, Dataset
<1>6. CASE ClearRecipe
  BY <1>6 DEF ClearRecipe, workspaceVars,
              IInv, TypeOK, LineageIsTruth, OnlyRegisteredVersions, Dataset
<1>7. ASSUME NEW v \in Version, Confirm(v) PROVE IInv'
  <2>1. /\ Governing \in known \cup Manual
        /\ Governing = IF root # None THEN root ELSE mirror
    BY <1>7, GoverningIsDataset DEF Confirm
  <2> QED BY <1>7, <2>1, RegisterKeepsLineage DEF Confirm
<1>8. ASSUME NEW v \in Version, ConfirmChild(v) PROVE IInv'
  <2>1. root \in known
    BY <1>8 DEF ConfirmChild, IInv, TypeOK, OnlyRegisteredVersions
  <2> QED BY <1>8, <2>1, RegisterKeepsLineage DEF ConfirmChild
<1>9. CASE ConfirmFails
  BY <1>9 DEF ConfirmFails, workspaceVars,
              IInv, TypeOK, LineageIsTruth, OnlyRegisteredVersions, Dataset
<1>10. CASE SetActive
  BY <1>10 DEF SetActive, Activate, workspaceVars,
              IInv, TypeOK, LineageIsTruth, OnlyRegisteredVersions, Dataset
<1>11. CASE LoadRecipe
  BY <1>11 DEF LoadRecipe, workspaceVars,
              IInv, TypeOK, LineageIsTruth, OnlyRegisteredVersions, Dataset
<1> QED BY <1>a, <1>1, <1>2, <1>3, <1>4, <1>5, <1>6, <1>7, <1>8, <1>9, <1>10, <1>11 DEF Next

\* The invariant holds throughout every session.
LEMMA SpecIInv == Spec => []IInv
BY InitIInv, NextIInv, PTL DEF Spec

\* The session state stays well formed.
THEOREM SessionTypeCorrect == Spec => []TypeOK
<1>1. IInv => TypeOK BY DEF IInv
<1> QED BY <1>1, SpecIInv, PTL

\* Every version records as its parent the dataset its rows were made from.
THEOREM LineageIsTrue == Spec => []LineageIsTruth
<1>1. IInv => LineageIsTruth BY DEF IInv
<1> QED BY <1>1, SpecIInv, PTL

\* Nothing that is not registered governs, is offered, or becomes a parent.
THEOREM UnregisteredStaysOut == Spec => []OnlyRegisteredVersions
<1>1. IInv => OnlyRegisteredVersions BY DEF IInv
<1> QED BY <1>1, SpecIInv, PTL

\* Only a reopen displaces a version that governs.
THEOREM RootPrevails == Spec => TrustIsNotOutranked
<1>1. ASSUME Next, root # None, ~(\E v \in Version : Reopen(v) \/ ReopenInterrupted(v))
      PROVE  root' = root
  BY <1>1 DEF Next, UseDataset, ClearDataset, AddStep, ClearRecipe, Confirm, ConfirmChild,
              ConfirmFails, SetActive, LoadRecipe
<1>2. ASSUME root # None, root' = root
      PROVE  Governing' = Governing
  BY <1>2 DEF Governing
<1>3. [Next]_vars =>
        [root # None /\ ~(\E v \in Version : Reopen(v) \/ ReopenInterrupted(v))
            => Governing' = Governing]_vars
  BY <1>1, <1>2 DEF vars
<1> QED BY <1>3, PTL DEF Spec, TrustIsNotOutranked

-----------------------------------------------------------------------------
(***************************************************************************)
(* The sources the pages share                                             *)
(***************************************************************************)

\* The workspace root has no widget and is written by that of another entry: what
\* keeps it is that the two agree while the Start page shows the widget, and that
\* there is none on any other page.
RootFollowsInput ==
    IF page = "start"
    THEN store["workspaceInput"] # Absent /\ store["workspaceRoot"] = store["workspaceInput"]
    ELSE store["workspaceInput"] = Absent

StoreInv ==
    /\ page \in DOMAIN Widgets
    /\ DOMAIN store = Key
    /\ RootFollowsInput

\* A script run writes to entries that are blank, but for the root.
LEMMA RunPageKeeps ==
    ASSUME NEW p \in DOMAIN Widgets, NEW s, DOMAIN s = Key, NEW c, NEW k \in Key,
           ~IsBlank(s[k]), k # "workspaceRoot"
    PROVE  RunPage(p, s, c)[k] = s[k]
BY DEF RunPage, Widgets, Value, RenderWorkspaceSourceBody, SeedExportDefaults,
       SeedSessionValue, SeedWidgetFromSource, SeedWorkspaceDefaults, IsBlank, Absent, Blank, Key

\* A root gives the derived locations, a blank one none.
LEMMA DerivedOnly ==
    ASSUME NEW w
    PROVE  DOMAIN DeriveWorkspaceDefaults(w) \subseteq DerivedKey
<1>1. CASE IsBlank(w)
  <2>1. DeriveWorkspaceDefaults(w) = <<>>
    BY <1>1 DEF DeriveWorkspaceDefaults
  <2>2. DOMAIN <<>> = {}
    OBVIOUS
  <2> QED
    BY <2>1, <2>2
<1>2. CASE ~IsBlank(w)
  <2>1. DeriveWorkspaceDefaults(w) = [k \in DerivedKey |-> Append(w, Child[k])]
    BY <1>2 DEF DeriveWorkspaceDefaults
  <2> HIDE DEF DerivedKey
  <2> QED
    BY <2>1
<1> QED
  BY <1>1, <1>2

\* What a script run leaves of the root and its widget.
LEMMA RunPageRoot ==
    ASSUME NEW p \in DOMAIN Widgets, NEW s, DOMAIN s = Key, NEW c
    PROVE  /\ DOMAIN RunPage(p, s, c) = Key
           /\ p # "start" => /\ RunPage(p, s, c)["workspaceRoot"] = s["workspaceRoot"]
                             /\ RunPage(p, s, c)["workspaceInput"] = s["workspaceInput"]
           /\ p = "start" =>
                /\ RunPage(p, s, c)["workspaceInput"] # Absent
                /\ RunPage(p, s, c)["workspaceRoot"] = RunPage(p, s, c)["workspaceInput"]
                /\ s["workspaceInput"] # Absent =>
                     RunPage(p, s, c)["workspaceRoot"] = s["workspaceInput"]
                /\ s["workspaceInput"] = Absent =>
                     RunPage(p, s, c)["workspaceRoot"] = Value(s, "workspaceRoot")
<1> USE DEF IsBlank, Absent, Blank, Value
<1>1. DOMAIN RunPage(p, s, c) = Key
  BY DEF RunPage
<1>2. CASE p # "start"
  <2>1. {"workspaceRoot", "workspaceInput"} \cap Widgets[p] = {}
    BY <1>2 DEF Widgets, SourceKey, DerivedKey, Child
  <2>2. /\ SeedExportDefaults(s, c)["workspaceRoot"] = s["workspaceRoot"]
        /\ SeedExportDefaults(s, c)["workspaceInput"] = s["workspaceInput"]
        /\ SeedSessionValue(s, "monitoringDb", EnvDatabase)["workspaceRoot"] = s["workspaceRoot"]
        /\ SeedSessionValue(s, "monitoringDb", EnvDatabase)["workspaceInput"] = s["workspaceInput"]
    BY DEF SeedExportDefaults, SeedWidgetFromSource, SeedSessionValue, Key
  <2> QED
    BY <1>1, <1>2, <2>1, <2>2 DEF RunPage, Key
<1>3. CASE p = "start"
  <2> DEFINE r == SeedWidgetFromSource(s, "workspaceInput", "workspaceRoot")
             text == Value(r, "workspaceInput")
             t == [r EXCEPT !["workspaceInput"] = text, !["workspaceRoot"] = text]
  <2>1. DOMAIN r = Key /\ DOMAIN t = Key
    BY DEF SeedWidgetFromSource, SeedSessionValue
  <2>2. t["workspaceInput"] = text /\ t["workspaceRoot"] = text
    BY <2>1 DEF Key
  <2>3. /\ SeedWorkspaceDefaults(t, text)["workspaceInput"] = text
        /\ SeedWorkspaceDefaults(t, text)["workspaceRoot"] = text
    <3>1. DOMAIN DeriveWorkspaceDefaults(text) \subseteq DerivedKey
      BY DerivedOnly
    <3>2. DerivedKey = {"sessionsRoot", "exportOut", "pbiOut"}
      BY DEF DerivedKey, Child
    <3> QED
      BY <2>2, <3>1, <3>2 DEF SeedWorkspaceDefaults, Key
  <2>4. /\ RunPage(p, s, c)["workspaceInput"] = text
        /\ RunPage(p, s, c)["workspaceRoot"] = text
    BY <1>3, <2>3 DEF RunPage, RenderWorkspaceSourceBody, Key
  <2>5. text # Absent
    OBVIOUS
  <2>6. s["workspaceInput"] # Absent => text = s["workspaceInput"]
    BY DEF SeedWidgetFromSource, SeedSessionValue
  <2>7. s["workspaceInput"] = Absent => text = Value(s, "workspaceRoot")
    BY DEF SeedWidgetFromSource, SeedSessionValue, Key
  <2> QED
    BY <1>1, <1>3, <2>4, <2>5, <2>6, <2>7
<1> QED
  BY <1>2, <1>3

\* Widgets the proofs tell apart: no page shows the root, only Start its input.
LEMMA PageWidgets ==
    ASSUME NEW p \in DOMAIN Widgets
    PROVE  /\ Widgets[p] \subseteq Key
           /\ "workspaceRoot" \notin Widgets[p]
           /\ "workspaceInput" \in Widgets[p] <=> p = "start"
BY DEF Widgets, Key, SourceKey, DerivedKey, Child

\* A dataset's own entries, deleted, stay blank in the run that follows on Start.
LEMMA StartLeavesDerived ==
    ASSUME NEW s, DOMAIN s = Key, NEW c, NEW k \in DatasetDerived, s[k] = Absent
    PROVE  IsBlank(RunPage("start", s, c)[k])
<1>1. k \in {"csvPath", "datasetId"} /\ k \in Key
  BY DEF DatasetDerived, Key, SourceKey
<1> DEFINE r == SeedWidgetFromSource(s, "workspaceInput", "workspaceRoot")
           text == Value(r, "workspaceInput")
           t == [r EXCEPT !["workspaceInput"] = text, !["workspaceRoot"] = text]
<1>2. DOMAIN r = Key /\ DOMAIN t = Key
  BY DEF SeedWidgetFromSource, SeedSessionValue
<1>3. t[k] = Absent
  BY <1>1, <1>2 DEF SeedWidgetFromSource, SeedSessionValue
<1>4. SeedWorkspaceDefaults(t, text)[k] = Absent
  <2>1. k \notin DOMAIN DeriveWorkspaceDefaults(text)
    BY <1>1, DerivedOnly DEF DerivedKey, Child
  <2> QED
    BY <1>1, <1>3, <2>1 DEF SeedWorkspaceDefaults
<1>5. RenderWorkspaceSourceBody(s)[k] = Absent
  BY <1>4 DEF RenderWorkspaceSourceBody
<1> QED
  BY <1>1, <1>5 DEF RunPage, Value, IsBlank

\* Entering and writing one entry are one assignment.
LEMMA Written ==
    ASSUME NEW s, DOMAIN s = Key, NEW k, NEW v
    PROVE  /\ DOMAIN [s EXCEPT ![k] = v] = Key
           /\ \A j \in Key \ {k} : [s EXCEPT ![k] = v][j] = s[j]
           /\ k \in Key => [s EXCEPT ![k] = v][k] = v
OBVIOUS

\* An activation deletes a dataset's own entries and no other.
LEMMA ClearedOnlyDerived ==
    ASSUME DOMAIN store = Key
    PROVE  /\ DOMAIN Cleared(store) = Key
           /\ \A k \in Key : Cleared(store)[k] # store[k] =>
                 k \in DatasetDerived /\ mirror' # mirror /\ Cleared(store)[k] = Absent
           /\ mirror' # mirror /\ mirror # None =>
                 \A k \in DatasetDerived : Cleared(store)[k] = Absent
BY DEF Cleared, Without, KeysToInvalidate, DatasetDerived, Key, SourceKey

\* An export writes to two blank entries and its own.
LEMMA HandoffFillsBlanks ==
    ASSUME NEW s, DOMAIN s = Key, NEW result
    PROVE  LET t == RecordExportRunId(SeedQualityHistoryHandoff(s, result), result)
           IN  /\ DOMAIN t = Key
               /\ \A k \in Key : t[k] # s[k] =>
                     k = "exportRun" \/ (k \in {"historyDb", "datasetId"} /\ IsBlank(s[k]))
BY DEF RecordExportRunId, SeedQualityHistoryHandoff

\* What one step may do to the entries (the body of TypedValuesStay).
TypedStep ==
    \A k \in Key \ {"exportRun"} :
       ~IsBlank(store[k]) /\ store'[k] # store[k] =>
          \/ touched' = k
          \/ k = "workspaceRoot" /\ touched' = "workspaceInput"
          \/ k \in Widgets[page] \ Widgets[page'] /\ store'[k] = Absent
          \/ k \in DatasetDerived /\ mirror # mirror' /\ IsBlank(store'[k])

\* A visit deletes the widgets of the page it leaves, and the root, which Start
\* takes from the canonical entry, is not among them.
LEMMA VisitKeeps ==
    ASSUME StoreInv, NEW p \in DOMAIN Widgets, Visit(p)
    PROVE  StoreInv' /\ TypedStep
<1> DEFINE run == RunPage(p, store, mirror)
<1>1. /\ p # page /\ page' = p
      /\ store' = Without(run, Widgets[page] \ Widgets[p])
  BY DEF Visit
<1>2. DOMAIN run = Key /\ DOMAIN store = Key /\ page \in DOMAIN Widgets
  BY RunPageRoot DEF StoreInv
<1>3. DOMAIN store' = Key
  BY <1>1 DEF Without
<1> HIDE DEF run
<1>4. \A k \in Key : store'[k] = IF k \in Widgets[page] \ Widgets[p] THEN Absent ELSE run[k]
  BY <1>1 DEF Without
<1>5. {"workspaceRoot", "workspaceInput"} \subseteq Key
  BY DEF Key
<1>6. RootFollowsInput'
  <2>1. CASE p = "start"
    <3>1. run["workspaceInput"] # Absent /\ run["workspaceRoot"] = run["workspaceInput"]
      BY <1>2, <2>1, RunPageRoot DEF run
    <3> QED
      BY <1>1, <1>2, <1>4, <1>5, <2>1, <3>1, PageWidgets DEF RootFollowsInput
  <2>2. CASE p # "start"
    <3>1. run["workspaceInput"] = store["workspaceInput"]
      BY <1>2, <2>2, RunPageRoot DEF run
    <3>2. CASE page = "start"
      BY <1>1, <1>2, <1>4, <1>5, <2>2, <3>2, PageWidgets DEF RootFollowsInput
    <3>3. CASE page # "start"
      <4>1. store["workspaceInput"] = Absent
        BY <3>3 DEF StoreInv, RootFollowsInput
      <4> QED
        BY <1>1, <1>2, <1>4, <1>5, <2>2, <3>1, <4>1 DEF RootFollowsInput
    <3> QED
      BY <3>2, <3>3
  <2> QED
    BY <2>1, <2>2
<1>7. ASSUME NEW k \in Key, ~IsBlank(store[k]), store'[k] # store[k]
      PROVE  k \in Widgets[page] \ Widgets[page'] /\ store'[k] = Absent
  <2>1. run[k] = store[k]
    <3>1. CASE k # "workspaceRoot"
      BY <1>2, <1>7, <3>1, RunPageKeeps DEF run
    <3>2. CASE k = "workspaceRoot" /\ p # "start"
      BY <1>2, <3>2, RunPageRoot DEF run
    <3>3. CASE k = "workspaceRoot" /\ p = "start"
      <4>1. store["workspaceInput"] = Absent
        BY <1>1, <3>3 DEF StoreInv, RootFollowsInput
      <4>2. run["workspaceRoot"] = Value(store, "workspaceRoot")
        BY <1>2, <3>3, <4>1, RunPageRoot DEF run
      <4> QED
        BY <1>7, <3>3, <4>2 DEF Value, IsBlank
    <3> QED
      BY <3>1, <3>2, <3>3
  <2> QED
    BY <1>1, <1>4, <1>7, <2>1
<1> QED
  BY <1>1, <1>3, <1>6, <1>7 DEF StoreInv, TypedStep

\* Writing one entry and running the page changes that one alone, and the root
\* with its input.
LEMMA WriteKeeps ==
    ASSUME StoreInv, NEW j \in Key \ {"workspaceRoot"}, NEW v, NEW c,
           j = "workspaceInput" => page = "start",
           page' = page,
           store' = RunPage(page, [store EXCEPT ![j] = v], c),
           touched' = j
    PROVE  StoreInv' /\ TypedStep
<1> DEFINE s == [store EXCEPT ![j] = v]
<1>1. DOMAIN store = Key /\ page \in DOMAIN Widgets
  BY DEF StoreInv
<1>2. DOMAIN s = Key /\ (\A k \in Key \ {j} : s[k] = store[k]) /\ store' = RunPage(page, s, c)
  BY <1>1, Written
<1> HIDE DEF s
<1>3. {"workspaceRoot", "workspaceInput"} \subseteq Key
  BY DEF Key
<1>4. DOMAIN store' = Key
  BY <1>1, <1>2, RunPageRoot
<1>5. RootFollowsInput' /\ (j # "workspaceInput" => store'["workspaceRoot"] = store["workspaceRoot"])
  <2>1. page = "start" => RootFollowsInput'
    BY <1>1, <1>2, RunPageRoot DEF RootFollowsInput
  <2>2. page # "start" => RootFollowsInput'
    BY <1>1, <1>2, <1>3, RunPageRoot DEF StoreInv, RootFollowsInput
  <2>3. j # "workspaceInput" => store'["workspaceRoot"] = store["workspaceRoot"]
    BY <1>1, <1>2, <1>3, RunPageRoot DEF StoreInv, RootFollowsInput
  <2> QED
    BY <2>1, <2>2, <2>3
<1>6. ASSUME NEW k \in Key, ~IsBlank(store[k]), store'[k] # store[k], k # j
      PROVE  k = "workspaceRoot" /\ j = "workspaceInput"
  <2>1. s[k] = store[k]
    BY <1>2, <1>6
  <2>2. k # "workspaceRoot" => store'[k] = s[k]
    BY <1>1, <1>2, <1>6, <2>1, RunPageKeeps
  <2> QED
    BY <1>5, <1>6, <2>1, <2>2
<1> QED
  BY <1>1, <1>4, <1>5, <1>6 DEF StoreInv, TypedStep

\* A click on Start runs the page over what activation left: the root follows its
\* input, which activation does not delete.
LEMMA ChooseKeeps ==
    ASSUME StoreInv, Choose
    PROVE  StoreInv' /\ TypedStep
<1> DEFINE s == Cleared(store)
<1>1. page = "start" /\ page' = page /\ store' = RunPage("start", s, mirror')
  BY DEF Choose
<1>2. /\ DOMAIN s = Key /\ DOMAIN store = Key
      /\ \A k \in Key : s[k] # store[k] =>
            k \in DatasetDerived /\ mirror' # mirror /\ s[k] = Absent
  BY ClearedOnlyDerived DEF StoreInv
<1> HIDE DEF s
<1>3. "start" \in DOMAIN Widgets /\ {"workspaceRoot", "workspaceInput"} \subseteq Key \ DatasetDerived
  BY DEF Widgets, Key, DatasetDerived
<1>4. /\ store["workspaceInput"] # Absent
      /\ store["workspaceRoot"] = store["workspaceInput"]
      /\ s["workspaceInput"] = store["workspaceInput"]
  BY <1>1, <1>2, <1>3 DEF StoreInv, RootFollowsInput
<1>5. /\ DOMAIN store' = Key
      /\ store'["workspaceInput"] # Absent
      /\ store'["workspaceRoot"] = store'["workspaceInput"]
      /\ store'["workspaceRoot"] = store["workspaceRoot"]
  BY <1>1, <1>2, <1>3, <1>4, RunPageRoot
<1>6. ASSUME NEW k \in Key, ~IsBlank(store[k]), store'[k] # store[k]
      PROVE  k \in DatasetDerived /\ mirror # mirror' /\ IsBlank(store'[k])
  <2>1. k # "workspaceRoot"
    BY <1>5, <1>6
  <2>2. s[k] # store[k]
    BY <1>1, <1>2, <1>3, <1>6, <2>1, RunPageKeeps
  <2>3. k \in DatasetDerived /\ mirror # mirror' /\ s[k] = Absent
    BY <1>2, <2>2
  <2> QED
    BY <1>1, <1>2, <2>3, StartLeavesDerived
<1> QED
  BY <1>1, <1>3, <1>5, <1>6 DEF StoreInv, TypedStep, RootFollowsInput

\* Reopening deletes a dataset's own entries and runs no page.
LEMMA ReopenKeeps ==
    ASSUME StoreInv, ReopenFromStart
    PROVE  StoreInv' /\ TypedStep
<1>1. page = "start" /\ page' = page /\ store' = Cleared(store)
  BY DEF ReopenFromStart
<1>2. /\ DOMAIN store' = Key
      /\ \A k \in Key : store'[k] # store[k] =>
            k \in DatasetDerived /\ mirror' # mirror /\ store'[k] = Absent
  BY <1>1, ClearedOnlyDerived DEF StoreInv
<1>3. {"workspaceRoot", "workspaceInput"} \subseteq Key \ DatasetDerived
  BY DEF Key, DatasetDerived
<1>4. RootFollowsInput'
  BY <1>1, <1>2, <1>3 DEF StoreInv, RootFollowsInput
<1> QED
  BY <1>1, <1>2, <1>4 DEF StoreInv, TypedStep, IsBlank

\* An export fills blank entries only, and shows no root.
LEMMA ExportKeeps ==
    ASSUME StoreInv, RunExport
    PROVE  StoreInv' /\ TypedStep
<1>1. /\ page = "export" /\ page' = page
      /\ \E result : store' = RecordExportRunId(SeedQualityHistoryHandoff(store, result), result)
  BY DEF RunExport
<1>2. /\ DOMAIN store' = Key
      /\ \A k \in Key : store'[k] # store[k] =>
            k = "exportRun" \/ (k \in {"historyDb", "datasetId"} /\ IsBlank(store[k]))
  BY <1>1, HandoffFillsBlanks DEF StoreInv
<1>3. "workspaceInput" \in Key
  BY DEF Key
<1> QED
  BY <1>1, <1>2, <1>3 DEF StoreInv, TypedStep, RootFollowsInput

\* Every event keeps the entries well formed, and what was typed.
LEMMA SourcesStep ==
    ASSUME StoreInv, SourcesNext
    PROVE  StoreInv' /\ TypedStep
<1>1. ASSUME NEW p \in DOMAIN Widgets, Visit(p) PROVE StoreInv' /\ TypedStep
  BY <1>1, VisitKeeps
<1>2. ASSUME NEW k \in Key, NEW v \in Texts(k), Enter(k, v) PROVE StoreInv' /\ TypedStep
  <2>1. /\ k \in Widgets[page] /\ page' = page /\ touched' = k
        /\ store' = RunPage(page, [store EXCEPT ![k] = v], mirror)
    BY <1>2 DEF Enter
  <2>2. k # "workspaceRoot" /\ (k = "workspaceInput" => page = "start")
    BY <2>1, PageWidgets DEF StoreInv
  <2> QED
    BY <2>1, <2>2, WriteKeeps
<1>3. CASE UseCurrentDatasetId
  <2>1. /\ page' = page /\ touched' = "datasetId"
        /\ store' = RunPage(page, [store EXCEPT !["datasetId"] = <<"id", mirror>>], mirror)
    BY <1>3 DEF UseCurrentDatasetId
  <2>2. "datasetId" \in Key \ {"workspaceRoot"}
    BY DEF Key, SourceKey
  <2> QED
    BY <2>1, <2>2, WriteKeeps
<1> QED
  BY <1>1, <1>2, <1>3, ChooseKeeps, ReopenKeeps, ExportKeeps DEF SourcesNext

\* The first page is run over no entries.
LEMMA InitStoreInv == SourcesInit => StoreInv
<1> SUFFICES ASSUME SourcesInit PROVE StoreInv
  OBVIOUS
<1> DEFINE s == [k \in Key |-> Absent]
<1>1. page = "start" /\ "start" \in DOMAIN Widgets /\ store = RunPage("start", s, None)
  BY DEF SourcesInit, Widgets
<1>2. DOMAIN s = Key
  OBVIOUS
<1> HIDE DEF s
<1> QED
  BY <1>1, <1>2, RunPageRoot DEF StoreInv, RootFollowsInput

\* What a user gave is replaced by the user alone, or deleted with the widget or
\* the dataset it belongs to, whatever is exported, reopened or visited.
THEOREM TypedValuesAreKept == SourcesSpec => TypedValuesStay
<1>1. StoreInv /\ [SourcesNext]_<<vars, sourceHubVars>> => StoreInv'
  <2>1. StoreInv /\ UNCHANGED <<vars, sourceHubVars>> => StoreInv'
    BY DEF sourceHubVars, StoreInv, RootFollowsInput
  <2> QED
    BY <2>1, SourcesStep
<1>2. StoreInv /\ [SourcesNext]_<<vars, sourceHubVars>> => [TypedStep]_<<vars, sourceHubVars>>
  BY SourcesStep
<1>3. TypedValuesStay <=> [][TypedStep]_<<vars, sourceHubVars>>
  BY DEF TypedValuesStay, TypedStep
<1> QED
  BY <1>1, <1>2, <1>3, InitStoreInv, PTL DEF SourcesSpec

\* What was taken from a dataset is there and names the active one; and an export
\* is bound to what it read.  Without an active dataset nothing is taken: else the
\* first activation, which deletes nothing, would leave a stale entry.
TakenInv ==
    /\ taken \subseteq DatasetDerived
    /\ taken # {} => mirror # None
    /\ \A k \in taken : ~IsBlank(store[k]) /\ store[k][2] = mirror

LatestInv ==
    latest # NoExport =>
        /\ latest.alignment.binding = latest.read
        /\ latest.alignment.version \in {None, latest.read}

SourcesInv == StoreInv /\ TakenInv /\ LatestInv

\* The Export page takes the path of the active dataset, and of no other.
LEMMA ExportPathOfActive ==
    ASSUME NEW s, DOMAIN s = Key, NEW c, c # None, s["csvPath"] = Absent
    PROVE  RunPage("export", s, c)["csvPath"] = <<"path", c>>
<1>1. "csvPath" \in Key /\ <<"path", c>> # Absent /\ <<"path", c>> # Blank
  BY DEF Key, Absent, Blank
<1>2. SeedExportDefaults(s, c)["csvPath"] = <<"path", c>>
  BY <1>1 DEF SeedExportDefaults, SeedWidgetFromSource, SeedSessionValue, IsBlank
<1> QED
  BY <1>1, <1>2 DEF RunPage, Value

\* A visit takes at most the path, and loses what it deletes.
LEMMA VisitTakes ==
    ASSUME StoreInv, TakenInv, NEW p \in DOMAIN Widgets, Visit(p)
    PROVE  TakenInv'
<1> DEFINE run == RunPage(p, store, mirror)
<1>1. /\ store' = Without(run, Widgets[page] \ Widgets[p])
      /\ taken' = StillTaken \cup SeededNow(p, store, mirror)
      /\ mirror' = mirror
  BY DEF Visit, vars, workspaceVars
<1>2. DatasetDerived \subseteq Key \ {"workspaceRoot"}
  BY DEF DatasetDerived, Key, SourceKey
<1>3. \A k \in Key : store'[k] = IF k \in Widgets[page] \ Widgets[p] THEN Absent ELSE run[k]
  BY <1>1 DEF Without
<1>4. ASSUME NEW k \in StillTaken
      PROVE  k \in DatasetDerived /\ mirror # None /\ ~IsBlank(store'[k]) /\ store'[k][2] = mirror
  <2>1. /\ k \in taken /\ store'[k] # Absent
        /\ k \in DatasetDerived /\ mirror # None /\ ~IsBlank(store[k]) /\ store[k][2] = mirror
    BY <1>4 DEF StillTaken, TakenInv
  <2>2. run[k] = store[k]
    BY <1>2, <2>1, RunPageKeeps DEF StoreInv
  <2> QED
    BY <1>2, <1>3, <2>1, <2>2
<1>5. ASSUME NEW k \in SeededNow(p, store, mirror)
      PROVE  k \in DatasetDerived /\ mirror # None /\ ~IsBlank(store'[k]) /\ store'[k][2] = mirror
  <2>1. k = "csvPath" /\ p = "export" /\ store["csvPath"] = Absent /\ mirror # None
    BY <1>5 DEF SeededNow
  <2>2. run["csvPath"] = <<"path", mirror>>
    BY <2>1, ExportPathOfActive DEF StoreInv
  <2>3. "csvPath" \in Widgets[p] /\ "csvPath" \in DatasetDerived
    BY <2>1 DEF Widgets, DatasetDerived
  <2>4. store'["csvPath"] = <<"path", mirror>>
    BY <1>2, <1>3, <2>2, <2>3
  <2> QED
    BY <2>1, <2>3, <2>4 DEF IsBlank, Absent, Blank
<1> HIDE DEF run
<1> QED
  BY <1>1, <1>4, <1>5 DEF TakenInv

\* Running a page over entries one of which was written leaves the others taken.
LEMMA WriteTakes ==
    ASSUME StoreInv, TakenInv, NEW j \in Key, NEW v, NEW c, mirror' = mirror,
           store' = RunPage(page, [store EXCEPT ![j] = v], c),
           \/ taken' = taken \ {j}
           \/ /\ taken' = taken \cup {j}
              /\ j \in DatasetDerived /\ mirror # None /\ ~IsBlank(v) /\ v[2] = mirror
    PROVE  TakenInv'
<1> DEFINE s == [store EXCEPT ![j] = v]
<1>1. DOMAIN store = Key /\ page \in DOMAIN Widgets
  BY DEF StoreInv
<1>2. /\ DOMAIN s = Key /\ s[j] = v /\ store' = RunPage(page, s, c)
      /\ \A k \in Key \ {j} : s[k] = store[k]
  BY <1>1, Written
<1>3. DatasetDerived \subseteq Key \ {"workspaceRoot"}
  BY DEF DatasetDerived, Key, SourceKey
<1> HIDE DEF s
<1>4. ASSUME NEW k \in taken'
      PROVE  k \in DatasetDerived /\ mirror # None /\ ~IsBlank(store'[k]) /\ store'[k][2] = mirror
  <2>1. k \in DatasetDerived /\ mirror # None /\ ~IsBlank(s[k]) /\ s[k][2] = mirror
    BY <1>2, <1>3, <1>4 DEF TakenInv
  <2>2. store'[k] = s[k]
    BY <1>1, <1>2, <1>3, <2>1, RunPageKeeps
  <2> QED
    BY <2>1, <2>2
<1> QED
  BY <1>4 DEF TakenInv

\* Another dataset takes what was taken from the last one away.
LEMMA ClearingTakes ==
    ASSUME StoreInv, TakenInv
    PROVE  \A k \in taken : Cleared(store)[k] # Absent =>
              /\ k \in DatasetDerived /\ mirror # None /\ mirror' = mirror
              /\ Cleared(store)[k] = store[k]
<1>1. DatasetDerived \subseteq Key
  BY DEF DatasetDerived, Key, SourceKey
<1> QED
  BY <1>1, ClearedOnlyDerived DEF StoreInv, TakenInv

LEMMA ChooseTakes ==
    ASSUME StoreInv, TakenInv, Choose
    PROVE  TakenInv'
<1> DEFINE s == Cleared(store)
<1>1. /\ store' = RunPage("start", s, mirror')
      /\ taken' = {k \in taken : s[k] # Absent}
      /\ DOMAIN s = Key
  BY ClearedOnlyDerived DEF Choose, StoreInv
<1>2. DatasetDerived \subseteq Key \ {"workspaceRoot"} /\ "start" \in DOMAIN Widgets
  BY DEF DatasetDerived, Key, SourceKey, Widgets
<1>3. \A k \in taken : s[k] # Absent =>
         k \in DatasetDerived /\ mirror # None /\ mirror' = mirror /\ s[k] = store[k]
  BY ClearingTakes
<1> HIDE DEF s
<1>4. ASSUME NEW k \in taken'
      PROVE  k \in DatasetDerived /\ mirror' # None /\ ~IsBlank(store'[k]) /\ store'[k][2] = mirror'
  <2>1. /\ k \in DatasetDerived /\ mirror # None /\ mirror' = mirror /\ s[k] = store[k]
        /\ ~IsBlank(store[k]) /\ store[k][2] = mirror
    BY <1>1, <1>3, <1>4 DEF TakenInv
  <2>2. store'[k] = s[k]
    BY <1>1, <1>2, <2>1, RunPageKeeps
  <2> QED
    BY <2>1, <2>2
<1> QED
  BY <1>4 DEF TakenInv

LEMMA ReopenTakes ==
    ASSUME StoreInv, TakenInv, ReopenFromStart
    PROVE  TakenInv'
<1>1. store' = Cleared(store) /\ taken' = {k \in taken : Cleared(store)[k] # Absent}
  BY DEF ReopenFromStart, StillTaken
<1>2. \A k \in taken : Cleared(store)[k] # Absent =>
         k \in DatasetDerived /\ mirror # None /\ mirror' = mirror /\ Cleared(store)[k] = store[k]
  BY ClearingTakes
<1> QED
  BY <1>1, <1>2 DEF TakenInv

\* An export takes nothing, and is recorded with what it read.
LEMMA ExportTakes ==
    ASSUME StoreInv, TakenInv, RunExport
    PROVE  TakenInv' /\ LatestInv'
<1>1. /\ \E result : store' = RecordExportRunId(SeedQualityHistoryHandoff(store, result), result)
      /\ taken' = taken /\ mirror' = mirror
      /\ latest' = [run |-> exports + 1, read |-> ExportSource, alignment |-> ExportSourceAlignment]
  BY DEF RunExport, vars, workspaceVars
<1>2. \A k \in Key : store'[k] # store[k] =>
         k = "exportRun" \/ (k \in {"historyDb", "datasetId"} /\ IsBlank(store[k]))
  BY <1>1, HandoffFillsBlanks DEF StoreInv
<1>3. DatasetDerived \subseteq Key \ {"exportRun"}
  BY DEF DatasetDerived, Key, SourceKey
<1>4. TakenInv'
  BY <1>1, <1>2, <1>3 DEF TakenInv
<1>5. /\ ExportSourceAlignment.binding = ExportSource
      /\ ExportSourceAlignment.version \in {None, ExportSource}
  BY DEF ExportSourceAlignment, ExportSource, ClassifyVerifiedManaged, ClassifyExportSource
<1>6. latest'.read = ExportSource /\ latest'.alignment = ExportSourceAlignment
  BY <1>1
<1> QED
  BY <1>4, <1>5, <1>6 DEF LatestInv

LEMMA InitSourcesInv == SourcesInit => SourcesInv
BY InitStoreInv DEF SourcesInit, SourcesInv, TakenInv, LatestInv

LEMMA NextSourcesInv == SourcesInv /\ [SourcesNext]_<<vars, sourceHubVars>> => SourcesInv'
<1> SUFFICES ASSUME SourcesInv, [SourcesNext]_<<vars, sourceHubVars>> PROVE SourcesInv'
  OBVIOUS
<1>1. CASE UNCHANGED <<vars, sourceHubVars>>
  BY <1>1 DEF vars, workspaceVars, sourceHubVars,
              SourcesInv, StoreInv, RootFollowsInput, TakenInv, LatestInv
<1>2. ASSUME NEW p \in DOMAIN Widgets, Visit(p) PROVE TakenInv' /\ LatestInv'
  BY <1>2, VisitTakes DEF Visit, SourcesInv, LatestInv
<1>3. ASSUME NEW k \in Key, NEW v \in Texts(k), Enter(k, v) PROVE TakenInv' /\ LatestInv'
  <2>1. /\ mirror' = mirror /\ latest' = latest /\ taken' = taken \ {k}
        /\ store' = RunPage(page, [store EXCEPT ![k] = v], mirror)
    BY <1>3 DEF Enter, vars, workspaceVars
  <2>2. TakenInv'
    BY <2>1, WriteTakes DEF SourcesInv
  <2> QED
    BY <2>1, <2>2 DEF SourcesInv, LatestInv
<1>4. ASSUME Choose PROVE TakenInv' /\ LatestInv'
  BY <1>4, ChooseTakes DEF Choose, SourcesInv, LatestInv
<1>5. ASSUME ReopenFromStart PROVE TakenInv' /\ LatestInv'
  BY <1>5, ReopenTakes DEF ReopenFromStart, SourcesInv, LatestInv
<1>6. ASSUME UseCurrentDatasetId PROVE TakenInv' /\ LatestInv'
  <2> DEFINE id == <<"id", mirror>>
  <2>1. /\ mirror # None /\ mirror' = mirror /\ latest' = latest
        /\ taken' = taken \cup {"datasetId"}
        /\ store' = RunPage(page, [store EXCEPT !["datasetId"] = id], mirror)
    BY <1>6 DEF UseCurrentDatasetId, vars, workspaceVars
  <2>2. /\ "datasetId" \in Key /\ "datasetId" \in DatasetDerived
        /\ ~IsBlank(id) /\ id[2] = mirror
    BY DEF Key, SourceKey, DatasetDerived, IsBlank, Absent, Blank
  <2> HIDE DEF id
  <2>3. TakenInv'
    BY <2>1, <2>2, WriteTakes DEF SourcesInv
  <2> QED
    BY <2>1, <2>3 DEF SourcesInv, LatestInv
<1>7. ASSUME RunExport PROVE TakenInv' /\ LatestInv'
  BY <1>7, ExportTakes DEF SourcesInv
<1>8. SourcesNext => StoreInv'
  BY SourcesStep DEF SourcesInv
<1> QED
  BY <1>1, <1>2, <1>3, <1>4, <1>5, <1>6, <1>7, <1>8 DEF SourcesNext, SourcesInv

\* Nothing that was taken from a dataset outlives it, and an export that is said
\* to be of the active dataset has read it.
THEOREM TakenFollowsActive == SourcesSpec => []TakenIsOfActive
<1>1. SourcesInv => TakenIsOfActive
  <2> SUFFICES ASSUME SourcesInv PROVE TakenIsOfActive
    OBVIOUS
  <2>1. ASSUME latest # NoExport,
               CompareLatestExport(latest, mirror) \in {"matches_active_managed", "matches_active_legacy"}
        PROVE  latest.read = mirror
    <3>1. /\ mirror # None
          /\ latest.alignment.version = mirror \/ latest.alignment.binding = mirror
      BY <2>1 DEF CompareLatestExport
    <3> QED
      BY <2>1, <3>1 DEF SourcesInv, LatestInv
  <2> QED
    BY <2>1 DEF TakenIsOfActive, SourcesInv, TakenInv
<1> QED
  BY <1>1, InitSourcesInv, NextSourcesInv, PTL DEF SourcesSpec

-----------------------------------------------------------------------------
(***************************************************************************)
(* Exports                                                                 *)
(***************************************************************************)


\* A call that has not begun to write is nowhere in the folder.
AbsentBefore ==
    \A c \in Call : pc[c] \in {"idle", "verify", "read", "refused"} =>
        manifest # c /\ \A a \in Artifact : c \notin file[a]

\* A source that was verified is as it was until someone writes to it.
FreshUntilRead ==
    \A c \in Call \ raced : pc[c] # "idle" =>
        /\ job[c].managed => job[c].source \in Version
        /\ job[c].managed /\ pc[c] = "read" => content[job[c].source] = "own"

\* A call that nobody has disturbed owns what it has written so far.
WholeSoFar ==
    \A c \in Call \ disturbed : pc[c] \in {"write", "writing", "emit", "returned"} =>
        /\ \A a \in 1 .. at[c] : file[a] = {c}
        /\ pc[c] = "writing" => file[at[c] + 1] = {c}
        /\ c \in told => manifest = c

ToldHasReturned == \A c \in told : pc[c] = "returned"

ExportInv ==
    /\ ExportTypeOK
    /\ AbsentBefore
    /\ FreshUntilRead
    /\ VerifiedIsRead
    /\ WholeSoFar
    /\ ToldHasReturned

-----------------------------------------------------------------------------
\* The state is well formed at first.
LEMMA InitExportInv == ExportInit => ExportInv
  BY FilesAssumption, MaxWritesAssumption, SourceAssumption, DatasetAssumption
  DEF ExportInit, ExportInv, ExportTypeOK, AbsentBefore, FreshUntilRead, VerifiedIsRead, WholeSoFar,
      ToldHasReturned, Artifact

\* What a click exports is a job.
LEMMA JobType ==
    ASSUME NEW trusted \in Version \cup {None}, NEW shown \in Version \cup Manual \cup {None},
           NEW path \in Version \cup Manual
    PROVE  /\ Job(trusted, shown, path) \in Jobs
           /\ Job(trusted, shown, path).managed <=> trusted # None
           /\ Job(trusted, shown, path).managed => Job(trusted, shown, path).source \in Version
  BY SourceAssumption, DatasetAssumption DEF Job, Jobs

\* Every step keeps the state well formed.
LEMMA TypeStep == ExportInv /\ [ExportNext]_exportVars => ExportTypeOK'
<1> SUFFICES ASSUME ExportInv, [ExportNext]_exportVars PROVE ExportTypeOK'
  OBVIOUS
<1> USE FilesAssumption, MaxWritesAssumption, SourceAssumption, DatasetAssumption DEF ExportInv, ExportTypeOK, Artifact, Go
<1>1. ASSUME NEW c \in Call, NEW trusted \in Version \cup {None},
             NEW shown \in Version \cup Manual \cup {None}, NEW path \in Version \cup Manual,
             Click(c, trusted, shown, path)
      PROVE  ExportTypeOK'
  BY <1>1, JobType DEF Click, sourceVars, folderVars
<1>2. ASSUME NEW c \in Call, Verify(c) PROVE ExportTypeOK'
  BY <1>2 DEF Verify, sourceVars, folderVars
<1>3. ASSUME NEW c \in Call, Read(c) PROVE ExportTypeOK'
  <2>1. own' \in [Call -> BOOLEAN]
    BY <1>3 DEF Read
  <2> QED
    BY <1>3, <2>1 DEF Read, sourceVars, folderVars
<1>4. ASSUME NEW c \in Call, Open(c) PROVE ExportTypeOK'
  <2>1. at[c] + 1 \in 1 .. Files
    BY <1>4 DEF Open
  <2>2. disturbed' \subseteq Call
    BY <1>4 DEF Open, Disturb
  <2>3. file' \in [1 .. Files -> SUBSET Call]
    BY <1>4, <2>1 DEF Open
  <2> QED
    BY <1>4, <2>2, <2>3 DEF Open, sourceVars
<1>5. ASSUME NEW c \in Call, Finish(c) PROVE ExportTypeOK'
  <2>1. at[c] + 1 \in 1 .. Files
    BY <1>5 DEF Finish
  <2>2. disturbed' \subseteq Call
    BY <1>5 DEF Finish, Disturb
  <2>3. file' \in [1 .. Files -> SUBSET Call]
    BY <1>5, <2>1 DEF Finish
  <2> QED
    BY <1>5, <2>1, <2>2, <2>3 DEF Finish, sourceVars
<1>6. ASSUME NEW c \in Call, Emit(c) PROVE ExportTypeOK'
  BY <1>6 DEF Emit, Disturb, sourceVars
<1>7. ASSUME NEW c \in Call, EmitFails(c) PROVE ExportTypeOK'
  BY <1>7 DEF EmitFails, sourceVars, folderVars
<1>8. ASSUME NEW c \in Call, Stop(c) PROVE ExportTypeOK'
  BY <1>8 DEF Stop, sourceVars, folderVars
<1>9. ASSUME NEW v \in Version, NEW state \in {"own", "changed", "disguised"},
             WriteFile(v, state)
      PROVE  ExportTypeOK'
  BY <1>9 DEF WriteFile, folderVars
<1>10. CASE UNCHANGED exportVars
  BY <1>10 DEF exportVars, sourceVars, folderVars
<1> HIDE FilesAssumption, MaxWritesAssumption, SourceAssumption, DatasetAssumption DEF ExportInv, ExportTypeOK, Artifact, Go
<1> QED
  BY <1>1, <1>2, <1>3, <1>4, <1>5, <1>6, <1>7, <1>8, <1>9, <1>10, Zenon DEF ExportNext

-----------------------------------------------------------------------------
\* Every step keeps calls that have not begun out of the folder.
LEMMA AbsentStep == ExportInv /\ [ExportNext]_exportVars => AbsentBefore'
<1> SUFFICES ASSUME ExportInv, [ExportNext]_exportVars PROVE AbsentBefore'
  OBVIOUS
<1> USE SourceAssumption, DatasetAssumption DEF AbsentBefore, Go
<1>0. ExportTypeOK /\ AbsentBefore
  BY DEF ExportInv
<1>1. ASSUME NEW c \in Call, NEW trusted \in Version \cup {None},
             NEW shown \in Version \cup Manual \cup {None}, NEW path \in Version \cup Manual,
             Click(c, trusted, shown, path)
      PROVE  AbsentBefore'
  BY <1>0, <1>1 DEF Click, folderVars, ExportTypeOK
<1>2. ASSUME NEW c \in Call, Verify(c) PROVE AbsentBefore'
  BY <1>0, <1>2 DEF Verify, folderVars, ExportTypeOK
<1>3. ASSUME NEW c \in Call, Read(c) PROVE AbsentBefore'
  BY <1>0, <1>3 DEF Read, folderVars, ExportTypeOK
<1>4. ASSUME NEW c \in Call, Open(c) PROVE AbsentBefore'
  BY <1>0, <1>4 DEF Open, ExportTypeOK
<1>5. ASSUME NEW c \in Call, Finish(c) PROVE AbsentBefore'
  BY <1>0, <1>5 DEF Finish, ExportTypeOK
<1>6. ASSUME NEW c \in Call, Emit(c) PROVE AbsentBefore'
  BY <1>0, <1>6 DEF Emit, ExportTypeOK
<1>7. ASSUME NEW c \in Call, EmitFails(c) PROVE AbsentBefore'
  BY <1>0, <1>7 DEF EmitFails, folderVars, ExportTypeOK
<1>8. ASSUME NEW c \in Call, Stop(c) PROVE AbsentBefore'
  BY <1>0, <1>8 DEF Stop, folderVars, ExportTypeOK
<1>9. ASSUME NEW v \in Version, NEW state \in {"own", "changed", "disguised"},
             WriteFile(v, state)
      PROVE  AbsentBefore'
  BY <1>0, <1>9 DEF WriteFile, folderVars
<1>10. CASE UNCHANGED exportVars
  BY <1>0, <1>10 DEF exportVars, folderVars
<1> HIDE SourceAssumption, DatasetAssumption DEF AbsentBefore, Go
<1> QED
  BY <1>1, <1>2, <1>3, <1>4, <1>5, <1>6, <1>7, <1>8, <1>9, <1>10, Zenon DEF ExportNext

-----------------------------------------------------------------------------
\* Every step keeps what is known of the bytes a managed call reads.
LEMMA FreshStep == ExportInv /\ [ExportNext]_exportVars => FreshUntilRead' /\ VerifiedIsRead'
<1> DEFINE Fresh == FreshUntilRead /\ VerifiedIsRead
<1> SUFFICES ASSUME ExportInv, [ExportNext]_exportVars PROVE Fresh'
  OBVIOUS
<1> USE SourceAssumption, DatasetAssumption DEF FreshUntilRead, VerifiedIsRead, Go
<1>0. ExportTypeOK /\ FreshUntilRead /\ VerifiedIsRead
  BY DEF ExportInv
<1>1. ASSUME NEW c \in Call, NEW trusted \in Version \cup {None},
             NEW shown \in Version \cup Manual \cup {None}, NEW path \in Version \cup Manual,
             Click(c, trusted, shown, path)
      PROVE  Fresh'
  BY <1>0, <1>1, JobType DEF Click, sourceVars, ExportTypeOK
<1>2. ASSUME NEW c \in Call, Verify(c) PROVE Fresh'
  BY <1>0, <1>2 DEF Verify, sourceVars, ExportTypeOK
<1>3. ASSUME NEW c \in Call, Read(c) PROVE Fresh'
  BY <1>0, <1>3 DEF Read, sourceVars, ExportTypeOK
<1>4. ASSUME NEW c \in Call, Open(c) PROVE Fresh'
  BY <1>0, <1>4 DEF Open, sourceVars, ExportTypeOK
<1>5. ASSUME NEW c \in Call, Finish(c) PROVE Fresh'
  BY <1>0, <1>5 DEF Finish, sourceVars, ExportTypeOK
<1>6. ASSUME NEW c \in Call, Emit(c) PROVE Fresh'
  BY <1>0, <1>6 DEF Emit, sourceVars, ExportTypeOK
<1>7. ASSUME NEW c \in Call, EmitFails(c) PROVE Fresh'
  BY <1>0, <1>7 DEF EmitFails, sourceVars, ExportTypeOK
<1>8. ASSUME NEW c \in Call, Stop(c) PROVE Fresh'
  BY <1>0, <1>8 DEF Stop, sourceVars, ExportTypeOK
<1>9. ASSUME NEW v \in Version, NEW state \in {"own", "changed", "disguised"},
             WriteFile(v, state)
      PROVE  Fresh'
  BY <1>0, <1>9 DEF WriteFile, ExportTypeOK
<1>10. CASE UNCHANGED exportVars
  BY <1>0, <1>10 DEF exportVars, sourceVars
<1> HIDE SourceAssumption, DatasetAssumption DEF FreshUntilRead, VerifiedIsRead, Go, Fresh
<1> QED
  BY <1>1, <1>2, <1>3, <1>4, <1>5, <1>6, <1>7, <1>8, <1>9, <1>10, Zenon DEF ExportNext

-----------------------------------------------------------------------------
\* Writing to a file disturbs every call that has begun, so a call that is not
\* disturbed has written nothing yet.
LEMMA UndisturbedHasNotBegun ==
    ASSUME ExportTypeOK, ToldHasReturned, NEW c \in Call, Disturb(c), NEW d \in Call \ {c},
           d \notin disturbed'
    PROVE  at[d] = 0 /\ pc[d] \notin {"writing", "emit", "returned"} /\ d \notin told
  BY DEF ExportTypeOK, ToldHasReturned, Disturb, Begun

\* Every step keeps what an undisturbed call has written.
LEMMA WholeStep == ExportInv /\ [ExportNext]_exportVars => WholeSoFar' /\ ToldHasReturned'
<1> DEFINE Whole == WholeSoFar /\ ToldHasReturned
<1> SUFFICES ASSUME ExportInv, [ExportNext]_exportVars PROVE Whole'
  OBVIOUS
<1> USE DEF WholeSoFar, ToldHasReturned, Go
<1>0. ExportTypeOK /\ WholeSoFar /\ ToldHasReturned
  BY DEF ExportInv
<1>1. ASSUME NEW c \in Call, NEW trusted \in Version \cup {None},
             NEW shown \in Version \cup Manual \cup {None}, NEW path \in Version \cup Manual,
             Click(c, trusted, shown, path)
      PROVE  Whole'
  BY <1>0, <1>1 DEF Click, folderVars, ExportTypeOK
<1>2. ASSUME NEW c \in Call, Verify(c) PROVE Whole'
  BY <1>0, <1>2 DEF Verify, folderVars, ExportTypeOK
<1>3. ASSUME NEW c \in Call, Read(c) PROVE Whole'
  BY <1>0, <1>3 DEF Read, folderVars, ExportTypeOK
<1>4. ASSUME NEW c \in Call, Open(c) PROVE Whole'
  <2>1. at[c] + 1 \in Artifact /\ at[c] \in Nat /\ c \notin told
    BY <1>0, <1>4, FilesAssumption DEF Open, ExportTypeOK, Artifact
  <2>2. ASSUME NEW d \in Call \ disturbed',
               pc'[d] \in {"write", "writing", "emit", "returned"}
        PROVE  /\ \A a \in 1 .. at'[d] : file'[a] = {d}
               /\ pc'[d] = "writing" => file'[at'[d] + 1] = {d}
               /\ d \in told' => manifest' = d
    <3>1. CASE d = c
      BY <1>0, <1>4, <2>1, <2>2, <3>1 DEF Open, Disturb, ExportTypeOK, Artifact
    <3>2. CASE d # c
      <4>1. at[d] = 0 /\ pc[d] \notin {"writing", "emit", "returned"} /\ d \notin told
        BY <1>0, <1>4, <3>2, UndisturbedHasNotBegun DEF Open
      <4> QED
        BY <1>0, <1>4, <2>2, <3>2, <4>1 DEF Open, ExportTypeOK
    <3> QED
      BY <3>1, <3>2
  <2>3. ToldHasReturned'
    BY <1>0, <1>4, <2>1 DEF Open, ExportTypeOK
  <2> QED
    BY <2>2, <2>3
<1>5. ASSUME NEW c \in Call, Finish(c) PROVE Whole'
  <2>1. at[c] + 1 \in Artifact /\ at[c] \in Nat /\ c \notin told
    BY <1>0, <1>5, FilesAssumption DEF Finish, ExportTypeOK, Artifact
  <2>2. ASSUME NEW d \in Call \ disturbed',
               pc'[d] \in {"write", "writing", "emit", "returned"}
        PROVE  /\ \A a \in 1 .. at'[d] : file'[a] = {d}
               /\ pc'[d] = "writing" => file'[at'[d] + 1] = {d}
               /\ d \in told' => manifest' = d
    <3>1. CASE d = c
      <4>1. /\ \A a \in 1 .. at[c] : file[a] = {c}
            /\ file[at[c] + 1] = {c}
        BY <1>0, <1>5, <2>2, <3>1 DEF Finish, Disturb, ExportTypeOK
      <4>2. at'[c] = at[c] + 1 /\ pc'[c] # "writing" /\ told' = told
        BY <1>0, <1>5 DEF Finish, ExportTypeOK
      <4>3. ASSUME NEW a \in 1 .. at'[c] PROVE file'[a] = {c}
        BY <1>0, <1>5, <2>1, <4>1, <4>2 DEF Finish, ExportTypeOK, Artifact
      <4> QED
        BY <2>1, <3>1, <4>2, <4>3
    <3>2. CASE d # c
      <4>1. at[d] = 0 /\ pc[d] \notin {"writing", "emit", "returned"} /\ d \notin told
        BY <1>0, <1>5, <3>2, UndisturbedHasNotBegun DEF Finish
      <4> QED
        BY <1>0, <1>5, <2>2, <3>2, <4>1 DEF Finish, ExportTypeOK
    <3> QED
      BY <3>1, <3>2
  <2>3. ToldHasReturned'
    BY <1>0, <1>5, <2>1 DEF Finish, ExportTypeOK
  <2> QED
    BY <2>2, <2>3
<1>6. ASSUME NEW c \in Call, Emit(c) PROVE Whole'
  <2>1. ASSUME NEW d \in Call \ disturbed',
               pc'[d] \in {"write", "writing", "emit", "returned"}
        PROVE  /\ \A a \in 1 .. at'[d] : file'[a] = {d}
               /\ pc'[d] = "writing" => file'[at'[d] + 1] = {d}
               /\ d \in told' => manifest' = d
    <3>1. CASE d = c
      BY <1>0, <1>6, <3>1 DEF Emit, Disturb, ExportTypeOK
    <3>2. CASE d # c
      <4>1. at[d] = 0 /\ pc[d] \notin {"writing", "emit", "returned"} /\ d \notin told
        BY <1>0, <1>6, <3>2, UndisturbedHasNotBegun DEF Emit
      <4> QED
        BY <1>0, <1>6, <2>1, <3>2, <4>1 DEF Emit, ExportTypeOK
    <3> QED
      BY <3>1, <3>2
  <2>2. ToldHasReturned'
    BY <1>0, <1>6 DEF Emit, ExportTypeOK
  <2> QED
    BY <2>1, <2>2
<1>7. ASSUME NEW c \in Call, EmitFails(c) PROVE Whole'
  BY <1>0, <1>7 DEF EmitFails, folderVars, ExportTypeOK
<1>8. ASSUME NEW c \in Call, Stop(c) PROVE Whole'
  BY <1>0, <1>8 DEF Stop, folderVars, ExportTypeOK
<1>9. ASSUME NEW v \in Version, NEW state \in {"own", "changed", "disguised"},
             WriteFile(v, state)
      PROVE  Whole'
  BY <1>0, <1>9 DEF WriteFile, folderVars
<1>10. CASE UNCHANGED exportVars
  BY <1>0, <1>10 DEF exportVars, folderVars
<1> HIDE DEF WholeSoFar, ToldHasReturned, Go, Whole
<1> QED
  BY <1>1, <1>2, <1>3, <1>4, <1>5, <1>6, <1>7, <1>8, <1>9, <1>10, Zenon DEF ExportNext

-----------------------------------------------------------------------------
\* The invariant holds always.
LEMMA SpecExportInv == ExportSpec => []ExportInv
<1>1. ExportInv /\ [ExportNext]_exportVars => ExportInv'
  BY TypeStep, AbsentStep, FreshStep, WholeStep DEF ExportInv
<1> QED
  BY InitExportInv, <1>1, PTL DEF ExportSpec

\* The state of the calls and of the folder stays well formed.
THEOREM ExportTypeCorrect == ExportSpec => []ExportTypeOK
<1>1. ExportInv => ExportTypeOK
  BY DEF ExportInv
<1> QED
  BY SpecExportInv, <1>1, PTL

\* However many exports run, one that is refused has written nothing
\* (verify_managed_export_source comes first).
THEOREM RefusalsWriteNothing == ExportSpec => []RefusedLeavesNothing
<1>1. ExportInv => RefusedLeavesNothing
  BY DEF ExportInv, AbsentBefore, RefusedLeavesNothing
<1> QED
  BY SpecExportInv, <1>1, PTL

\* However many exports run, one that nobody disturbs leaves its own files and the
\* manifest it reports (run_export_star).
THEOREM UndisturbedIsWhole == ExportSpec => []AloneIsWhole
<1>1. ExportInv => AloneIsWhole
  BY DEF ExportInv, ExportTypeOK, WholeSoFar, AloneIsWhole, Artifact
<1> QED
  BY SpecExportInv, <1>1, PTL

\* However often versions change, a managed export that is not overtaken by a
\* change has read the bytes of its identity (run_managed_export_star).
THEOREM VerifiedBytesAreRead == ExportSpec => []VerifiedIsRead
<1>1. ExportInv => VerifiedIsRead
  BY DEF ExportInv
<1> QED
  BY SpecExportInv, <1>1, PTL
=============================================================================
