----------------------------- MODULE KpiCatalog -----------------------------
(***************************************************************************)
(* The catalog of KPIs (domain/semantics): the graph of what each KPI      *)
(* depends on, its cycles and its order, the rules a catalog must meet,    *)
(* and what is emitted from it, as the workflow (workflow/kpi.py), the     *)
(* command line and the KPI Catalog page use it.                           *)
(* The page reads the file again for the verdict, for the measures and for *)
(* the graph, and a user may edit it in between.                           *)
(* A KPI is [id, title, grain, unit, needs, hidden, scaled]; its           *)
(* expression is text that no rule looks into beyond balanced brackets.    *)
(***************************************************************************)
EXTENDS Integers, Sequences, FiniteSets, SequencesExt

CONSTANTS
    CatalogFiles,      \* what the file may hold at first: [state, kpis]
    CatalogEdits,      \* what a user may make of it
    MaxCatalogChanges  \* bound: edits

VARIABLES
    catalogFile,     \* the YAML file: "missing", "malformed" or "read", and its KPIs
    catalogChanges,  \* bound: how often it was edited
    kpiPage,         \* the KPI Catalog page, or
    command          \* the last command with its exit code: the last of the two is kept

catalogVars == <<catalogFile, catalogChanges, kpiPage, command>>

NoKpi == "no kpi"  \* None, which is no text: what visits no KPI

\* What the schema (schema.py) lets load: a list of KPIs, each with an id and a list
\* of ids that it needs, both text.
IsCatalog(c) ==
    /\ c \in Seq(ToSet(c))
    /\ \A k \in ToSet(c) : k.id \in STRING \ {NoKpi} /\ k.needs \in Seq(STRING)

ASSUME CatalogAssumption ==
    /\ MaxCatalogChanges \in Nat
    /\ \A f \in CatalogFiles \cup CatalogEdits : IsCatalog(f.kpis)

-----------------------------------------------------------------------------
(***************************************************************************)
(* The graph (dag.py)                                                      *)
(***************************************************************************)
KpiIds(c) == {c[i].id : i \in DOMAIN c}

NeedsUnknown(c) == \E i \in DOMAIN c : ~ (ToSet(c[i].needs) \subseteq KpiIds(c))

\* A dict: of a repeated id, the last value.
KpiNamed(c, id) == c[CHOOSE i \in DOMAIN c : c[i].id = id /\ \A j \in i + 1 .. Len(c) : c[j].id /= id]

\* A repeated id is one node at its first place: no walk enters a KPI again.
BuildGraph(c) ==
    [nodes |-> [i \in DOMAIN c |-> c[i].id],
     needs |-> [id \in KpiIds(c) |-> KpiNamed(c, id).needs]]

\* One turn of the way up the parents, until end is reached.
PathUp(parent, end, up) ==
    IF up.cur \in {end, NoKpi} THEN up
    ELSE [path |-> Append(up.path, up.cur), cur |-> parent[up.cur]]

\* The cycle from its end up the parents: each KPI needs the one before it.
BacktrackCycle(parent, start, end) ==
    LET size == Cardinality(DOMAIN parent)
        up[n \in 0 .. size] ==
            IF n = 0 THEN [path |-> <<end>>, cur |-> start] ELSE PathUp(parent, end, up[n - 1])
    IN  up[size].path

\* Both walks (dfs) go alike from all KPIs in turn: one looks for cycles and the
\* other, of a graph without cycles, takes the order in which KPIs are left.
\* path: the calls of dfs under way; passed: how much of its needs each has seen.
\* A KPI is unvisited (0), being visited (1) or done (2).
WalkStart(g) ==
    LET ids == ToSet(g.nodes)
    IN  [color |-> [u \in ids |-> 0], parent |-> [u \in ids |-> NoKpi], path |-> <<>>,
         passed |-> [u \in ids \cup {NoKpi} |-> 0], cycles |-> <<>>, order |-> <<>>]

\* What is passed in dfs(u) and, outside of any call, by the loop around it.
Follows(g, u) == IF u = NoKpi THEN g.nodes ELSE g.needs[u]

Visited(s) == IF s.path = <<>> THEN NoKpi ELSE Last(s.path)

Enter(s, u, v) == [s EXCEPT !.color[v] = 1, !.parent[v] = u, !.path = Append(@, v)]

\* Seeded fault: a KPI stays open.
StayOpen(s, u) == [s EXCEPT !.path = Front(@), !.order = Append(@, u)]

Leave(s, u) == [s EXCEPT !.color[u] = 2, !.path = Front(@), !.order = Append(@, u)]

WalkStep(g, s) ==
    LET u == Visited(s)
        next == s.passed[u] + 1
        v == Follows(g, u)[next]
        on == [s EXCEPT !.passed[u] = next]
    IN  IF next > Len(Follows(g, u)) THEN IF u = NoKpi THEN s ELSE Leave(s, u)
        ELSE CASE s.color[v] = 0 -> Enter(on, u, v)
               [] s.color[v] = 1 -> [on EXCEPT !.cycles = Append(@, BacktrackCycle(s.parent, u, v))]
               [] s.color[v] = 2 -> on

\* Every KPI is left once and everything it follows is passed once: the walk is over by then.
WalkSteps(g) == UNION {{u} \X (0 .. Len(Follows(g, u))) : u \in ToSet(g.nodes) \cup {NoKpi}}

Walk(g) ==
    LET size == Cardinality(WalkSteps(g))
        walk[n \in 0 .. size] == IF n = 0 THEN WalkStart(g) ELSE WalkStep(g, walk[n - 1])
    IN  walk[size]

DetectCycles(g) == Walk(g).cycles

\* Only a graph without cycles is ever sorted.
TopoSort(g) == Walk(g).order

ExecutionOrder(c) ==
    LET g == BuildGraph(c)
    IN  IF NeedsUnknown(c) \/ DetectCycles(g) /= <<>>
        THEN [ok |-> FALSE, order |-> <<>>] ELSE [ok |-> TRUE, order |-> TopoSort(g)]

-----------------------------------------------------------------------------
(***************************************************************************)
(* The rules (validators.py)                                               *)
(***************************************************************************)
HasDuplicates(c) == Cardinality(KpiIds(c)) /= Len(c)

\* A KPI depends on KPIs of its own grain or global ones, and of its own unit
\* unless either is a score.
KpiSemanticsHold(c) ==
    \A k \in ToSet(c) :
        LET needed == {KpiNamed(c, id) : id \in ToSet(k.needs)}
        IN  \A d \in needed : /\ d.grain \in {"global", k.grain}
                              /\ k.unit = "score" \/ d.unit \in {"score", k.unit}

SemanticsHold(c) ==
    /\ ~ HasDuplicates(c)
    /\ ~ NeedsUnknown(c)
    /\ KpiSemanticsHold(c)
    /\ DetectCycles(BuildGraph(c)) = <<>>

-----------------------------------------------------------------------------
(***************************************************************************)
(* What is emitted (dax_emitter.py, graph_export.py)                       *)
(***************************************************************************)
\* Both pass over hidden KPIs.  The script is written with or without balanced
\* brackets: that is only logged.
EmitDax(c) ==
    LET order == ExecutionOrder(c).order
        shown[n \in 0 .. Len(order)] ==
            IF n = 0 THEN <<>>
            ELSE IF KpiNamed(c, order[n]).hidden THEN shown[n - 1] ELSE Append(shown[n - 1], order[n])
        ids == shown[Len(order)]
    IN  [i \in DOMAIN ids |->
            [name |-> KpiNamed(c, ids[i]).title, of |-> ids[i], scaled |-> KpiNamed(c, ids[i]).scaled]]

BuildTmslMeasures(c) ==
    LET order == ExecutionOrder(c).order
        measures[n \in 0 .. Len(order)] ==
            IF n = 0 THEN <<>>
            ELSE LET k == KpiNamed(c, order[n])
                 IN  IF k.hidden THEN measures[n - 1]
                     ELSE Append(measures[n - 1], [name |-> k.title, of |-> order[n], scaled |-> k.scaled])
    IN  measures[Len(order)]

NodeShape(grain) ==
    CASE grain = "global"  -> "rectangle"
      [] grain = "dataset" -> "stadium"
      [] grain = "table"   -> "rhombus"
      [] grain = "column"  -> "circle"
      [] grain = "time"    -> "hexagon"

GraphEdges(c) ==
    LET g == BuildGraph(c) IN {<<d, id>> : id \in ToSet(g.nodes), d \in KpiIds(c)} \cap
        UNION {{<<d, id>> : d \in ToSet(g.needs[id])} : id \in ToSet(g.nodes)}

\* Hidden KPIs are drawn, and one that is listed twice is drawn twice; grains
\* without a class of their own stay unstyled.
MermaidGraph(c) ==
    [nodes |-> [i \in DOMAIN c |-> [of |-> c[i].id, shape |-> NodeShape(c[i].grain)]],
     edges |-> GraphEdges(c),
     styled |-> {i \in DOMAIN c : c[i].grain \in {"global", "dataset", "column"}}]

NodeColor(grain) ==
    CASE grain = "global"  -> "lightblue"
      [] grain = "dataset" -> "lavender"
      [] grain = "table"   -> "lightyellow"
      [] grain = "column"  -> "lightgreen"
      [] grain = "time"    -> "lightcoral"

GraphvizGraph(c) ==
    [nodes |-> [i \in DOMAIN c |-> [of |-> c[i].id, color |-> NodeColor(c[i].grain)]], edges |-> GraphEdges(c)]

-----------------------------------------------------------------------------
(***************************************************************************)
(* The workflow (workflow/kpi.py)                                          *)
(***************************************************************************)
\* A file that is no YAML, or breaks the schema of a KPI, does not load.
CatalogLoads(f) == f.state = "read"

\* Cycles are an answer, each closed by its first KPI; every other fault raises.
ValidateKpiCatalog(f) ==
    LET c == f.kpis
        cycles == DetectCycles(BuildGraph(c))
        Of(status, found) ==
            [status |-> status, kpis |-> Len(c), cycles |-> [i \in DOMAIN found |-> Append(found[i], found[i][1])],
             byGrain |-> [g \in {c[i].grain : i \in DOMAIN c} |-> Cardinality({i \in DOMAIN c : c[i].grain = g})],
             dependencies |-> FoldLeft(LAMBDA n, k : n + Len(k.needs), 0, c)]
        Raised == [status |-> "raised", kpis |-> 0, cycles |-> <<>>, byGrain |-> <<>>, dependencies |-> 0]
    IN  IF ~ CatalogLoads(f) \/ NeedsUnknown(c) THEN Raised
        ELSE IF cycles /= <<>> THEN Of("invalid", cycles)
        ELSE IF SemanticsHold(c) THEN Of("valid", <<>>) ELSE Raised

NoArtifacts == [ok |-> FALSE, dax |-> <<>>, tmsl |-> <<>>]

EmitKpiArtifacts(f) ==
    IF CatalogLoads(f) /\ SemanticsHold(f.kpis)
    THEN [ok |-> TRUE, dax |-> EmitDax(f.kpis), tmsl |-> BuildTmslMeasures(f.kpis)]
    ELSE NoArtifacts

NoGraph == [ok |-> FALSE, format |-> "", suffix |-> "", nodes |-> 0, edges |-> {}]

\* The suffix follows the format, but only .mmd is replaced for Graphviz and for
\* Mermaid another one is kept in front. The rules are not asked.
ExportKpiGraph(f, format, suffix) ==
    IF ~ CatalogLoads(f) \/ NeedsUnknown(f.kpis) THEN NoGraph
    ELSE LET drawn == IF format = "graphviz" THEN GraphvizGraph(f.kpis).edges ELSE MermaidGraph(f.kpis).edges
         IN  [ok |-> TRUE, format |-> format, nodes |-> Len(f.kpis), edges |-> drawn,
              suffix |-> CASE format = "graphviz" /\ suffix = ".mmd" -> ".dot"
                           [] format = "mermaid" -> ".mmd"
                           [] OTHER -> suffix]

-----------------------------------------------------------------------------
(***************************************************************************)
(* The page (pages/kpi_catalog.py, services/kpi.py)                        *)
(***************************************************************************)
NoVerdict == [status |-> "none", kpis |-> 0, cycles |-> <<>>, byGrain |-> <<>>, dependencies |-> 0]

\* at: which part is next; read: how often the file was edited before each read.
NoKpiPage ==
    [at |-> "idle", padded |-> FALSE, read |-> <<>>, verdict |-> NoVerdict,
     artifacts |-> NoArtifacts, graph |-> NoGraph, preview |-> FALSE]

NoCommand == [name |-> "", exit |-> 0, written |-> {}]

MissingCatalog == [state |-> "missing", kpis |-> <<>>]

\* Only the validation strips the path that was typed.
FileAt(page, stripped) == IF page.padded /\ ~ stripped THEN MissingCatalog ELSE catalogFile

RenderValidation(padded) ==
    LET page == [NoKpiPage EXCEPT !.padded = padded]
        verdict == ValidateKpiCatalog(FileAt(page, TRUE))
    IN  /\ kpiPage.at = "idle"
        /\ kpiPage' = [page EXCEPT !.at = IF verdict.status = "valid" THEN "emit" ELSE "idle",
                                   !.read = <<catalogChanges>>, !.verdict = verdict]
        /\ command' = NoCommand
        /\ UNCHANGED <<catalogFile, catalogChanges>>

\* Both files are written to a folder of their own and read back.
KpiEmitToBytes ==
    /\ kpiPage.at = "emit"
    /\ kpiPage' = [kpiPage EXCEPT !.at = "graph", !.read = Append(@, catalogChanges),
                                  !.artifacts = EmitKpiArtifacts(FileAt(kpiPage, FALSE))]
    /\ UNCHANGED <<catalogFile, catalogChanges, command>>

\* The graph is previewed by the number of KPIs that the validation counted.
RenderKpiGraph ==
    LET graph == ExportKpiGraph(FileAt(kpiPage, FALSE), "mermaid", ".mmd")
    IN  /\ kpiPage.at = "graph"
        /\ kpiPage' = [kpiPage EXCEPT !.at = "idle", !.read = Append(@, catalogChanges), !.graph = graph,
                                      !.preview = graph.ok /\ kpiPage.verdict.kpis <= 20]
        /\ UNCHANGED <<catalogFile, catalogChanges, command>>

EditCatalog ==
    /\ catalogChanges < MaxCatalogChanges
    /\ catalogChanges' = catalogChanges + 1
    /\ catalogFile' \in CatalogEdits
    /\ command' = NoCommand
    /\ UNCHANGED kpiPage

-----------------------------------------------------------------------------
(***************************************************************************)
(* The command line (commands/kpi.py)                                      *)
(***************************************************************************)
Ran(name, ok, written) ==
    /\ kpiPage.at = "idle"
    /\ command' = [name |-> name, exit |-> IF ok THEN 0 ELSE 1, written |-> IF ok THEN written ELSE {}]
    /\ kpiPage' = NoKpiPage
    /\ UNCHANGED <<catalogFile, catalogChanges>>

CmdKpiValidate == Ran("kpi-validate", ValidateKpiCatalog(catalogFile).status = "valid", {})

CmdKpiEmit == Ran("kpi-emit", EmitKpiArtifacts(catalogFile).ok, {".dax", ".json"})

CmdKpiGraph(format) ==
    LET graph == ExportKpiGraph(catalogFile, format, ".mmd")
    IN  Ran("kpi-graph", graph.ok, {graph.suffix})

CatalogInit ==
    /\ catalogFile \in CatalogFiles
    /\ catalogChanges = 0
    /\ kpiPage = NoKpiPage
    /\ command = NoCommand

CatalogNext ==
    \/ \E padded \in BOOLEAN : RenderValidation(padded)
    \/ KpiEmitToBytes
    \/ RenderKpiGraph
    \/ EditCatalog
    \/ CmdKpiValidate
    \/ CmdKpiEmit
    \/ \E format \in {"mermaid", "graphviz"} : CmdKpiGraph(format)

CatalogSpec == CatalogInit /\ [][CatalogNext]_catalogVars

-----------------------------------------------------------------------------
(***************************************************************************)
(* Properties                                                              *)
(***************************************************************************)
\* Reference: which KPI depends on which, over any number of steps.
DirectNeeds(c) == {p \in KpiIds(c) \X KpiIds(c) : p[2] \in ToSet(KpiNamed(c, p[1]).needs)}

Joined(r) == r \cup {<<p[1][1], p[2][2]>> : p \in {q \in r \X r : q[1][2] = q[2][1]}}

AllNeeds(c) ==
    LET within[n \in 0 .. Len(c)] == IF n = 0 THEN DirectNeeds(c) ELSE Joined(within[n - 1])
    IN  within[Len(c)]

CyclesAreFound(c) ==
    LET direct == DirectNeeds(c)
        found == DetectCycles(BuildGraph(c))
    IN  /\ found /= <<>> <=> \E p \in AllNeeds(c) : p[1] = p[2]
        /\ \A i \in DOMAIN found :
               LET cycle == found[i]
               IN  /\ \A j \in DOMAIN cycle : <<cycle[IF j = Len(cycle) THEN 1 ELSE j + 1], cycle[j]>> \in direct
                   /\ IsInjective(cycle)

MeasuresAreOrdered(c, measures) ==
    LET ids == [i \in DOMAIN measures |-> measures[i].of]
    IN  /\ ToSet(ids) = {k.id : k \in {k \in ToSet(c) : ~ k.hidden}}
        /\ IsInjective(ids)
        /\ \A p \in AllNeeds(c) : {p[1], p[2]} \subseteq ToSet(ids) =>
               \E i, j \in DOMAIN ids : j < i /\ ids[i] = p[1] /\ ids[j] = p[2]

\* A catalog is called valid exactly when its measures are emitted, by the page as
\* long as nobody edits the file and by the commands: the two ways ask for cycles,
\* duplicates and unknown KPIs in different orders and one of them reports cycles
\* without raising. A cycle is reported exactly when a KPI depends on itself over
\* any number of steps, what is reported is such a cycle (from its end to its
\* start), and the measures of both files are the visible KPIs, once each, after
\* every visible KPI they depend on at whatever distance.
CatalogIsOrdered ==
    LET c == catalogFile.kpis
        artifacts == EmitKpiArtifacts(catalogFile)
    IN  /\ command.name = "kpi-validate" =>
               /\ command.exit = 0 <=> artifacts.ok
               /\ ~ NeedsUnknown(c) => CyclesAreFound(c)
               /\ artifacts.ok => MeasuresAreOrdered(c, artifacts.dax) /\ artifacts.tmsl = artifacts.dax
        /\ (Len(kpiPage.read) = 3 /\ kpiPage.read[1] = kpiPage.read[3] /\ ~ kpiPage.padded) =>
               /\ kpiPage.artifacts.ok /\ kpiPage.graph.ok
               /\ kpiPage.graph.nodes >= Len(kpiPage.artifacts.dax)
=============================================================================
