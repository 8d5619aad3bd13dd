------------------------------ MODULE MCPages ------------------------------
(***************************************************************************)
(* Instances for TLC of what the pages of the app rest on: the frames they *)
(* read (ManagedFrames), what they compute from a frame (StatisticsLab),   *)
(* the recipes they build, confirm and replay (RecipeReplay), the EDA      *)
(* Explorer (EdaPage), how they profile and assess (AssessmentPages), and   *)
(* the KPI catalog, time dimension and Power BI package (PowerBIPackage).  *)
(* The parts share no state: the others stand still while one of them runs.*)
(***************************************************************************)
EXTENDS ManagedFrames, StatisticsLab, MCRecipe, EdaPage, AssessmentPages, KpiCatalog, PowerBIPackage, TLC

CONSTANTS x, y, ea, eb, ec

VARIABLE part  \* which of the parts this behaviour runs

-----------------------------------------------------------------------------
\* The Statistics Lab.

MCColumn == {x, y}

Cell(kind, class, value, text) == [kind |-> kind, class |-> class, value |-> value, text |-> text]

Number(n) == Cell("number", "int", n, ToString(n))
Missing == Cell("missing", "float", 90, "nan")
Infinite == Cell("infinite", "float", 91, "inf")
Flag == Cell("flag", "bool", 1, "True")
Text(v, s) == Cell("text", "str", v, s)
InfinityText == Cell("infinity text", "str", 95, "inf")
Unsafe == Cell("unsafe text", "str", 96, "u")

\* The order of rows plays no part: one table per bag of rows.
Bags(choices, n) ==
    {[k \in 1 .. n |-> choices[f[k]]] :
        f \in {h \in [1 .. n -> DOMAIN choices] : \A k \in 1 .. n - 1 : h[k] <= h[k + 1]}}

Rows(first, second) ==
    [k \in 1 .. Len(first) * Len(second) |->
        (x :> first[((k - 1) \div Len(second)) + 1]) @@ (y :> second[((k - 1) % Len(second)) + 1])]

MCTables ==
    UNION { Bags(Rows(<<Number(1), Flag, Text(1, "1"), InfinityText>>, <<Number(1), Number(2), Missing>>), 3),
            Bags(Rows(<<Text(7, "a"), Text(8, "b"), Unsafe>>, <<Number(1), Text(7, "a"), Missing>>), 3),
            Bags(Rows(<<Number(0), Number(1), Missing, Infinite>>, <<Number(0), Number(1)>>), 3),
            Bags(Rows(<<Number(0), Number(1), Missing>>, <<Text(7, "a"), Text(8, "b")>>), 4) }

MCAlternatives == {"two-sided", "greater"}

-----------------------------------------------------------------------------
\* The EDA Explorer: three columns, one of them a constant or wholly missing.

MCColumnSeq == <<ea, eb, ec>>

Date(n) == Cell("date text", "str", n, ToString(n))

Triples(a, b, c) ==
    [k \in 1 .. Len(a) * Len(b) * Len(c) |->
        (ea :> a[1 + ((k - 1) % Len(a))])
        @@ (eb :> b[1 + (((k - 1) \div Len(a)) % Len(b))])
        @@ (ec :> c[1 + ((k - 1) \div (Len(a) * Len(b)))])]

MCEdaFrames ==
    {<<>>} \cup
    UNION { Bags(Triples(<<Number(0), Number(3), Missing>>,
                         <<Text(7, "a"), Text(8, "b"), Text(9, "c"), Missing>>, <<Missing>>), 3),
            Bags(Triples(<<Number(0), Number(2), Infinite>>, <<Number(1), Number(2)>>, <<Flag, Missing>>), 3),
            Bags(Triples(<<Date(0), Date(8), Text(90, "(missing)")>>,
                         <<Text(7, "a"), Text(95, "(other)"), Missing>>, <<Number(1)>>), 4) }

-----------------------------------------------------------------------------
\* The ways a file is assessed: two columns, of which one takes every content of up to
\* four cells and the other follows it.

CellOf(kind, value) == [k |-> kind, v |-> value]
NaCell == CellOf("na", 0)
Integer(n) == CellOf("int", 2 * n)
Half == CellOf("float", 1)
FlagCell == CellOf("bool", 2)
Word(n) == CellOf("text", n)
Day(n) == CellOf("date", n)

Contents(kinds, n) == UNION {[1 .. m -> kinds] : m \in 0 .. n}

MCContents ==
    UNION {Contents({NaCell, Integer(0), Half}, 3),
           Contents({NaCell, Word(1), Day(1)}, 3),
           [1 .. 4 -> {NaCell, Integer(0)}],
           {<<Integer(0), Integer(0), Integer(1), Integer(1), Integer(9)>>,
            <<Integer(0), Integer(0), Integer(1), Integer(1), Integer(2)>>,
            [i \in 1 .. 6 |-> Integer(i)]}}

\* pandas compares flags beside a column of numbers as objects: left out.
MCFlagContents == Contents({NaCell, FlagCell, Integer(1), Word(1)}, 2)

\* The second column: the rows' own numbers, a constant text, one without values.
Counting(n) == [i \in 1 .. n |-> Integer(i)]
Constant(n) == [i \in 1 .. n |-> Word(1)]
Vacant(n) == [i \in 1 .. n |-> NaCell]
Rare(n) == [i \in 1 .. n |-> IF i = n THEN NaCell ELSE Word(1)]

MCStripName == ("id" :> "id") @@ ("ID" :> "ID") @@ (" a" :> "a") @@ (" " :> "") @@ ("unknown" :> "unknown")
MCQuoteName == ("id" :> "'id'") @@ ("ID" :> "'ID'") @@ (" a" :> "' a'") @@ (" " :> "' '") @@ ("unknown" :> "'unknown'")
MCLowerName == ("id" :> "id") @@ ("ID" :> "id") @@ (" a" :> " a") @@ (" " :> " ")
               @@ ("unknown" :> "unknown") @@ ("a" :> "a") @@ ("" :> "")

NoRules == <<>>
Strict ==
    "id" :> [NoRule EXCEPT !.unique = TRUE, !.required = TRUE, !.critical = TRUE, !.gate = {90},
                           !.dtype = {"int64"}, !.weight = 3]
Accepting ==
    ("ID" :> [NoRule EXCEPT !.accepted = {<<"number", 2>>, <<"text", 1>>}, !.critical = TRUE, !.null = {0}])
    @@ ("absent" :> [NoRule EXCEPT !.required = TRUE]) @@ (" a" :> [NoRule EXCEPT !.critical = TRUE])
OutOfRange == "id" :> [NoRule EXCEPT !.weight = 0]

Case(content, second, names, sampleSize, chunk, before, after, source, large) ==
    [file |-> [names |-> names, cells |-> <<content, second>>],
     sampleSize |-> sampleSize, chunk |-> chunk, rules |-> before, later |-> after,
     source |-> source, large |-> large]

BesideText(content) ==
    {Case(content, Rare(Len(content)), <<"unknown", " a">>, 0, 3, NoRules, Accepting, "path", FALSE),
     Case(content, Constant(Len(content)), <<"id", " ">>, 2, 2, Strict, OutOfRange, "root", FALSE),
     Case(content, Constant(Len(content)), <<"ID", "id">>, 2, 2, NoRules, Strict, "context", FALSE)}

BesideNumbers(content) ==
    {Case(content, Counting(Len(content)), <<"id", "ID">>, 0, 1, Strict, NoRules, "context", FALSE),
     Case(content, Counting(Len(content)), <<"ID", "id">>, 0, 2, Accepting, NoRules, "context", TRUE),
     Case(content, Vacant(Len(content)), <<"id", "unknown">>, 0, 2, OutOfRange, NoRules, "path", TRUE)}

MCInputs ==
    UNION {BesideText(content) \cup BesideNumbers(content) : content \in MCContents}
    \cup UNION {BesideText(content) : content \in MCFlagContents}
    \cup {Case(<<>>, <<>>, <<"id", "ID">>, 0, 1, NoRules, Strict, source, FALSE) : source \in {"mirror", "nothing"}}

-----------------------------------------------------------------------------
\* The KPI catalogs, the time dimension and the Power BI package: every catalog of three
\* KPIs that need up to two each, days around the turns of months and years, and two
\* datasets that are exported into one star folder.

Kpi(id, needs) ==
    [id |-> id, title |-> id, grain |-> "dataset", unit |-> "count", needs |-> needs, hidden |-> FALSE, scaled |-> FALSE]

Ids == {"a", "b", "c"}
NeedsOf == {<<>>} \cup {<<i>> : i \in Ids} \cup {<<"a", "b">>, <<"b", "c">>, <<"c", "a">>, <<"c", "b">>}

ReadFile(c) == [state |-> "read", kpis |-> c]

\* All graphs of three KPIs, the middle one hidden.
GraphFiles ==
    {ReadFile(<<Kpi("a", f[1]), [Kpi("b", f[2]) EXCEPT !.hidden = TRUE], Kpi("c", f[3])>>) : f \in [1 .. 3 -> NeedsOf]}

\* Catalogs of two or three KPIs, some with an id twice or an unknown KPI.
RuleFiles ==
    {ReadFile(<<[Kpi("a", <<"b">>) EXCEPT !.grain = g, !.unit = u],
                [Kpi("b", n) EXCEPT !.grain = h, !.unit = v, !.scaled = TRUE]>>) :
        g \in {"global", "dataset", "table"}, h \in {"global", "dataset", "column", "time"},
        u \in {"count", "score"}, v \in {"count", "score", "ratio"}, n \in {<<>>, <<"a">>, <<"d">>}}
    \cup {ReadFile(<<Kpi(i, <<j>>), Kpi("b", n), Kpi(k, <<>>)>>) :
             i \in {"a", "b"}, j \in {"a", "b"}, k \in {"a", "b"}, n \in {<<>>, <<"a">>}}

OtherFiles == {[state |-> s, kpis |-> <<>>] : s \in {"missing", "malformed", "read"}}

MCCatalogFiles == GraphFiles \cup RuleFiles \cup OtherFiles \cup {ReadFile(BuiltinQuality)}

MCCatalogEdits == OtherFiles \cup {ReadFile(<<Kpi("a", <<"b">>), Kpi("b", <<>>)>>), ReadFile(<<Kpi("a", <<"a">>)>>)}

\* 2019-12-28 .. 2020-01-07, 2020-02-27 .. 2020-03-02, 2021-03-30 .. 2021-04-02.
Turns == {<<18258, 18268>>, <<18319, 18323>>, <<18716, 18719>>}

TimeAsked(from, to, week, fiscal) == [from |-> from, to |-> to, week |-> week, fiscal |-> fiscal]

MCPageInputs ==
    {TimeAsked(t[1], t[2], w, f) : t \in Turns, w \in {1, 3, 7}, f \in {NoFiscal, 1, 2, 3, 4, 12}}
    \cup {TimeAsked(18268, 18258, 1, NoFiscal), TimeAsked(NotADay, 18258, 1, NoFiscal)}

MCTimeInputs == {TimeAsked(18259, 18263, 1, NoFiscal)}

MCBuildInputs == {TimeAsked(18258, 18268, 1, 4), TimeAsked(18258, 18268, 1, 13)}

MCProfiledRuns ==
    {[data |-> 1, day |-> 18262, columns |-> {1, 2}, issues |-> {0, 1}],
     [data |-> 2, day |-> 18319, columns |-> {1, 3}, issues |-> {3}]}

MCListing == <<"fact_issues", "dim_column", "fact_quality_metrics", "dim_dataset", "fact_profile_runs">>

\* No star folder yet, or one that an earlier version wrote: its fact_issues has keys
\* only; or one over which an export of another dataset has died. (A folder without
\* fact_issues is left by an export that dies here.)
MCFirstStars ==
    LET earlier == [data |-> 1, day |-> 18262, columns |-> {}, issues |-> {}]
        older == BuildStar(earlier) @@ ("fact_issues" :> FileOf({"dataset_id", "column_id"}, <<>>))
        other == StarOf([data |-> 2, day |-> 18319, columns |-> {1, 3}, issues |-> {3}])
    IN  {<<>>, older, [t \in {"dim_dataset", "dim_column"} |-> other[t]] @@ StarOf(earlier)}

-----------------------------------------------------------------------------
\* More of the instance is symmetric; every permutation costs time in all parts.
MCSymmetry == Permutations(Session)

LabOff == table = <<>> /\ shown = Nothing
RecipesOff == versions = <<>> /\ current = NoVersion /\ built = <<>> /\ loaded = NoVersion /\ draft = <<>>

EdaOff == explored = <<>> /\ drawn = <<>>

AssessmentOff ==
    /\ given = <<>> /\ kept = {} /\ extras = {} /\ rules = <<>> /\ cached = {}
    /\ read = 0 /\ agg = <<>> /\ streamed = FALSE /\ answer = Unasked

CatalogOff == catalogFile = MissingCatalog /\ catalogChanges = 0 /\ kpiPage = NoKpiPage /\ command = NoCommand

PackageOff ==
    /\ star = <<>> /\ package = NoPackage /\ building = NoBuild /\ reply = NoReply
    /\ exports = 0 /\ builds = 0

FilesOff == LabOff /\ RecipesOff /\ EdaOff /\ AssessmentOff
BiOff == CatalogOff /\ PackageOff /\ TimeInit

fileVars == <<labVars, recipeVars, edaVars, assessmentVars>>
biVars == <<catalogVars, packageVars>>

PagesInit ==
    /\ FramesInit
    /\ \/ part = "frames" /\ FilesOff /\ BiOff
       \/ part = "lab" /\ LabInit /\ RecipesOff /\ EdaOff /\ AssessmentOff /\ BiOff
       \/ part = "recipes" /\ RecipeInit /\ LabOff /\ EdaOff /\ AssessmentOff /\ BiOff
       \/ part = "eda" /\ EdaInit /\ LabOff /\ RecipesOff /\ AssessmentOff /\ BiOff
       \/ part = "assessment" /\ AssessmentInit /\ LabOff /\ RecipesOff /\ EdaOff /\ BiOff
       \/ part = "catalog" /\ CatalogInit /\ PackageOff /\ TimeInit /\ FilesOff
       \/ part = "calendar" /\ BiOff /\ FilesOff
       \/ part = "package" /\ PackageInit /\ CatalogOff /\ FilesOff

PagesNext ==
    /\ UNCHANGED part
    /\ \/ part = "frames" /\ FramesNext /\ UNCHANGED <<fileVars, biVars>>
       \/ part = "lab" /\ LabNext /\ UNCHANGED <<framesVars, recipeVars, edaVars, assessmentVars, biVars>>
       \/ part = "recipes" /\ RecipeNext /\ UNCHANGED <<framesVars, labVars, edaVars, assessmentVars, biVars>>
       \/ part = "eda" /\ EdaNext /\ UNCHANGED <<framesVars, labVars, recipeVars, assessmentVars, biVars>>
       \/ part = "assessment" /\ AssessmentNext /\ UNCHANGED <<framesVars, labVars, recipeVars, edaVars, biVars>>
       \/ part = "catalog" /\ CatalogNext /\ UNCHANGED <<framesVars, fileVars, packageVars>>
       \/ part = "calendar" /\ TimeNext
              /\ UNCHANGED <<framesVars, fileVars, catalogVars, star, package, building, reply, exports, builds>>
       \/ part = "package" /\ PackageNext /\ UNCHANGED <<framesVars, fileVars, catalogVars>>

Spec == PagesInit /\ [][PagesNext]_<<part, framesVars, fileVars, biVars>>

\* One of the parts, for what the documentation says of it.
AssessmentAlone == part = "assessment" /\ Spec
=============================================================================
