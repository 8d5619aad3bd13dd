----------------------------- MODULE SmartOverview -----------------------------
(***************************************************************************)
(* services/smart_data_overview.py: the bounded preview of a dataset that  *)
(* the Data Overview builds from the profile and the frame it already has. *)
(* Every reading carries its evidence: a fact, the bounded sample, a       *)
(* heuristic, or unavailable.                                              *)
(* A text that looks like a date is a cell of kind "date" and parses.      *)
(* Labels, messages and the identity line are left out.                    *)
(***************************************************************************)
EXTENDS Profiling

CONSTANTS
    IdentifierNames,        \* the names that end with a structural word
    ContentRows, ContentColumns,    \* MAX_CONTENT_ROWS, MAX_CONTENT_COLUMNS
    GroupColumns,           \* MAX_GROUP_COLUMNS
    PerStrategy,            \* MAX_RECORD_ROWS_PER_STRATEGY
    RecordRows,             \* MAX_RECORD_ROWS
    RecordColumns,          \* MAX_RECORD_COLUMNS
    ScanRows,               \* MAX_RECORD_SCAN_ROWS
    MaxCallouts,            \* MAX_CALLOUTS
    CategoryValues,         \* MAX_CATEGORY_VALUES
    WideAbove,              \* WIDE_COLUMN_THRESHOLD
    IdentifierRows,          \* IDENTIFIER_MIN_NON_NULL
    DatetimeMin             \* DATETIME_TEXT_MIN_VALUES

ASSUME OverviewAssumption ==
    /\ {ContentRows, ContentColumns, GroupColumns, PerStrategy, RecordRows, RecordColumns, ScanRows,
        MaxCallouts, CategoryValues, WideAbove, IdentifierRows, DatetimeMin} \subseteq Nat \ {0}
    \* Every callout that asks for attention and every pick of a strategy has room.
    /\ RecordRows >= 3 * PerStrategy
    /\ MaxCallouts >= 5

\* PreviewIdentity of a managed root; only a root names a version.
ManagedPreviewIdentity(large) ==
    [managed |-> TRUE, mode |-> IF large THEN "large" ELSE "full"]

\* ... and of the dataset context; a path that was typed counts as full analysis.
ContextPreviewIdentity(contexts) ==
    [managed |-> FALSE, mode |-> IF \E context \in contexts : context.large THEN "large" ELSE "full"]

\* Seeded fault: a reading keeps its evidence.
EvidenceKept(evidence, sample) == evidence

Evidence(evidence, sample) == IF sample /\ evidence = "fact" THEN "sample" ELSE evidence

FirstOf(n, seq) == SubSeq(seq, 1, IF n < Len(seq) THEN n ELSE Len(seq))

\* The elements of a set by a total order on it, given as the set of its pairs.
InOrder(S, order) ==
    [r \in 1 .. Cardinality(S) |-> CHOOSE x \in S : Cardinality({y \in S : <<y, x>> \in order}) = r]

-----------------------------------------------------------------------------
(***************************************************************************)
(* Columns.  What the profile did not count is the empty set.              *)
(***************************************************************************)

FactsFromProfile(profile) ==
    [c \in DOMAIN profile.columns |->
        [name |-> profile.columns[c].name, dtype |-> profile.columns[c].dtype,
         missing |-> profile.columns[c].nulls,
         nonNull |-> IF profile.rows > profile.columns[c].nulls
                        THEN profile.rows - profile.columns[c].nulls ELSE 0,
         distinct |-> profile.columns[c].unique]]

DtypeKind(dtype) ==
    CASE dtype = "bool" -> "boolean"
      [] dtype \in {"int64", "float64"} -> "numeric"
      [] OTHER -> "text"

\* A part of a hundred, which zero rows do not have.
AtLeastPct(part, whole, pct) == whole > 0 /\ 100 * part >= pct * whole

\* _bounded_head of one column.
HeadOf(cells) == {i \in DOMAIN cells : i <= ContentRows}

ColumnIsDatetimeText(cells) ==
    LET values == HeadOf(cells) \cap PresentRows(cells)
        shaped == {i \in values : cells[i].k = "date"}
    IN  /\ Cardinality(shaped) >= DatetimeMin
        /\ 10 * Cardinality(shaped) >= 9 * Cardinality(values)

DatetimeTextColumns(frame, facts) ==
    {frame.names[c] : c \in {d \in ColumnsOf(frame) :
        /\ d <= ContentColumns
        /\ DtypeKind(facts[d].dtype) = "text"
        /\ ColumnIsDatetimeText(frame.cells[d])}}

ZeroHeavyColumns(frame, facts) ==
    {frame.names[c] : c \in {d \in ColumnsOf(frame) :
        /\ d <= ContentColumns
        /\ DtypeKind(facts[d].dtype) = "numeric"
        /\ LET values == HeadOf(frame.cells[d]) \cap PresentRows(frame.cells[d])
           IN  10 * Cardinality({i \in values : frame.cells[d][i].v = 0}) >= 9 * Cardinality(values)
                  /\ values /= {}}}

IsLikelyIdentifier(fact) ==
    /\ DtypeKind(fact.dtype) \in {"numeric", "text"} /\ fact.dtype /= "float64"
    /\ fact.nonNull >= IdentifierRows
    /\ \E d \in fact.distinct : 100 * d >= 98 * fact.nonNull
    /\ fact.name \in IdentifierNames

\* A text column is a category when it repeats, with few values.
TextRole(fact) ==
    CASE fact.distinct = {} -> <<"other", "unavailable">>
      [] \E d \in fact.distinct : d <= CategoryValues /\ d < fact.nonNull -> <<"categorical", "heuristic">>
      [] OTHER -> <<"other", "heuristic">>

\* The first rule that matches gives a column its role.
ResolveRole(fact, datetimeText) ==
    CASE fact.nonNull = 0 -> <<"other", "fact">>
      [] fact.nonNull /= 0 /\ IsLikelyIdentifier(fact) -> <<"identifier", "heuristic">>
      [] fact.nonNull /= 0 /\ ~IsLikelyIdentifier(fact) /\ datetimeText -> <<"datetime", "heuristic">>
      [] OTHER ->
           CASE DtypeKind(fact.dtype) = "boolean" -> <<"categorical", "fact">>
             [] DtypeKind(fact.dtype) = "numeric" -> <<"measure", "fact">>
             [] OTHER -> TextRole(fact)

Signals(facts, datetimeText, sample) ==
    [c \in DOMAIN facts |->
        LET role == ResolveRole(facts[c], facts[c].name \in datetimeText)
        IN  [name |-> facts[c].name, role |-> role[1], evidence |-> Evidence(role[2], sample),
             distinct |-> facts[c].distinct, kind |-> DtypeKind(facts[c].dtype)]]

\* displayed_signals: by group, then by column.
DisplayedSignals(overview) == FlattenSeq([i \in DOMAIN overview.groups |-> overview.groups[i].signals])

GroupsTruncated(overview) ==
    \E i \in DOMAIN overview.groups : overview.groups[i].total > Len(overview.groups[i].signals)

RolePrecedence == <<"identifier", "datetime", "categorical", "measure", "other">>

Group(signals, role) ==
    LET members == SelectSeq(signals, LAMBDA s : s.role = role)
    IN  [role |-> role, total |-> Len(members), signals |-> FirstOf(GroupColumns, members)]

GroupSignals(signals) ==
    SelectSeq([i \in DOMAIN RolePrecedence |-> Group(signals, RolePrecedence[i])], LAMBDA g : g.total > 0)

-----------------------------------------------------------------------------
(***************************************************************************)
(* Records: positions are counted from one.                                *)
(***************************************************************************)

FirstPositions(rows) == [i \in 1 .. (IF rows < PerStrategy THEN rows ELSE PerStrategy) |-> i]

SpreadPositions(rows) ==
    LET picks == IF rows < PerStrategy THEN rows ELSE PerStrategy
    IN  [i \in 1 .. picks |-> IF picks = 1 THEN 1 ELSE 1 + ((i - 1) * (rows - 1)) \div (picks - 1)]

MissingFields(frame, i) == Cardinality({c \in ColumnsOf(frame) : frame.cells[c][i].k = "na"})

MostMissingPositions(frame) ==
    LET scanned == {i \in 1 .. RowsOf(frame) : i <= ScanRows /\ MissingFields(frame, i) > 0}
        order == {p \in scanned \X scanned :
                     \/ MissingFields(frame, p[1]) > MissingFields(frame, p[2])
                     \/ MissingFields(frame, p[1]) = MissingFields(frame, p[2]) /\ p[1] <= p[2]}
    IN  FirstOf(PerStrategy, InOrder(scanned, order))

Picked(strategy, positions) == [i \in DOMAIN positions |-> [position |-> positions[i], strategy |-> strategy]]

\* The first strategy that claims a row keeps it.
DedupeRecords(picks) ==
    LET firsts == {i \in DOMAIN picks : \A j \in 1 .. i - 1 : picks[j].position /= picks[i].position}
        claims == InOrder(firsts, {p \in firsts \X firsts : p[1] <= p[2]})
    IN  FirstOf(RecordRows, [r \in DOMAIN claims |-> picks[claims[r]]])

Unavailable == [available |-> FALSE, evidence |-> "unavailable", records |-> <<>>, columns |-> <<>>]

\* frames is empty where no frame is loaded.
SelectRecords(frames, sample) ==
    IF frames = {} \/ \E frame \in frames : RowsOf(frame) = 0 THEN Unavailable
    ELSE LET frame == CHOOSE f \in frames : TRUE
         IN  [available |-> TRUE, evidence |-> Evidence("fact", sample),
              columns |-> FirstOf(RecordColumns, frame.names),
              records |-> DedupeRecords(Picked("first_rows", FirstPositions(RowsOf(frame)))
                                        \o Picked("even_spread", SpreadPositions(RowsOf(frame)))
                                        \o Picked("most_missing", MostMissingPositions(frame)))]

-----------------------------------------------------------------------------
(***************************************************************************)
(* Callouts: those that apply; there is at most one of a key.              *)
(***************************************************************************)

\* The order they are built in.
CalloutOrder ==
    <<"no_columns", "empty_dataset", "wide_dataset", "duplicate_rows",
      "high_missingness", "near_empty_columns", "constant_columns",
      "likely_identifiers", "datetime_text", "high_cardinality_text", "zero_heavy_numeric">>

Callout(key, severity, evidence, names) ==
    [key |-> key, severity |-> severity, evidence |-> evidence, names |-> names]

When(condition, callout) == IF condition THEN {callout} ELSE {}

ShapeCallouts(rows, columns, sample) ==
    When(columns = 0, Callout("no_columns", "attention", Evidence("fact", sample), {}))
    \cup When(rows = 0, Callout("empty_dataset", "attention", Evidence("fact", sample), {}))
    \cup When(columns > WideAbove, Callout("wide_dataset", "note", Evidence("fact", sample), {}))

\* fully duplicated rows: those that repeat an earlier one.
DuplicateRows(frame) ==
    LET Same(i, j) == \A c \in ColumnsOf(frame) : frame.cells[c][i] = frame.cells[c][j]
    IN  Cardinality({j \in 1 .. RowsOf(frame) : \E i \in 1 .. j - 1 : Same(i, j)})

DuplicateCallout(duplicates, sample) ==
    When(duplicates > 0, Callout("duplicate_rows", "attention", Evidence("fact", sample), {}))

MissingnessCallouts(facts, rows, sample) ==
    LET total == SumFunction([c \in DOMAIN facts |-> facts[c].missing])
        nearEmpty == {facts[c].name : c \in {d \in DOMAIN facts : AtLeastPct(facts[d].missing, rows, 95)}}
        constant == {facts[c].name : c \in {d \in DOMAIN facts : facts[d].distinct = {1} /\ facts[d].nonNull > 0}}
    IN  When(AtLeastPct(total, rows * Len(facts), 20),
             Callout("high_missingness", "attention", Evidence("fact", sample), {}))
        \cup When(nearEmpty /= {},
                Callout("near_empty_columns", "attention", Evidence("fact", sample), nearEmpty))
        \cup When(constant /= {}, Callout("constant_columns", "note", Evidence("fact", sample), constant))

RoleCallouts(signals) ==
    LET shown == ToSet(signals)
        identifiers == {s.name : s \in {t \in shown : t.role = "identifier"}}
        dates == {s.name : s \in {t \in shown : t.role = "datetime" /\ t.evidence = "heuristic"}}
        many == {s.name : s \in {t \in shown : /\ t.kind = "text" /\ t.role = "other"
                                               /\ \E d \in t.distinct : d > CategoryValues}}
    IN  When(identifiers /= {}, Callout("likely_identifiers", "note", "heuristic", identifiers))
        \cup When(dates /= {}, Callout("datetime_text", "note", "heuristic", dates))
        \cup When(many /= {}, Callout("high_cardinality_text", "note", "heuristic", many))

NumericCallouts(zeroHeavy) ==
    When(zeroHeavy /= {}, Callout("zero_heavy_numeric", "note", "sample", zeroHeavy))

\* By severity, in the order built within one, and cut.
RankCallouts(callouts) ==
    LET built == {i \in DOMAIN CalloutOrder : \E c \in callouts : c.key = CalloutOrder[i]}
        CalloutAt(i) == CHOOSE c \in callouts : c.key = CalloutOrder[i]
        Grave(i) == CalloutAt(i).severity = "attention"
        order == {p \in built \X built : \/ Grave(p[1]) /\ ~Grave(p[2])
                                         \/ (Grave(p[1]) <=> Grave(p[2])) /\ p[1] <= p[2]}
        ranked == InOrder(built, order)
    IN  FirstOf(MaxCallouts, [r \in DOMAIN ranked |-> CalloutAt(ranked[r])])

-----------------------------------------------------------------------------
BuildSmartOverview(identity, profile, frames, sample) ==
    LET facts == FactsFromProfile(profile)
        dates == UNION {DatetimeTextColumns(frame, facts) : frame \in frames}
        zeroHeavy == UNION {ZeroHeavyColumns(frame, facts) : frame \in frames}
        duplicates == SumFunction([frame \in frames |-> DuplicateRows(frame)])
        signals == Signals(facts, dates, sample)
    IN  [identity |-> identity, sample |-> sample, rows |-> profile.rows, shape |-> Evidence("fact", sample), signals |-> signals,
         groups |-> GroupSignals(signals),
         selection |-> SelectRecords(frames, sample),
         callouts |-> RankCallouts(ShapeCallouts(profile.rows, Len(facts), sample)
                                   \cup DuplicateCallout(duplicates, sample)
                                   \cup MissingnessCallouts(facts, profile.rows, sample)
                                   \cup RoleCallouts(signals)
                                   \cup NumericCallouts(zeroHeavy))]
=============================================================================
