---------------------------- MODULE AnalysisProofs ----------------------------
(***************************************************************************)
(* Proofs about what a file is analysed to, for any files, rules and       *)
(* chunks: the score the Quality Score page explains is the one that was   *)
(* computed, the streamed assessment is part of the full one, and the      *)
(* smart preview agrees with the assessment beside it; and, for any frame  *)
(* and any choice of columns, that the charts of the EDA Explorer add up   *)
(* to what they say they cover, and that what is offered is drawn.         *)
(*                                                                         *)
(* Sums are compared by counting: a sum of natural numbers is the number   *)
(* of its dots.                                                            *)
(***************************************************************************)
EXTENDS PagesProofs, EdaPage, AssessmentPages

-----------------------------------------------------------------------------
(***************************************************************************)
(* Sums                                                                    *)
(***************************************************************************)

\* As many dots for every argument as the function says.
Dots(f) == {p \in (DOMAIN f) \X Nat : p[2] \in 1 .. f[p[1]]}

Counts(f) == IsFiniteSet(DOMAIN f) /\ \A k \in DOMAIN f : f[k] \in Nat

\* A sum of natural numbers counts its dots.
LEMMA SumIsCount ==
    ASSUME NEW f, Counts(f)
    PROVE  IsFiniteSet(Dots(f)) /\ SumFunction(f) = Cardinality(Dots(f)) /\ SumFunction(f) \in Nat
<1> DEFINE K == DOMAIN f
           of == [k \in K |-> {k} \X (1 .. f[k])]
           key == [p \in Dots(f) |-> p[1]]
<1>1. ASSUME NEW k \in K
      PROVE  IsFiniteSet(of[k]) /\ Cardinality(of[k]) = f[k]
  <2>1. f[k] \in Nat /\ IsFiniteSet(1 .. f[k]) /\ Cardinality(1 .. f[k]) = f[k]
    BY FS_Interval DEF Counts
  <2>2. IsFiniteSet({k}) /\ Cardinality({k}) = 1
    BY FS_Singleton
  <2>3. IsFiniteSet({k} \X (1 .. f[k])) /\ Cardinality({k} \X (1 .. f[k])) = Cardinality({k}) * Cardinality(1 .. f[k])
    BY <2>1, <2>2, FS_Product
  <2> QED
    BY <2>1, <2>2, <2>3
<1>2. Dots(f) = UNION {of[k] : k \in K}
  BY DEF Dots, Counts
<1>3. IsFiniteSet(Dots(f))
  <2>1. IsFiniteSet({of[k] : k \in K})
    <3> HIDE DEF of
    <3> QED
      BY ImageIsFinite DEF Counts
  <2>2. \A T \in {of[k] : k \in K} : IsFiniteSet(T)
    BY <1>1
  <2> QED
    BY <1>2, <2>1, <2>2, FS_UNION
<1>4. \A p \in Dots(f) : key[p] \in DOMAIN f
  BY DEF Dots
<1>5. \A k \in DOMAIN f : f[k] = Cardinality({p \in Dots(f) : key[p] = k})
  <2>1. ASSUME NEW k \in K PROVE {p \in Dots(f) : key[p] = k} = of[k]
    BY DEF Dots, Counts
  <2> HIDE DEF key, of
  <2> QED
    BY <1>1, <2>1
<1>6. SumFunction(f) = Cardinality(Dots(f))
  <2> HIDE DEF key
  <2> QED
    BY <1>3, <1>4, <1>5, SumOfParts DEF Counts
<1> QED
  BY <1>3, <1>6, FS_CardinalityType

\* A sum does not shrink when every part finds a part of its own that is no smaller.
LEMMA SumGrows ==
    ASSUME NEW f, NEW g, Counts(f), Counts(g),
           NEW e \in Injection(DOMAIN f, DOMAIN g),
           \A k \in DOMAIN f : f[k] <= g[e[k]]
    PROVE  SumFunction(f) <= SumFunction(g)
<1> DEFINE into == [p \in Dots(f) |-> <<e[p[1]], p[2]>>]
<1>1. e \in [DOMAIN f -> DOMAIN g] /\ \A j, k \in DOMAIN f : e[j] = e[k] => j = k
  BY DEF Injection, IsInjective
<1>2. ASSUME NEW p \in Dots(f) PROVE into[p] \in Dots(g)
  <2>1. p[1] \in DOMAIN f /\ p[2] \in Nat /\ p[2] \in 1 .. f[p[1]]
    BY DEF Dots
  <2>2. e[p[1]] \in DOMAIN g /\ f[p[1]] <= g[e[p[1]]] /\ f[p[1]] \in Nat /\ g[e[p[1]]] \in Nat
    BY <1>1, <2>1 DEF Counts
  <2>3. p[2] \in 1 .. g[e[p[1]]]
    BY <2>1, <2>2
  <2> QED
    BY <2>1, <2>2, <2>3 DEF Dots
<1>3. ASSUME NEW p \in Dots(f), NEW q \in Dots(f), into[p] = into[q] PROVE p = q
  <2>1. e[p[1]] = e[q[1]] /\ p[2] = q[2]
    BY <1>3
  <2>2. p = <<p[1], p[2]>> /\ q = <<q[1], q[2]>> /\ p[1] \in DOMAIN f /\ q[1] \in DOMAIN f
    BY DEF Dots
  <2> QED
    BY <1>1, <2>1, <2>2
<1>4. into \in Injection(Dots(f), Dots(g))
  BY <1>2, <1>3 DEF Injection, IsInjective
<1>5. Cardinality(Dots(f)) <= Cardinality(Dots(g))
  BY <1>4, SumIsCount, FS_Injection
<1> QED
  BY <1>5, SumIsCount

\* Two functions on one domain, one of them below the other.
LEMMA SumOfLess ==
    ASSUME NEW f, NEW g, Counts(f), Counts(g), DOMAIN f = DOMAIN g,
           \A k \in DOMAIN f : f[k] <= g[k]
    PROVE  SumFunction(f) <= SumFunction(g)
<1> DEFINE same == [k \in DOMAIN f |-> k]
<1>1. same \in Injection(DOMAIN f, DOMAIN g) /\ \A k \in DOMAIN f : same[k] = k
  BY DEF Injection, IsInjective
<1> HIDE DEF same
<1> QED
  BY <1>1, SumGrows

-----------------------------------------------------------------------------
(***************************************************************************)
(* Frames and profiles                                                     *)
(***************************************************************************)

\* What was built position by position has that length.
LEMMA LengthOfBuilt ==
    ASSUME NEW n \in Nat, NEW f, f = [i \in 1 .. n |-> f[i]]
    PROVE  Len(f) = n
<1> DEFINE S == {f[i] : i \in 1 .. n}
<1>1. f \in [1 .. n -> S]
  OBVIOUS
<1>2. f \in Seq(S)
  BY <1>1
<1>3. DOMAIN f = 1 .. Len(f) /\ Len(f) \in Nat /\ DOMAIN f = 1 .. n
  BY <1>1, <1>2, LenProperties
<1> QED
  BY <1>3

\* A frame of n rows.
FrameOf(sheet, n) ==
    /\ n \in Nat
    /\ sheet.names \in Seq(STRING) /\ 1 \in ColumnsOf(sheet) /\ DOMAIN sheet.cells = ColumnsOf(sheet)
    /\ \A c \in ColumnsOf(sheet) : DOMAIN sheet.cells[c] = 1 .. n /\ Len(sheet.cells[c]) = n

\* A profile of columns that have no more nulls than there are rows.
ProfileOf(profile) ==
    /\ profile.rows \in Nat
    /\ IsFiniteSet(DOMAIN profile.columns)
    /\ \A c \in DOMAIN profile.columns :
         profile.columns[c].nulls \in Nat /\ profile.columns[c].nulls <= profile.rows

LEMMA FileIsFrame ==
    ASSUME NEW origin, CsvFile(origin)
    PROVE  FrameOf(origin, RowsOf(origin))
<1>1. origin.names \in Seq(STRING) /\ origin.names # <<>> /\ DOMAIN origin.cells = DOMAIN origin.names
  BY DEF CsvFile
<1>2. 1 \in ColumnsOf(origin)
  BY <1>1, LenProperties, EmptySeq, SMT DEF ColumnsOf
<1>3. ASSUME NEW c \in ColumnsOf(origin)
      PROVE  DOMAIN origin.cells[c] = 1 .. RowsOf(origin) /\ Len(origin.cells[c]) = RowsOf(origin) /\ RowsOf(origin) \in Nat
  BY <1>3, LenProperties DEF CsvFile
<1> QED
  BY <1>1, <1>2, <1>3 DEF FrameOf, ColumnsOf

LEMMA FrameIsFrame ==
    ASSUME NEW origin, CsvFile(origin), NEW rows_ \in SUBSET (1 .. RowsOf(origin))
    PROVE  FrameOf(Frame(origin, rows_), Cardinality(rows_)) /\ Frame(origin, rows_).names = origin.names
<1> DEFINE n == Cardinality(rows_)
           at(i) == CHOOSE r \in rows_ : Cardinality({s \in rows_ : s <= r}) = i
<1>1. FrameOf(origin, RowsOf(origin))
  BY FileIsFrame
<1>2. n \in Nat
  <2>1. IsFiniteSet(1 .. RowsOf(origin))
    BY <1>1, FS_Interval DEF FrameOf
  <2> QED
    BY <2>1, FS_Subset, FS_CardinalityType
<1> HIDE DEF n
<1>3. Frame(origin, rows_).names = origin.names
  BY DEF Frame
<1>4. DOMAIN Frame(origin, rows_).cells = ColumnsOf(origin)
  BY DEF Frame
<1>5. ASSUME NEW c \in ColumnsOf(origin)
      PROVE  DOMAIN Frame(origin, rows_).cells[c] = 1 .. n /\ Len(Frame(origin, rows_).cells[c]) = n
  <2> DEFINE cells == [i \in 1 .. n |-> origin.cells[c][at(i)]]
  <2>1. Frame(origin, rows_).cells[c] = cells
    BY DEF Frame, n
  <2>2. DOMAIN cells = 1 .. n /\ cells = [i \in 1 .. n |-> cells[i]]
    OBVIOUS
  <2> HIDE DEF cells
  <2> QED
    BY <1>2, <2>1, <2>2, LengthOfBuilt
<1> QED
  BY <1>1, <1>2, <1>3, <1>4, <1>5 DEF FrameOf, ColumnsOf, n

LEMMA ColumnsAreFinite ==
    ASSUME NEW sheet, NEW n, FrameOf(sheet, n)
    PROVE  IsFiniteSet(ColumnsOf(sheet)) /\ RowsOf(sheet) = n
<1>1. DOMAIN sheet.names = 1 .. Len(sheet.names) /\ Len(sheet.names) \in Nat
  BY LenProperties DEF FrameOf
<1>2. IsFiniteSet(1 .. Len(sheet.names))
  BY <1>1, FS_Interval
<1>3. RowsOf(sheet) = n
  BY DEF FrameOf, ColumnsOf, RowsOf
<1> QED
  BY <1>1, <1>2, <1>3 DEF ColumnsOf

LEMMA NullsAreRows ==
    ASSUME NEW cells, NEW n \in Nat, DOMAIN cells = 1 .. n, Len(cells) = n
    PROVE  /\ Nulls(cells) \in Nat /\ Nulls(cells) <= n
           /\ IsFiniteSet(PresentRows(cells)) /\ Cardinality(PresentRows(cells)) \in Nat
<1>1. IsFiniteSet(1 .. n) /\ Cardinality(1 .. n) = n
  BY FS_Interval
<1>2. PresentRows(cells) \in SUBSET (1 .. n)
  BY DEF PresentRows
<1>3. /\ IsFiniteSet(PresentRows(cells)) /\ Cardinality(PresentRows(cells)) \in Nat
      /\ Cardinality(PresentRows(cells)) <= n
  BY <1>1, <1>2, FS_Subset, FS_CardinalityType
<1> QED
  BY <1>3 DEF Nulls

LEMMA ProfilingProfiles ==
    ASSUME NEW sheet, NEW n, FrameOf(sheet, n), NEW rows_
    PROVE  ProfileOf(RunProfiling(sheet, rows_))
<1> DEFINE p == RunProfiling(sheet, rows_)
<1>1. p.rows = n /\ n \in Nat /\ DOMAIN p.columns = ColumnsOf(sheet) /\ IsFiniteSet(ColumnsOf(sheet))
  BY ColumnsAreFinite DEF RunProfiling, FrameOf
<1>2. ASSUME NEW c \in ColumnsOf(sheet) PROVE p.columns[c].nulls \in Nat /\ p.columns[c].nulls <= n
  <2>1. p.columns[c].nulls = Nulls(sheet.cells[c])
    BY DEF RunProfiling, ProfileColumn
  <2> QED
    BY <2>1, NullsAreRows DEF FrameOf
<1> QED
  BY <1>1, <1>2 DEF ProfileOf

-----------------------------------------------------------------------------
(***************************************************************************)
(* Scores                                                                  *)
(***************************************************************************)

\* More penalties never raise a score, and none raises the completeness.
LEMMA PenaltiesLower ==
    ASSUME NEW score \in Nat, NEW a \in Nat, NEW b \in Nat, NEW c \in Nat, NEW d \in Nat, a <= c, b <= d
    PROVE  /\ Penalised(score, a, b) \in Nat /\ Penalised(score, c, d) \in Nat
           /\ Penalised(score, c, d) <= Penalised(score, a, b)
           /\ Penalised(score, a, b) <= score
BY SMT DEF Penalised, Clamped, AtMostCap, SchemaPenaltyCap, DistPenaltyCap

\* Completeness is never negative, and a config that is accepted has weights above 0.
LEMMA ScoreIsNatural ==
    ASSUME NEW profile, ProfileOf(profile), NEW columns, RuleSet(columns), ConfigValid(columns)
    PROVE  ComputeScore(profile, columns) \in Nat
<1> DEFINE n == AtLeastOne(profile.rows)
           weight == [c \in DOMAIN profile.columns |-> RuleOf(columns, profile.columns[c].name).weight]
           complete == [c \in DOMAIN profile.columns |-> weight[c] * (n - profile.columns[c].nulls)]
<1>1. n \in Nat /\ 1 <= n /\ profile.rows <= n
  BY DEF ProfileOf, AtLeastOne
<1>2. \A c \in DOMAIN profile.columns : weight[c] \in Nat
  BY DEF RuleSet, ConfigValid, ColumnRulesValid, WeightValid, RuleOf, NoRule
<1>3. \A c \in DOMAIN profile.columns : complete[c] \in Nat
  <2> HIDE DEF n, weight
  <2>1. ASSUME NEW c \in DOMAIN profile.columns PROVE complete[c] \in Nat
    <3>1. n - profile.columns[c].nulls \in Nat
      BY <1>1 DEF ProfileOf
    <3>2. \A u, v \in Nat : u * v \in Nat
      BY SMT
    <3> QED
      BY <1>2, <3>1, <3>2
  <2> QED
    BY <2>1
<1>4. Counts(weight) /\ Counts(complete)
  BY <1>2, <1>3 DEF Counts, ProfileOf
<1> HIDE DEF weight, complete
<1>5. SumFunction(weight) \in Nat /\ SumFunction(complete) \in Nat
  BY <1>4, SumIsCount
<1> HIDE DEF n
<1>6. ASSUME SumFunction(weight) # 0
      PROVE  Rounded(10000 * SumFunction(complete), n * SumFunction(weight)) \in Nat
  <2>1. \A u, v \in Nat \ {0} : u * v \in Nat \ {0}
    BY SMT
  <2>2. n * SumFunction(weight) \in Nat \ {0} /\ 10000 * SumFunction(complete) \in Nat
    BY <1>1, <1>5, <1>6, <2>1
  <2>3. \A u \in Nat, v \in Nat \ {0} : (2 * u + v) \div (2 * v) \in Nat
    <3>1. \A a \in Nat, b \in Nat \ {0} : a \div b \in Nat
      BY SMT
    <3>2. \A u \in Nat, v \in Nat \ {0} : 2 * u + v \in Nat /\ 2 * v \in Nat \ {0}
      BY SMT
    <3> QED
      BY <3>1, <3>2
  <2> QED
    BY <2>2, <2>3 DEF Rounded
<1>7. ComputeScore(profile, columns)
        = IF SumFunction(weight) = 0 THEN 0 ELSE Rounded(10000 * SumFunction(complete), n * SumFunction(weight))
  BY DEF ComputeScore, weight, complete, n
<1> QED
  BY <1>6, <1>7

-----------------------------------------------------------------------------
(***************************************************************************)
(* Issues                                                                  *)
(***************************************************************************)

\* The rules that need neither a frame nor a count of the distinct values.
SupportedTypes ==
    {"missing", "duplicate_column_name", "blank_column_name", "padded_column_name",
     "placeholder_column_name", "all_null_column", "missing_required_column",
     "dtype_mismatch", "column_quality_gate_failed"}

\* The rules that need no frame.
PlainTypes == SupportedTypes \cup {"constant_column"}

IssuesOf(types, names) ==
    [type : types, column : names, severity : {"critical", "high", "medium", "low"},
     category : {"Completeness", "Schema", "Cardinality", "Distribution"}]

PlainIssues(profile, columns) ==
    MissingIssues(profile, columns) \cup StructuralIssues(profile, columns) \cup QualityGates(profile, columns)

SupportedIssues(profile, columns) ==
    UNION {MissingIssues(profile, columns), DuplicateNames(profile), BlankNames(profile), PaddedNames(profile),
           PlaceholderIssues(profile), AllNullColumns(profile), RequiredColumns(profile, columns),
           DtypeMismatch(profile, columns), QualityGates(profile, columns)}

\* The names of a profile and of the rules it is assessed by.
NamesOf(profile, columns) ==
    {profile.columns[c].name : c \in DOMAIN profile.columns}
        \cup {NameQuoted[profile.columns[c].name] : c \in DOMAIN profile.columns} \cup DOMAIN columns

LEMMA NamesAreFinite ==
    ASSUME NEW profile, ProfileOf(profile), NEW columns, RuleSet(columns)
    PROVE  IsFiniteSet(NamesOf(profile, columns))
<1> DEFINE C == DOMAIN profile.columns
           name == [c \in C |-> profile.columns[c].name]
           quoted == [c \in C |-> NameQuoted[profile.columns[c].name]]
<1>1. IsFiniteSet({name[c] : c \in C}) /\ IsFiniteSet({quoted[c] : c \in C})
  <2>1. IsFiniteSet(C)
    BY DEF ProfileOf
  <2> HIDE DEF name, quoted, C
  <2> QED
    BY <2>1, ImageIsFinite
<1>2. NamesOf(profile, columns) = {name[c] : c \in C} \cup {quoted[c] : c \in C} \cup DOMAIN columns
  BY DEF NamesOf
<1>3. IsFiniteSet({name[c] : c \in C} \cup {quoted[c] : c \in C})
  <2> HIDE DEF name, quoted, C
  <2> QED
    BY <1>1, FS_Union
<1> HIDE DEF name, quoted, C
<1> QED
  BY <1>2, <1>3, FS_Union DEF RuleSet

LEMMA IssuesAreFinite ==
    ASSUME NEW types, IsFiniteSet(types), NEW names_, IsFiniteSet(names_), NEW issues \in SUBSET IssuesOf(types, names_)
    PROVE  IsFiniteSet(issues)
<1> DEFINE L == {"critical", "high", "medium", "low"}
           G == {"Completeness", "Schema", "Cardinality", "Distribution"}
           P == (types \X names_) \X (L \X G)
           issue == [p \in P |-> Issue(p[1][1], p[1][2], p[2][1], p[2][2])]
<1>1. IsFiniteSet(L) /\ IsFiniteSet(G)
  <2>1. \A u : IsFiniteSet({u})
    BY FS_Singleton
  <2>2. L = ({"critical"} \cup {"high"}) \cup ({"medium"} \cup {"low"})
    OBVIOUS
  <2>3. G = ({"Completeness"} \cup {"Schema"}) \cup ({"Cardinality"} \cup {"Distribution"})
    OBVIOUS
  <2>4. \A A, B : IsFiniteSet(A) /\ IsFiniteSet(B) => IsFiniteSet(A \cup B)
    BY FS_Union
  <2> HIDE DEF L, G
  <2> QED
    BY <2>1, <2>2, <2>3, <2>4
<1>2. IsFiniteSet(P)
  <2>1. \A A, B : IsFiniteSet(A) /\ IsFiniteSet(B) => IsFiniteSet(A \X B)
    BY FS_Product
  <2> HIDE DEF L, G
  <2> QED
    BY <1>1, <2>1
<1>3. IsFiniteSet({issue[p] : p \in P})
  <2> HIDE DEF issue, P
  <2> QED
    BY <1>2, ImageIsFinite
<1>4. ASSUME NEW i \in issues PROVE i \in {issue[p] : p \in P}
  <2>1. /\ i.type \in types /\ i.column \in names_ /\ i.severity \in L /\ i.category \in G
        /\ i = Issue(i.type, i.column, i.severity, i.category)
    BY DEF IssuesOf, Issue
  <2>2. PICK p \in P : p = <<<<i.type, i.column>>, <<i.severity, i.category>>>>
    BY <2>1
  <2>3. issue[p] = Issue(i.type, i.column, i.severity, i.category)
    BY <2>2
  <2> QED
    BY <2>1, <2>3
<1> HIDE DEF issue, P
<1> QED
  BY <1>3, <1>4, FS_Subset

LEMMA SupportedIssuesAreSupported ==
    ASSUME NEW profile, NEW columns
    PROVE  SupportedIssues(profile, columns) \subseteq IssuesOf(SupportedTypes, NamesOf(profile, columns))
<1> DEFINE I == IssuesOf(SupportedTypes, NamesOf(profile, columns))
<1>0. ASSUME NEW col \in ColumnSet(profile)
      PROVE  col.name \in NamesOf(profile, columns) /\ NameQuoted[col.name] \in NamesOf(profile, columns)
  BY DEF ColumnSet, NamesOf
<1>1. MissingIssues(profile, columns) \subseteq I
  BY <1>0 DEF MissingIssues, Issue, IssuesOf, SupportedTypes
<1>2. DuplicateNames(profile) \subseteq I
  BY DEF DuplicateNames, NamesOf, Issue, IssuesOf, SupportedTypes
<1>3. BlankNames(profile) \subseteq I
  <2>1. ASSUME NEW i \in BlankNames(profile)
        PROVE  \E col \in ColumnSet(profile) : i = Issue("blank_column_name", NameQuoted[col.name], "high", "Schema")
    BY Zenon DEF BlankNames
  <2> QED
    BY <1>0, <2>1 DEF Issue, IssuesOf, SupportedTypes
<1>4. PaddedNames(profile) \subseteq I
  <2>1. ASSUME NEW i \in PaddedNames(profile)
        PROVE  \E col \in ColumnSet(profile) : i = Issue("padded_column_name", NameQuoted[col.name], "medium", "Schema")
    BY Zenon DEF PaddedNames
  <2> QED
    BY <1>0, <2>1 DEF Issue, IssuesOf, SupportedTypes
<1>5. PlaceholderIssues(profile) \subseteq I
  <2>1. ASSUME NEW i \in PlaceholderIssues(profile)
        PROVE  \E col \in ColumnSet(profile) : i = Issue("placeholder_column_name", col.name, "medium", "Schema")
    BY Zenon DEF PlaceholderIssues
  <2> QED
    BY <1>0, <2>1 DEF Issue, IssuesOf, SupportedTypes
<1>6. AllNullColumns(profile) \subseteq I
  BY <1>0 DEF AllNullColumns, Issue, IssuesOf, SupportedTypes
<1>7. RequiredColumns(profile, columns) \subseteq I
  BY DEF RequiredColumns, NamesOf, Issue, IssuesOf, SupportedTypes
<1>8. DtypeMismatch(profile, columns) \subseteq I
  BY <1>0 DEF DtypeMismatch, Issue, IssuesOf, SupportedTypes
<1>9. QualityGates(profile, columns) \subseteq I
  BY <1>0 DEF QualityGates, Issue, IssuesOf, SupportedTypes
<1> HIDE DEF I
<1>10. SupportedIssues(profile, columns) \subseteq I
  BY <1>1, <1>2, <1>3, <1>4, <1>5, <1>6, <1>7, <1>8, <1>9 DEF SupportedIssues
<1> QED
  BY <1>10 DEF I

LEMMA PlainIssuesArePlain ==
    ASSUME NEW profile, NEW columns
    PROVE  /\ PlainIssues(profile, columns) = SupportedIssues(profile, columns) \cup ConstantColumns(profile)
           /\ ConstantColumns(profile) \subseteq IssuesOf({"constant_column"}, NamesOf(profile, columns))
           /\ PlainIssues(profile, columns) \subseteq IssuesOf(PlainTypes, NamesOf(profile, columns))
<1>1. PlainIssues(profile, columns) = SupportedIssues(profile, columns) \cup ConstantColumns(profile)
  BY DEF PlainIssues, SupportedIssues, StructuralIssues
<1>2. ConstantColumns(profile) \subseteq IssuesOf({"constant_column"}, NamesOf(profile, columns))
  <2>1. ASSUME NEW col \in ColumnSet(profile) PROVE col.name \in NamesOf(profile, columns)
    BY DEF ColumnSet, NamesOf
  <2> QED
    BY <2>1 DEF ConstantColumns, Issue, IssuesOf
<1>3. \A types \in SUBSET PlainTypes :
         IssuesOf(types, NamesOf(profile, columns)) \subseteq IssuesOf(PlainTypes, NamesOf(profile, columns))
  BY DEF IssuesOf
<1>4. SupportedTypes \subseteq PlainTypes /\ {"constant_column"} \subseteq PlainTypes
  BY DEF PlainTypes
<1> QED
  BY <1>1, <1>2, <1>3, <1>4, SupportedIssuesAreSupported

LEMMA AdvancedIssuesAreOfFrame ==
    ASSUME NEW sheet, NEW profile, NEW columns,
           \A c \in ColumnsOf(sheet) : sheet.names[c] \in NamesOf(profile, columns)
    PROVE  AdvancedIssues(sheet, profile, columns) \subseteq IssuesOf(FrameRules, NamesOf(profile, columns))
<1> DEFINE I == IssuesOf(FrameRules, NamesOf(profile, columns))
<1>0. ASSUME NEW col \in ColumnSet(profile) PROVE col.name \in NamesOf(profile, columns)
  BY DEF ColumnSet, NamesOf
<1>1. TooManyDistinct(profile, columns) \subseteq I
  BY <1>0 DEF TooManyDistinct, Issue, IssuesOf, FrameRules
<1>2. NumericOutliers(sheet, columns) \subseteq I
  BY DEF NumericOutliers, Issue, IssuesOf, FrameRules
<1>3. AcceptedValueViolations(sheet, columns) \subseteq I
  BY DEF AcceptedValueViolations, Issue, IssuesOf, FrameRules
<1>4. UniquenessViolations(sheet, columns) \subseteq I
  BY DEF UniquenessViolations, Issue, IssuesOf, FrameRules
<1> HIDE DEF I
<1>5. AdvancedIssues(sheet, profile, columns) \subseteq I
  BY <1>1, <1>2, <1>3, <1>4 DEF AdvancedIssues
<1> QED
  BY <1>5 DEF I

\* What an assessment consists of, without a frame and with one.
LEMMA WhatIsAssessed ==
    ASSUME NEW profile, NEW columns, NEW sheet
    PROVE  /\ Assess(profile, columns, {}).issues = PlainIssues(profile, columns)
           /\ Assess(profile, columns, {sheet}).issues
                = PlainIssues(profile, columns) \cup AdvancedIssues(sheet, profile, columns)
<1>1. UNION {AdvancedIssues(s, profile, columns) : s \in {}} = {}
  OBVIOUS
<1>2. UNION {AdvancedIssues(s, profile, columns) : s \in {sheet}} = AdvancedIssues(sheet, profile, columns)
  OBVIOUS
<1>3. \A A, B, C, D : UNION {A, B, C, D} = A \cup B \cup C \cup D
  OBVIOUS
<1> QED
  BY <1>1, <1>2, <1>3 DEF Assess, PlainIssues

LEMMA HowItIsScored ==
    ASSUME NEW profile, NEW columns, NEW frames, NEW a, a = Assess(profile, columns, frames)
    PROVE  /\ a.score = ComputeScore(profile, columns)
           /\ a.quality = ComputeQualityScore(a.score, a.issues, columns)
BY DEF Assess

-----------------------------------------------------------------------------
(***************************************************************************)
(* Penalties                                                               *)
(***************************************************************************)

LEMMA PenaltyOfIssue ==
    ASSUME NEW types, NEW names_, NEW i \in IssuesOf(types, names_), NEW columns, RuleSet(columns)
    PROVE  /\ SeverityPenalties[i.severity] \in Nat /\ Penalty(i, columns) \in Nat
           /\ SeverityPenalties[i.severity] <= Penalty(i, columns)
           /\ ~RuleOf(columns, i.column).critical => Penalty(i, columns) = SeverityPenalties[i.severity]
<1>1. SeverityPenalties[i.severity] \in Nat
  BY DEF SeverityPenalties, IssuesOf
<1>2. RuleOf(columns, i.column).critical \in BOOLEAN
  BY DEF RuleOf, RuleSet, NoRule
<1>3. Penalty(i, columns) = SeverityPenalties[i.severity] \/ Penalty(i, columns) = SeverityPenalties[i.severity] * 2
  BY <1>1 DEF Penalty
<1>4. ~RuleOf(columns, i.column).critical => Penalty(i, columns) = SeverityPenalties[i.severity]
  BY <1>1 DEF Penalty, Doubled
<1> QED
  BY <1>1, <1>3, <1>4

\* More issues, more penalties.
LEMMA PenaltiesGrow ==
    ASSUME NEW types, NEW names_, NEW issues \in SUBSET IssuesOf(types, names_), IsFiniteSet(issues),
           NEW fewer \in SUBSET issues, NEW columns, RuleSet(columns)
    PROVE  /\ Penalties(fewer, columns) \in Nat /\ Penalties(issues, columns) \in Nat
           /\ Penalties(fewer, columns) <= Penalties(issues, columns)
<1> DEFINE f == [i \in fewer |-> Penalty(i, columns)]
           g == [i \in issues |-> Penalty(i, columns)]
           same == [i \in fewer |-> i]
<1>1. \A i \in issues : Penalty(i, columns) \in Nat
  BY PenaltyOfIssue
<1>2. IsFiniteSet(fewer)
  BY FS_Subset
<1>3. Counts(f) /\ Counts(g)
  BY <1>1, <1>2 DEF Counts
<1>4. same \in Injection(DOMAIN f, DOMAIN g) /\ \A i \in DOMAIN f : f[i] <= g[same[i]]
  BY <1>1 DEF Injection, IsInjective
<1>5. Penalties(fewer, columns) = SumFunction(f) /\ Penalties(issues, columns) = SumFunction(g)
  BY DEF Penalties
<1> HIDE DEF f, g, same
<1> QED
  BY <1>3, <1>4, <1>5, SumIsCount, SumGrows

\* The points of the rows of a bucket, and the issues they are of.
BucketPoints(issues, bucket) ==
    [r \in {s \in {t \in ContributionRows(issues) : t.counted} : s.bucket = bucket} |-> r.points]

InBucket(issues, bucket) == {i \in Counted(issues) : i.category = "Schema" <=> bucket = "schema"}

\* The rows of one bucket add up to the penalties of its issues, but for what is
\* doubled for a critical column.
LEMMA BucketAddsUp ==
    ASSUME NEW types, NEW names_, NEW issues \in SUBSET IssuesOf(types, names_), IsFiniteSet(issues),
           NEW columns, RuleSet(columns), NEW bucket \in {"schema", "distribution"},
           NEW members, members = InBucket(issues, bucket),
           NEW points, points = BucketPoints(issues, bucket)
    PROVE  /\ SumFunction(points) \in Nat /\ SumFunction(points) <= Penalties(members, columns)
           /\ (\A i \in members : ~RuleOf(columns, i.column).critical)
                 => SumFunction(points) = Penalties(members, columns)
<1> DEFINE row(i) ==
             [issue |-> i, counted |-> i.type \notin ExcludedPenaltyTypes,
              bucket |-> IF i.category = "Schema" THEN "schema" ELSE "distribution",
              points |-> IF i.type \in ExcludedPenaltyTypes THEN 0 ELSE SeverityPenalties[i.severity]]
           g == [i \in members |-> Penalty(i, columns)]
           issue == [r \in DOMAIN points |-> r.issue]
           back == [i \in members |-> row(i)]
<1>0. /\ members = {i \in Counted(issues) : i.category = "Schema" <=> bucket = "schema"}
      /\ points = [r \in {s \in {t \in ContributionRows(issues) : t.counted} : s.bucket = bucket} |-> r.points]
  BY DEF InBucket, BucketPoints
<1>1. members \in SUBSET issues /\ IsFiniteSet(members)
  <2>1. members \in SUBSET issues
    BY <1>0 DEF Counted
  <2> QED
    BY <2>1, FS_Subset
<1>2. ASSUME NEW r \in DOMAIN points
      PROVE  r.issue \in members /\ r = row(r.issue) /\ points[r] = SeverityPenalties[r.issue.severity]
  <2>1. PICK i \in issues : r = row(i)
    BY <1>0 DEF ContributionRows
  <2>2. r.issue = i /\ r.counted = (i.type \notin ExcludedPenaltyTypes)
    BY <2>1
  <2>3. r.bucket = (IF i.category = "Schema" THEN "schema" ELSE "distribution") /\ r.bucket = bucket /\ r.counted
    BY <1>0, <2>1
  <2>4. i \in Counted(issues)
    BY <2>2, <2>3 DEF Counted
  <2>5. i.category = "Schema" <=> bucket = "schema"
    BY <2>3
  <2>6. points[r] = SeverityPenalties[i.severity]
    <3>1. points[r] = r.points
      BY <1>0
    <3>2. r.points = SeverityPenalties[i.severity]
      BY <2>1, <2>4 DEF Counted
    <3> QED
      BY <3>1, <3>2
  <2>7. i \in members
    BY <1>0, <2>4, <2>5
  <2> QED
    BY <2>1, <2>2, <2>6, <2>7
<1>3. ASSUME NEW i \in members PROVE row(i) \in DOMAIN points /\ row(i).issue = i
  <2>1. i \in issues /\ i.type \notin ExcludedPenaltyTypes /\ (i.category = "Schema" <=> bucket = "schema")
    BY <1>0 DEF Counted
  <2>2. row(i) \in ContributionRows(issues) /\ row(i).counted /\ row(i).bucket = bucket
    BY <2>1 DEF ContributionRows
  <2> QED
    BY <1>0, <2>2
<1>4. /\ IsFiniteSet(DOMAIN g) /\ \A i \in members : g[i] \in Nat
  BY <1>1, PenaltyOfIssue
<1> HIDE DEF row
<1>5. issue \in Injection(DOMAIN points, members)
  <2>1. ASSUME NEW r \in DOMAIN points, NEW s \in DOMAIN points, r.issue = s.issue PROVE r = s
    <3>1. r = row(r.issue) /\ s = row(s.issue)
      BY <1>2
    <3> QED
      BY <2>1, <3>1
  <2>2. issue \in [DOMAIN points -> members]
    BY <1>2
  <2>3. \A r, s \in DOMAIN points : issue[r] = issue[s] => r = s
    BY <2>1
  <2> QED
    BY <2>2, <2>3 DEF Injection, IsInjective
<1>6. back \in Injection(members, DOMAIN points)
  <2>1. \A i \in members : row(i) \in DOMAIN points
    BY <1>3
  <2>2. \A i, j \in members : row(i) = row(j) => i = j
    BY <1>3
  <2> QED
    BY <2>1, <2>2 DEF Injection, IsInjective
<1>7. Counts(points) /\ Counts(g)
  <2>1. IsFiniteSet(DOMAIN points)
    BY <1>1, <1>5, FS_Injection
  <2>2. ASSUME NEW r \in DOMAIN points PROVE points[r] \in Nat
    <3>1. r.issue \in issues /\ points[r] = SeverityPenalties[r.issue.severity]
      BY <1>1, <1>2
    <3> QED
      BY <3>1, PenaltyOfIssue
  <2> QED
    BY <1>4, <2>1, <2>2 DEF Counts
<1>8. \A r \in DOMAIN points : points[r] <= g[issue[r]]
  <2>1. ASSUME NEW r \in DOMAIN points PROVE points[r] <= g[issue[r]]
    <3>1. r.issue \in members /\ points[r] = SeverityPenalties[r.issue.severity] /\ issue[r] = r.issue
      BY <1>2
    <3>2. g[r.issue] = Penalty(r.issue, columns) /\ SeverityPenalties[r.issue.severity] <= Penalty(r.issue, columns)
      BY <1>1, <3>1, PenaltyOfIssue
    <3> QED
      BY <3>1, <3>2
  <2> QED
    BY <2>1
<1>9. DOMAIN g = members /\ Penalties(members, columns) = SumFunction(g)
  BY DEF Penalties
<1>10. ASSUME \A i \in members : ~RuleOf(columns, i.column).critical
       PROVE  \A i \in DOMAIN g : g[i] <= points[back[i]]
  <2>1. ASSUME NEW i \in members PROVE g[i] <= points[back[i]]
    <3>1. back[i] \in DOMAIN points /\ back[i].issue = i
      BY <1>3
    <3>2. points[back[i]] = SeverityPenalties[i.severity]
      BY <1>2, <3>1
    <3>3. g[i] = SeverityPenalties[i.severity] /\ g[i] \in Nat
      BY <1>1, <1>10, <1>4, PenaltyOfIssue
    <3> QED
      BY <3>2, <3>3
  <2> QED
    BY <2>1, <1>9
<1> HIDE DEF g, issue, back
<1>11. /\ SumFunction(points) \in Nat /\ SumFunction(g) \in Nat /\ SumFunction(points) <= SumFunction(g)
  BY <1>5, <1>7, <1>8, <1>9, SumIsCount, SumGrows
<1>12. ASSUME \A i \in members : ~RuleOf(columns, i.column).critical
       PROVE  SumFunction(g) <= SumFunction(points)
  BY <1>6, <1>7, <1>9, <1>10, <1>12, SumGrows
<1> QED
  BY <1>9, <1>11, <1>12

-----------------------------------------------------------------------------
(***************************************************************************)
(* The score that is explained                                             *)
(***************************************************************************)

\* The loaded file assessed by rules that were accepted.
AssessedBy(columns, profile, assessment) ==
    /\ RuleSet(columns) /\ ConfigValid(columns)
    /\ profile = LoadedProfile /\ assessment = Assess(profile, columns, {})

\* What is kept of the file and what the Quality Score page shows were assessed by some
\* accepted rules, seldom by those of now.
AssessmentInv ==
    /\ given \in Inputs /\ kept \in SUBSET (1 .. RowsOf(csv))
    /\ rules \in {given.rules, given.later}
    /\ \A r \in cached : AssessedBy(r.rules, r.profile, r.assessment)
    /\ Answered({"quality"}) =>
         /\ AssessedBy(answer.rules, answer.profile, answer.assessment)
         /\ answer.page.breakdown = PenaltyBreakdown(answer.assessment)

LEMMA AssessmentInitInv == AssessmentInit => AssessmentInv
<1> SUFFICES ASSUME AssessmentInit PROVE AssessmentInv
  OBVIOUS
<1>1. kept \in SUBSET (1 .. RowsOf(csv))
  BY DEF AssessmentInit, Loads, kSubset
<1>2. ~Answered({"quality"})
  BY DEF AssessmentInit, Unasked, Answered
<1> QED
  BY <1>1, <1>2 DEF AssessmentInit, AssessmentInv

\* While the file and the rules stay, so does everything that was computed from them.
LEMMA AssessmentStays ==
    ASSUME AssessmentInv, UNCHANGED inputVars, rules' \in {given.rules, given.later},
           \A r \in cached' : r \in cached \/ AssessedBy(r.rules, r.profile, r.assessment),
           \/ UNCHANGED answer
           \/ ~Answered({"quality"})'
           \/ /\ AssessedBy(answer'.rules, answer'.profile, answer'.assessment)
              /\ answer'.page.breakdown = PenaltyBreakdown(answer'.assessment)
    PROVE  AssessmentInv'
<1>1. given' = given /\ csv' = csv /\ LoadedProfile' = LoadedProfile /\ kept' = kept
  BY DEF inputVars, csv, LoadedProfile, LoadedFrame
<1>2. \A r \in cached' : AssessedBy(r.rules, r.profile, r.assessment)'
  BY <1>1 DEF AssessmentInv, AssessedBy
<1>3. Answered({"quality"})' =>
         /\ AssessedBy(answer.rules, answer.profile, answer.assessment)'
         /\ answer'.page.breakdown = PenaltyBreakdown(answer'.assessment)
  BY <1>1 DEF AssessmentInv, AssessedBy, Answered
<1> QED
  BY <1>1, <1>2, <1>3 DEF AssessmentInv

\* A result that is loaded was assessed by accepted rules.
LEMMA LoadedIsAssessed ==
    ASSUME AssessmentInv, ~LoadFails, NEW r \in Loaded
    PROVE  AssessedBy(r.rules, r.profile, r.assessment)
<1>1. CASE cached = {}
  <2>1. ConfigValid(rules) /\ r = ComputeLoadAndAssess
    BY <1>1 DEF LoadFails, ConfigRefused, Loaded
  <2>2. RuleSet(rules)
    BY InputsAssumption DEF InputsAssumption, AssessmentInv
  <2> QED
    BY <2>1, <2>2 DEF ComputeLoadAndAssess, AssessedBy
<1>2. CASE cached # {}
  BY <1>2 DEF Loaded, AssessmentInv
<1> QED
  BY <1>1, <1>2

LEMMA AssessmentNextInv == AssessmentInv /\ [AssessmentNext]_assessmentVars => AssessmentInv'
<1> SUFFICES ASSUME AssessmentInv, [AssessmentNext]_assessmentVars PROVE AssessmentInv'
  OBVIOUS
<1>0. rules \in {given.rules, given.later}
  BY DEF AssessmentInv
<1>1. ASSUME NEW way \in {"overview", "quality"}, Unserved(way) PROVE AssessmentInv'
  <2>1. ~Answered({"quality"})'
    BY <1>1 DEF Unserved, RefusedTo, Answered
  <2> QED
    BY <1>0, <1>1, <2>1, AssessmentStays DEF Unserved
<1>2. CASE ShowLargeOverview
  <2>1. ~Answered({"quality"})'
    BY <1>2 DEF ShowLargeOverview, Answered
  <2> QED
    BY <1>0, <1>2, <2>1, AssessmentStays DEF ShowLargeOverview
<1>3. CASE ShowFullOverview
  <2>1. ~Answered({"quality"})'
    <3>1. CASE answer' = RefusedTo("overview")
      BY <3>1 DEF RefusedTo, Answered
    <3>2. ASSUME NEW r \in Loaded, NEW page, answer' = Shows("overview", page, r)
          PROVE  ~Answered({"quality"})'
      BY <3>2 DEF Shows, Answered
    <3> QED
      BY <1>3, <3>1, <3>2 DEF ShowFullOverview
  <2>2. \A r \in cached' : r \in cached \/ AssessedBy(r.rules, r.profile, r.assessment)
    BY <1>3, LoadedIsAssessed DEF ShowFullOverview
  <2> QED
    BY <1>0, <1>3, <2>1, <2>2, AssessmentStays DEF ShowFullOverview
<1>4. CASE RenderQualityScore
  <2>1. CASE Dispatched /\ given.large /\ given.source /= "path"
             /\ answer' = [way |-> "quality", status |-> "needs full analysis"]
             /\ UNCHANGED <<inputVars, rules, cached, streamVars>>
    <3>1. ~Answered({"quality"})'
      BY <2>1 DEF Answered
    <3> QED
      BY <1>0, <2>1, <3>1, AssessmentStays
  <2>2. CASE LoadFails /\ answer' = RefusedTo("quality") /\ UNCHANGED cached
             /\ UNCHANGED <<inputVars, rules, streamVars>>
    <3>1. ~Answered({"quality"})'
      BY <2>2 DEF Answered, RefusedTo
    <3> QED
      BY <1>0, <2>2, <3>1, AssessmentStays
  <2>3. ASSUME ~LoadFails, cached' = Loaded, UNCHANGED <<inputVars, rules, streamVars>>,
               NEW r \in Loaded, answer' = Shows("quality", ScoreBody(r.assessment), r)
        PROVE  AssessmentInv'
    <3>1. AssessedBy(r.rules, r.profile, r.assessment)
      BY <2>3, LoadedIsAssessed
    <3>2. /\ answer'.rules = r.rules /\ answer'.profile = r.profile /\ answer'.assessment = r.assessment
          /\ answer'.page = ScoreBody(r.assessment)
      BY <2>3 DEF Shows
    <3>3. ScoreBody(r.assessment).breakdown = PenaltyBreakdown(r.assessment)
      BY DEF ScoreBody
    <3>4. \A q \in cached' : AssessedBy(q.rules, q.profile, q.assessment)
      BY <2>3, LoadedIsAssessed
    <3> QED
      BY <1>0, <2>3, <3>1, <3>2, <3>3, <3>4, AssessmentStays
  <2> QED
    BY <1>1, <1>4, <2>1, <2>2, <2>3 DEF RenderQualityScore
<1>5. CASE AssessCsv
  <2>1. ~Answered({"quality"})'
    BY <1>5 DEF AssessCsv, RefusedTo, Answered
  <2> QED
    BY <1>0, <1>5, <2>1, AssessmentStays DEF AssessCsv
<1>6. CASE ReadChunk
  BY <1>0, <1>6, AssessmentStays DEF ReadChunk
<1>7. CASE ProfileChunked
  <2>1. ~Answered({"quality"})'
    BY <1>7 DEF ProfileChunked, Answered
  <2> QED
    BY <1>0, <1>7, <2>1, AssessmentStays DEF ProfileChunked
<1>8. CASE AssessChunked
  <2>1. ~Answered({"quality"})'
    BY <1>8 DEF AssessChunked, RefusedTo, Answered
  <2> QED
    BY <1>0, <1>8, <2>1, AssessmentStays DEF AssessChunked
<1>9. CASE EditRules
  <2>1. ~Answered({"quality"})' /\ rules' = given.later
    BY <1>9 DEF EditRules, Unasked, Answered
  <2> QED
    BY <1>9, <2>1, AssessmentStays DEF EditRules
<1>10. CASE UNCHANGED assessmentVars
  BY <1>0, <1>10, AssessmentStays DEF assessmentVars
<1> QED
  BY <1>1, <1>2, <1>3, <1>4, <1>5, <1>6, <1>7, <1>8, <1>9, <1>10 DEF AssessmentNext, RenderDataOverview

LEMMA AssessedIsExplained == AssessmentInv => ScoreIsExplained
<1> SUFFICES ASSUME AssessmentInv, Answered({"quality"}) PROVE ScoreIsExplained
  BY DEF ScoreIsExplained
<1> DEFINE columns == answer.rules
           profile == answer.profile
           plain == answer.assessment
           whole == Assess(profile, columns, {LoadedFrame})
           N == NamesOf(profile, columns)
           schema(issues) == OfSchema(Counted(issues))
           other(issues) == Counted(issues) \ OfSchema(issues)
           breakdown == answer.page.breakdown
           critical == {i \in Counted(plain.issues) : RuleOf(columns, i.column).critical}
<1>1. /\ RuleSet(columns) /\ ConfigValid(columns)
      /\ profile = RunProfiling(LoadedFrame, extras) /\ plain = Assess(profile, columns, {})
      /\ breakdown = PenaltyBreakdown(plain)
  BY DEF AssessmentInv, AssessedBy, LoadedProfile
<1>2. FrameOf(LoadedFrame, Cardinality(kept))
  <2>1. CsvFile(csv)
    BY InputsAssumption DEF InputsAssumption, AssessmentInv, csv
  <2> QED
    BY <2>1, FrameIsFrame DEF AssessmentInv, LoadedFrame
<1>3. ProfileOf(profile)
  BY <1>1, <1>2, ProfilingProfiles
<1>4. IsFiniteSet(N)
  BY <1>1, <1>3, NamesAreFinite
<1>5. \A c \in ColumnsOf(LoadedFrame) : LoadedFrame.names[c] \in N
  <2>1. ASSUME NEW c \in ColumnsOf(LoadedFrame) PROVE LoadedFrame.names[c] \in N
    <3>1. c \in DOMAIN profile.columns /\ profile.columns[c].name = LoadedFrame.names[c]
      BY <1>1 DEF RunProfiling, ProfileColumn
    <3> HIDE DEF profile, columns
    <3> QED
      BY <3>1 DEF NamesOf
  <2> QED
    BY <2>1
<1> HIDE DEF columns, profile
<1>6. /\ plain.issues = PlainIssues(profile, columns)
      /\ whole.issues = plain.issues \cup AdvancedIssues(LoadedFrame, profile, columns)
      /\ plain.score = ComputeScore(profile, columns) /\ whole.score = plain.score
      /\ plain.quality = ComputeQualityScore(plain.score, plain.issues, columns)
      /\ whole.quality = ComputeQualityScore(plain.score, whole.issues, columns)
  <2>1. /\ plain.issues = PlainIssues(profile, columns)
        /\ whole.issues = PlainIssues(profile, columns) \cup AdvancedIssues(LoadedFrame, profile, columns)
    BY <1>1, WhatIsAssessed
  <2>2. plain = Assess(profile, columns, {}) /\ whole = Assess(profile, columns, {LoadedFrame})
    BY <1>1
  <2> HIDE DEF plain, whole
  <2>3. /\ plain.score = ComputeScore(profile, columns)
        /\ plain.quality = ComputeQualityScore(plain.score, plain.issues, columns)
    BY <2>2, HowItIsScored
  <2>4. /\ whole.score = ComputeScore(profile, columns)
        /\ whole.quality = ComputeQualityScore(whole.score, whole.issues, columns)
    BY <2>2, HowItIsScored
  <2> QED
    BY <2>1, <2>3, <2>4
<1>7. /\ plain.issues \subseteq IssuesOf(PlainTypes, N)
      /\ AdvancedIssues(LoadedFrame, profile, columns) \subseteq IssuesOf(FrameRules, N)
  BY <1>5, <1>6, PlainIssuesArePlain, AdvancedIssuesAreOfFrame
<1>8. plain.score \in Nat
  BY <1>1, <1>3, <1>6, ScoreIsNatural
<1> HIDE DEF plain, whole, N, breakdown
<1>9. plain.issues = whole.issues \ Of(whole.issues, FrameRules)
  BY <1>6, <1>7 DEF Of, IssuesOf, PlainTypes, SupportedTypes, FrameRules
<1> DEFINE A == PlainTypes \cup FrameRules
<1>10. whole.issues \in SUBSET IssuesOf(A, N) /\ plain.issues \in SUBSET whole.issues
  BY <1>6, <1>7 DEF IssuesOf
<1>11. IsFiniteSet(whole.issues) /\ IsFiniteSet(plain.issues)
  <2>1. IsFiniteSet(A)
    <3>1. \A S, T : IsFiniteSet(S) /\ IsFiniteSet(T) => IsFiniteSet(S \cup T)
      BY FS_Union
    <3>2. \A u : IsFiniteSet({u})
      BY FS_Singleton
    <3>3. PlainTypes = {"missing"} \cup {"duplicate_column_name"} \cup {"blank_column_name"}
             \cup {"padded_column_name"} \cup {"placeholder_column_name"} \cup {"constant_column"}
             \cup {"all_null_column"} \cup {"missing_required_column"} \cup {"dtype_mismatch"}
             \cup {"column_quality_gate_failed"}
      BY DEF PlainTypes, SupportedTypes
    <3>4. FrameRules = {"high_cardinality"} \cup {"numeric_outliers"} \cup {"accepted_values_violation"}
             \cup {"uniqueness_violation"}
      BY DEF FrameRules
    <3> QED
      BY <3>1, <3>2, <3>3, <3>4
  <2> HIDE DEF A
  <2> QED
    BY <1>4, <1>10, <2>1, IssuesAreFinite, FS_Subset
<1> HIDE DEF A
<1>12. /\ schema(whole.issues) \in SUBSET IssuesOf(A, N) /\ other(whole.issues) \in SUBSET IssuesOf(A, N)
       /\ schema(plain.issues) \in SUBSET schema(whole.issues) /\ other(plain.issues) \in SUBSET other(whole.issues)
       /\ schema(whole.issues) \in SUBSET whole.issues /\ other(whole.issues) \in SUBSET whole.issues
  BY <1>10 DEF OfSchema, Counted
<1>13. IsFiniteSet(schema(whole.issues)) /\ IsFiniteSet(other(whole.issues))
  BY <1>11, <1>12, FS_Subset
<1> HIDE DEF schema, other
<1>14. /\ Penalties(schema(plain.issues), columns) \in Nat /\ Penalties(schema(whole.issues), columns) \in Nat
       /\ Penalties(schema(plain.issues), columns) <= Penalties(schema(whole.issues), columns)
       /\ Penalties(other(plain.issues), columns) \in Nat /\ Penalties(other(whole.issues), columns) \in Nat
       /\ Penalties(other(plain.issues), columns) <= Penalties(other(whole.issues), columns)
  BY <1>1, <1>12, <1>13, PenaltiesGrow
<1>15. \A issues : ComputeQualityScore(plain.score, issues, columns)
          = Penalised(plain.score, Penalties(schema(issues), columns), Penalties(other(issues), columns))
  BY DEF ComputeQualityScore, schema, other
<1>16. whole.quality <= plain.quality
  BY <1>6, <1>8, <1>14, <1>15, PenaltiesLower
<1> DEFINE inSchema == BucketPoints(plain.issues, "schema")
           inOther == BucketPoints(plain.issues, "distribution")
<1>17. /\ breakdown.derived = Penalised(plain.score, SumFunction(inSchema), SumFunction(inOther))
       /\ breakdown.reported = plain.quality
  BY <1>1 DEF PenaltyBreakdown, BucketPoints
<1>18. schema(plain.issues) = InBucket(plain.issues, "schema")
  BY DEF schema, OfSchema, InBucket
<1>19. other(plain.issues) = InBucket(plain.issues, "distribution")
  BY DEF other, OfSchema, Counted, InBucket
<1>20. plain.issues \in SUBSET IssuesOf(A, N)
  BY <1>10
<1>21. /\ SumFunction(inSchema) \in Nat /\ SumFunction(inSchema) <= Penalties(schema(plain.issues), columns)
       /\ (\A i \in schema(plain.issues) : ~RuleOf(columns, i.column).critical)
             => SumFunction(inSchema) = Penalties(schema(plain.issues), columns)
  BY <1>1, <1>11, <1>18, <1>20, BucketAddsUp
<1>22. /\ SumFunction(inOther) \in Nat /\ SumFunction(inOther) <= Penalties(other(plain.issues), columns)
       /\ (\A i \in other(plain.issues) : ~RuleOf(columns, i.column).critical)
             => SumFunction(inOther) = Penalties(other(plain.issues), columns)
  BY <1>1, <1>11, <1>19, <1>20, BucketAddsUp
<1> HIDE DEF inSchema, inOther
<1>23. breakdown.reported <= breakdown.derived /\ breakdown.derived <= plain.score
  <2>1. breakdown.reported
          = Penalised(plain.score, Penalties(schema(plain.issues), columns), Penalties(other(plain.issues), columns))
    BY <1>6, <1>15, <1>17
  <2>2. /\ Penalised(plain.score, Penalties(schema(plain.issues), columns), Penalties(other(plain.issues), columns))
             <= Penalised(plain.score, SumFunction(inSchema), SumFunction(inOther))
        /\ Penalised(plain.score, SumFunction(inSchema), SumFunction(inOther)) <= plain.score
    BY <1>8, <1>14, <1>21, <1>22, PenaltiesLower
  <2> QED
    BY <1>17, <2>1, <2>2
<1>24. critical = {} => breakdown.reported = breakdown.derived
  <2>1. ASSUME critical = {}
        PROVE  /\ \A i \in schema(plain.issues) : ~RuleOf(columns, i.column).critical
               /\ \A i \in other(plain.issues) : ~RuleOf(columns, i.column).critical
    BY <2>1 DEF schema, other, OfSchema
  <2> HIDE DEF critical
  <2> QED
    BY <1>6, <1>15, <1>17, <1>21, <1>22, <2>1
<1> QED
  BY <1>6, <1>9, <1>16, <1>23, <1>24 DEF ScoreIsExplained, plain, whole, breakdown, columns, profile

\* What the Quality Score page derives from the issues it lists is the score it explains,
\* for any file, sample and rules, but for issues of critical columns, which only lower
\* it; and what needs the frame only lowers it further (penalty_breakdown against
\* compute_quality_score, _compute_load_and_assess against run_assessment).
THEOREM TheScoreIsExplained == AssessmentSpec => []ScoreIsExplained
<1>1. AssessmentInit => AssessmentInv
  BY AssessmentInitInv
<1>2. AssessmentInv /\ [AssessmentNext]_assessmentVars => AssessmentInv'
  BY AssessmentNextInv
<1>3. AssessmentInv => ScoreIsExplained
  BY AssessedIsExplained
<1> QED
  BY <1>1, <1>2, <1>3, PTL DEF AssessmentSpec

-----------------------------------------------------------------------------
(***************************************************************************)
(* Bounds of finite sets of numbers                                        *)
(***************************************************************************)

\* Finitely many numbers have a least and a greatest one.
LEMMA FirstOfMany ==
    ASSUME NEW n \in Nat, NEW f \in [1 .. n -> Int], n # 0
    PROVE  \E m \in 1 .. n : \A i \in 1 .. n : f[m] <= f[i]
<1> DEFINE T == {k \in Nat : \A g \in [1 .. k -> Int] : k # 0 => \E m \in 1 .. k : \A i \in 1 .. k : g[m] <= g[i]}
<1>1. 0 \in T
  OBVIOUS
<1>2. ASSUME NEW k \in Nat, k \in T PROVE k + 1 \in T
  <2>1. ASSUME NEW g \in [1 .. k + 1 -> Int]
        PROVE  \E m \in 1 .. k + 1 : \A i \in 1 .. k + 1 : g[m] <= g[i]
    <3>1. CASE k = 0
      BY <3>1
    <3>2. CASE k # 0
      <4> DEFINE h == [i \in 1 .. k |-> g[i]]
      <4>1. h \in [1 .. k -> Int]
        OBVIOUS
      <4>2. PICK m \in 1 .. k : \A i \in 1 .. k : h[m] <= h[i]
        BY <1>2, <3>2, <4>1
      <4>3. \A i \in 1 .. k : g[m] <= g[i]
        BY <4>2
      <4>4. g[m] \in Int /\ g[k + 1] \in Int /\ \A i \in 1 .. k + 1 : i \in 1 .. k \/ i = k + 1
        OBVIOUS
      <4>5. CASE g[m] <= g[k + 1]
        <5>1. \A i \in 1 .. k + 1 : g[m] <= g[i]
          BY <4>3, <4>4, <4>5
        <5>2. m \in 1 .. k + 1
          OBVIOUS
        <5> QED
          BY <5>1, <5>2
      <4>6. CASE g[k + 1] < g[m]
        <5>1. \A i \in 1 .. k : g[k + 1] <= g[i]
          <6>1. ASSUME NEW i \in 1 .. k PROVE g[k + 1] <= g[i]
            <7>1. g[i] \in Int /\ g[m] <= g[i]
              BY <4>3
            <7> QED
              BY <4>4, <4>6, <7>1
          <6> QED
            BY <6>1
        <5>2. \A i \in 1 .. k + 1 : g[k + 1] <= g[i]
          BY <4>4, <5>1
        <5>3. k + 1 \in 1 .. k + 1
          OBVIOUS
        <5> QED
          BY <5>2, <5>3
      <4> QED
        BY <4>4, <4>5, <4>6
    <3> QED
      BY <3>1, <3>2
  <2>2. \A g \in [1 .. k + 1 -> Int] : k + 1 # 0 => \E m \in 1 .. k + 1 : \A i \in 1 .. k + 1 : g[m] <= g[i]
    BY <2>1
  <2>3. k + 1 \in Nat
    OBVIOUS
  <2> QED
    BY <2>2, <2>3
<1> HIDE DEF T
<1>3. Nat \subseteq T
  BY <1>1, <1>2, Induction
<1>4. n \in T
  BY <1>3
<1> QED
  BY <1>4 DEF T

Numbers(S) == S \in SUBSET Int /\ IsFiniteSet(S)

LEMMA LeastIsLeast ==
    ASSUME NEW S, Numbers(S), S # {}
    PROVE  Min(S) \in S /\ \A y \in S : Min(S) <= y
<1>1. PICK n \in Nat : ExistsSurjection(1 .. n, S)
  BY FS_NatSurjection DEF Numbers
<1>2. PICK f \in Surjection(1 .. n, S) : TRUE
  BY <1>1 DEF ExistsSurjection
<1>3. f \in [1 .. n -> Int] /\ \A y \in S : \E i \in 1 .. n : f[i] = y
  BY <1>2 DEF Surjection, Numbers
<1>4. n # 0
  BY <1>3
<1>5. PICK m \in 1 .. n : \A i \in 1 .. n : f[m] <= f[i]
  BY <1>3, <1>4, FirstOfMany
<1>6. f[m] \in S /\ \A y \in S : f[m] <= y
  BY <1>2, <1>3, <1>5 DEF Surjection
<1> QED
  BY <1>6 DEF Min

LEMMA GreatestIsGreatest ==
    ASSUME NEW S, Numbers(S), S # {}
    PROVE  Max(S) \in S /\ \A y \in S : y <= Max(S)
<1>1. PICK n \in Nat : ExistsSurjection(1 .. n, S)
  BY FS_NatSurjection DEF Numbers
<1>2. PICK f \in Surjection(1 .. n, S) : TRUE
  BY <1>1 DEF ExistsSurjection
<1>3. f \in [1 .. n -> Int] /\ \A y \in S : \E i \in 1 .. n : f[i] = y
  BY <1>2 DEF Surjection, Numbers
<1>4. n # 0
  BY <1>3
<1> DEFINE g == [i \in 1 .. n |-> 0 - f[i]]
<1>5. g \in [1 .. n -> Int]
  BY <1>3
<1>6. PICK m \in 1 .. n : \A i \in 1 .. n : g[m] <= g[i]
  BY <1>4, <1>5, FirstOfMany
<1>7. \A i \in 1 .. n : f[i] <= f[m]
  <2>1. ASSUME NEW i \in 1 .. n PROVE f[i] <= f[m]
    <3>1. 0 - f[m] <= 0 - f[i] /\ f[m] \in Int /\ f[i] \in Int
      BY <1>3, <1>6
    <3> QED
      BY <3>1
  <2> QED
    BY <2>1
<1>8. f[m] \in S /\ \A y \in S : y <= f[m]
  BY <1>2, <1>3, <1>7 DEF Surjection
<1> QED
  BY <1>8 DEF Max

\* A bound may be taken part by part.
LEMMA BoundsByParts ==
    ASSUME NEW S, Numbers(S), NEW T, Numbers(T)
    PROVE  /\ LeastOf(LeastOf(S) \cup T) = LeastOf(S \cup T)
           /\ GreatestOf(GreatestOf(S) \cup T) = GreatestOf(S \cup T)
<1>1. CASE S = {}
  BY <1>1 DEF LeastOf, GreatestOf
<1>2. CASE S # {}
  <2> DEFINE L == {Min(S)} \cup T
             G == {Max(S)} \cup T
             U == S \cup T
  <2>1. Numbers(U) /\ U # {}
    BY <1>2, FS_Union DEF Numbers
  <2>2. /\ Min(S) \in S /\ \A y \in S : Min(S) <= y
        /\ Max(S) \in S /\ \A y \in S : y <= Max(S)
    BY <1>2, LeastIsLeast, GreatestIsGreatest
  <2>3. Numbers(L) /\ L # {} /\ Numbers(G) /\ G # {}
    <3>1. IsFiniteSet({Min(S)}) /\ IsFiniteSet({Max(S)})
      BY FS_Singleton
    <3>2. IsFiniteSet(L) /\ IsFiniteSet(G)
      BY <3>1, FS_Union DEF Numbers
    <3> QED
      BY <2>2, <3>2 DEF Numbers
  <2>4. LeastOf(S) = {Min(S)} /\ GreatestOf(S) = {Max(S)}
    BY <1>2 DEF LeastOf, GreatestOf
  <2>5. /\ LeastOf(L) = {Min(L)} /\ LeastOf(U) = {Min(U)}
        /\ GreatestOf(G) = {Max(G)} /\ GreatestOf(U) = {Max(U)}
    BY <2>1, <2>3 DEF LeastOf, GreatestOf
  <2> HIDE DEF L, G, U
  <2>6. /\ Min(L) \in L /\ \A y \in L : Min(L) <= y
        /\ Min(U) \in U /\ \A y \in U : Min(U) <= y
        /\ Max(G) \in G /\ \A y \in G : y <= Max(G)
        /\ Max(U) \in U /\ \A y \in U : y <= Max(U)
    BY <2>1, <2>3, LeastIsLeast, GreatestIsGreatest
  <2>7. Min(L) = Min(U)
    <3>1. L \subseteq U /\ Min(S) \in L
      BY <2>2 DEF L, U
    <3>2. Min(U) <= Min(L)
      BY <2>6, <3>1
    <3>3. Min(L) <= Min(U)
      <4>1. CASE Min(U) \in T
        BY <2>6, <4>1 DEF L
      <4>2. CASE Min(U) \in S
        <5>1. Min(L) <= Min(S) /\ Min(S) <= Min(U)
          BY <2>2, <2>6, <3>1, <4>2
        <5>2. Min(L) \in Int /\ Min(S) \in Int /\ Min(U) \in Int
          BY <2>1, <2>2, <2>3, <2>6 DEF Numbers
        <5> QED
          BY <5>1, <5>2
      <4> QED
        BY <2>6, <4>1, <4>2 DEF U
    <3>4. Min(L) \in Int /\ Min(U) \in Int
      BY <2>1, <2>3, <2>6 DEF Numbers
    <3> QED
      BY <3>2, <3>3, <3>4
  <2>8. Max(G) = Max(U)
    <3>1. G \subseteq U /\ Max(S) \in G
      BY <2>2 DEF G, U
    <3>2. Max(G) <= Max(U)
      BY <2>6, <3>1
    <3>3. Max(U) <= Max(G)
      <4>1. CASE Max(U) \in T
        BY <2>6, <4>1 DEF G
      <4>2. CASE Max(U) \in S
        <5>1. Max(S) <= Max(G) /\ Max(U) <= Max(S)
          BY <2>2, <2>6, <3>1, <4>2
        <5>2. Max(G) \in Int /\ Max(S) \in Int /\ Max(U) \in Int
          BY <2>1, <2>2, <2>3, <2>6 DEF Numbers
        <5> QED
          BY <5>1, <5>2
      <4> QED
        BY <2>6, <4>1, <4>2 DEF U
    <3>4. Max(G) \in Int /\ Max(U) \in Int
      BY <2>1, <2>3, <2>6 DEF Numbers
    <3> QED
      BY <3>2, <3>3, <3>4
  <2> QED
    BY <2>4, <2>5, <2>7, <2>8 DEF L, G, U
<1> QED
  BY <1>1, <1>2

-----------------------------------------------------------------------------
(***************************************************************************)
(* The cells of a piece of a column                                        *)
(***************************************************************************)

CellKind == {"na", "int", "float", "bool", "text", "date"}

PresentIn(cells, a, b) == {i \in a .. b : cells[i].k /= "na"}
KindsIn(cells, a, b) == {cells[i].k : i \in a .. b}
ValuesIn(cells, a, b) == {cells[i].v : i \in PresentIn(cells, a, b)}

\* What some cells of these kinds are read as.
DtypeOf(kinds) ==
    IF kinds = {"int"} THEN "int64"
    ELSE IF kinds \subseteq {"na", "int", "float"} THEN "float64"
    ELSE IF kinds = {"bool"} THEN "bool" ELSE "object"

LEMMA DtypeIsOfKinds ==
    ASSUME NEW cells
    PROVE  ReadDtype(cells) = IF cells = <<>> THEN "object" ELSE DtypeOf(Kinds(cells))
<1> DEFINE kinds == Kinds(cells)
<1>1. {"bool"} # {"int"} /\ ~({"bool"} \subseteq {"na", "int", "float"})
  OBVIOUS
<1>2. ReadDtype(cells)
        = CASE cells = <<>> -> "object"
            [] cells /= <<>> /\ kinds = {"int"} -> "int64"
            [] cells /= <<>> /\ kinds \subseteq {"na", "int", "float"} /\ kinds /= {"int"} -> "float64"
            [] cells /= <<>> /\ kinds = {"bool"} -> "bool"
            [] OTHER -> "object"
  BY DEF ReadDtype
<1> HIDE DEF kinds
<1>3. CASE cells = <<>>
  BY <1>2, <1>3
<1>4. CASE cells /= <<>>
  <2>1. CASE kinds = {"int"}
    BY <1>2, <1>4, <2>1 DEF DtypeOf, kinds
  <2>2. CASE kinds /= {"int"} /\ kinds \subseteq {"na", "int", "float"}
    BY <1>1, <1>2, <1>4, <2>2 DEF DtypeOf, kinds
  <2>3. CASE kinds = {"bool"}
    BY <1>1, <1>2, <1>4, <2>3 DEF DtypeOf, kinds
  <2>4. CASE kinds /= {"int"} /\ ~(kinds \subseteq {"na", "int", "float"}) /\ kinds /= {"bool"}
    BY <1>2, <1>4, <2>4 DEF DtypeOf, kinds
  <2> QED
    BY <2>1, <2>2, <2>3, <2>4
<1> QED
  BY <1>3, <1>4

\* Types widen as kinds add up, unless flags are mixed with others.
LEMMA WidenIsUnion ==
    ASSUME NEW A \in SUBSET CellKind, NEW B \in SUBSET CellKind, A # {}, B # {},
           "bool" \in A \cup B => A \cup B = {"bool"}
    PROVE  Widen(DtypeOf(A), DtypeOf(B)) = DtypeOf(A \cup B)
<1> DEFINE Numeric == {"na", "int", "float"}
<1>1. \A seen : Widen(seen, seen) = seen
  BY DEF Widen
<1>2. /\ Widen("int64", "float64") = "float64" /\ Widen("float64", "int64") = "float64"
      /\ \A t \in {"int64", "float64"} : Widen(t, "object") = "object" /\ Widen("object", t) = "object"
  <2>1. WidenRank["int64"] = 1 /\ WidenRank["float64"] = 2 /\ DOMAIN WidenRank = {"bool", "int64", "float64"}
    BY DEF WidenRank
  <2> QED
    BY <2>1 DEF Widen
<1>3. CASE "bool" \in A \cup B
  <2>1. A = {"bool"} /\ B = {"bool"} /\ A \cup B = {"bool"}
    BY <1>3
  <2> QED
    BY <1>1, <2>1
<1>4. CASE "bool" \notin A \cup B
  <2>1. \A kinds \in SUBSET CellKind : "bool" \notin kinds =>
           DtypeOf(kinds) = IF kinds = {"int"} THEN "int64"
                            ELSE IF kinds \subseteq Numeric THEN "float64" ELSE "object"
    BY DEF DtypeOf
  <2>2. /\ DtypeOf(A) = IF A = {"int"} THEN "int64" ELSE IF A \subseteq Numeric THEN "float64" ELSE "object"
        /\ DtypeOf(B) = IF B = {"int"} THEN "int64" ELSE IF B \subseteq Numeric THEN "float64" ELSE "object"
        /\ DtypeOf(A \cup B) = IF A \cup B = {"int"} THEN "int64"
                               ELSE IF A \cup B \subseteq Numeric THEN "float64" ELSE "object"
    BY <1>4, <2>1
  <2>3. /\ A \cup B \subseteq Numeric <=> A \subseteq Numeric /\ B \subseteq Numeric
        /\ A \cup B = {"int"} <=> A = {"int"} /\ B = {"int"}
        /\ {"int"} \subseteq Numeric
    OBVIOUS
  <2> HIDE DEF Numeric
  <2>4. CASE A \cup B = {"int"}
    BY <1>1, <2>2, <2>3, <2>4
  <2>5. CASE A \cup B # {"int"} /\ A \cup B \subseteq Numeric
    BY <1>1, <1>2, <2>2, <2>3, <2>5
  <2>6. CASE ~(A \cup B \subseteq Numeric)
    BY <1>1, <1>2, <2>2, <2>3, <2>6
  <2> QED
    BY <2>4, <2>5, <2>6
<1> QED
  BY <1>3, <1>4

\* A column of n cells.
ColumnOf(cells, n) == n \in Nat /\ cells \in Seq(CsvCell) /\ Len(cells) = n

LEMMA CellsOfColumn ==
    ASSUME NEW cells, NEW n, ColumnOf(cells, n), NEW a \in 1 .. n + 1, NEW b \in Int, b <= n
    PROVE  /\ DOMAIN cells = 1 .. n
           /\ \A i \in a .. b : i \in 1 .. n /\ cells[i].k \in CellKind /\ cells[i].v \in Int
           /\ IsFiniteSet(PresentIn(cells, a, b)) /\ Cardinality(PresentIn(cells, a, b)) \in Nat
           /\ Numbers(ValuesIn(cells, a, b))
<1>0. n \in Nat /\ DOMAIN cells = 1 .. n
  BY LenProperties DEF ColumnOf
<1>1. ASSUME NEW i \in a .. b PROVE i \in 1 .. n /\ cells[i].k \in CellKind /\ cells[i].v \in Int
  <2>1. i \in 1 .. n
    BY <1>0
  <2>2. cells[i] \in CsvCell
    BY <2>1, ElementOfSeq DEF ColumnOf
  <2> QED
    BY <2>1, <2>2 DEF CsvCell, CellKind
<1>2. IsFiniteSet(a .. b)
  BY <1>0, FS_Interval
<1>3. PresentIn(cells, a, b) \in SUBSET (a .. b)
  BY DEF PresentIn
<1>4. IsFiniteSet(PresentIn(cells, a, b)) /\ Cardinality(PresentIn(cells, a, b)) \in Nat
  BY <1>2, <1>3, FS_Subset, FS_CardinalityType
<1>5. Numbers(ValuesIn(cells, a, b))
  <2> DEFINE P == PresentIn(cells, a, b)
             v == [i \in P |-> cells[i].v]
  <2>1. ValuesIn(cells, a, b) = {v[i] : i \in P}
    BY DEF ValuesIn
  <2>2. \A i \in P : v[i] \in Int
    BY <1>1, <1>3
  <2> HIDE DEF P, v
  <2>3. IsFiniteSet({v[i] : i \in P})
    BY <1>4, ImageIsFinite DEF P
  <2> QED
    BY <2>1, <2>2, <2>3 DEF Numbers
<1> QED
  BY <1>0, <1>1, <1>4, <1>5

\* The cells after m, up to last.
Piece(cells, m, last) == SubSeq(cells, m + 1, last)

LEMMA LengthOfPiece ==
    ASSUME NEW cells, NEW n, NEW m, NEW last, ColumnOf(cells, n), m \in 0 .. n, last \in m .. n
    PROVE  Len(Piece(cells, m, last)) = last - m /\ (Piece(cells, m, last) = <<>> <=> last = m)
<1>0. n \in Nat /\ m \in Nat /\ last \in Nat /\ m <= last /\ last <= n
  BY DEF ColumnOf
<1>1. \A i \in m + 1 .. last : cells[i] \in CsvCell
  <2>1. \A i \in m + 1 .. last : i \in 1 .. n
    BY <1>0
  <2> QED
    BY <2>1, ElementOfSeq DEF ColumnOf
<1>2. /\ Piece(cells, m, last) \in Seq(CsvCell)
      /\ Len(Piece(cells, m, last)) = IF m + 1 <= last THEN last - (m + 1) + 1 ELSE 0
  BY <1>0, <1>1, SubSeqProperties DEF Piece
<1>3. Len(Piece(cells, m, last)) = last - m
  BY <1>0, <1>2
<1>4. Piece(cells, m, last) = <<>> <=> Len(Piece(cells, m, last)) = 0
  BY <1>2, EmptySeq
<1> QED
  BY <1>0, <1>3, <1>4

\* What a piece of a column is.
LEMMA PieceOfColumn ==
    ASSUME NEW cells, NEW n, ColumnOf(cells, n), NEW m \in 0 .. n, NEW last \in m .. n,
           NEW piece, piece = Piece(cells, m, last)
    PROVE  /\ Kinds(piece) = KindsIn(cells, m + 1, last)
           /\ NumbersIn(piece, DOMAIN piece) = ValuesIn(cells, m + 1, last)
           /\ Nulls(piece) = (last - m) - Cardinality(PresentIn(cells, m + 1, last))
<1>0. n \in Nat /\ m \in Nat /\ last \in Nat /\ m <= last /\ last <= n
  BY DEF ColumnOf
<1>1. \A i \in m + 1 .. last : cells[i] \in CsvCell
  <2>1. \A i \in m + 1 .. last : i \in 1 .. n
    BY <1>0
  <2> QED
    BY <2>1, ElementOfSeq DEF ColumnOf
<1>2. /\ piece \in Seq(CsvCell) /\ Len(piece) = IF m + 1 <= last THEN last - (m + 1) + 1 ELSE 0
      /\ \A i \in 1 .. last - (m + 1) + 1 : piece[i] = cells[m + 1 + i - 1]
  BY <1>0, <1>1, SubSeqProperties DEF Piece
<1>3. Len(piece) = last - m /\ DOMAIN piece = 1 .. last - m
  <2>1. Len(piece) = last - m
    BY <1>0, <1>2
  <2> QED
    BY <1>2, <2>1, LenProperties
<1>4. \A i \in 1 .. last - m : piece[i] = cells[m + i]
  <2>1. last - (m + 1) + 1 = last - m /\ \A i \in Int : m + 1 + i - 1 = m + i
    BY <1>0
  <2> QED
    BY <1>2, <2>1
<1>6. /\ \A i \in 1 .. last - m : m + i \in m + 1 .. last
      /\ \A j \in m + 1 .. last : j - m \in 1 .. last - m /\ m + (j - m) = j
  BY <1>0
<1>7. Kinds(piece) = KindsIn(cells, m + 1, last)
  <2>1. ASSUME NEW i \in 1 .. last - m PROVE piece[i].k \in KindsIn(cells, m + 1, last)
    BY <1>4, <1>6 DEF KindsIn
  <2>2. ASSUME NEW j \in m + 1 .. last PROVE \E i \in 1 .. last - m : piece[i].k = cells[j].k
    BY <1>4, <1>6
  <2> QED
    BY <1>3, <2>1, <2>2 DEF Kinds, KindsIn
<1> DEFINE P == PresentRows(piece)
           Q == PresentIn(cells, m + 1, last)
           on == [i \in P |-> m + i]
<1>8. \A i \in 1 .. last - m : i \in P <=> m + i \in Q
  BY <1>3, <1>4, <1>6 DEF PresentRows, PresentIn
<1>9. P \in SUBSET (1 .. last - m) /\ Q \in SUBSET (m + 1 .. last)
  BY <1>3 DEF PresentRows, PresentIn
<1>10. NumbersIn(piece, DOMAIN piece) = ValuesIn(cells, m + 1, last)
  <2>1. NumbersIn(piece, DOMAIN piece) = {piece[i].v : i \in P}
    BY <1>3, <1>9 DEF NumbersIn
  <2>2. ValuesIn(cells, m + 1, last) = {cells[j].v : j \in Q}
    BY DEF ValuesIn
  <2> HIDE DEF P, Q
  <2>3. ASSUME NEW i \in P PROVE \E j \in Q : piece[i].v = cells[j].v
    BY <1>4, <1>8, <1>9
  <2>4. ASSUME NEW j \in Q PROVE \E i \in P : piece[i].v = cells[j].v
    <3>1. j - m \in 1 .. last - m /\ m + (j - m) = j
      BY <1>6, <1>9
    <3>2. j - m \in P
      BY <1>8, <3>1
    <3>3. piece[j - m] = cells[j]
      BY <1>4, <3>1
    <3> QED
      BY <3>2, <3>3
  <2>5. {piece[i].v : i \in P} = {cells[j].v : j \in Q}
    <3>1. ASSUME NEW v \in {piece[i].v : i \in P} PROVE v \in {cells[j].v : j \in Q}
      <4>1. PICK i \in P : v = piece[i].v
        OBVIOUS
      <4> QED
        BY <2>3, <4>1
    <3>2. ASSUME NEW v \in {cells[j].v : j \in Q} PROVE v \in {piece[i].v : i \in P}
      <4>1. PICK j \in Q : v = cells[j].v
        OBVIOUS
      <4>2. PICK i \in P : piece[i].v = cells[j].v
        BY <2>4
      <4> QED
        BY <4>1, <4>2
    <3> QED
      BY <3>1, <3>2
  <2> QED
    BY <2>1, <2>2, <2>5
<1>11. Cardinality(P) = Cardinality(Q)
  <2>1. IsFiniteSet(P)
    <3>1. IsFiniteSet(1 .. last - m)
      BY <1>0, FS_Interval
    <3> HIDE DEF P
    <3> QED
      BY <1>9, <3>1, FS_Subset
  <2> HIDE DEF P, Q
  <2>2. \A i \in P : on[i] \in Q
    BY <1>8, <1>9
  <2>3. \A i, j \in P : on[i] = on[j] => i = j
    BY <1>0, <1>9
  <2>4. \A j \in Q : \E i \in P : on[i] = j
    <3>1. ASSUME NEW j \in Q PROVE j - m \in P /\ on[j - m] = j
      <4>1. j - m \in 1 .. last - m /\ m + (j - m) = j
        BY <1>6, <1>9
      <4> QED
        BY <1>8, <4>1
    <3> QED
      BY <3>1
  <2>5. on \in Bijection(P, Q)
    BY <2>2, <2>3, <2>4 DEF Bijection, Injection, Surjection, IsInjective
  <2> QED
    BY <2>1, <2>5, FS_Bijection DEF ExistsBijection
<1>12. Nulls(piece) = (last - m) - Cardinality(Q)
  BY <1>3, <1>11 DEF Nulls
<1> QED
  BY <1>7, <1>10, <1>12

\* Two pieces that meet make one.
LEMMA PiecesAddUp ==
    ASSUME NEW cells, NEW n, ColumnOf(cells, n), NEW m \in 0 .. n, NEW last \in m .. n
    PROVE  /\ KindsIn(cells, 1, last) = KindsIn(cells, 1, m) \cup KindsIn(cells, m + 1, last)
           /\ ValuesIn(cells, 1, last) = ValuesIn(cells, 1, m) \cup ValuesIn(cells, m + 1, last)
           /\ Cardinality(PresentIn(cells, 1, last))
                = Cardinality(PresentIn(cells, 1, m)) + Cardinality(PresentIn(cells, m + 1, last))
<1>1. /\ n \in Nat /\ m \in Int /\ last \in Int /\ last <= n /\ m <= n /\ m + 1 \in 1 .. n + 1
      /\ 1 .. last = (1 .. m) \cup (m + 1 .. last) /\ (1 .. m) \cap (m + 1 .. last) = {}
  BY DEF ColumnOf
<1>2. /\ PresentIn(cells, 1, last) = PresentIn(cells, 1, m) \cup PresentIn(cells, m + 1, last)
      /\ PresentIn(cells, 1, m) \cap PresentIn(cells, m + 1, last) = {}
  BY <1>1 DEF PresentIn
<1>3. KindsIn(cells, 1, last) = KindsIn(cells, 1, m) \cup KindsIn(cells, m + 1, last)
  BY <1>1 DEF KindsIn
<1>4. ValuesIn(cells, 1, last) = ValuesIn(cells, 1, m) \cup ValuesIn(cells, m + 1, last)
  BY <1>2 DEF ValuesIn
<1>5. /\ IsFiniteSet(PresentIn(cells, 1, m)) /\ IsFiniteSet(PresentIn(cells, m + 1, last))
      /\ Cardinality(PresentIn(cells, 1, m)) \in Nat /\ Cardinality(PresentIn(cells, m + 1, last)) \in Nat
  <2>1. 1 \in 1 .. n + 1
    BY <1>1
  <2> QED
    BY <1>1, <2>1, CellsOfColumn
<1>6. Cardinality(PresentIn(cells, 1, last))
        = Cardinality(PresentIn(cells, 1, m)) + Cardinality(PresentIn(cells, m + 1, last)) - Cardinality({})
  BY <1>2, <1>5, FS_Union
<1> QED
  BY <1>3, <1>4, <1>5, <1>6, FS_EmptySet

-----------------------------------------------------------------------------
(***************************************************************************)
(* What the aggregators know of the rows that were read                    *)
(***************************************************************************)

\* The chunk of row i has no value of column c.
IsVoid(c, i) == ChunkRows((i - 1) \div given.chunk) \cap PresentRows(csv.cells[c]) = {}

NullsAreCounted(c) == agg.nulls[c] = read - Cardinality(PresentIn(csv.cells[c], 1, read))

\* Nothing is seen before the first chunk, and no kind in an empty one.
TypeIsSeen(c) ==
    ~Mixed(c) => agg.seen[c] = IF read > 0 THEN {DtypeOf(KindsIn(csv.cells[c], 1, read))}
                               ELSE IF streamed THEN {"object"} ELSE {}

BoundsAreSeen(c) ==
    NumericDtype(ReadDtype(csv.cells[c])) =>
        /\ agg.stats[c].least = LeastOf(ValuesIn(csv.cells[c], 1, read))
        /\ agg.stats[c].greatest = GreatestOf(ValuesIn(csv.cells[c], 1, read))
        /\ agg.stats[c].nan \in BOOLEAN /\ (agg.stats[c].nan <=> \E i \in 1 .. read : IsVoid(c, i))

\* Chunks begin at multiples of their size until the file is at its end.
AtChunk ==
    /\ read \in 0 .. RowsOf(csv) /\ agg.rows = read /\ streamed \in BOOLEAN
    /\ streamed => read = RowsOf(csv)
    /\ ~streamed => /\ \E k \in Nat : read = given.chunk * k
                    /\ read < RowsOf(csv) \/ RowsOf(csv) = 0

AggregatesInv == \A c \in ColumnsOf(csv) : NullsAreCounted(c) /\ TypeIsSeen(c) /\ BoundsAreSeen(c)

LEMMA ColumnsOfFile ==
    ASSUME given \in Inputs
    PROVE  /\ CsvFile(csv) /\ FrameOf(csv, RowsOf(csv)) /\ RowsOf(csv) \in Nat /\ given.chunk \in Nat \ {0}
           /\ 1 \in ColumnsOf(csv)
           /\ \A c \in ColumnsOf(csv) : ColumnOf(csv.cells[c], RowsOf(csv))
<1>1. CsvFile(csv) /\ given.chunk \in Nat \ {0}
  BY InputsAssumption DEF InputsAssumption, csv
<1>2. FrameOf(csv, RowsOf(csv))
  BY <1>1, FileIsFrame
<1>3. \A c \in ColumnsOf(csv) : ColumnOf(csv.cells[c], RowsOf(csv))
  BY <1>1, <1>2 DEF CsvFile, FrameOf, ColumnOf
<1> QED
  BY <1>1, <1>2, <1>3 DEF FrameOf

\* Which chunk a row is in.
LEMMA ChunkOfRow ==
    ASSUME NEW size \in Nat \ {0}, NEW k \in Nat, NEW i \in Nat \ {0}
    PROVE  (i - 1) \div size = k <=> size * k + 1 <= i /\ i <= size * k + size
<1> DEFINE q == (i - 1) \div size
<1>1. q \in Int /\ size * q <= i - 1 /\ i - 1 < size * q + size
  BY SMT
<1> HIDE DEF q
<1>2. \A a, b \in Int : size * a < size * b + size => a < b + 1
  BY SMT
<1>3. ASSUME size * k + 1 <= i, i <= size * k + size PROVE q = k
  <2>1. size * q \in Int /\ size * k \in Int
    BY <1>1
  <2>2. size * q < size * k + size /\ size * k < size * q + size
    BY <1>1, <1>3, <2>1
  <2>3. q < k + 1 /\ k < q + 1
    BY <1>1, <1>2, <2>2
  <2> QED
    BY <1>1, <2>3
<1>4. ASSUME q = k PROVE size * k + 1 <= i /\ i <= size * k + size
  BY <1>1, <1>4
<1> QED
  BY <1>3, <1>4 DEF q

\* Of a column that is numeric as a whole every piece with cells is numeric.
LEMMA NumericPieces ==
    ASSUME NEW cells, NEW n, ColumnOf(cells, n), NumericDtype(ReadDtype(cells)),
           NEW kinds \in SUBSET Kinds(cells), kinds # {}
    PROVE  NumericDtype(DtypeOf(kinds))
<1>1. cells # <<>> /\ NumericDtype(DtypeOf(Kinds(cells)))
  BY DtypeIsOfKinds DEF NumericDtype
<1>2. Kinds(cells) \subseteq {"na", "int", "float"} \/ Kinds(cells) = {"bool"}
  BY <1>1 DEF DtypeOf, NumericDtype
<1>3. kinds \subseteq {"na", "int", "float"} \/ kinds = {"bool"}
  BY <1>2
<1> QED
  BY <1>3 DEF DtypeOf, NumericDtype

LEMMA KindsOfColumn ==
    ASSUME NEW cells, NEW n, ColumnOf(cells, n)
    PROVE  /\ Kinds(cells) = KindsIn(cells, 1, n) /\ PresentRows(cells) = PresentIn(cells, 1, n)
           /\ NumbersIn(cells, DOMAIN cells) = ValuesIn(cells, 1, n)
           /\ Kinds(cells) \subseteq CellKind
           /\ cells = <<>> <=> n = 0
<1>1. DOMAIN cells = 1 .. n /\ n \in Nat
  BY LenProperties DEF ColumnOf
<1>2. cells = <<>> <=> n = 0
  BY EmptySeq DEF ColumnOf
<1>3. \A i \in 1 .. n : cells[i].k \in CellKind
  <2>1. 1 \in 1 .. n + 1 /\ n \in Int /\ n <= n
    BY <1>1
  <2> QED
    BY <2>1, CellsOfColumn
<1>4. Kinds(cells) = KindsIn(cells, 1, n) /\ PresentRows(cells) = PresentIn(cells, 1, n)
  BY <1>1 DEF Kinds, KindsIn, PresentRows, PresentIn
<1>5. PresentIn(cells, 1, n) \subseteq DOMAIN cells
  BY <1>1 DEF PresentIn
<1>6. NumbersIn(cells, DOMAIN cells) = ValuesIn(cells, 1, n)
  BY <1>4, <1>5 DEF NumbersIn, ValuesIn
<1>7. Kinds(cells) \subseteq CellKind
  BY <1>1, <1>3 DEF Kinds
<1> QED
  BY <1>2, <1>4, <1>6, <1>7

LEMMA NothingIsRead == AssessmentInit => AtChunk /\ AggregatesInv
<1> SUFFICES ASSUME AssessmentInit PROVE AtChunk /\ AggregatesInv
  OBVIOUS
<1>1. /\ given \in Inputs /\ read = 0 /\ streamed = FALSE /\ agg = NoAggregates(csv)
  BY DEF AssessmentInit
<1>2. RowsOf(csv) \in Nat /\ given.chunk \in Nat \ {0}
  BY <1>1, ColumnsOfFile
<1>3. AtChunk
  <2>1. agg.rows = 0
    BY <1>1 DEF NoAggregates
  <2>2. \E k \in Nat : 0 = given.chunk * k
    <3>1. \A size \in Nat : 0 = size * 0
      BY SMT
    <3> QED
      BY <1>2, <3>1
  <2>3. 0 \in 0 .. RowsOf(csv) /\ (0 < RowsOf(csv) \/ RowsOf(csv) = 0)
    BY <1>2
  <2> QED
    BY <1>1, <2>1, <2>2, <2>3 DEF AtChunk
<1>4. ASSUME NEW c \in ColumnsOf(csv)
      PROVE  NullsAreCounted(c) /\ TypeIsSeen(c) /\ BoundsAreSeen(c)
  <2>1. agg.nulls[c] = 0 /\ agg.stats[c] = NoBound /\ agg.seen[c] = {}
    BY <1>1 DEF NoAggregates
  <2>2. PresentIn(csv.cells[c], 1, 0) = {} /\ ValuesIn(csv.cells[c], 1, 0) = {}
    BY DEF PresentIn, ValuesIn
  <2>3. NullsAreCounted(c)
    BY <1>1, <2>1, <2>2, FS_EmptySet DEF NullsAreCounted
  <2>4. TypeIsSeen(c)
    BY <1>1, <2>1 DEF TypeIsSeen
  <2>5. BoundsAreSeen(c)
    BY <1>1, <2>1, <2>2 DEF BoundsAreSeen, NoBound, LeastOf, GreatestOf
  <2> QED
    BY <2>3, <2>4, <2>5
<1> QED
  BY <1>3, <1>4 DEF AggregatesInv

\* The rows after the last one read, up to this one, are the chunk k.
IsChunk(k, last) ==
    /\ read = given.chunk * k
    /\ last < RowsOf(csv) => last = given.chunk * (k + 1)
    /\ \A i \in 1 .. RowsOf(csv) : (i - 1) \div given.chunk = k <=> i \in read + 1 .. last

\* The chunk that is read next ends where the file does, or a chunk further.
LEMMA NextChunk ==
    ASSUME given \in Inputs, AtChunk, ReadChunk,
           NEW last, last = IF read + given.chunk < RowsOf(csv) THEN read + given.chunk ELSE RowsOf(csv)
    PROVE  /\ last \in read .. RowsOf(csv) /\ read \in 0 .. RowsOf(csv) /\ read' = last /\ agg'.rows = last
           /\ last = read <=> RowsOf(csv) = 0
           /\ streamed' \in BOOLEAN /\ (streamed' <=> last = RowsOf(csv)) /\ ~streamed
           /\ \A c \in ColumnsOf(csv) :
                LET piece == Piece(csv.cells[c], read, last)
                IN  /\ agg'.nulls[c] = CountNulls(agg.nulls[c], piece)
                    /\ agg'.stats[c] = UpdateStats(agg.stats[c], piece)
                    /\ agg'.seen[c] = InferDtype(agg.seen[c], piece)
           /\ \E k \in Nat : IsChunk(k, last)
<1> DEFINE n == RowsOf(csv)
           size == given.chunk
           chunk == Chunk(csv, read, size)
<1>1. n \in Nat /\ size \in Nat \ {0} /\ 1 \in ColumnsOf(csv) /\ ColumnOf(csv.cells[1], n)
  BY ColumnsOfFile
<1>2. /\ read \in 0 .. n /\ agg.rows = read /\ streamed = FALSE /\ (read < n \/ n = 0)
  BY DEF AtChunk, ReadChunk
<1>3. PICK k \in Nat : read = size * k
  BY DEF AtChunk, ReadChunk
<1>4. agg' = Aggregate(agg, chunk) /\ read' = agg'.rows /\ streamed' = (read' = n)
  BY DEF ReadChunk
<1>5. chunk = [c \in ColumnsOf(csv) |-> Piece(csv.cells[c], read, last)]
  BY DEF Chunk, Piece
<1>6. last \in read .. n /\ (last = read <=> n = 0) /\ (last < n => last = read + size)
  BY <1>1, <1>2
<1>7. Len(chunk[1]) = last - read
  <2>1. chunk[1] = Piece(csv.cells[1], read, last)
    BY <1>1, <1>5
  <2> HIDE DEF chunk, n
  <2> QED
    BY <1>1, <1>2, <1>6, <2>1, LengthOfPiece
<1>8. agg'.rows = last
  <2>1. agg'.rows = agg.rows + Len(chunk[1])
    BY <1>4 DEF Aggregate
  <2> HIDE DEF chunk, n
  <2> QED
    BY <1>2, <1>6, <1>7, <2>1
<1>9. ASSUME NEW c \in ColumnsOf(csv)
      PROVE  LET piece == Piece(csv.cells[c], read, last)
             IN  /\ agg'.nulls[c] = CountNulls(agg.nulls[c], piece)
                 /\ agg'.stats[c] = UpdateStats(agg.stats[c], piece)
                 /\ agg'.seen[c] = InferDtype(agg.seen[c], piece)
  <2>1. DOMAIN chunk = ColumnsOf(csv) /\ chunk[c] = Piece(csv.cells[c], read, last)
    BY <1>5
  <2> HIDE DEF chunk
  <2> QED
    BY <1>4, <2>1 DEF Aggregate
<1>10. last < n => last = size * (k + 1)
  <2>1. \A u, v \in Nat : u * v + u = u * (v + 1)
    BY SMT
  <2> QED
    BY <1>1, <1>3, <1>6, <2>1
<1>11. ASSUME NEW i \in 1 .. n PROVE (i - 1) \div size = k <=> i \in read + 1 .. last
  <2>0. i \in Nat \ {0}
    BY <1>1
  <2> HIDE DEF n, size
  <2>1. (i - 1) \div size = k <=> size * k + 1 <= i /\ i <= size * k + size
    BY <1>1, <2>0, ChunkOfRow
  <2>2. last = IF read + size < n THEN read + size ELSE n
    BY DEF n, size
  <2>3. i \in Int /\ 1 <= i /\ i <= n
    BY <1>1
  <2>4. (i - 1) \div size = k <=> read + 1 <= i /\ i <= read + size
    BY <1>3, <2>1
  <2> QED
    BY <1>1, <1>2, <2>2, <2>3, <2>4
<1>12. IsChunk(k, last)
  BY <1>3, <1>10, <1>11 DEF IsChunk
<1>13. streamed' \in BOOLEAN /\ (streamed' <=> last = n) /\ ~streamed
  <2>1. streamed' = (last = n)
    BY <1>4, <1>8
  <2> QED
    BY <1>2, <2>1
<1> QED
  BY <1>2, <1>4, <1>6, <1>8, <1>9, <1>12, <1>13

LEMMA AtChunkStays ==
    ASSUME given \in Inputs, AtChunk, ReadChunk
    PROVE  AtChunk'
<1> DEFINE n == RowsOf(csv)
           last == IF read + given.chunk < n THEN read + given.chunk ELSE n
<1>1. /\ last \in read .. n /\ read \in 0 .. n /\ read' = last /\ agg'.rows = last
      /\ streamed' \in BOOLEAN /\ (streamed' <=> last = n)
  <2> HIDE DEF last
  <2>1. last = IF read + given.chunk < RowsOf(csv) THEN read + given.chunk ELSE RowsOf(csv)
    BY DEF last
  <2> QED
    BY <2>1, NextChunk
<1>2. last < n => \E k \in Nat : last = given.chunk * k
  <2> HIDE DEF last
  <2>1. last = IF read + given.chunk < RowsOf(csv) THEN read + given.chunk ELSE RowsOf(csv)
    BY DEF last
  <2>2. PICK k \in Nat : IsChunk(k, last)
    BY <2>1, NextChunk
  <2> QED
    BY <2>2 DEF IsChunk
<1> HIDE DEF last
<1>3. csv' = csv /\ given' = given /\ n \in Nat
  BY ColumnsOfFile DEF ReadChunk, inputVars, csv
<1>4. last \in 0 .. n /\ (last = n \/ last < n)
  BY <1>1, <1>3
<1> QED
  BY <1>1, <1>2, <1>3, <1>4 DEF AtChunk

LEMMA AggregatesStay ==
    ASSUME given \in Inputs, AtChunk, ReadChunk, NEW c \in ColumnsOf(csv),
           NullsAreCounted(c), TypeIsSeen(c), BoundsAreSeen(c)
    PROVE  NullsAreCounted(c)' /\ TypeIsSeen(c)' /\ BoundsAreSeen(c)'
<1> DEFINE n == RowsOf(csv)
           cells == csv.cells[c]
<1>0. csv' = csv /\ given' = given
  BY DEF ReadChunk, inputVars, csv
<1>1. ColumnOf(cells, n) /\ n \in Nat
  BY ColumnsOfFile
<1>2. PICK last : last = IF read + given.chunk < RowsOf(csv) THEN read + given.chunk ELSE RowsOf(csv)
  OBVIOUS
<1>3. /\ last \in read .. n /\ read \in 0 .. n /\ read' = last
      /\ (last = read <=> n = 0) /\ streamed' \in BOOLEAN /\ (streamed' <=> last = n) /\ ~streamed
  BY <1>2, NextChunk
<1> HIDE DEF n, cells
<1>p. PICK piece : piece = Piece(cells, read, last)
  OBVIOUS
<1>4. /\ agg'.nulls[c] = CountNulls(agg.nulls[c], piece)
      /\ agg'.stats[c] = UpdateStats(agg.stats[c], piece)
      /\ agg'.seen[c] = InferDtype(agg.seen[c], piece)
  BY <1>2, <1>p, NextChunk DEF cells
<1>a. ColumnOf(cells, n)
  BY <1>1
<1>b. read \in 0 .. n
  BY <1>3
<1>c. last \in read .. n
  BY <1>3
<1>6a. piece = <<>> <=> last = read
  BY <1>a, <1>b, <1>c, <1>p, LengthOfPiece
<1>6b. Kinds(piece) = KindsIn(cells, read + 1, last)
  BY <1>a, <1>b, <1>c, <1>p, PieceOfColumn
<1>6c. NumbersIn(piece, DOMAIN piece) = ValuesIn(cells, read + 1, last)
  BY <1>a, <1>b, <1>c, <1>p, PieceOfColumn
<1>6d. Nulls(piece) = (last - read) - Cardinality(PresentIn(cells, read + 1, last))
  BY <1>a, <1>b, <1>c, <1>p, PieceOfColumn
<1>6. /\ (piece = <<>> <=> last = read)
      /\ Kinds(piece) = KindsIn(cells, read + 1, last)
      /\ NumbersIn(piece, DOMAIN piece) = ValuesIn(cells, read + 1, last)
      /\ Nulls(piece) = (last - read) - Cardinality(PresentIn(cells, read + 1, last))
  BY <1>6a, <1>6b, <1>6c, <1>6d
<1>7. /\ KindsIn(cells, 1, last) = KindsIn(cells, 1, read) \cup KindsIn(cells, read + 1, last)
      /\ ValuesIn(cells, 1, last) = ValuesIn(cells, 1, read) \cup ValuesIn(cells, read + 1, last)
      /\ Cardinality(PresentIn(cells, 1, last))
           = Cardinality(PresentIn(cells, 1, read)) + Cardinality(PresentIn(cells, read + 1, last))
  <2> HIDE DEF n, cells
  <2> QED
    BY <1>1, <1>3, PiecesAddUp
<1>8. /\ Kinds(cells) = KindsIn(cells, 1, n) /\ PresentRows(cells) = PresentIn(cells, 1, n)
      /\ Kinds(cells) \subseteq CellKind /\ (cells = <<>> <=> n = 0)
  <2> HIDE DEF n, cells
  <2> QED
    BY <1>1, KindsOfColumn
<1>9. /\ Cardinality(PresentIn(cells, 1, read)) \in Nat /\ Cardinality(PresentIn(cells, read + 1, last)) \in Nat
      /\ Numbers(ValuesIn(cells, 1, read)) /\ Numbers(ValuesIn(cells, read + 1, last))
  <2>1. 1 \in 1 .. n + 1 /\ read + 1 \in 1 .. n + 1 /\ read \in Int /\ last \in Int /\ read <= n /\ last <= n
    BY <1>1, <1>3
  <2> HIDE DEF n, cells
  <2> QED
    BY <1>1, <2>1, CellsOfColumn
<1>5. PICK k \in Nat : IsChunk(k, last)
  BY <1>2, NextChunk
<1> USE DEF n, cells
<1>10. NullsAreCounted(c)'
  <2>1. agg.nulls[c] = read - Cardinality(PresentIn(cells, 1, read))
    BY DEF NullsAreCounted
  <2>2. agg'.nulls[c] = agg.nulls[c] + Nulls(piece)
    BY <1>4 DEF CountNulls
  <2>3. read \in Int /\ last \in Int
    BY <1>1, <1>3
  <2> HIDE DEF cells
  <2>4. agg'.nulls[c] = last - Cardinality(PresentIn(cells, 1, last))
    BY <1>6, <1>7, <1>9, <2>1, <2>2, <2>3
  <2> QED
    BY <1>0, <1>3, <2>4 DEF NullsAreCounted, cells
<1>11. TypeIsSeen(c)'
  <2> SUFFICES ASSUME ~Mixed(c)
               PROVE  agg'.seen[c] = IF last > 0 THEN {DtypeOf(KindsIn(cells, 1, last))}
                                     ELSE IF streamed' THEN {"object"} ELSE {}
    BY <1>0, <1>3 DEF TypeIsSeen, Mixed
  <2>1. agg.seen[c] = IF read > 0 THEN {DtypeOf(KindsIn(cells, 1, read))} ELSE {}
    BY <1>3 DEF TypeIsSeen
  <2>2. "bool" \in Kinds(cells) => Kinds(cells) = {"bool"}
    BY DEF Mixed
  <2>3. ReadDtype(piece) = IF last = read THEN "object" ELSE DtypeOf(KindsIn(cells, read + 1, last))
    BY <1>6, DtypeIsOfKinds
  <2> HIDE DEF n, cells
  <2>4. CASE n = 0
    <3>0. streamed' <=> last = n
      BY <1>3
    <3>1. read = 0 /\ last = 0 /\ streamed'
      BY <1>3, <2>4, <3>0
    <3>2. agg.seen[c] = {} /\ ReadDtype(piece) = "object"
      BY <2>1, <2>3, <3>1
    <3>3. agg'.seen[c] = {"object"}
      BY <1>4, <3>2 DEF InferDtype
    <3> QED
      BY <3>1, <3>3
  <2>5. CASE n # 0 /\ read = 0
    <3>1. last > 0 /\ last # read
      BY <1>1, <1>3, <2>5
    <3>2. agg.seen[c] = {} /\ ReadDtype(piece) = DtypeOf(KindsIn(cells, 1, last))
      BY <2>1, <2>3, <2>5, <3>1
    <3>3. agg'.seen[c] = {DtypeOf(KindsIn(cells, 1, last))}
      BY <1>4, <3>2 DEF InferDtype
    <3> QED
      BY <3>1, <3>3
  <2>6. CASE n # 0 /\ read # 0
    <3>1. last > 0 /\ last # read /\ read > 0
      BY <1>1, <1>3, <2>6
    <3> DEFINE A == KindsIn(cells, 1, read)
               B == KindsIn(cells, read + 1, last)
    <3>2. agg.seen[c] = {DtypeOf(A)} /\ ReadDtype(piece) = DtypeOf(B)
      BY <2>1, <2>3, <3>1
    <3>3. agg'.seen[c] = {Widen(DtypeOf(A), DtypeOf(B))}
      <4>1. (CHOOSE t \in {DtypeOf(A)} : TRUE) = DtypeOf(A)
        OBVIOUS
      <4> HIDE DEF A, B
      <4> QED
        BY <1>4, <3>2, <4>1 DEF InferDtype
    <3>4. A \cup B \subseteq Kinds(cells)
      <4>1. /\ 1 .. read \subseteq 1 .. n /\ read + 1 .. last \subseteq 1 .. n
        BY <1>1, <1>3
      <4> QED
        BY <1>8, <4>1 DEF KindsIn
    <3>5. A # {} /\ B # {}
      <4>1. 1 \in 1 .. read /\ last \in read + 1 .. last
        BY <1>1, <1>3, <3>1
      <4> QED
        BY <4>1 DEF KindsIn
    <3> HIDE DEF A, B
    <3>6. A \in SUBSET CellKind /\ B \in SUBSET CellKind /\ ("bool" \in A \cup B => A \cup B = {"bool"})
      BY <1>8, <2>2, <3>4, <3>5
    <3>7. Widen(DtypeOf(A), DtypeOf(B)) = DtypeOf(A \cup B)
      BY <3>5, <3>6, WidenIsUnion
    <3>8. KindsIn(cells, 1, last) = A \cup B
      BY <1>7 DEF A, B
    <3> QED
      BY <3>1, <3>3, <3>7, <3>8
  <2> QED
    BY <2>4, <2>5, <2>6
<1>12. BoundsAreSeen(c)'
  <2> SUFFICES ASSUME NumericDtype(ReadDtype(cells))
               PROVE  /\ agg'.stats[c].least = LeastOf(ValuesIn(cells, 1, last))
                      /\ agg'.stats[c].greatest = GreatestOf(ValuesIn(cells, 1, last))
                      /\ agg'.stats[c].nan \in BOOLEAN
                      /\ agg'.stats[c].nan <=> \E i \in 1 .. last : IsVoid(c, i)
    BY <1>0, <1>3 DEF BoundsAreSeen, IsVoid, ChunkRows
  <2>1. /\ agg.stats[c].least = LeastOf(ValuesIn(cells, 1, read))
        /\ agg.stats[c].greatest = GreatestOf(ValuesIn(cells, 1, read))
        /\ agg.stats[c].nan \in BOOLEAN /\ (agg.stats[c].nan <=> \E i \in 1 .. read : IsVoid(c, i))
    BY DEF BoundsAreSeen
  <2>2. n # 0 /\ last # read
    BY <1>3, <1>8, DtypeIsOfKinds DEF NumericDtype
  <2> DEFINE B == KindsIn(cells, read + 1, last)
             V == ValuesIn(cells, 1, read)
             W == ValuesIn(cells, read + 1, last)
  <2>3. NumericDtype(ReadDtype(piece))
    <3>1. B \subseteq Kinds(cells)
      <4>1. read + 1 .. last \subseteq 1 .. n
        BY <1>1, <1>3
      <4> QED
        BY <1>8, <4>1 DEF KindsIn
    <3>2. B # {}
      <4>1. last \in read + 1 .. last
        BY <1>1, <1>3, <2>2
      <4> QED
        BY <4>1 DEF KindsIn
    <3>3. ReadDtype(piece) = DtypeOf(B)
      BY <1>6, <2>2, DtypeIsOfKinds
    <3> HIDE DEF B, n, cells
    <3> QED
      BY <1>1, <3>1, <3>2, <3>3, NumericPieces
  <2>4. NumbersIn(piece, DOMAIN piece) = W /\ ValuesIn(cells, 1, last) = V \cup W
    BY <1>6, <1>7
  <2>5. /\ agg'.stats[c].nan = (agg.stats[c].nan \/ W = {})
        /\ agg'.stats[c].least = LeastOf(LeastOf(V) \cup W)
        /\ agg'.stats[c].greatest = GreatestOf(GreatestOf(V) \cup W)
    <3>1. agg.stats[c].least = LeastOf(V) /\ agg.stats[c].greatest = GreatestOf(V)
      BY <2>1
    <3> HIDE DEF V, W
    <3>2. agg'.stats[c] = [nan |-> agg.stats[c].nan \/ W = {},
                           least |-> LeastOf(agg.stats[c].least \cup W),
                           greatest |-> GreatestOf(agg.stats[c].greatest \cup W)]
      BY <1>4, <2>3, <2>4 DEF UpdateStats
    <3> QED
      BY <3>1, <3>2
  <2>6. /\ agg'.stats[c].least = LeastOf(V \cup W) /\ agg'.stats[c].greatest = GreatestOf(V \cup W)
    <3>1. Numbers(V) /\ Numbers(W)
      BY <1>9
    <3> HIDE DEF V, W
    <3> QED
      BY <2>5, <3>1, BoundsByParts
  <2>7. ASSUME NEW i \in read + 1 .. last PROVE IsVoid(c, i) <=> W = {}
    <3>0. i \in 1 .. n
      BY <1>1, <1>3
    <3>1. (i - 1) \div given.chunk = k
      BY <1>5, <3>0 DEF IsChunk
    <3>2. ChunkRows(k) = read + 1 .. last
      <4>1. ChunkRows(k) = {j \in 1 .. n : j \in read + 1 .. last}
        BY <1>5 DEF ChunkRows, IsChunk
      <4>2. read + 1 .. last \subseteq 1 .. n
        BY <1>1, <1>3
      <4> QED
        BY <4>1, <4>2
    <3>3. (read + 1 .. last) \cap PresentIn(cells, 1, n) = PresentIn(cells, read + 1, last)
      <4>1. read + 1 .. last \subseteq 1 .. n
        BY <1>1, <1>3
      <4> QED
        BY <4>1 DEF PresentIn
    <3>4. W = {} <=> PresentIn(cells, read + 1, last) = {}
      BY DEF ValuesIn
    <3>5. IsVoid(c, i) <=> ChunkRows(k) \cap PresentRows(cells) = {}
      BY <3>1 DEF IsVoid
    <3> QED
      BY <1>8, <3>2, <3>3, <3>4, <3>5
  <2>8. agg'.stats[c].nan <=> \E i \in 1 .. last : IsVoid(c, i)
    <3>1. 1 .. last = (1 .. read) \cup (read + 1 .. last) /\ last \in read + 1 .. last
      BY <1>1, <1>3, <2>2
    <3>2. W = {} <=> \E i \in read + 1 .. last : IsVoid(c, i)
      BY <2>7, <3>1
    <3>3. agg'.stats[c].nan <=> agg.stats[c].nan \/ W = {}
      BY <2>5
    <3> QED
      BY <2>1, <3>1, <3>2, <3>3
  <2>9. agg'.stats[c].nan \in BOOLEAN
    BY <2>5
  <2> HIDE DEF V, W
  <2> QED
    BY <2>4, <2>6, <2>8, <2>9
<1> QED
  BY <1>10, <1>11, <1>12

-----------------------------------------------------------------------------
(***************************************************************************)
(* Profiles that are assessed alike                                        *)
(***************************************************************************)

\* Two profiles that agree on all but the counts, the bounds and some types.
Alike(p, q, mixed) ==
    /\ p.rows = q.rows /\ DOMAIN p.columns = DOMAIN q.columns
    /\ \A c \in DOMAIN p.columns : c \in Nat /\ 1 .. c \subseteq DOMAIN p.columns
    /\ \A c \in DOMAIN p.columns :
         /\ p.columns[c].name = q.columns[c].name /\ p.columns[c].nulls = q.columns[c].nulls
         /\ p.columns[c].name \notin mixed => p.columns[c].dtype = q.columns[c].dtype

Comparable(issues, mixed) == {i \in issues : i.type /= "dtype_mismatch" \/ i.column \notin mixed}

LEMMA AlikeIsSymmetric ==
    ASSUME NEW p, NEW q, NEW mixed, Alike(p, q, mixed)
    PROVE  Alike(q, p, mixed)
BY DEF Alike

LEMMA AlikeScores ==
    ASSUME NEW p, NEW q, NEW mixed, Alike(p, q, mixed), NEW columns
    PROVE  ComputeScore(p, columns) = ComputeScore(q, columns)
<1> DEFINE n == AtLeastOne(p.rows)
           D == DOMAIN p.columns
           weight(r) == [c \in DOMAIN r.columns |-> RuleOf(columns, r.columns[c].name).weight]
           complete(r) == [c \in DOMAIN r.columns |-> weight(r)[c] * (n - r.columns[c].nulls)]
<1>1. AtLeastOne(q.rows) = n /\ DOMAIN q.columns = D
  BY DEF Alike
<1>2. weight(p) = weight(q)
  BY DEF Alike
<1>3. complete(p) = complete(q)
  <2> HIDE DEF weight, n
  <2>1. \A c \in D : weight(p)[c] * (n - p.columns[c].nulls) = weight(q)[c] * (n - q.columns[c].nulls)
    BY <1>2 DEF Alike
  <2> QED
    BY <1>1, <2>1
<1>4. \A r \in {p, q} : AtLeastOne(r.rows) = n =>
         ComputeScore(r, columns) = IF SumFunction(weight(r)) = 0 THEN 0
                                    ELSE Rounded(10000 * SumFunction(complete(r)), n * SumFunction(weight(r)))
  BY DEF ComputeScore
<1> HIDE DEF weight, complete, n
<1> QED
  BY <1>1, <1>2, <1>3, <1>4 DEF n

\* Each issue the rules that are supported find in a profile they find in one like it.
LEMMA AlikeIssues ==
    ASSUME NEW p, NEW q, NEW mixed, Alike(p, q, mixed), NEW columns
    PROVE  Comparable(SupportedIssues(p, columns), mixed) \subseteq SupportedIssues(q, columns)
<1>0. p.rows = q.rows
  BY DEF Alike
<1>1. ASSUME NEW col \in ColumnSet(p)
      PROVE  \E d \in ColumnSet(q) : /\ d.name = col.name /\ d.nulls = col.nulls
                                     /\ (col.name \notin mixed => d.dtype = col.dtype)
  BY DEF Alike, ColumnSet
<1>2. MissingIssues(p, columns) \subseteq MissingIssues(q, columns)
  BY <1>0, <1>1 DEF MissingIssues
<1>3. DuplicateNames(p) \subseteq DuplicateNames(q)
  <2>1. ASSUME NEW d \in DOMAIN p.columns, NEW b \in 1 .. d - 1
        PROVE  /\ b \in DOMAIN p.columns /\ d \in DOMAIN q.columns
               /\ p.columns[b].name = q.columns[b].name /\ p.columns[d].name = q.columns[d].name
    <3>1. d \in Nat /\ b \in 1 .. d /\ 1 .. d \subseteq DOMAIN p.columns
      BY DEF Alike
    <3> QED
      BY <3>1 DEF Alike
  <2> QED
    BY <2>1, Zenon DEF DuplicateNames
<1>4. BlankNames(p) \subseteq BlankNames(q)
  BY <1>1, Zenon DEF BlankNames
<1>5. PaddedNames(p) \subseteq PaddedNames(q)
  BY <1>1, Zenon DEF PaddedNames
<1>6. PlaceholderIssues(p) \subseteq PlaceholderIssues(q)
  BY <1>1, Zenon DEF PlaceholderIssues
<1>7. AllNullColumns(p) \subseteq AllNullColumns(q)
  BY <1>0, <1>1 DEF AllNullColumns
<1>8. RequiredColumns(p, columns) \subseteq RequiredColumns(q, columns)
  <2>1. {col.name : col \in ColumnSet(q)} \subseteq {col.name : col \in ColumnSet(p)}
    BY DEF Alike, ColumnSet
  <2> QED
    BY <2>1 DEF RequiredColumns
<1>9. Comparable(DtypeMismatch(p, columns), mixed) \subseteq DtypeMismatch(q, columns)
  BY <1>1 DEF DtypeMismatch, Comparable, Issue
<1>10. QualityGates(p, columns) \subseteq QualityGates(q, columns)
  BY <1>0, <1>1 DEF QualityGates
<1> QED
  BY <1>2, <1>3, <1>4, <1>5, <1>6, <1>7, <1>8, <1>9, <1>10 DEF SupportedIssues, Comparable

-----------------------------------------------------------------------------
(***************************************************************************)
(* The streamed profile                                                    *)
(***************************************************************************)

\* What a column of the streamed profile says of the file.
StreamedBounds(c) ==
    LET col == StreamedProfile.columns[c]
        cells == csv.cells[c]
    IN  NumericDtype(ReadDtype(cells)) =>
            IF SomeChunkIsEmpty(c)
                THEN col.min = {} /\ col.max = {}
                ELSE /\ col.min = LeastOf(NumbersIn(cells, DOMAIN cells))
                     /\ col.max = GreatestOf(NumbersIn(cells, DOMAIN cells))

StreamedColumn(c) ==
    LET col == StreamedProfile.columns[c]
    IN  /\ col.name = csv.names[c] /\ col.nulls = Nulls(csv.cells[c]) /\ col.unique = {}
        /\ ~Mixed(c) => col.dtype = ReadDtype(csv.cells[c])

LEMMA ColumnIsStreamed ==
    ASSUME given \in Inputs, AtChunk, AggregatesInv, streamed, NEW c \in ColumnsOf(csv)
    PROVE  StreamedColumn(c) /\ StreamedBounds(c)
<1> DEFINE n == RowsOf(csv)
           cells == csv.cells[c]
           col == StreamedProfile.columns[c]
           one == CHOOSE t \in agg.seen[c] \cup {"object"} : agg.seen[c] = {} \/ t \in agg.seen[c]
<1>1. n \in Nat /\ ColumnOf(cells, n)
  BY ColumnsOfFile
<1>2. read = n
  BY DEF AtChunk
<1>3. NullsAreCounted(c) /\ TypeIsSeen(c) /\ BoundsAreSeen(c)
  BY DEF AggregatesInv
<1>4. /\ col.name = csv.names[c] /\ col.nulls = agg.nulls[c] /\ col.unique = {} /\ col.dtype = one
      /\ col.min = FinalBound(agg.stats[c], agg.stats[c].least)
      /\ col.max = FinalBound(agg.stats[c], agg.stats[c].greatest)
  BY DEF StreamedProfile, FinalizeProfile
<1>5. PresentRows(cells) = PresentIn(cells, 1, n) /\ Kinds(cells) = KindsIn(cells, 1, n)
  <2> HIDE DEF n, cells
  <2> QED
    BY <1>1, KindsOfColumn
<1>6. NumbersIn(cells, DOMAIN cells) = ValuesIn(cells, 1, n)
  <2> HIDE DEF n, cells
  <2> QED
    BY <1>1, KindsOfColumn
<1>7. cells = <<>> <=> n = 0
  <2> HIDE DEF n, cells
  <2> QED
    BY <1>1, KindsOfColumn
<1>8. agg.nulls[c] = Nulls(cells)
  <2>1. agg.nulls[c] = n - Cardinality(PresentIn(cells, 1, n))
    BY <1>2, <1>3 DEF NullsAreCounted
  <2>2. Len(cells) = n
    BY <1>1 DEF ColumnOf
  <2> HIDE DEF cells, n
  <2> QED
    BY <1>5, <2>1, <2>2 DEF Nulls
<1>9. ASSUME ~Mixed(c) PROVE one = ReadDtype(cells)
  <2>1. agg.seen[c] = IF n > 0 THEN {DtypeOf(KindsIn(cells, 1, n))} ELSE {"object"}
    BY <1>2, <1>3, <1>9 DEF TypeIsSeen
  <2>2. ReadDtype(cells) = IF n = 0 THEN "object" ELSE DtypeOf(KindsIn(cells, 1, n))
    BY <1>5, <1>7, DtypeIsOfKinds
  <2> HIDE DEF cells, n, one
  <2>3. agg.seen[c] = {ReadDtype(cells)}
    BY <1>1, <2>1, <2>2
  <2>4. \A t : (CHOOSE u \in {t} \cup {"object"} : {t} = {} \/ u \in {t}) = t
    OBVIOUS
  <2> QED
    BY <2>3, <2>4 DEF one
<1>10. StreamedColumn(c)
  <2> HIDE DEF one
  <2> QED
    BY <1>4, <1>8, <1>9 DEF StreamedColumn
<1>11. ASSUME NumericDtype(ReadDtype(cells))
       PROVE  IF SomeChunkIsEmpty(c) THEN col.min = {} /\ col.max = {}
              ELSE /\ col.min = LeastOf(NumbersIn(cells, DOMAIN cells))
                   /\ col.max = GreatestOf(NumbersIn(cells, DOMAIN cells))
  <2>1. /\ agg.stats[c].least = LeastOf(ValuesIn(cells, 1, n))
        /\ agg.stats[c].greatest = GreatestOf(ValuesIn(cells, 1, n))
        /\ agg.stats[c].nan \in BOOLEAN /\ (agg.stats[c].nan <=> \E i \in 1 .. n : IsVoid(c, i))
    BY <1>2, <1>3, <1>11 DEF BoundsAreSeen
  <2>2. SomeChunkIsEmpty(c) <=> agg.stats[c].nan
    BY <2>1 DEF SomeChunkIsEmpty, IsVoid
  <2> HIDE DEF cells, n, col
  <2> QED
    BY <1>4, <1>6, <2>1, <2>2 DEF FinalBound
<1>12. StreamedBounds(c)
  BY <1>11 DEF StreamedBounds
<1> QED
  BY <1>10, <1>12

\* The names of the columns whose type the stream may not tell.
MixedNames == {csv.names[c] : c \in {d \in ColumnsOf(csv) : Mixed(d)}}

LEMMA StreamedIsAlike ==
    ASSUME given \in Inputs, AtChunk, AggregatesInv, streamed
    PROVE  Alike(StreamedProfile, WholeProfile, MixedNames)
<1>1. StreamedProfile.rows = RowsOf(csv) /\ DOMAIN StreamedProfile.columns = ColumnsOf(csv)
  BY DEF StreamedProfile, FinalizeProfile, AtChunk
<1>2. /\ WholeProfile.rows = RowsOf(csv) /\ DOMAIN WholeProfile.columns = ColumnsOf(csv)
      /\ \A c \in ColumnsOf(csv) :
           /\ WholeProfile.columns[c].name = csv.names[c]
           /\ WholeProfile.columns[c].nulls = Nulls(csv.cells[c])
           /\ WholeProfile.columns[c].dtype = ReadDtype(csv.cells[c])
  BY DEF WholeProfile, RunProfiling, ProfileColumn
<1>3. ASSUME NEW c \in ColumnsOf(csv) PROVE c \in Nat /\ 1 .. c \subseteq ColumnsOf(csv)
  <2>1. ColumnsOf(csv) = 1 .. Len(csv.names) /\ Len(csv.names) \in Nat
    BY ColumnsOfFile, LenProperties DEF FrameOf, ColumnsOf
  <2> QED
    BY <2>1
<1>4. ASSUME NEW c \in ColumnsOf(csv)
      PROVE  /\ StreamedProfile.columns[c].name = csv.names[c]
             /\ StreamedProfile.columns[c].nulls = Nulls(csv.cells[c])
             /\ csv.names[c] \notin MixedNames => StreamedProfile.columns[c].dtype = ReadDtype(csv.cells[c])
  BY ColumnIsStreamed DEF StreamedColumn, MixedNames
<1> QED
  BY <1>1, <1>2, <1>3, <1>4 DEF Alike

-----------------------------------------------------------------------------
(***************************************************************************)
(* The streamed assessment                                                 *)
(***************************************************************************)

\* An answer that was streamed is of the stream at its end.
StreamedAnswer ==
    /\ Answered({"large", "profile", "chunked"}) => streamed /\ answer.profile = StreamedProfile
    /\ Answered({"chunked"}) =>
         /\ answer.assessment.score = Assess(StreamedProfile, rules, {}).score
         /\ answer.assessment.issues = Assess(StreamedProfile, rules, {}).issues

StreamInv == given \in Inputs /\ AtChunk /\ AggregatesInv /\ StreamedAnswer

LEMMA StreamInitInv == AssessmentInit => StreamInv
<1> SUFFICES ASSUME AssessmentInit PROVE StreamInv
  OBVIOUS
<1>1. \A ways : "none" \notin ways => ~Answered(ways)
  BY DEF AssessmentInit, Unasked, Answered
<1>2. StreamedAnswer
  BY <1>1 DEF StreamedAnswer
<1> QED
  BY <1>2, NothingIsRead DEF AssessmentInit, StreamInv

\* While the stream stays only a new answer matters.
LEMMA StreamStays ==
    ASSUME StreamInv, UNCHANGED <<inputVars, streamVars>>,
           \/ UNCHANGED <<answer, rules>>
           \/ ~Answered({"large", "profile", "chunked"})'
           \/ StreamedAnswer'
    PROVE  StreamInv'
<1>1. given' = given /\ csv' = csv /\ read' = read /\ agg' = agg /\ streamed' = streamed
  BY DEF inputVars, streamVars, csv
<1>2. AtChunk' /\ AggregatesInv'
  <2>1. AtChunk'
    BY <1>1 DEF StreamInv, AtChunk
  <2>2. ASSUME NEW c \in ColumnsOf(csv) PROVE NullsAreCounted(c)' /\ TypeIsSeen(c)' /\ BoundsAreSeen(c)'
    <3>1. NullsAreCounted(c) /\ TypeIsSeen(c) /\ BoundsAreSeen(c)
      BY DEF StreamInv, AggregatesInv
    <3>2. NullsAreCounted(c)'
      BY <1>1, <3>1 DEF NullsAreCounted
    <3>3. TypeIsSeen(c)'
      BY <1>1, <3>1 DEF TypeIsSeen, Mixed
    <3>4. \A i : IsVoid(c, i)' <=> IsVoid(c, i)
      BY <1>1 DEF IsVoid, ChunkRows
    <3>5. BoundsAreSeen(c)'
      BY <1>1, <3>1, <3>4 DEF BoundsAreSeen
    <3> QED
      BY <3>2, <3>3, <3>5
  <2> QED
    BY <1>1, <2>1, <2>2 DEF AggregatesInv
<1>3. StreamedAnswer'
  <2>1. CASE UNCHANGED <<answer, rules>>
    <3>1. StreamedProfile' = StreamedProfile
      BY <1>1 DEF StreamedProfile
    <3> QED
      BY <1>1, <2>1, <3>1 DEF StreamInv, StreamedAnswer, Answered
  <2>2. CASE ~Answered({"large", "profile", "chunked"})'
    BY <2>2 DEF StreamedAnswer, Answered
  <2> QED
    BY <2>1, <2>2
<1> QED
  BY <1>1, <1>2, <1>3 DEF StreamInv

LEMMA StreamNextInv == StreamInv /\ [AssessmentNext]_assessmentVars => StreamInv'
<1> SUFFICES ASSUME StreamInv, [AssessmentNext]_assessmentVars PROVE StreamInv'
  OBVIOUS
<1> DEFINE Streams == {"large", "profile", "chunked"}
<1>1. ASSUME NEW way \in {"overview", "quality"}, Unserved(way) PROVE StreamInv'
  <2>1. ~Answered(Streams)'
    BY <1>1 DEF Unserved, RefusedTo, Answered
  <2> QED
    BY <1>1, <2>1, StreamStays DEF Unserved
<1>2. CASE ShowLargeOverview
  <2>1. streamed' /\ answer'.profile = StreamedProfile' /\ answer'.way = "large"
    BY <1>2 DEF ShowLargeOverview, streamVars, inputVars, StreamedProfile, csv
  <2>2. StreamedAnswer'
    BY <2>1 DEF StreamedAnswer, Answered
  <2> QED
    BY <1>2, <2>2, StreamStays DEF ShowLargeOverview
<1>3. CASE ShowFullOverview
  <2>1. ~Answered(Streams)'
    <3>1. CASE answer' = RefusedTo("overview")
      BY <3>1 DEF RefusedTo, Answered
    <3>2. ASSUME NEW r \in Loaded, NEW page, answer' = Shows("overview", page, r)
          PROVE  ~Answered(Streams)'
      BY <3>2 DEF Shows, Answered
    <3> QED
      BY <1>3, <3>1, <3>2 DEF ShowFullOverview
  <2> QED
    BY <1>3, <2>1, StreamStays DEF ShowFullOverview
<1>4. CASE RenderQualityScore
  <2>1. CASE Unserved("quality")
    BY <1>1, <2>1
  <2>2. CASE ~Unserved("quality")
    <3>1. ~Answered(Streams)'
      <4>1. CASE answer' = [way |-> "quality", status |-> "needs full analysis"]
        BY <4>1 DEF Answered
      <4>2. CASE answer' = RefusedTo("quality")
        BY <4>2 DEF RefusedTo, Answered
      <4>3. ASSUME NEW r \in Loaded, answer' = Shows("quality", ScoreBody(r.assessment), r)
            PROVE  ~Answered(Streams)'
        BY <4>3 DEF Shows, Answered
      <4> QED
        BY <1>4, <2>2, <4>1, <4>2, <4>3 DEF RenderQualityScore
    <3>2. UNCHANGED <<inputVars, streamVars>>
      BY <1>4, <2>2 DEF RenderQualityScore
    <3> QED
      BY <3>1, <3>2, StreamStays
  <2> QED
    BY <2>1, <2>2
<1>5. CASE AssessCsv
  <2>1. ~Answered(Streams)'
    BY <1>5 DEF AssessCsv, RefusedTo, Answered
  <2> QED
    BY <1>5, <2>1, StreamStays DEF AssessCsv
<1>6. CASE ReadChunk
  <2>1. given' = given /\ csv' = csv /\ answer' = answer /\ ~streamed
    BY <1>6 DEF ReadChunk, inputVars, csv
  <2>2. AtChunk'
    BY <1>6, AtChunkStays DEF StreamInv
  <2>3. ASSUME NEW c \in ColumnsOf(csv) PROVE NullsAreCounted(c)' /\ TypeIsSeen(c)' /\ BoundsAreSeen(c)'
    <3>1. NullsAreCounted(c) /\ TypeIsSeen(c) /\ BoundsAreSeen(c) /\ given \in Inputs /\ AtChunk
      BY DEF StreamInv, AggregatesInv
    <3> QED
      BY <1>6, <3>1, AggregatesStay
  <2>4. AggregatesInv'
    BY <2>1, <2>3 DEF AggregatesInv
  <2>5. ~Answered(Streams) /\ ~Answered({"chunked"})
    BY <2>1 DEF StreamInv, StreamedAnswer, Answered
  <2>6. StreamedAnswer'
    BY <2>1, <2>5 DEF StreamedAnswer, Answered
  <2> QED
    BY <2>1, <2>2, <2>4, <2>6 DEF StreamInv
<1>7. CASE ProfileChunked
  <2>1. streamed' /\ answer'.profile = StreamedProfile' /\ answer'.way = "profile"
    BY <1>7 DEF ProfileChunked, streamVars, inputVars, StreamedProfile, csv
  <2>2. StreamedAnswer'
    BY <2>1 DEF StreamedAnswer, Answered
  <2> QED
    BY <1>7, <2>2, StreamStays DEF ProfileChunked
<1>8. CASE AssessChunked
  <2>1. CASE ConfigRefused
    <3>1. ~Answered(Streams)'
      BY <1>8, <2>1 DEF AssessChunked, RefusedTo, Answered
    <3> QED
      BY <1>8, <3>1, StreamStays DEF AssessChunked
  <2>2. CASE ~ConfigRefused
    <3>1. streamed' /\ StreamedProfile' = StreamedProfile /\ rules' = rules
      BY <1>8 DEF AssessChunked, streamVars, inputVars, StreamedProfile, csv
    <3>2. /\ answer'.profile = StreamedProfile
          /\ answer'.assessment.score = Assess(StreamedProfile, rules, {}).score
          /\ answer'.assessment.issues = Assess(StreamedProfile, rules, {}).issues
      BY <1>8, <2>2 DEF AssessChunked
    <3>3. StreamedAnswer'
      BY <3>1, <3>2 DEF StreamedAnswer
    <3> QED
      BY <1>8, <3>3, StreamStays DEF AssessChunked
  <2> QED
    BY <2>1, <2>2
<1>9. CASE EditRules
  <2>1. ~Answered(Streams)'
    BY <1>9 DEF EditRules, Unasked, Answered
  <2> QED
    BY <1>9, <2>1, StreamStays DEF EditRules
<1>10. CASE UNCHANGED assessmentVars
  BY <1>10, StreamStays DEF assessmentVars
<1> QED
  BY <1>1, <1>2, <1>3, <1>4, <1>5, <1>6, <1>7, <1>8, <1>9, <1>10 DEF AssessmentNext, RenderDataOverview

LEMMA StreamedIsPart == StreamInv => ChunkedIsPartOfFull
<1> SUFFICES ASSUME StreamInv PROVE ChunkedIsPartOfFull
  OBVIOUS
<1> DEFINE whole == Assess(WholeProfile, rules, {csv})
           plain == Assess(StreamedProfile, rules, {})
           supported == {i \in whole.issues : i.type \notin UnsupportedRules}
<1>1. ASSUME Answered({"large", "profile", "chunked"})
      PROVE  /\ answer.profile.rows = WholeProfile.rows
             /\ \A c \in ColumnsOf(csv) : BoundsAreOfFile(c) /\ SameColumn(c)
  <2>1. streamed /\ answer.profile = StreamedProfile /\ given \in Inputs /\ AtChunk /\ AggregatesInv
    BY <1>1 DEF StreamInv, StreamedAnswer
  <2>2. Alike(StreamedProfile, WholeProfile, MixedNames)
    BY <2>1, StreamedIsAlike
  <2>3. ASSUME NEW c \in ColumnsOf(csv) PROVE BoundsAreOfFile(c) /\ SameColumn(c)
    <3>1. StreamedColumn(c) /\ StreamedBounds(c)
      BY <2>1, ColumnIsStreamed
    <3>2. BoundsAreOfFile(c)
      BY <2>1, <3>1 DEF BoundsAreOfFile, StreamedBounds
    <3>3. WholeProfile.columns[c].nulls = Nulls(csv.cells[c]) /\ WholeProfile.columns[c].dtype = ReadDtype(csv.cells[c])
      BY DEF WholeProfile, RunProfiling, ProfileColumn
    <3>4. SameColumn(c)
      BY <2>1, <3>1, <3>3 DEF SameColumn, StreamedColumn
    <3> QED
      BY <3>2, <3>4
  <2> QED
    BY <2>1, <2>2, <2>3 DEF Alike
<1>2. ASSUME Answered({"chunked"})
      PROVE  /\ answer.assessment.score = whole.score
             /\ Comparable(answer.assessment.issues, MixedNames) = Comparable(supported, MixedNames)
  <2>1. /\ streamed /\ given \in Inputs /\ AtChunk /\ AggregatesInv
        /\ answer.assessment.score = plain.score /\ answer.assessment.issues = plain.issues
    BY <1>2 DEF StreamInv, StreamedAnswer, Answered
  <2>2. Alike(StreamedProfile, WholeProfile, MixedNames) /\ Alike(WholeProfile, StreamedProfile, MixedNames)
    BY <2>1, StreamedIsAlike, AlikeIsSymmetric
  <2>3. plain.score = whole.score
    <3>1. plain.score = ComputeScore(StreamedProfile, rules) /\ whole.score = ComputeScore(WholeProfile, rules)
      BY HowItIsScored
    <3> QED
      BY <2>2, <3>1, AlikeScores
  <2> DEFINE S == SupportedIssues(StreamedProfile, rules)
             W == SupportedIssues(WholeProfile, rules)
             N == NamesOf(WholeProfile, rules)
  <2>4. plain.issues = S
    <3>1. ConstantColumns(StreamedProfile) = {}
      <4>1. ASSUME NEW col \in ColumnSet(StreamedProfile) PROVE col.unique = {}
        <5>1. PICK c \in ColumnsOf(csv) : col = StreamedProfile.columns[c]
          BY DEF ColumnSet, StreamedProfile, FinalizeProfile
        <5> QED
          BY <2>1, <5>1, ColumnIsStreamed DEF StreamedColumn
      <4> QED
        BY <4>1 DEF ConstantColumns
    <3>2. plain.issues = PlainIssues(StreamedProfile, rules)
      BY WhatIsAssessed
    <3> QED
      BY <3>1, <3>2, PlainIssuesArePlain
  <2>5. supported = W
    <3>1. whole.issues = W \cup ConstantColumns(WholeProfile) \cup AdvancedIssues(csv, WholeProfile, rules)
      BY WhatIsAssessed, PlainIssuesArePlain
    <3>2. \A c \in ColumnsOf(csv) : csv.names[c] \in N
      BY DEF NamesOf, WholeProfile, RunProfiling, ProfileColumn
    <3>3. /\ W \subseteq IssuesOf(SupportedTypes, N)
          /\ ConstantColumns(WholeProfile) \subseteq IssuesOf({"constant_column"}, N)
          /\ AdvancedIssues(csv, WholeProfile, rules) \subseteq IssuesOf(FrameRules, N)
      BY <3>2, SupportedIssuesAreSupported, PlainIssuesArePlain, AdvancedIssuesAreOfFrame
    <3>4. /\ \A i \in W : i.type \notin UnsupportedRules
          /\ \A i \in ConstantColumns(WholeProfile) : i.type \in UnsupportedRules
          /\ \A i \in AdvancedIssues(csv, WholeProfile, rules) : i.type \in UnsupportedRules
      BY <3>3 DEF IssuesOf, SupportedTypes, UnsupportedRules, FrameRules
    <3> HIDE DEF W, whole, N
    <3> QED
      BY <3>1, <3>4
  <2>6. Comparable(S, MixedNames) = Comparable(W, MixedNames)
    <3>1. Comparable(S, MixedNames) \subseteq W /\ Comparable(W, MixedNames) \subseteq S
      BY <2>2, AlikeIssues
    <3> HIDE DEF S, W
    <3> QED
      BY <3>1 DEF Comparable
  <2> HIDE DEF S, W, plain, whole, supported
  <2> QED
    BY <2>1, <2>3, <2>4, <2>5, <2>6
<1>3. Comparable(supported, MixedNames)
        = {i \in whole.issues : i.type \notin UnsupportedRules /\ (i.type /= "dtype_mismatch" \/ i.column \notin MixedNames)}
  BY DEF Comparable
<1> HIDE DEF whole, supported
<1> QED
  BY <1>1, <1>2, <1>3 DEF ChunkedIsPartOfFull, Comparable, MixedNames, whole

\* Wherever the chunks of a file are cut, its streamed profile and assessment are the
\* part of the full ones that they claim to be: the same rows, missing cells, types,
\* bounds and completeness, and the same issues of the rules that are supported
\* (run_chunked_profiling, chunked_aggregators, assess, _CHUNKED_UNSUPPORTED_RULES).
THEOREM ChunksArePartOfFull == AssessmentSpec => []ChunkedIsPartOfFull
<1>1. AssessmentInit => StreamInv
  BY StreamInitInv
<1>2. StreamInv /\ [AssessmentNext]_assessmentVars => StreamInv'
  BY StreamNextInv
<1>3. StreamInv => ChunkedIsPartOfFull
  BY StreamedIsPart
<1> QED
  BY <1>1, <1>2, <1>3, PTL DEF AssessmentSpec

-----------------------------------------------------------------------------
(***************************************************************************)
(* Sets in order                                                           *)
(***************************************************************************)

TotalOrder(S, order) ==
    /\ \A x \in S : <<x, x>> \in order
    /\ \A x, y \in S : <<x, y>> \in order \/ <<y, x>> \in order
    /\ \A x, y \in S : <<x, y>> \in order /\ <<y, x>> \in order => x = y
    /\ \A x, y, z \in S : <<x, y>> \in order /\ <<y, z>> \in order => <<x, z>> \in order

UpTo(S, order, x) == {y \in S : <<y, x>> \in order}

\* Every element has a place of its own, and every place an element.
LEMMA PlacesInOrder ==
    ASSUME NEW S, IsFiniteSet(S), NEW order, TotalOrder(S, order)
    PROVE  /\ Cardinality(S) \in Nat /\ DOMAIN InOrder(S, order) = 1 .. Cardinality(S)
           /\ \A x \in S : /\ Cardinality(UpTo(S, order, x)) \in 1 .. Cardinality(S)
                           /\ InOrder(S, order)[Cardinality(UpTo(S, order, x))] = x
           /\ \A r \in 1 .. Cardinality(S) :
                /\ InOrder(S, order)[r] \in S
                /\ Cardinality(UpTo(S, order, InOrder(S, order)[r])) = r
<1> DEFINE n == Cardinality(S)
           place == [x \in S |-> Cardinality(UpTo(S, order, x))]
<1>1. n \in Nat
  BY FS_CardinalityType
<1>2. ASSUME NEW x \in S
      PROVE  IsFiniteSet(UpTo(S, order, x)) /\ place[x] \in 1 .. n
  <2>1. UpTo(S, order, x) \in SUBSET S /\ x \in UpTo(S, order, x)
    BY DEF UpTo, TotalOrder
  <2>2. IsFiniteSet(UpTo(S, order, x)) /\ place[x] <= n /\ place[x] \in Nat
    BY <2>1, FS_Subset, FS_CardinalityType
  <2>3. place[x] # 0
    BY <2>1, <2>2, FS_EmptySet
  <2> HIDE DEF place
  <2> QED
    BY <1>1, <2>2, <2>3
<1>3. ASSUME NEW x \in S, NEW y \in S, <<x, y>> \in order, place[x] = place[y] PROVE x = y
  <2>1. UpTo(S, order, x) \in SUBSET UpTo(S, order, y) /\ y \in UpTo(S, order, y)
    BY <1>3 DEF UpTo, TotalOrder
  <2>2. UpTo(S, order, x) = UpTo(S, order, y)
    BY <1>2, <1>3, <2>1, FS_Subset
  <2>3. <<y, x>> \in order
    BY <2>1, <2>2 DEF UpTo
  <2> QED
    BY <1>3, <2>3 DEF TotalOrder
<1>4. \A x, y \in S : place[x] = place[y] => x = y
  <2> HIDE DEF place
  <2> QED
    BY <1>3 DEF TotalOrder
<1>5. ASSUME NEW r \in 1 .. n PROVE \E x \in S : place[x] = r
  <2> SUFFICES ASSUME \A x \in S : place[x] # r PROVE FALSE
    OBVIOUS
  <2> DEFINE R == (1 .. n) \ {r}
  <2>1. IsFiniteSet(1 .. n) /\ Cardinality(1 .. n) = n
    BY <1>1, FS_Interval
  <2>2. IsFiniteSet(R) /\ Cardinality(R) = n - 1
    BY <2>1, FS_RemoveElement
  <2> HIDE DEF n
  <2>3. \A x \in S : place[x] \in R
    BY <1>2
  <2>4. place \in Injection(S, R)
    <3>1. place \in [S -> R]
      BY <2>3
    <3>2. DOMAIN place = S
      OBVIOUS
    <3> HIDE DEF place, R
    <3> QED
      BY <1>4, <3>1, <3>2 DEF Injection, IsInjective
  <2>5. Cardinality(S) <= Cardinality(R)
    <3> HIDE DEF place, R
    <3> QED
      BY <2>2, <2>4, FS_Injection
  <2> QED
    BY <1>1, <2>2, <2>5 DEF n
<1>6. DOMAIN InOrder(S, order) = 1 .. n
  BY DEF InOrder
<1>7. ASSUME NEW r \in 1 .. n, NEW x \in S, place[x] = r PROVE InOrder(S, order)[r] = x
  <2>1. InOrder(S, order)[r] = CHOOSE y \in S : Cardinality(UpTo(S, order, y)) = r
    BY DEF InOrder, UpTo
  <2>2. Cardinality(UpTo(S, order, x)) = r /\ \A y \in S : Cardinality(UpTo(S, order, y)) = r => y = x
    BY <1>4, <1>7
  <2> QED
    BY <2>1, <2>2
<1>8. ASSUME NEW x \in S PROVE InOrder(S, order)[place[x]] = x
  BY <1>2, <1>7
<1>9. ASSUME NEW r \in 1 .. n PROVE InOrder(S, order)[r] \in S /\ place[InOrder(S, order)[r]] = r
  <2>1. PICK x \in S : place[x] = r
    BY <1>5
  <2>2. InOrder(S, order)[r] = x
    BY <1>7, <2>1
  <2> QED
    BY <2>1, <2>2
<1> QED
  BY <1>1, <1>2, <1>6, <1>8, <1>9

\* Numbers in their order.
LEMMA NumbersInOrder ==
    ASSUME NEW S, Numbers(S), NEW order, order = {p \in S \X S : p[1] <= p[2]}
    PROVE  TotalOrder(S, order)
BY DEF TotalOrder, Numbers

\* The first of what was built position by position.
LEMMA FirstOfBuilt ==
    ASSUME NEW n, NEW m, n \in Nat, m \in Nat, NEW f, f = [i \in 1 .. m |-> f[i]],
           NEW g, g = FirstOf(n, f)
    PROVE  /\ Len(f) = m /\ Len(g) = IF n < m THEN n ELSE m
           /\ DOMAIN g = 1 .. Len(g) /\ Len(g) \in Nat /\ Len(g) <= n /\ Len(g) <= m
           /\ \A i \in 1 .. Len(g) : g[i] = f[i]
           /\ m <= n => Len(g) = m
<1> DEFINE k == IF n < m THEN n ELSE m
           S == {f[i] : i \in 1 .. m}
<1>1. Len(f) = m
  BY LengthOfBuilt
<1>2. k \in Nat /\ k <= m /\ k <= n /\ (m <= n => k = m)
  OBVIOUS
<1>3. g = SubSeq(f, 1, k)
  BY <1>1 DEF FirstOf
<1>4. \A i \in 1 .. k : f[i] \in S
  BY <1>2
<1> HIDE DEF k, S
<1>5. /\ g \in Seq(S) /\ Len(g) = IF 1 <= k THEN k - 1 + 1 ELSE 0
      /\ \A i \in 1 .. k - 1 + 1 : g[i] = f[1 + i - 1]
  <2>1. 1 \in Int /\ k \in Int
    BY <1>2
  <2>2. /\ SubSeq(f, 1, k) \in Seq(S)
        /\ Len(SubSeq(f, 1, k)) = IF 1 <= k THEN k - 1 + 1 ELSE 0
        /\ \A i \in 1 .. k - 1 + 1 : SubSeq(f, 1, k)[i] = f[1 + i - 1]
    BY <1>4, <2>1, SubSeqProperties
  <2> QED
    BY <1>3, <2>2
<1>6. Len(g) = k
  BY <1>2, <1>5
<1>7. DOMAIN g = 1 .. k
  BY <1>5, <1>6, LenProperties
<1>8. \A i \in 1 .. k : g[i] = f[i]
  <2>1. k - 1 + 1 = k /\ \A i \in Int : 1 + i - 1 = i
    BY <1>2
  <2> QED
    BY <1>5, <2>1
<1>9. k = IF n < m THEN n ELSE m
  BY DEF k
<1>10. /\ Len(g) = IF n < m THEN n ELSE m
       /\ (m <= n => Len(g) = m)
  BY <1>6, <1>9
<1>11. DOMAIN g = 1 .. Len(g) /\ Len(g) \in Nat /\ Len(g) <= n /\ Len(g) <= m
  BY <1>2, <1>6, <1>7
<1>12. \A i \in 1 .. Len(g) : g[i] = f[i]
  BY <1>6, <1>8
<1> QED
  BY <1>1, <1>10, <1>11, <1>12

-----------------------------------------------------------------------------
(***************************************************************************)
(* Callouts                                                                *)
(***************************************************************************)

\* At most one callout of a key, and five that may ask for attention.
Keyed(callouts) ==
    /\ \A c \in callouts : \E i \in DOMAIN CalloutOrder : c.key = CalloutOrder[i]
    /\ \A c, d \in callouts : c.key = d.key => c = d
    /\ \A c \in callouts :
         c.severity = "attention" =>
             c.key \in {"no_columns", "empty_dataset", "duplicate_rows", "high_missingness", "near_empty_columns"}

\* Ranking loses no callout that asks for attention, and none at all while there is room.
LEMMA WhatIsRanked ==
    ASSUME NEW callouts, Keyed(callouts), NEW ranked, ranked = RankCallouts(callouts)
    PROVE  /\ ToSet(ranked) \subseteq callouts
           /\ \A c \in callouts : c.severity = "attention" => c \in ToSet(ranked)
           /\ Len(ranked) < MaxCallouts => ToSet(ranked) = callouts
<1> DEFINE D == DOMAIN CalloutOrder
           indexes == {i \in D : \E c \in callouts : c.key = CalloutOrder[i]}
           CalloutAt(i) == CHOOSE c \in callouts : c.key = CalloutOrder[i]
           Grave(i) == CalloutAt(i).severity = "attention"
           order == {p \in indexes \X indexes : \/ Grave(p[1]) /\ ~Grave(p[2])
                                                \/ (Grave(p[1]) <=> Grave(p[2])) /\ p[1] <= p[2]}
           places == InOrder(indexes, order)
           n == Cardinality(indexes)
           all == [r \in DOMAIN places |-> CalloutAt(places[r])]
<1>1. D = 1 .. 11
  BY DEF CalloutOrder
<1>2. IsFiniteSet(indexes) /\ indexes \subseteq Int
  <2>1. \A m \in Nat : IsFiniteSet(1 .. m)
    BY FS_Interval
  <2>3. IsFiniteSet(1 .. 11)
    <3>1. 11 \in Nat
      OBVIOUS
    <3> QED
      BY ONLY <3>1, <2>1, Zenon
  <2>4. indexes \in SUBSET D
    OBVIOUS
  <2> HIDE DEF indexes, D
  <2>2. IsFiniteSet(D) /\ indexes \in SUBSET D
    BY <1>1, <2>3, <2>4
  <2>5. IsFiniteSet(indexes)
    BY <2>2, FS_Subset
  <2>6. 1 .. 11 \subseteq Int
    OBVIOUS
  <2>7. indexes \subseteq Int
    BY <1>1, <2>2, <2>6
  <2> QED
    BY <2>5, <2>7
<1>3. ASSUME NEW i \in indexes PROVE CalloutAt(i) \in callouts /\ CalloutAt(i).key = CalloutOrder[i]
  OBVIOUS
<1>4. ASSUME NEW c \in callouts PROVE \E i \in indexes : CalloutAt(i) = c
  <2>1. PICK i \in D : c.key = CalloutOrder[i]
    BY DEF Keyed
  <2>2. i \in indexes
    BY <2>1
  <2> HIDE DEF indexes, CalloutAt
  <2> QED
    BY <1>3, <2>1, <2>2 DEF Keyed
<1> HIDE DEF indexes, CalloutAt
<1>5. TotalOrder(indexes, order)
  BY <1>2 DEF TotalOrder
<1>6. ASSUME NEW i \in indexes, Grave(i), NEW j \in indexes, <<j, i>> \in order PROVE Grave(j)
  BY <1>6
<1>7. ASSUME NEW i \in indexes, Grave(i) PROVE i \in {1, 2, 4, 5, 6}
  <2>1. CalloutAt(i).key \in {"no_columns", "empty_dataset", "duplicate_rows", "high_missingness", "near_empty_columns"}
    BY <1>3, <1>7 DEF Keyed
  <2>2. CalloutOrder[i] \in {"no_columns", "empty_dataset", "duplicate_rows", "high_missingness", "near_empty_columns"}
        /\ i \in 1 .. 11
    BY <1>1, <1>3, <2>1 DEF indexes
  <2> QED
    BY <2>2 DEF CalloutOrder
<1> HIDE DEF order, Grave
<1>8. /\ n \in Nat /\ DOMAIN places = 1 .. n
      /\ \A i \in indexes : /\ Cardinality(UpTo(indexes, order, i)) \in 1 .. n
                          /\ places[Cardinality(UpTo(indexes, order, i))] = i
      /\ \A r \in 1 .. n : places[r] \in indexes
  BY <1>2, <1>5, PlacesInOrder
<1> HIDE DEF places, n
<1>9. ranked = FirstOf(MaxCallouts, all)
  BY DEF RankCallouts, places, order, indexes, Grave, CalloutAt
<1>10. MaxCallouts \in Nat /\ 5 <= MaxCallouts
  BY OverviewAssumption DEF OverviewAssumption
<1>11. /\ DOMAIN ranked = 1 .. Len(ranked) /\ Len(ranked) \in Nat /\ Len(ranked) <= n
       /\ Len(ranked) = (IF MaxCallouts < n THEN MaxCallouts ELSE n)
       /\ \A r \in 1 .. Len(ranked) : ranked[r] = all[r]
  <2>1. all = [r \in 1 .. n |-> all[r]]
    BY <1>8
  <2> HIDE DEF all
  <2> QED
    BY <1>8, <1>9, <1>10, <2>1, FirstOfBuilt
<1>12. \A r \in 1 .. n : all[r] \in callouts
  BY <1>3, <1>8
<1>13. ToSet(ranked) \subseteq callouts
  <2>1. ASSUME NEW r \in DOMAIN ranked PROVE ranked[r] \in callouts
    <3> HIDE DEF all
    <3>2. r \in 1 .. Len(ranked)
      BY <1>11
    <3>1. r \in 1 .. n /\ ranked[r] = all[r]
      BY <1>8, <1>11, <3>2
    <3> QED
      BY <1>12, <3>1
  <2> QED
    BY <2>1 DEF ToSet
<1>14. ASSUME NEW i \in indexes, Cardinality(UpTo(indexes, order, i)) <= Len(ranked) PROVE CalloutAt(i) \in ToSet(ranked)
  <2> DEFINE r == Cardinality(UpTo(indexes, order, i))
  <2>1. r \in 1 .. n /\ places[r] = i /\ all[r] = CalloutAt(i)
    BY <1>8
  <2> HIDE DEF r, all
  <2>2. r \in DOMAIN ranked /\ ranked[r] = all[r]
    BY <1>8, <1>11, <1>14, <2>1 DEF r
  <2> QED
    BY <2>1, <2>2 DEF ToSet
<1>15. ASSUME NEW i \in indexes, Grave(i) PROVE CalloutAt(i) \in ToSet(ranked)
  <2>1. UpTo(indexes, order, i) \subseteq {1, 2, 4, 5, 6}
    BY <1>6, <1>7, <1>15 DEF UpTo
  <2>2. IsFiniteSet((1 .. 6) \ {3}) /\ Cardinality((1 .. 6) \ {3}) = 5
    <3>1. \A m \in Nat : IsFiniteSet(1 .. m) /\ Cardinality(1 .. m) = m
      BY FS_Interval
    <3>3. 6 \in Nat /\ 3 \in 1 .. 6
      OBVIOUS
    <3>2. IsFiniteSet(1 .. 6) /\ Cardinality(1 .. 6) = 6
      BY ONLY <3>1, <3>3, Zenon
    <3> QED
      BY <3>2, <3>3, FS_RemoveElement
  <2>3. UpTo(indexes, order, i) \in SUBSET ((1 .. 6) \ {3})
    BY <2>1
  <2>4. Cardinality(UpTo(indexes, order, i)) <= 5
    BY <2>2, <2>3, FS_Subset
  <2>5. Cardinality(UpTo(indexes, order, i)) \in 1 .. n
    BY <1>8
  <2> QED
    BY <1>8, <1>10, <1>11, <1>14, <2>4, <2>5
<1>16. \A c \in callouts : c.severity = "attention" => c \in ToSet(ranked)
  BY <1>4, <1>15 DEF Grave
<1>17. ASSUME Len(ranked) < MaxCallouts PROVE callouts \subseteq ToSet(ranked)
  <2>1. Len(ranked) = n
    BY <1>8, <1>10, <1>11, <1>17
  <2>2. ASSUME NEW c \in callouts PROVE c \in ToSet(ranked)
    <3>1. PICK i \in indexes : CalloutAt(i) = c
      BY <1>4
    <3>2. Cardinality(UpTo(indexes, order, i)) \in 1 .. n
      BY <1>8
    <3> QED
      BY <1>8, <1>14, <2>1, <3>1, <3>2
  <2> QED
    BY <2>2
<1> QED
  BY <1>13, <1>16, <1>17

\* The callouts before they are ranked.
BuiltCallouts(n, facts, signals, duplicates, zeroHeavy, sample) ==
    ShapeCallouts(n, Len(facts), sample) \cup DuplicateCallout(duplicates, sample)
    \cup MissingnessCallouts(facts, n, sample) \cup RoleCallouts(signals) \cup NumericCallouts(zeroHeavy)

NearEmpty(facts, n) == {facts[c].name : c \in {d \in DOMAIN facts : AtLeastPct(facts[d].missing, n, 95)}}

Constants(facts) == {facts[c].name : c \in {d \in DOMAIN facts : facts[d].distinct = {1} /\ facts[d].nonNull > 0}}

\* What a callout may be, key by key.
IsCallout(c, nearEmpty, constant, sample) ==
    /\ sample = TRUE => c.evidence # "fact"
    /\ \/ c.key \in {"no_columns", "empty_dataset", "duplicate_rows", "high_missingness"}
       \/ c.key \in {"wide_dataset", "likely_identifiers", "datetime_text", "high_cardinality_text",
                     "zero_heavy_numeric"} /\ c.severity = "note"
       \/ c.key = "near_empty_columns" /\ c.names = nearEmpty /\ c.severity = "attention"
       \/ c.key = "constant_columns" /\ c.names = constant /\ c.severity = "note"

LEMMA WhatIsBuilt ==
    ASSUME NEW n, NEW facts, NEW signals, NEW duplicates, NEW zeroHeavy, NEW sample,
           NEW callouts, callouts = BuiltCallouts(n, facts, signals, duplicates, zeroHeavy, sample)
    PROVE  /\ Keyed(callouts)
           /\ \A c \in callouts : IsCallout(c, NearEmpty(facts, n), Constants(facts), sample)
           /\ NearEmpty(facts, n) # {} => \E c \in callouts : c.key = "near_empty_columns"
           /\ Constants(facts) # {} => \E c \in callouts : c.key = "constant_columns"
<1> DEFINE fact == Evidence("fact", sample)
           nearEmpty == NearEmpty(facts, n)
           constant == Constants(facts)
<1>1. PICK ids, dates, many :
        RoleCallouts(signals) \subseteq {Callout("likely_identifiers", "note", "heuristic", ids),
                                         Callout("datetime_text", "note", "heuristic", dates),
                                         Callout("high_cardinality_text", "note", "heuristic", many)}
  <2> DEFINE onPage == ToSet(signals)
             ids == {s.name : s \in {t \in onPage : t.role = "identifier"}}
             dates == {s.name : s \in {t \in onPage : t.role = "datetime" /\ t.evidence = "heuristic"}}
             many == {s.name : s \in {t \in onPage : /\ t.kind = "text" /\ t.role = "other"
                                                   /\ \E d \in t.distinct : d > CategoryValues}}
  <2>1. RoleCallouts(signals)
          = When(ids # {}, Callout("likely_identifiers", "note", "heuristic", ids))
            \cup When(dates # {}, Callout("datetime_text", "note", "heuristic", dates))
            \cup When(many # {}, Callout("high_cardinality_text", "note", "heuristic", many))
    BY DEF RoleCallouts
  <2> HIDE DEF ids, dates, many
  <2> QED
    BY <2>1 DEF When
<1> DEFINE c1 == Callout("no_columns", "attention", fact, {})
           c2 == Callout("empty_dataset", "attention", fact, {})
           c3 == Callout("wide_dataset", "note", fact, {})
           c4 == Callout("duplicate_rows", "attention", fact, {})
           c5 == Callout("high_missingness", "attention", fact, {})
           c6 == Callout("near_empty_columns", "attention", fact, nearEmpty)
           c7 == Callout("constant_columns", "note", fact, constant)
           c8 == Callout("likely_identifiers", "note", "heuristic", ids)
           c9 == Callout("datetime_text", "note", "heuristic", dates)
           c10 == Callout("high_cardinality_text", "note", "heuristic", many)
           c11 == Callout("zero_heavy_numeric", "note", "sample", zeroHeavy)
<1>2. sample = TRUE => fact # "fact"
  BY DEF Evidence
<1>3. /\ c1.key = "no_columns" /\ c2.key = "empty_dataset" /\ c3.key = "wide_dataset"
      /\ c4.key = "duplicate_rows" /\ c5.key = "high_missingness" /\ c6.key = "near_empty_columns"
      /\ c7.key = "constant_columns" /\ c8.key = "likely_identifiers" /\ c9.key = "datetime_text"
      /\ c10.key = "high_cardinality_text" /\ c11.key = "zero_heavy_numeric"
  BY DEF Callout
<1>4. /\ c3.severity = "note" /\ c6.severity = "attention" /\ c7.severity = "note" /\ c8.severity = "note"
      /\ c9.severity = "note" /\ c10.severity = "note" /\ c11.severity = "note"
  BY DEF Callout
<1>5. /\ c1.evidence = fact /\ c2.evidence = fact /\ c3.evidence = fact /\ c4.evidence = fact
      /\ c5.evidence = fact /\ c6.evidence = fact /\ c7.evidence = fact
      /\ c8.evidence = "heuristic" /\ c9.evidence = "heuristic" /\ c10.evidence = "heuristic"
      /\ c11.evidence = "sample"
  BY DEF Callout
<1>6. c6.names = nearEmpty /\ c7.names = constant
  BY DEF Callout
<1>7. ShapeCallouts(n, Len(facts), sample) \subseteq {c1, c2, c3}
  BY DEF ShapeCallouts, When
<1>8. DuplicateCallout(duplicates, sample) \subseteq {c4}
  BY DEF DuplicateCallout, When
<1>9. MissingnessCallouts(facts, n, sample)
        = When(AtLeastPct(SumFunction([c \in DOMAIN facts |-> facts[c].missing]), n * Len(facts), 20), c5)
          \cup When(nearEmpty # {}, c6) \cup When(constant # {}, c7)
  BY DEF MissingnessCallouts, NearEmpty, Constants
<1>10. NumericCallouts(zeroHeavy) \subseteq {c11}
  BY DEF NumericCallouts, When
<1> HIDE DEF c1, c2, c3, c4, c5, c6, c7, c8, c9, c10, c11, nearEmpty, constant, fact
<1>11. RoleCallouts(signals) \subseteq {c8, c9, c10}
  BY <1>1 DEF c8, c9, c10
<1>12. /\ MissingnessCallouts(facts, n, sample) \subseteq {c5, c6, c7}
       /\ nearEmpty # {} => c6 \in MissingnessCallouts(facts, n, sample)
       /\ constant # {} => c7 \in MissingnessCallouts(facts, n, sample)
  BY <1>9 DEF When
<1>13. callouts \subseteq {c1, c2, c3, c4, c5, c6, c7, c8, c9, c10, c11}
  BY <1>7, <1>8, <1>10, <1>11, <1>12 DEF BuiltCallouts
<1>14. /\ nearEmpty # {} => c6 \in callouts
       /\ constant # {} => c7 \in callouts
  BY <1>12 DEF BuiltCallouts
<1>15. \A c \in callouts : IsCallout(c, nearEmpty, constant, sample)
  BY <1>2, <1>3, <1>4, <1>5, <1>6, <1>13 DEF IsCallout
<1>16. \A c, d \in callouts : c.key = d.key => c = d
  BY <1>3, <1>13
<1>17. \A c \in callouts : c.severity = "attention" =>
         c.key \in {"no_columns", "empty_dataset", "duplicate_rows", "high_missingness", "near_empty_columns"}
  BY <1>3, <1>4, <1>13
<1>18. ASSUME NEW c \in callouts PROVE \E i \in DOMAIN CalloutOrder : c.key = CalloutOrder[i]
  <2>1. DOMAIN CalloutOrder = 1 .. 11
    BY DEF CalloutOrder
  <2>2. /\ CalloutOrder[1] = "no_columns" /\ CalloutOrder[2] = "empty_dataset" /\ CalloutOrder[3] = "wide_dataset"
        /\ CalloutOrder[4] = "duplicate_rows" /\ CalloutOrder[5] = "high_missingness"
        /\ CalloutOrder[6] = "near_empty_columns" /\ CalloutOrder[7] = "constant_columns"
        /\ CalloutOrder[8] = "likely_identifiers" /\ CalloutOrder[9] = "datetime_text"
        /\ CalloutOrder[10] = "high_cardinality_text" /\ CalloutOrder[11] = "zero_heavy_numeric"
    BY DEF CalloutOrder
  <2> QED
    BY <1>3, <1>13, <2>1, <2>2
<1> QED
  BY <1>3, <1>14, <1>15, <1>16, <1>17, <1>18 DEF Keyed, nearEmpty, constant

\* A callout of a sample is no fact.
OnEvidence(callouts, sample) == sample = TRUE => \A c \in callouts : c.evidence # "fact"

\* The callouts of an overview: what it calls out, and on which evidence.
LEMMA WhatIsCalledOut ==
    ASSUME NEW identity, NEW profile, NEW frames, NEW sample,
           NEW overview, overview = BuildSmartOverview(identity, profile, frames, sample),
           NEW facts, facts = FactsFromProfile(profile)
    PROVE  /\ OnEvidence(ToSet(overview.callouts), sample)
           /\ NearEmpty(facts, profile.rows) \subseteq Named(overview, "near_empty_columns")
           /\ Len(overview.callouts) < MaxCallouts => Constants(facts) = Named(overview, "constant_columns")
<1>1. PICK callouts, signals, duplicates, zeroHeavy :
        /\ callouts = BuiltCallouts(profile.rows, facts, signals, duplicates, zeroHeavy, sample)
        /\ overview.callouts = RankCallouts(callouts)
  <2> DEFINE dates == UNION {DatetimeTextColumns(f, facts) : f \in frames}
             zeroHeavy == UNION {ZeroHeavyColumns(f, facts) : f \in frames}
             duplicates == SumFunction([f \in frames |-> DuplicateRows(f)])
             signals == Signals(facts, dates, sample)
             callouts == BuiltCallouts(profile.rows, facts, signals, duplicates, zeroHeavy, sample)
  <2>1. overview.callouts = RankCallouts(callouts)
    BY DEF BuildSmartOverview, BuiltCallouts
  <2> HIDE DEF dates, zeroHeavy, duplicates, signals
  <2> QED
    BY <2>1
<1> DEFINE nearEmpty == NearEmpty(facts, profile.rows)
           constant == Constants(facts)
           ranked == overview.callouts
<1>2. /\ Keyed(callouts)
      /\ \A c \in callouts : IsCallout(c, nearEmpty, constant, sample)
      /\ nearEmpty # {} => \E c \in callouts : c.key = "near_empty_columns"
      /\ constant # {} => \E c \in callouts : c.key = "constant_columns"
  BY <1>1, WhatIsBuilt
<1>3. /\ ToSet(ranked) \subseteq callouts
      /\ \A c \in callouts : c.severity = "attention" => c \in ToSet(ranked)
      /\ Len(ranked) < MaxCallouts => ToSet(ranked) = callouts
  BY <1>1, <1>2, WhatIsRanked
<1> HIDE DEF nearEmpty, constant, ranked
<1>4. ASSUME sample = TRUE, NEW c \in ToSet(ranked) PROVE c.evidence # "fact"
  BY <1>2, <1>3, <1>4 DEF IsCallout
<1>5. ASSUME NEW x \in nearEmpty PROVE x \in Named(overview, "near_empty_columns")
  <2>1. PICK c \in callouts : c.key = "near_empty_columns"
    BY <1>2, <1>5
  <2>2. IsCallout(c, nearEmpty, constant, sample)
    BY <1>2
  <2>3. c.names = nearEmpty /\ c.severity = "attention"
    BY <2>1, <2>2 DEF IsCallout
  <2>4. c \in ToSet(overview.callouts)
    BY <1>3, <2>3 DEF ranked
  <2> QED
    BY <1>5, <2>1, <2>3, <2>4 DEF Named
<1>6. ASSUME Len(ranked) < MaxCallouts PROVE constant = Named(overview, "constant_columns")
  <2>1. ToSet(overview.callouts) = callouts
    BY <1>3, <1>6 DEF ranked
  <2>2. \A c \in callouts : c.key = "constant_columns" => c.names = constant
    BY <1>2 DEF IsCallout
  <2>3. Named(overview, "constant_columns") \subseteq constant
    BY <2>1, <2>2 DEF Named
  <2>4. ASSUME NEW x \in constant PROVE x \in Named(overview, "constant_columns")
    <3>1. PICK c \in callouts : c.key = "constant_columns"
      BY <1>2, <2>4
    <3>2. c.names = constant
      BY <2>2, <3>1
    <3> QED
      BY <2>1, <2>4, <3>1, <3>2 DEF Named
  <2> QED
    BY <2>3, <2>4
<1> QED
  BY <1>4, <1>5, <1>6 DEF nearEmpty, constant, ranked, OnEvidence

-----------------------------------------------------------------------------
(***************************************************************************)
(* Records                                                                 *)
(***************************************************************************)

LEMMA InOrderIsBuilt ==
    ASSUME NEW S, NEW order
    PROVE  InOrder(S, order) = [r \in 1 .. Cardinality(S) |-> InOrder(S, order)[r]]
<1> DEFINE n == Cardinality(S)
           at(r) == CHOOSE x \in S : Cardinality({y \in S : <<y, x>> \in order}) = r
<1>1. InOrder(S, order) = [r \in 1 .. n |-> at(r)]
  BY DEF InOrder
<1> HIDE DEF n, at
<1>2. InOrder(S, order) = [r \in 1 .. n |-> InOrder(S, order)[r]]
  BY <1>1
<1> QED
  BY <1>2 DEF n

\* The first in order comes before every other.
LEMMA FirstInOrder ==
    ASSUME NEW S, IsFiniteSet(S), S # {}, NEW order, TotalOrder(S, order), NEW x, x = InOrder(S, order)[1]
    PROVE  1 \in 1 .. Cardinality(S) /\ x \in S /\ \A y \in S : <<x, y>> \in order
<1>1. Cardinality(S) \in Nat /\ Cardinality(S) # 0
  BY FS_CardinalityType, FS_EmptySet
<1>2. 1 \in 1 .. Cardinality(S)
  BY <1>1
<1>3. \A r \in 1 .. Cardinality(S) : /\ InOrder(S, order)[r] \in S
                                     /\ Cardinality(UpTo(S, order, InOrder(S, order)[r])) = r
  BY PlacesInOrder
<1>4. x \in S /\ Cardinality(UpTo(S, order, x)) = 1
  BY <1>2, <1>3
<1>5. UpTo(S, order, x) \in SUBSET S /\ {x} \in SUBSET UpTo(S, order, x)
  BY <1>4 DEF UpTo, TotalOrder
<1>6. IsFiniteSet(UpTo(S, order, x))
  BY <1>5, FS_Subset
<1>7. Cardinality({x}) = 1
  BY FS_Singleton
<1>8. UpTo(S, order, x) = {x}
  BY <1>4, <1>5, <1>6, <1>7, FS_Subset
<1>9. ASSUME NEW y \in S PROVE <<x, y>> \in order
  <2>1. <<y, x>> \in order => y = x
    BY <1>8 DEF UpTo
  <2>2. <<x, x>> \in order /\ (<<x, y>> \in order \/ <<y, x>> \in order)
    BY <1>4 DEF TotalOrder
  <2> QED
    BY <2>1, <2>2
<1> QED
  BY <1>2, <1>4, <1>9

LEMMA FieldsAreCounted ==
    ASSUME NEW sheet, NEW n, FrameOf(sheet, n), NEW i
    PROVE  MissingFields(sheet, i) \in Nat
<1>1. IsFiniteSet(ColumnsOf(sheet))
  BY ColumnsAreFinite
<1>2. {c \in ColumnsOf(sheet) : sheet.cells[c][i].k = "na"} \in SUBSET ColumnsOf(sheet)
  OBVIOUS
<1> QED
  BY <1>1, <1>2, FS_Subset, FS_CardinalityType DEF MissingFields

\* If a scanned row misses a field, the most missing rows lead with one that misses the most.
LEMMA MostMissingLead ==
    ASSUME NEW sheet, NEW n, FrameOf(sheet, n), NEW i, i \in 1 .. n, i <= ScanRows, MissingFields(sheet, i) > 0,
           NEW f, f = MostMissingPositions(sheet)
    PROVE  /\ Len(f) \in Nat /\ DOMAIN f = 1 .. Len(f) /\ 1 <= Len(f) /\ Len(f) <= PerStrategy
           /\ f[1] \in 1 .. n /\ f[1] <= ScanRows
           /\ \A j \in 1 .. n : j <= ScanRows => MissingFields(sheet, j) <= MissingFields(sheet, f[1])
<1> DEFINE scanned == {j \in 1 .. RowsOf(sheet) : j <= ScanRows /\ MissingFields(sheet, j) > 0}
           order == {p \in scanned \X scanned :
                       \/ MissingFields(sheet, p[1]) > MissingFields(sheet, p[2])
                       \/ MissingFields(sheet, p[1]) = MissingFields(sheet, p[2]) /\ p[1] <= p[2]}
           all == InOrder(scanned, order)
           m == Cardinality(scanned)
<1>0. ScanRows \in Nat /\ PerStrategy \in Nat /\ PerStrategy >= 1
  BY OverviewAssumption DEF OverviewAssumption
<1>1. RowsOf(sheet) = n /\ n \in Nat /\ ScanRows \in Nat /\ PerStrategy \in Nat /\ PerStrategy >= 1
  BY <1>0, ColumnsAreFinite DEF FrameOf
<1>2. \A j : MissingFields(sheet, j) \in Nat
  BY FieldsAreCounted
<1>3. scanned \in SUBSET (1 .. n) /\ i \in scanned
  <2>1. RowsOf(sheet) = n
    BY <1>1
  <2> QED
    BY <2>1
<1>4. IsFiniteSet(scanned)
  <2>1. IsFiniteSet(1 .. n)
    BY <1>1, FS_Interval
  <2> HIDE DEF scanned
  <2> QED
    BY <1>3, <2>1, FS_Subset
<1>5. TotalOrder(scanned, order)
  <2>1. scanned \subseteq Nat
    BY <1>1
  <2> HIDE DEF scanned
  <2> QED
    BY <1>2, <2>1 DEF TotalOrder
<1>6. f = FirstOf(PerStrategy, all)
  BY DEF MostMissingPositions
<1>7. \A x, y \in scanned : <<x, y>> \in order => MissingFields(sheet, y) <= MissingFields(sheet, x)
  <2> HIDE DEF scanned
  <2> QED
    BY <1>2
<1> HIDE DEF order
<1>8. m \in Nat /\ DOMAIN all = 1 .. m
  <2> HIDE DEF scanned
  <2> QED
    BY <1>4, <1>5, PlacesInOrder
<1>9. 1 \in 1 .. m /\ all[1] \in scanned /\ \A y \in scanned : <<all[1], y>> \in order
  <2>1. scanned # {}
    BY <1>3
  <2> HIDE DEF scanned
  <2> QED
    BY <1>4, <1>5, <2>1, FirstInOrder
<1>10. all = [r \in 1 .. m |-> all[r]]
  BY InOrderIsBuilt
<1> HIDE DEF all, m
<1>11. /\ Len(f) = (IF PerStrategy < m THEN PerStrategy ELSE m)
       /\ DOMAIN f = 1 .. Len(f) /\ Len(f) \in Nat /\ Len(f) <= PerStrategy
       /\ \A r \in 1 .. Len(f) : f[r] = all[r]
  BY <1>1, <1>6, <1>8, <1>10, FirstOfBuilt
<1>12. 1 <= Len(f)
  BY <1>1, <1>8, <1>9, <1>11
<1>13. f[1] = all[1]
  BY <1>11, <1>12
<1>14. f[1] \in 1 .. n /\ f[1] <= ScanRows
  BY <1>1, <1>9, <1>13
<1>15. ASSUME NEW j \in 1 .. n, j <= ScanRows PROVE MissingFields(sheet, j) <= MissingFields(sheet, f[1])
  <2>1. CASE MissingFields(sheet, j) > 0
    <3>1. j \in scanned
      BY <1>1, <1>15, <2>1
    <3> QED
      BY <1>7, <1>9, <1>13, <3>1
  <2>2. CASE ~(MissingFields(sheet, j) > 0)
    BY <1>2, <2>2
  <2> QED
    BY <2>1, <2>2
<1> QED
  BY <1>11, <1>12, <1>14, <1>15

\* No pick is lost to a limit: its row keeps the record of the first strategy that claims it.
LEMMA PicksAreRecorded ==
    ASSUME NEW m, m \in Nat, m <= RecordRows, NEW picks, DOMAIN picks = 1 .. m, NEW k, k \in 1 .. m
    PROVE  \E r \in DOMAIN DedupeRecords(picks) : DedupeRecords(picks)[r].position = picks[k].position
<1> DEFINE firsts == {i \in DOMAIN picks : \A j \in 1 .. i - 1 : picks[j].position /= picks[i].position}
           order == {p \in firsts \X firsts : p[1] <= p[2]}
           claims == InOrder(firsts, order)
           n == Cardinality(firsts)
           all == [r \in DOMAIN claims |-> picks[claims[r]]]
           E == {j \in 1 .. m : picks[j].position = picks[k].position}
           first == Min(E)
<1>1. IsFiniteSet(1 .. m) /\ Cardinality(1 .. m) = m
  BY FS_Interval
<1>2. RecordRows \in Nat
  BY OverviewAssumption DEF OverviewAssumption
<1>3. firsts \in SUBSET (1 .. m) /\ E \in SUBSET (1 .. m) /\ E # {}
  OBVIOUS
<1>4. IsFiniteSet(firsts) /\ n \in Nat /\ n <= m /\ IsFiniteSet(E)
  BY <1>1, <1>3, FS_Subset, FS_CardinalityType
<1>5. Numbers(firsts) /\ Numbers(E)
  <2>1. 1 .. m \subseteq Int
    OBVIOUS
  <2> QED
    BY <1>3, <1>4, <2>1 DEF Numbers
<1>6. first \in E /\ \A j \in E : first <= j
  <2> HIDE DEF E
  <2> QED
    BY <1>3, <1>5, LeastIsLeast
<1> HIDE DEF first
<1>7. first \in firsts
  <2>1. ASSUME NEW j \in 1 .. first - 1 PROVE picks[j].position # picks[first].position
    <3>1. j \notin E
      BY <1>6
    <3>2. j \in 1 .. m
      BY <1>6
    <3> QED
      BY <1>6, <3>1, <3>2
  <2> QED
    BY <1>6, <2>1
<1>8. TotalOrder(firsts, order)
  <2> HIDE DEF firsts
  <2> QED
    BY <1>5, NumbersInOrder
<1>9. DedupeRecords(picks) = FirstOf(RecordRows, all)
  BY DEF DedupeRecords
<1> HIDE DEF firsts, order
<1>10. /\ DOMAIN claims = 1 .. n
       /\ \E r \in 1 .. n : claims[r] = first
  BY <1>4, <1>7, <1>8, PlacesInOrder
<1> HIDE DEF claims, n
<1>11. PICK r \in 1 .. n : claims[r] = first
  BY <1>10
<1>16. all = [q \in 1 .. n |-> all[q]]
  BY <1>10
<1>12. all[r] = picks[first]
  BY <1>10, <1>11
<1> HIDE DEF all
<1>17. n \in Nat
  BY <1>4
<1> DEFINE records == DedupeRecords(picks)
<1>13. /\ n <= RecordRows => Len(records) = n
       /\ DOMAIN records = 1 .. Len(records)
       /\ \A q \in 1 .. Len(records) : records[q] = all[q]
  BY <1>2, <1>9, <1>16, <1>17, FirstOfBuilt
<1>14. r \in DOMAIN records /\ records[r] = picks[first]
  BY <1>2, <1>4, <1>11, <1>12, <1>13
<1>15. picks[first].position = picks[k].position
  BY <1>6
<1> QED
  BY <1>14, <1>15

LEMMA ThreeInARow ==
    ASSUME NEW S, NEW u \in Seq(S), NEW v \in Seq(S), NEW w \in Seq(S), NEW all, all = u \o v \o w
    PROVE  /\ DOMAIN all = 1 .. (Len(u) + Len(v) + Len(w))
           /\ \A i \in 1 .. Len(w) : all[Len(u) + Len(v) + i] = w[i]
<1>1. /\ u \o v \in Seq(S) /\ Len(u \o v) = Len(u) + Len(v)
      /\ Len(u) \in Nat /\ Len(v) \in Nat /\ Len(w) \in Nat
  BY ConcatProperties, LenProperties
<1>2. /\ all \in Seq(S) /\ Len(all) = Len(u) + Len(v) + Len(w)
      /\ \A i \in 1 .. Len(u \o v) + Len(w) : all[i] = IF i <= Len(u \o v) THEN (u \o v)[i] ELSE w[i - Len(u \o v)]
  BY <1>1, ConcatProperties
<1>3. DOMAIN all = 1 .. Len(all)
  BY <1>2, LenProperties
<1>4. ASSUME NEW i \in 1 .. Len(w) PROVE all[Len(u) + Len(v) + i] = w[i]
  <2> DEFINE a == Len(u) + Len(v)
  <2>1. a \in Nat /\ i \in Int /\ 1 <= i /\ i <= Len(w)
    BY <1>1
  <2>2. a + i \in 1 .. a + Len(w) /\ ~(a + i <= a) /\ a + i - a = i
    BY <1>1, <2>1
  <2> HIDE DEF a
  <2>3. Len(u \o v) = a
    BY <1>1 DEF a
  <2>4. all[a + i] = w[i]
    BY <1>2, <2>2, <2>3
  <2> QED
    BY <2>4 DEF a
<1> QED
  BY <1>2, <1>3, <1>4

\* The picks of a strategy, one per position.
LEMMA PicksOfStrategy ==
    ASSUME NEW m, m \in Nat, NEW f, DOMAIN f = 1 .. m, NEW strategy,
           NEW picks, picks = Picked(strategy, f)
    PROVE  /\ DOMAIN picks = 1 .. m /\ Len(picks) = m
           /\ \A i \in 1 .. m : picks[i].position = f[i]
           /\ picks \in Seq({picks[i] : i \in DOMAIN picks})
<1>1. DOMAIN picks = 1 .. m /\ picks = [i \in 1 .. m |-> picks[i]]
  BY DEF Picked
<1>2. Len(picks) = m
  BY <1>1, LengthOfBuilt
<1>3. \A i \in 1 .. m : picks[i].position = f[i]
  BY DEF Picked
<1>4. picks \in Seq({picks[i] : i \in DOMAIN picks})
  <2> DEFINE S == {picks[i] : i \in DOMAIN picks}
  <2>1. picks \in [1 .. m -> S]
    BY <1>1
  <2> QED
    BY <2>1
<1> QED
  BY <1>1, <1>2, <1>3, <1>4

\* A row that misses the most fields is among the records of a preview.
LEMMA WorstRowIsRecorded ==
    ASSUME NEW sheet, NEW n, FrameOf(sheet, n), NEW i, i \in 1 .. n, i <= ScanRows, MissingFields(sheet, i) > 0,
           NEW sample, NEW selection, selection = SelectRecords({sheet}, sample)
    PROVE  /\ selection.available = TRUE
           /\ \E r \in DOMAIN selection.records :
                /\ selection.records[r].position \in 1 .. n /\ selection.records[r].position <= ScanRows
                /\ \A j \in 1 .. n : j <= ScanRows =>
                     MissingFields(sheet, j) <= MissingFields(sheet, selection.records[r].position)
<1> DEFINE a == IF n < PerStrategy THEN n ELSE PerStrategy
           most == MostMissingPositions(sheet)
           b == Len(most)
           u == Picked("first_rows", FirstPositions(n))
           v == Picked("even_spread", SpreadPositions(n))
           w == Picked("most_missing", most)
           picks == u \o v \o w
           S == {u[j] : j \in DOMAIN u} \cup {v[j] : j \in DOMAIN v} \cup {w[j] : j \in DOMAIN w}
<1>1. n \in Nat /\ RowsOf(sheet) = n /\ n # 0
  BY ColumnsAreFinite DEF FrameOf
<1>2. PerStrategy \in Nat /\ RecordRows \in Nat /\ 3 * PerStrategy <= RecordRows
  BY OverviewAssumption DEF OverviewAssumption
<1>3. a \in Nat /\ a <= PerStrategy
  BY <1>1, <1>2
<1>4. DOMAIN FirstPositions(n) = 1 .. a /\ DOMAIN SpreadPositions(n) = 1 .. a
  BY DEF FirstPositions, SpreadPositions
<1>5. /\ b \in Nat /\ DOMAIN most = 1 .. b /\ 1 <= b /\ b <= PerStrategy
      /\ most[1] \in 1 .. n /\ most[1] <= ScanRows
      /\ \A j \in 1 .. n : j <= ScanRows => MissingFields(sheet, j) <= MissingFields(sheet, most[1])
  BY MostMissingLead
<1> HIDE DEF a, b, most
<1>6. Len(u) = a /\ u \in Seq({u[j] : j \in DOMAIN u})
  <2> HIDE DEF u
  <2> QED
    BY <1>3, <1>4, PicksOfStrategy DEF u
<1>7. Len(v) = a /\ v \in Seq({v[j] : j \in DOMAIN v})
  <2> DEFINE spread == SpreadPositions(n)
  <2>1. DOMAIN spread = 1 .. a /\ v = Picked("even_spread", spread) /\ a \in Nat
    BY <1>3, <1>4
  <2> HIDE DEF v, spread
  <2> QED
    BY <2>1, PicksOfStrategy
<1>8. Len(w) = b /\ w \in Seq({w[j] : j \in DOMAIN w}) /\ \A j \in 1 .. b : w[j].position = most[j]
  <2>1. b \in Nat /\ DOMAIN most = 1 .. b
    BY <1>5
  <2> HIDE DEF w
  <2> QED
    BY <2>1, PicksOfStrategy DEF w
<1> HIDE DEF u, v, w
<1>9. u \in Seq(S) /\ v \in Seq(S) /\ w \in Seq(S)
  <2>1. \A A, B : A \subseteq B => Seq(A) \subseteq Seq(B)
    OBVIOUS
  <2>2. {u[j] : j \in DOMAIN u} \subseteq S /\ {v[j] : j \in DOMAIN v} \subseteq S /\ {w[j] : j \in DOMAIN w} \subseteq S
    OBVIOUS
  <2> HIDE DEF S
  <2> QED
    BY <1>6, <1>7, <1>8, <2>1, <2>2
<1> HIDE DEF S
<1>10. /\ DOMAIN picks = 1 .. (Len(u) + Len(v) + Len(w))
       /\ \A j \in 1 .. Len(w) : picks[Len(u) + Len(v) + j] = w[j]
  BY <1>9, ThreeInARow
<1> HIDE DEF picks
<1> DEFINE m == a + a + b
           k == a + a + 1
<1>11. m \in Nat /\ m <= RecordRows /\ k \in 1 .. m
  BY <1>2, <1>3, <1>5
<1>12. DOMAIN picks = 1 .. m
  BY <1>6, <1>7, <1>8, <1>10
<1>13. picks[k].position = most[1]
  <2>1. 1 \in 1 .. b
    BY <1>5
  <2>2. picks[k] = w[1]
    BY <1>6, <1>7, <1>8, <1>10, <2>1
  <2> QED
    BY <1>8, <2>1, <2>2
<1> HIDE DEF m, k
<1>14. PICK r \in DOMAIN DedupeRecords(picks) : DedupeRecords(picks)[r].position = picks[k].position
  BY <1>11, <1>12, PicksAreRecorded
<1>15. (CHOOSE f \in {sheet} : TRUE) = sheet
  OBVIOUS
<1>16. selection.available = TRUE /\ selection.records = DedupeRecords(picks)
  BY <1>1, <1>15 DEF SelectRecords, picks, u, v, w, most
<1>17. selection.records[r].position = most[1]
  BY <1>13, <1>14, <1>16
<1> QED
  BY <1>5, <1>14, <1>16, <1>17

\* What the preview shows of the loaded frame.
LEMMA WorstRowIsOnPage ==
    ASSUME NEW n, FrameOf(LoadedFrame, n), NEW identity, NEW profile, NEW sample,
           NEW overview, overview = BuildSmartOverview(identity, profile, {LoadedFrame}, sample),
           NEW records, records = SmartRecords(overview, {LoadedFrame})
    PROVE  WorstRowIsShown(records)
<1> DEFINE scanned == {j \in 1 .. RowsOf(LoadedFrame) : j <= ScanRows}
           M == [j \in scanned |-> MissingFields(LoadedFrame, j)]
           missing == {M[j] : j \in scanned}
<1>1. missing = {MissingFields(LoadedFrame, j) : j \in scanned}
  OBVIOUS
<1>2. RowsOf(LoadedFrame) = n /\ n \in Nat
  BY ColumnsAreFinite DEF FrameOf
<1>3. IsFiniteSet(scanned)
  <2>1. IsFiniteSet(1 .. n) /\ scanned \in SUBSET (1 .. n)
    BY <1>2, FS_Interval
  <2> HIDE DEF scanned
  <2> QED
    BY <2>1, FS_Subset
<1>4. \A j : MissingFields(LoadedFrame, j) \in Nat
  BY FieldsAreCounted
<1>5. Numbers(missing)
  <2>1. IsFiniteSet(missing)
    <3> HIDE DEF M, scanned
    <3> QED
      BY <1>3, ImageIsFinite
  <2>2. missing \subseteq Int
    BY <1>4
  <2> QED
    BY <2>1, <2>2 DEF Numbers
<1>6. ASSUME missing \notin {{}, {0}}
      PROVE  \E i \in DOMAIN records : MissingFields(LoadedFrame, records[i].row) = Max(missing)
  <2>1. PICK i \in scanned : MissingFields(LoadedFrame, i) > 0
    <3>1. \E x \in missing : x # 0
      <4> HIDE DEF missing
      <4> QED
        BY <1>6
    <3> QED
      BY <1>1, <1>4, <3>1
  <2> DEFINE selection == overview.selection
  <2>2. selection = SelectRecords({LoadedFrame}, sample)
    BY DEF BuildSmartOverview
  <2>3. i \in 1 .. n /\ i <= ScanRows
    BY <1>2
  <2> HIDE DEF selection
  <2>4. /\ selection.available = TRUE
        /\ \E r \in DOMAIN selection.records :
                /\ selection.records[r].position \in 1 .. n /\ selection.records[r].position <= ScanRows
                /\ \A j \in 1 .. n : j <= ScanRows =>
                     MissingFields(LoadedFrame, j) <= MissingFields(LoadedFrame, selection.records[r].position)
    BY <2>1, <2>2, <2>3, WorstRowIsRecorded
  <2>5. PICK r \in DOMAIN selection.records :
                /\ selection.records[r].position \in 1 .. n /\ selection.records[r].position <= ScanRows
                /\ \A j \in 1 .. n : j <= ScanRows =>
                     MissingFields(LoadedFrame, j) <= MissingFields(LoadedFrame, selection.records[r].position)
    BY <2>4
  <2> DEFINE p == selection.records[r].position
  <2>6. r \in DOMAIN records /\ records[r].row = p
    <3>1. (CHOOSE f \in {LoadedFrame} : TRUE) = LoadedFrame
      OBVIOUS
    <3>2. records = SmartRecordFrame(LoadedFrame, selection)
      BY <2>4, <3>1 DEF SmartRecords, selection
    <3>3. DOMAIN records = DOMAIN selection.records
      BY <3>2 DEF SmartRecordFrame
    <3> DEFINE cellsOf(i_) ==
            {<<LoadedFrame.names[c], LoadedFrame.cells[c][selection.records[i_].position]>> :
                c \in {d \in ColumnsOf(LoadedFrame) : LoadedFrame.names[d] \in ToSet(selection.columns)}}
    <3>5. records = [i_ \in DOMAIN selection.records |->
                       [row |-> selection.records[i_].position, pickedBy |-> selection.records[i_].strategy,
                        cells |-> cellsOf(i_)]]
      BY <3>2, Zenon DEF SmartRecordFrame
    <3> HIDE DEF cellsOf
    <3>6. records[r] = [row |-> selection.records[r].position, pickedBy |-> selection.records[r].strategy,
                        cells |-> cellsOf(r)]
      BY <2>5, <3>5, Zenon
    <3>4. records[r].row = selection.records[r].position
      BY ONLY <3>6
    <3> QED
      BY <2>5, <3>3, <3>4
  <2>7. p \in scanned /\ \A j \in scanned : MissingFields(LoadedFrame, j) <= MissingFields(LoadedFrame, p)
    BY <1>2, <2>5
  <2> HIDE DEF p, scanned
  <2>8. MissingFields(LoadedFrame, p) \in missing /\ \A x \in missing : x <= MissingFields(LoadedFrame, p)
    BY <1>1, <2>7
  <2> HIDE DEF missing
  <2>9. Max(missing) \in missing /\ \A x \in missing : x <= Max(missing)
    BY <1>5, <2>8, GreatestIsGreatest
  <2>10. MissingFields(LoadedFrame, p) = Max(missing)
    <3>1. Max(missing) \in Int /\ MissingFields(LoadedFrame, p) \in Int
      BY <1>5, <2>8, <2>9 DEF Numbers
    <3> QED
      BY <2>8, <2>9, <3>1
  <2> QED
    BY <2>6, <2>10
<1>7. missing \in {{}, {0}} \/ \E i \in DOMAIN records : MissingFields(LoadedFrame, records[i].row) = Max(missing)
  BY <1>6
<1> HIDE DEF M
<1> QED
  BY <1>1, <1>7 DEF WorstRowIsShown

-----------------------------------------------------------------------------
(***************************************************************************)
(* The preview that is honest                                              *)
(***************************************************************************)

\* Which issues an assessment without a frame has of two types.
LEMMA WhoIsFlagged ==
    ASSUME NEW profile, NEW columns, NEW issues, issues = Assess(profile, columns, {}).issues
    PROVE  /\ Of(issues, {"all_null_column"}) = AllNullColumns(profile)
           /\ Of(issues, {"constant_column"}) = ConstantColumns(profile)
<1>1. issues = SupportedIssues(profile, columns) \cup ConstantColumns(profile)
  <2>1. issues = PlainIssues(profile, columns)
    BY WhatIsAssessed
  <2> QED
    BY <2>1, PlainIssuesArePlain
<1>2. \A i \in AllNullColumns(profile) : i.type = "all_null_column"
  BY DEF AllNullColumns, Issue
<1>3. \A i \in ConstantColumns(profile) : i.type = "constant_column"
  BY DEF ConstantColumns, Issue
<1>4. \A i \in MissingIssues(profile, columns) : i.type = "missing"
  BY DEF MissingIssues, Issue
<1>5. \A i \in DuplicateNames(profile) : i.type = "duplicate_column_name"
  BY DEF DuplicateNames, Issue
<1>6. \A i \in BlankNames(profile) : i.type = "blank_column_name"
  <2>1. ASSUME NEW i \in BlankNames(profile)
        PROVE  \E col \in ColumnSet(profile) : i = Issue("blank_column_name", NameQuoted[col.name], "high", "Schema")
    BY Zenon DEF BlankNames
  <2> QED
    BY <2>1 DEF Issue
<1>7. \A i \in PaddedNames(profile) : i.type = "padded_column_name"
  <2>1. ASSUME NEW i \in PaddedNames(profile)
        PROVE  \E col \in ColumnSet(profile) : i = Issue("padded_column_name", NameQuoted[col.name], "medium", "Schema")
    BY Zenon DEF PaddedNames
  <2> QED
    BY <2>1 DEF Issue
<1>8. \A i \in PlaceholderIssues(profile) : i.type = "placeholder_column_name"
  <2>1. ASSUME NEW i \in PlaceholderIssues(profile)
        PROVE  \E col \in ColumnSet(profile) : i = Issue("placeholder_column_name", col.name, "medium", "Schema")
    BY Zenon DEF PlaceholderIssues
  <2> QED
    BY <2>1 DEF Issue
<1>9. \A i \in RequiredColumns(profile, columns) : i.type = "missing_required_column"
  BY DEF RequiredColumns, Issue
<1>10. \A i \in DtypeMismatch(profile, columns) : i.type = "dtype_mismatch"
  BY DEF DtypeMismatch, Issue
<1>11. \A i \in QualityGates(profile, columns) : i.type = "column_quality_gate_failed"
  BY DEF QualityGates, Issue
<1>12. \A i \in SupportedIssues(profile, columns) :
          /\ i.type # "constant_column"
          /\ i.type = "all_null_column" => i \in AllNullColumns(profile)
  BY <1>2, <1>4, <1>5, <1>6, <1>7, <1>8, <1>9, <1>10, <1>11 DEF SupportedIssues
<1>13. AllNullColumns(profile) \subseteq SupportedIssues(profile, columns)
  BY DEF SupportedIssues
<1>14. Of(issues, {"all_null_column"}) = AllNullColumns(profile)
  BY <1>1, <1>2, <1>3, <1>12, <1>13 DEF Of
<1>15. Of(issues, {"constant_column"}) = ConstantColumns(profile)
  BY <1>1, <1>3, <1>12 DEF Of
<1> QED
  BY <1>14, <1>15

\* A column of the loaded profile.
LEMMA LoadedColumn ==
    ASSUME NEW n, FrameOf(LoadedFrame, n), NEW profile, profile = LoadedProfile,
           NEW facts, facts = FactsFromProfile(profile)
    PROVE  /\ profile.rows = n /\ n \in Nat
           /\ DOMAIN profile.columns = ColumnsOf(LoadedFrame) /\ DOMAIN facts = ColumnsOf(LoadedFrame)
           /\ \A c \in ColumnsOf(LoadedFrame) :
                /\ profile.columns[c].name = LoadedFrame.names[c] /\ facts[c].name = LoadedFrame.names[c]
                /\ facts[c].missing = profile.columns[c].nulls
                /\ facts[c].distinct = profile.columns[c].unique
                /\ profile.columns[c].nulls \in Nat /\ profile.columns[c].nulls <= n
                /\ facts[c].nonNull = IF n > profile.columns[c].nulls THEN n - profile.columns[c].nulls ELSE 0
                /\ profile.columns[c].unique = {1} => n > profile.columns[c].nulls
<1> DEFINE C == ColumnsOf(LoadedFrame)
<1>1. profile.rows = n /\ n \in Nat
  BY ColumnsAreFinite DEF LoadedProfile, RunProfiling, FrameOf
<1>2. DOMAIN profile.columns = C
  BY DEF LoadedProfile, RunProfiling
<1>3. DOMAIN facts = C
  BY <1>2 DEF FactsFromProfile
<1>4. ASSUME NEW c \in C
      PROVE  /\ profile.columns[c].name = LoadedFrame.names[c]
             /\ profile.columns[c].nulls = Nulls(LoadedFrame.cells[c])
             /\ profile.columns[c].unique = {Cardinality(Tokens(LoadedFrame.cells[c], DOMAIN LoadedFrame.cells[c]))}
  BY DEF LoadedProfile, RunProfiling, ProfileColumn
<1>5. ASSUME NEW c \in C
      PROVE  /\ facts[c].name = profile.columns[c].name
             /\ facts[c].missing = profile.columns[c].nulls
             /\ facts[c].distinct = profile.columns[c].unique
             /\ facts[c].nonNull = IF n > profile.columns[c].nulls THEN n - profile.columns[c].nulls ELSE 0
  BY <1>1, <1>2 DEF FactsFromProfile
<1>6. ASSUME NEW c \in C
      PROVE  /\ profile.columns[c].nulls \in Nat /\ profile.columns[c].nulls <= n
             /\ profile.columns[c].unique = {1} => n > profile.columns[c].nulls
  <2> DEFINE cells == LoadedFrame.cells[c]
  <2>1. DOMAIN cells = 1 .. n /\ Len(cells) = n
    BY DEF FrameOf
  <2> HIDE DEF cells
  <2>2. /\ Nulls(cells) \in Nat /\ Nulls(cells) <= n
        /\ IsFiniteSet(PresentRows(cells)) /\ Cardinality(PresentRows(cells)) \in Nat
    BY <1>1, <2>1, NullsAreRows
  <2>3. ASSUME {Cardinality(Tokens(cells, DOMAIN cells))} = {1} PROVE n > Nulls(cells)
    <3>1. Cardinality(Tokens(cells, DOMAIN cells)) = 1
      BY <2>3
    <3>2. Tokens(cells, DOMAIN cells) # {}
      BY <3>1, FS_EmptySet
    <3>3. PresentRows(cells) # {}
      BY <3>2 DEF Tokens
    <3>4. Cardinality(PresentRows(cells)) # 0
      BY <2>2, <3>3, FS_EmptySet
    <3> QED
      BY <1>1, <2>1, <2>2, <3>4 DEF Nulls
  <2> QED
    BY <1>4, <2>2, <2>3 DEF cells
<1> QED
  BY <1>1, <1>2, <1>3, <1>4, <1>5, <1>6

\* A column without values plays no role, and no signal of a sample passes for a fact.
SignalOf(signal, fact, sample) ==
    /\ signal.name = fact.name
    /\ fact.nonNull = 0 => signal.role = "other"
    /\ sample = TRUE => signal.evidence # "fact"

LEMMA SignalsAreBuilt ==
    ASSUME NEW identity, NEW profile, NEW frames, NEW sample,
           NEW overview, overview = BuildSmartOverview(identity, profile, frames, sample),
           NEW facts, facts = FactsFromProfile(profile), NEW signals, signals = overview.signals
    PROVE  /\ DOMAIN signals = DOMAIN facts
           /\ \A c \in DOMAIN facts : SignalOf(signals[c], facts[c], sample)
<1>1. PICK dates : signals = Signals(facts, dates, sample)
  <2> DEFINE dates == UNION {DatetimeTextColumns(f, facts) : f \in frames}
  <2>1. signals = Signals(facts, dates, sample)
    BY DEF BuildSmartOverview
  <2> HIDE DEF dates
  <2> QED
    BY <2>1
<1> DEFINE role(c) == ResolveRole(facts[c], facts[c].name \in dates)
<1>2. signals
        = [c \in DOMAIN facts |->
              [name |-> facts[c].name, role |-> role(c)[1], evidence |-> Evidence(role(c)[2], sample),
               distinct |-> facts[c].distinct, kind |-> DtypeKind(facts[c].dtype)]]
  BY <1>1, Zenon DEF Signals
<1>3. ASSUME NEW c \in DOMAIN facts, facts[c].nonNull = 0 PROVE role(c)[1] = "other"
  <2>1. role(c) = <<"other", "fact">>
    BY <1>3 DEF ResolveRole
  <2> QED
    BY <2>1
<1> HIDE DEF role
<1>4. DOMAIN signals = DOMAIN facts
  BY <1>2
<1>5. ASSUME NEW c \in DOMAIN facts PROVE SignalOf(signals[c], facts[c], sample)
  <2>1. signals[c]
          = [name |-> facts[c].name, role |-> role(c)[1], evidence |-> Evidence(role(c)[2], sample),
             distinct |-> facts[c].distinct, kind |-> DtypeKind(facts[c].dtype)]
    BY <1>2, Zenon
  <2>2. /\ signals[c].name = facts[c].name /\ signals[c].role = role(c)[1]
        /\ signals[c].evidence = Evidence(role(c)[2], sample)
    BY ONLY <2>1
  <2>3. facts[c].nonNull = 0 => signals[c].role = "other"
    BY <1>3, <2>2
  <2>4. sample = TRUE => signals[c].evidence # "fact"
    BY <2>2 DEF Evidence
  <2> QED
    BY <2>2, <2>3, <2>4 DEF SignalOf
<1> QED
  BY <1>4, <1>5

\* Columns that the assessment flags are called out.
LEMMA FlaggedIsCalledOut ==
    ASSUME NEW n, FrameOf(LoadedFrame, n), IsInjective(LoadedFrame.names),
           AssessedBy(answer.rules, answer.profile, answer.assessment),
           NEW identity, NEW overview,
           overview = BuildSmartOverview(identity, answer.profile, {LoadedFrame}, FALSE)
    PROVE  AssessedIsCalledOut(overview)
<1> DEFINE profile == answer.profile
           facts == FactsFromProfile(profile)
           C == ColumnsOf(LoadedFrame)
           nulls(c) == profile.columns[c].nulls
           allNull == {i.column : i \in Of(answer.assessment.issues, {"all_null_column"})}
           constant == {i.column : i \in Of(answer.assessment.issues, {"constant_column"})}
<1>1. /\ profile.rows = n /\ n \in Nat
      /\ DOMAIN profile.columns = C /\ DOMAIN facts = C
  BY LoadedColumn DEF AssessedBy
<1>2. ASSUME NEW c \in C
      PROVE  /\ profile.columns[c].name = LoadedFrame.names[c] /\ facts[c].name = LoadedFrame.names[c]
             /\ facts[c].missing = nulls(c)
             /\ facts[c].distinct = profile.columns[c].unique
             /\ nulls(c) \in Nat /\ nulls(c) <= n
             /\ facts[c].nonNull = IF n > nulls(c) THEN n - nulls(c) ELSE 0
             /\ profile.columns[c].unique = {1} => n > nulls(c)
  BY LoadedColumn DEF AssessedBy
<1>3. /\ Of(answer.assessment.issues, {"all_null_column"}) = AllNullColumns(profile)
      /\ Of(answer.assessment.issues, {"constant_column"}) = ConstantColumns(profile)
  BY WhoIsFlagged DEF AssessedBy
<1>4. ASSUME NEW x \in allNull PROVE \E c \in C : LoadedFrame.names[c] = x /\ n > 0 /\ nulls(c) >= n
  <2>1. PICK i \in AllNullColumns(profile) : i.column = x
    BY <1>3
  <2>2. PICK col \in ColumnSet(profile) : i.column = col.name /\ profile.rows > 0 /\ col.nulls >= profile.rows
    BY <2>1 DEF AllNullColumns, Issue
  <2>3. PICK c \in C : col = profile.columns[c]
    BY <1>1, <2>2 DEF ColumnSet
  <2> HIDE DEF profile
  <2> QED
    BY <1>1, <1>2, <2>1, <2>2, <2>3
<1>5. constant = {LoadedFrame.names[c] : c \in {d \in C : profile.columns[d].unique = {1}}}
  <2>1. constant = {col.name : col \in {d \in ColumnSet(profile) : d.unique = {1}}}
    <3>1. \A i \in ConstantColumns(profile) : \E col \in ColumnSet(profile) : col.unique = {1} /\ i.column = col.name
      BY DEF ConstantColumns, Issue
    <3>2. ASSUME NEW col \in ColumnSet(profile), col.unique = {1}
          PROVE  \E i \in ConstantColumns(profile) : i.column = col.name
      <4> DEFINE i == Issue("constant_column", col.name, "medium", "Completeness")
      <4>1. i.column = col.name
        BY DEF Issue
      <4>2. i \in ConstantColumns(profile)
        BY <3>2 DEF ConstantColumns
      <4> QED
        BY <4>1, <4>2
    <3>3. constant = {i.column : i \in ConstantColumns(profile)}
      BY <1>3
    <3> HIDE DEF constant, profile
    <3> QED
      BY <3>1, <3>2, <3>3
  <2> HIDE DEF constant, profile
  <2> QED
    BY <1>1, <1>2, <2>1 DEF ColumnSet
<1> DEFINE frames == {LoadedFrame}
           sample == FALSE
<1>11. overview = BuildSmartOverview(identity, profile, frames, sample) /\ facts = FactsFromProfile(profile)
  OBVIOUS
<1> HIDE DEF facts, C, nulls, allNull, constant, frames, sample, profile
<1>6. /\ NearEmpty(facts, profile.rows) \subseteq Named(overview, "near_empty_columns")
      /\ Len(overview.callouts) < MaxCallouts => Constants(facts) = Named(overview, "constant_columns")
  BY <1>11, WhatIsCalledOut
<1> DEFINE signals == overview.signals
<1>12. signals = overview.signals
  OBVIOUS
<1> HIDE DEF signals
<1>7. /\ DOMAIN signals = DOMAIN facts
      /\ \A c \in DOMAIN facts : SignalOf(signals[c], facts[c], sample)
  BY <1>11, <1>12, SignalsAreBuilt
<1>8. allNull \subseteq Named(overview, "near_empty_columns")
  <2>1. ASSUME NEW x \in allNull PROVE x \in NearEmpty(facts, n)
    <3>1. PICK c \in C : LoadedFrame.names[c] = x /\ n > 0 /\ nulls(c) >= n
      BY <1>4
    <3>2. 100 * nulls(c) >= 95 * n
      BY <1>1, <1>2, <3>1
    <3>3. AtLeastPct(facts[c].missing, n, 95)
      BY <1>2, <3>1, <3>2 DEF AtLeastPct
    <3> QED
      BY <1>1, <1>2, <3>1, <3>3 DEF NearEmpty
  <2> QED
    BY <1>1, <1>6, <2>1
<1>9. ASSUME NEW c \in DOMAIN overview.signals, overview.signals[c].name \in allNull
      PROVE  overview.signals[c].role = "other"
  <2>1. c \in C /\ c \in DOMAIN facts /\ overview.signals[c].name = LoadedFrame.names[c]
    BY <1>1, <1>2, <1>7, <1>12 DEF SignalOf
  <2>2. PICK d \in C : LoadedFrame.names[d] = LoadedFrame.names[c] /\ n > 0 /\ nulls(d) >= n
    BY <1>4, <1>9, <2>1
  <2>3. d = c
    BY <2>1, <2>2 DEF IsInjective, C, ColumnsOf
  <2>4. facts[c].nonNull = 0
    BY <1>1, <1>2, <2>2, <2>3
  <2> QED
    BY <1>7, <1>12, <2>1, <2>4 DEF SignalOf
<1>10. constant = Constants(facts)
  <2>1. ASSUME NEW c \in C
        PROVE  profile.columns[c].unique = {1} <=> facts[c].distinct = {1} /\ facts[c].nonNull > 0
    BY <1>1, <1>2
  <2>2. \A c \in C : facts[c].name = LoadedFrame.names[c]
    BY <1>2
  <2> QED
    BY <1>1, <1>5, <2>1, <2>2 DEF Constants
<1> QED
  BY <1>6, <1>8, <1>9, <1>10 DEF AssessedIsCalledOut, allNull, constant

\* A preview is built from what was streamed, as a sample, or from the loaded frame and
\* the profile and the assessment beside it.
PreviewAnswer ==
    /\ Answered({"large"}) =>
         /\ Dispatched
         /\ \E profile : answer.page.preview.overview
                = BuildSmartOverview(PreviewOf(given.source, TRUE), profile, {}, TRUE)
    /\ Answered({"overview"}) =>
         /\ Dispatched
         /\ AssessedBy(answer.rules, answer.profile, answer.assessment)
         /\ answer.page.preview
                = SmartPreview(BuildSmartOverview(PreviewOf(given.source, FALSE), answer.profile, {LoadedFrame}, FALSE),
                               {LoadedFrame})

PreviewInv == AssessmentInv /\ PreviewAnswer

LEMMA PreviewInitInv == AssessmentInit => PreviewInv
<1> SUFFICES ASSUME AssessmentInit PROVE PreviewInv
  OBVIOUS
<1>1. \A ways : "none" \notin ways => ~Answered(ways)
  BY DEF AssessmentInit, Unasked, Answered
<1> QED
  BY <1>1, AssessmentInitInv DEF PreviewInv, PreviewAnswer

LEMMA PreviewNextInv == PreviewInv /\ [AssessmentNext]_assessmentVars => PreviewInv'
<1> SUFFICES ASSUME PreviewInv, [AssessmentNext]_assessmentVars PROVE PreviewInv'
  OBVIOUS
<1>1. AssessmentInv /\ AssessmentInv'
  BY AssessmentNextInv DEF PreviewInv
<1> SUFFICES PreviewAnswer'
  BY <1>1 DEF PreviewInv
<1>2. UNCHANGED inputVars
  BY DEF AssessmentNext, assessmentVars, RenderDataOverview, Unserved, ShowLargeOverview, ShowFullOverview,
         RenderQualityScore, AssessCsv, ReadChunk, ProfileChunked, AssessChunked, EditRules
<1>3. given' = given /\ csv' = csv /\ LoadedFrame' = LoadedFrame /\ LoadedProfile' = LoadedProfile
      /\ (Dispatched' <=> Dispatched)
  BY <1>2 DEF inputVars, csv, LoadedProfile, LoadedFrame, Dispatched
<1>4. ASSUME ~Answered({"large"})', ~Answered({"overview"})' PROVE PreviewAnswer'
  BY <1>4 DEF PreviewAnswer
<1>5. ASSUME UNCHANGED answer PROVE PreviewAnswer'
  BY <1>3, <1>5 DEF PreviewInv, PreviewAnswer, AssessedBy, Answered
<1>6. ASSUME NEW way \in {"overview", "quality"}, Unserved(way) PROVE PreviewAnswer'
  <2>1. answer'.status # "ok"
    BY <1>6 DEF Unserved, RefusedTo
  <2> QED
    BY <1>4, <2>1 DEF Answered
<1>7. CASE ShowLargeOverview
  <2>1. /\ answer'.way = "large"
        /\ answer'.page = LargeProfileOverview(StreamedProfile, PreviewOf(given.source, TRUE))
        /\ Dispatched
    BY <1>7 DEF ShowLargeOverview
  <2>2. answer'.page.preview.overview = BuildSmartOverview(PreviewOf(given.source, TRUE), StreamedProfile, {}, TRUE)
    <3> DEFINE o == BuildSmartOverview(PreviewOf(given.source, TRUE), StreamedProfile, {}, TRUE)
    <3>1. answer'.page.preview = SmartPreview(o, {})
      BY <2>1 DEF LargeProfileOverview
    <3> HIDE DEF o
    <3>2. answer'.page.preview.overview = o
      BY <3>1 DEF SmartPreview
    <3> QED
      BY <3>2 DEF o
  <2> QED
    BY <1>3, <2>1, <2>2 DEF PreviewAnswer, Answered
<1>8. CASE ShowFullOverview
  <2>1. CASE answer' = RefusedTo("overview")
    <3>1. answer'.status # "ok"
      BY <2>1 DEF RefusedTo
    <3> QED
      BY <1>4, <3>1 DEF Answered
  <2>2. ASSUME ~LoadFails, NEW r \in Loaded,
               answer' = Shows("overview", FullOverviewBody(r, PreviewOf(given.source, FALSE)), r)
        PROVE  PreviewAnswer'
    <3>1. AssessedBy(r.rules, r.profile, r.assessment)
      BY <1>1, <2>2, LoadedIsAssessed
    <3>2. /\ answer'.rules = r.rules /\ answer'.profile = r.profile /\ answer'.assessment = r.assessment
          /\ answer'.page = FullOverviewBody(r, PreviewOf(given.source, FALSE)) /\ answer'.way = "overview"
      BY <2>2 DEF Shows
    <3>3. answer'.page.preview
            = SmartPreview(BuildSmartOverview(PreviewOf(given.source, FALSE), r.profile, {LoadedFrame}, FALSE),
                           {LoadedFrame})
      BY <3>2 DEF FullOverviewBody
    <3>4. AssessedBy(answer.rules, answer.profile, answer.assessment)'
      BY <1>3, <3>1, <3>2 DEF AssessedBy
    <3> QED
      BY <1>3, <1>8, <3>2, <3>3, <3>4 DEF PreviewAnswer, Answered, ShowFullOverview
  <2> QED
    BY <1>8, <2>1, <2>2 DEF ShowFullOverview
<1>9. CASE RenderQualityScore
  <2>1. CASE Unserved("quality")
    BY <1>6, <2>1
  <2>2. CASE answer' = [way |-> "quality", status |-> "needs full analysis"]
    BY <1>4, <2>2 DEF Answered
  <2>3. CASE answer' = RefusedTo("quality")
    BY <1>4, <2>3 DEF Answered, RefusedTo
  <2>4. ASSUME NEW r \in Loaded, answer' = Shows("quality", ScoreBody(r.assessment), r) PROVE PreviewAnswer'
    BY <1>4, <2>4 DEF Answered, Shows
  <2> QED
    BY <1>9, <2>1, <2>2, <2>3, <2>4 DEF RenderQualityScore
<1>10. CASE AssessCsv
  BY <1>4, <1>10 DEF AssessCsv, RefusedTo, Answered
<1>11. CASE ReadChunk
  BY <1>5, <1>11 DEF ReadChunk
<1>12. CASE ProfileChunked
  BY <1>4, <1>12 DEF ProfileChunked, Answered
<1>13. CASE AssessChunked
  BY <1>4, <1>13 DEF AssessChunked, RefusedTo, Answered
<1>14. CASE EditRules
  BY <1>4, <1>14 DEF EditRules, Unasked, Answered
<1>15. CASE UNCHANGED assessmentVars
  BY <1>5, <1>15 DEF assessmentVars
<1> QED
  BY <1>6, <1>7, <1>8, <1>9, <1>10, <1>11, <1>12, <1>13, <1>14, <1>15 DEF AssessmentNext, RenderDataOverview

\* Of a file with a source, only a path that was typed hides that it is streamed.
LEMMA ModeIsNamed ==
    ASSUME Dispatched
    PROVE  /\ given.source # "path" => PreviewOf(given.source, TRUE).mode = "large"
           /\ PreviewOf(given.source, FALSE).mode = "full"
<1>1. /\ ManagedPreviewIdentity(TRUE).mode = "large" /\ ManagedPreviewIdentity(FALSE).mode = "full"
      /\ ContextPreviewIdentity({[large |-> TRUE]}).mode = "large"
      /\ ContextPreviewIdentity({[large |-> FALSE]}).mode = "full"
      /\ ContextPreviewIdentity({}).mode = "full"
  BY DEF ManagedPreviewIdentity, ContextPreviewIdentity
<1>2. CASE given.source = "root"
  BY <1>1, <1>2 DEF PreviewOf
<1>3. CASE given.source = "context"
  BY <1>1, <1>3 DEF PreviewOf
<1>4. CASE given.source = "path"
  BY <1>1, <1>4 DEF PreviewOf
<1> QED
  BY <1>2, <1>3, <1>4 DEF Dispatched

LEMMA PartsOfOverview ==
    ASSUME NEW identity, NEW profile, NEW frames, NEW sample,
           NEW overview, overview = BuildSmartOverview(identity, profile, frames, sample)
    PROVE  /\ overview.identity = identity /\ overview.shape = Evidence("fact", sample)
           /\ overview.selection = SelectRecords(frames, sample)
BY DEF BuildSmartOverview

LEMMA PreviewsAreHonest == PreviewInv => PreviewIsHonest
<1> SUFFICES ASSUME PreviewInv PROVE PreviewIsHonest
  OBVIOUS
<1> DEFINE overview == answer.page.preview.overview
<1>1. ASSUME Answered({"large"})
      PROVE  SampleIsNoFact(overview) /\ (given.source /= "path" => overview.identity.mode = "large")
  <2> DEFINE sample == TRUE
             identity == PreviewOf(given.source, sample)
             frames == {}
  <2>1. PICK profile : overview = BuildSmartOverview(identity, profile, frames, sample)
    BY <1>1 DEF PreviewInv, PreviewAnswer
  <2>2. /\ sample = TRUE /\ frames = {} /\ Dispatched
        /\ given.source /= "path" => identity.mode = "large"
    BY <1>1, ModeIsNamed DEF PreviewInv, PreviewAnswer
  <2>3. Unavailable.evidence = "unavailable" /\ SelectRecords({}, sample) = Unavailable /\ Evidence("fact", sample) = "sample"
    BY DEF Unavailable, SelectRecords, Evidence
  <2> DEFINE facts == FactsFromProfile(profile)
             signals == overview.signals
  <2>4. facts = FactsFromProfile(profile) /\ signals = overview.signals
    OBVIOUS
  <2> HIDE DEF overview, sample, identity, frames, facts, signals
  <2>5. /\ overview.identity = identity /\ overview.shape = Evidence("fact", sample)
        /\ overview.selection = SelectRecords(frames, sample)
    BY <2>1, PartsOfOverview
  <2>6. sample = TRUE => \A c \in ToSet(overview.callouts) : c.evidence # "fact"
    <3>1. /\ OnEvidence(ToSet(overview.callouts), sample)
          /\ NearEmpty(facts, profile.rows) \subseteq Named(overview, "near_empty_columns")
          /\ Len(overview.callouts) < MaxCallouts => Constants(facts) = Named(overview, "constant_columns")
      BY <2>1, <2>4, WhatIsCalledOut
    <3> QED
      BY <3>1 DEF OnEvidence
  <2>7. /\ DOMAIN signals = DOMAIN facts
        /\ \A c \in DOMAIN facts : SignalOf(signals[c], facts[c], sample)
    BY <2>1, <2>4, SignalsAreBuilt
  <2>8. \A c \in DOMAIN overview.signals : overview.signals[c].evidence # "fact"
    BY <2>2, <2>4, <2>7 DEF SignalOf
  <2> QED
    BY <2>2, <2>3, <2>5, <2>6, <2>8 DEF SampleIsNoFact
<1>2. ASSUME Answered({"overview"})
      PROVE  /\ AssessedIsCalledOut(overview) /\ WorstRowIsShown(answer.page.preview.records)
             /\ overview.identity.mode = "full"
  <2> DEFINE n == Cardinality(kept)
             sample == FALSE
             identity == PreviewOf(given.source, sample)
             frames == {LoadedFrame}
             preview == answer.page.preview
  <2>1. CsvFile(csv) /\ kept \in SUBSET (1 .. RowsOf(csv))
    BY InputsAssumption DEF InputsAssumption, PreviewInv, AssessmentInv, csv
  <2>2. FrameOf(LoadedFrame, n) /\ LoadedFrame.names = csv.names
    BY <2>1, FrameIsFrame DEF LoadedFrame
  <2>3. IsInjective(LoadedFrame.names)
    BY <2>1, <2>2 DEF CsvFile
  <2>4. /\ AssessedBy(answer.rules, answer.profile, answer.assessment) /\ Dispatched
        /\ preview = SmartPreview(BuildSmartOverview(identity, answer.profile, frames, sample), frames)
    BY <1>2 DEF PreviewInv, PreviewAnswer
  <2>5. identity.mode = "full"
    BY <2>4, ModeIsNamed
  <2>6. /\ overview = BuildSmartOverview(identity, answer.profile, frames, sample)
        /\ preview.records = SmartRecords(overview, frames)
    BY <2>4 DEF SmartPreview
  <2>7. sample = FALSE /\ frames = {LoadedFrame}
    OBVIOUS
  <2> HIDE DEF overview, n, identity, preview
  <2>8. AssessedIsCalledOut(overview)
    BY <2>2, <2>3, <2>4, <2>6, FlaggedIsCalledOut
  <2> HIDE DEF sample
  <2>9. WorstRowIsShown(preview.records)
    BY <2>2, <2>6, WorstRowIsOnPage
  <2> HIDE DEF frames
  <2>10. overview.identity = identity
    BY <2>6, PartsOfOverview
  <2> QED
    BY <2>5, <2>8, <2>9, <2>10 DEF preview
<1> QED
  BY <1>1, <1>2 DEF PreviewIsHonest

\* The smart preview agrees with the assessment beside it and with the frame it is built
\* from: nothing that was streamed passes for a fact, the columns that the assessment
\* calls all-null or constant are called out, a row that misses the most fields is
\* among the records, and the identity line names the mode of analysis
\* (build_smart_overview, select_records, rank_callouts, assess).
THEOREM PreviewsTellTheTruth == AssessmentSpec => []PreviewIsHonest
<1>1. AssessmentInit => PreviewInv
  BY PreviewInitInv
<1>2. PreviewInv /\ [AssessmentNext]_assessmentVars => PreviewInv'
  BY PreviewNextInv
<1>3. PreviewInv => PreviewIsHonest
  BY PreviewsAreHonest
<1> QED
  BY <1>1, <1>2, <1>3, PTL DEF AssessmentSpec

-----------------------------------------------------------------------------
(***************************************************************************)
(* Frames of the EDA Explorer                                              *)
(***************************************************************************)

IsGrid(t) ==
    /\ Len(t) \in Nat /\ DOMAIN t = 1 .. Len(t)
    /\ \A i \in DOMAIN t, x \in AllColumns : t[i][x].value \in Int

\* A frame of the page is a grid of numbers.
LEMMA EdaFrameIsFrame == \A t \in EdaFrames : IsGrid(t)
<1>1. TAKE t \in EdaFrames
<1> DEFINE S == [AllColumns -> [kind : STRING, class : STRING, value : Int, text : STRING]]
<1>2. t \in Seq(S)
  BY EdaAssumption
<1>3. \A s \in S, x \in AllColumns : s[x].value \in Int
  OBVIOUS
<1> HIDE DEF S
<1>4. Len(t) \in Nat /\ DOMAIN t = 1 .. Len(t) /\ \A i \in DOMAIN t : t[i] \in S
  BY <1>2
<1> QED
  BY <1>3, <1>4 DEF IsGrid

\* The lines of a frame can be counted.
LEMMA LinesAreFinite ==
    ASSUME NEW t, IsGrid(t)
    PROVE  /\ IsFiniteSet(DOMAIN t) /\ Cardinality(DOMAIN t) = Len(t)
           /\ \A lines \in SUBSET DOMAIN t : IsFiniteSet(lines) /\ Cardinality(lines) \in Nat
<1> DEFINE n == Len(t)
           all == DOMAIN t
<1>1. n \in Nat /\ DOMAIN t = 1 .. n
  BY DEF IsGrid
<1>2. IsFiniteSet(1 .. n) /\ Cardinality(1 .. n) = n
  <2> HIDE DEF n
  <2>1. IsFiniteSet(1 .. n) /\ Cardinality(1 .. n) = IF 1 > n THEN 0 ELSE n - 1 + 1
    BY <1>1, FS_Interval
  <2> QED
    BY <1>1, <2>1
<1>3. IsFiniteSet(all)
  BY <1>1, <1>2
<1> HIDE DEF all
<1>4. ASSUME NEW lines \in SUBSET all PROVE IsFiniteSet(lines) /\ Cardinality(lines) \in Nat
  <2>1. IsFiniteSet(lines)
    BY <1>3, FS_Subset
  <2> QED
    BY <2>1, FS_CardinalityType
<1> QED
  BY <1>1, <1>2, <1>4 DEF all

\* The rows in which a column has a value that counts.
LEMMA UsableLines ==
    ASSUME NEW t, IsGrid(t), NEW x
    PROVE  /\ Usable(t, x) \in SUBSET DOMAIN t /\ Present(t, x) \in SUBSET DOMAIN t
           /\ Parsed(t, x) \in SUBSET DOMAIN t
BY DEF Usable, Finite, Present, Parsed

-----------------------------------------------------------------------------
(***************************************************************************)
(* Levels                                                                  *)
(***************************************************************************)

\* How often each value of f occurs among the lines.
IsCountOf(counts, lines, f) ==
    counts = [v \in {f[i] : i \in lines} |-> Cardinality({i \in lines : f[i] = v})]

LinesOf(lines, f, levels) == {i \in lines : f[i] \in levels}

\* The counts of some levels add up to the lines that have them.
LEMMA LevelsAddUp ==
    ASSUME NEW lines, IsFiniteSet(lines), NEW f, NEW counts, IsCountOf(counts, lines, f),
           NEW levels \in SUBSET DOMAIN counts
    PROVE  /\ IsFiniteSet(DOMAIN counts) /\ IsFiniteSet(levels)
           /\ \A v \in DOMAIN counts : counts[v] \in Nat /\ counts[v] > 0
           /\ Total(counts, levels) = Cardinality(LinesOf(lines, f, levels))
           /\ LinesOf(lines, f, levels) \in SUBSET lines
           /\ levels = DOMAIN counts <=> LinesOf(lines, f, levels) = lines
<1> DEFINE part == {i \in lines : f[i] \in levels}
           some == [v \in levels |-> counts[v]]
<1>1. DOMAIN counts = {f[i] : i \in lines}
  BY DEF IsCountOf
<1>2. IsFiniteSet({f[i] : i \in lines})
  BY ImageIsFinite
<1>3. IsFiniteSet(DOMAIN counts)
  BY <1>1, <1>2
<1>4. IsFiniteSet(levels)
  BY <1>3, FS_Subset
<1>5. \A v \in DOMAIN counts : counts[v] = Cardinality({i \in lines : f[i] = v})
  BY DEF IsCountOf
<1>6. ASSUME NEW v \in DOMAIN counts PROVE counts[v] \in Nat /\ counts[v] > 0
  <2> DEFINE T == {i \in lines : f[i] = v}
  <2>1. T \in SUBSET lines /\ T # {}
    BY <1>1
  <2>2. counts[v] = Cardinality(T)
    BY <1>5
  <2> HIDE DEF T
  <2>3. IsFiniteSet(T)
    BY <2>1, FS_Subset
  <2>4. Cardinality(T) \in Nat /\ Cardinality(T) # 0
    BY <2>1, <2>3, FS_CardinalityType, FS_EmptySet
  <2> QED
    BY <2>2, <2>4
<1>7. part \in SUBSET lines
  OBVIOUS
<1>8. IsFiniteSet(part)
  <2> HIDE DEF part
  <2> QED
    BY <1>7, FS_Subset
<1>9. SumFunction(some) = Cardinality(part)
  <2>1. DOMAIN some = levels
    OBVIOUS
  <2>2. \A i \in part : f[i] \in DOMAIN some
    OBVIOUS
  <2>3. ASSUME NEW v \in DOMAIN some PROVE some[v] = Cardinality({i \in part : f[i] = v})
    <3>1. {i \in part : f[i] = v} = {i \in lines : f[i] = v}
      OBVIOUS
    <3>2. v \in DOMAIN counts /\ some[v] = counts[v]
      OBVIOUS
    <3> QED
      BY <1>5, <3>1, <3>2
  <2> HIDE DEF some, part
  <2> QED
    BY <1>4, <1>8, <2>1, <2>2, <2>3, SumOfParts
<1>10. Total(counts, levels) = Cardinality(part)
  BY <1>9 DEF Total
<1>11. levels # DOMAIN counts => part # lines
  BY <1>1
<1>12. levels = DOMAIN counts => part = lines
  BY <1>1
<1> QED
  BY <1>3, <1>4, <1>6, <1>7, <1>10, <1>11, <1>12 DEF LinesOf

\* Fewer lines than there are.
LEMMA SomeLines ==
    ASSUME NEW lines, IsFiniteSet(lines), NEW part \in SUBSET lines
    PROVE  /\ Cardinality(part) \in Nat /\ Cardinality(lines) \in Nat
           /\ Cardinality(part) <= Cardinality(lines)
           /\ part # lines => Cardinality(part) < Cardinality(lines)
<1>1. IsFiniteSet(part) /\ Cardinality(part) <= Cardinality(lines)
      /\ (Cardinality(part) = Cardinality(lines) => part = lines)
  BY FS_Subset
<1>2. Cardinality(part) \in Nat /\ Cardinality(lines) \in Nat
  BY <1>1, FS_CardinalityType
<1> QED
  BY <1>1, <1>2

LevelOrder(counts, levels) ==
    {p \in levels \X levels : \/ counts[p[1]] > counts[p[2]]
                              \/ counts[p[1]] = counts[p[2]] /\ p[1] <= p[2]}

\* The most frequent of the levels are some of them, as many as there is room for.
LEMMA TopIsOfLevels ==
    ASSUME NEW counts, NEW levels, IsFiniteSet(levels), levels \in SUBSET Int,
           \A v \in levels : counts[v] \in Nat,
           NEW n, n \in Nat
    PROVE  /\ TopOf(counts, levels, n) \in SUBSET levels
           /\ Cardinality(TopOf(counts, levels, n)) = Smaller(n, Cardinality(levels))
<1> DEFINE order == LevelOrder(counts, levels)
           m == Smaller(n, Cardinality(levels))
           place == [v \in levels |-> Cardinality(UpTo(levels, order, v))]
           first == {v \in levels : place[v] \in 1 .. m}
           Leads(top) == \A a \in top, b \in levels \ top : counts[a] > counts[b] \/ (counts[a] = counts[b] /\ a < b)
<1>1. TotalOrder(levels, order)
  BY DEF TotalOrder, LevelOrder
<1>2. Cardinality(levels) \in Nat
  BY FS_CardinalityType
<1>3. m \in Nat /\ m <= Cardinality(levels)
  BY <1>2 DEF Smaller
<1>4. /\ \A v \in levels : place[v] \in 1 .. Cardinality(levels) /\ InOrder(levels, order)[place[v]] = v
      /\ \A r \in 1 .. Cardinality(levels) :
            InOrder(levels, order)[r] \in levels /\ place[InOrder(levels, order)[r]] = r
  <2> HIDE DEF order
  <2> QED
    BY <1>1, PlacesInOrder
<1>5. \A a, b \in levels : <<b, a>> \in order => place[b] <= place[a]
  <2> SUFFICES ASSUME NEW a \in levels, NEW b \in levels, <<b, a>> \in order
               PROVE  Cardinality(UpTo(levels, order, b)) <= Cardinality(UpTo(levels, order, a))
    OBVIOUS
  <2> HIDE DEF order
  <2>1. UpTo(levels, order, b) \in SUBSET UpTo(levels, order, a) /\ UpTo(levels, order, a) \in SUBSET levels
    BY <1>1 DEF UpTo, TotalOrder
  <2>2. IsFiniteSet(UpTo(levels, order, a))
    BY <2>1, FS_Subset
  <2> QED
    BY <2>1, <2>2, FS_Subset
<1>6. first \in SUBSET levels /\ Leads(first)
  <2> SUFFICES ASSUME NEW a \in first, NEW b \in levels \ first
               PROVE  counts[a] > counts[b] \/ (counts[a] = counts[b] /\ a < b)
    OBVIOUS
  <2>1. a \in levels /\ b \in levels
    OBVIOUS
  <2>2. place[a] <= m /\ place[b] > m /\ place[a] \in Int /\ place[b] \in Int
    <3>1. place[a] \in 1 .. m /\ ~(place[b] \in 1 .. m)
      OBVIOUS
    <3>2. place[a] \in 1 .. Cardinality(levels) /\ place[b] \in 1 .. Cardinality(levels)
      BY <1>4
    <3> HIDE DEF place, m
    <3> QED
      BY <1>2, <1>3, <3>1, <3>2
  <2>3. <<b, a>> \notin order
    <3> HIDE DEF place, order, m, first
    <3> QED
      BY <1>3, <1>5, <2>1, <2>2
  <2> QED
    BY <2>1, <2>3 DEF LevelOrder
<1>7. Cardinality(first) = m
  <2> DEFINE back == [r \in 1 .. m |-> InOrder(levels, order)[r]]
  <2>1. \A r \in 1 .. m : back[r] \in levels /\ place[back[r]] = r
    <3> HIDE DEF place, order, m
    <3> QED
      BY <1>2, <1>3, <1>4
  <2>2. \A v \in first : place[v] \in 1 .. m /\ back[place[v]] = v
    BY <1>4
  <2> HIDE DEF place, order, m
  <2>3. \A r \in 1 .. m : back[r] \in first
    BY <2>1
  <2>4. back \in [1 .. m -> first]
    BY <2>3
  <2>5. \A r, q \in 1 .. m : back[r] = back[q] => r = q
    BY <2>1
  <2> HIDE DEF back, first
  <2>6. back \in Bijection(1 .. m, first)
    BY <2>2, <2>4, <2>5 DEF Bijection, Injection, Surjection, IsInjective
  <2>7. IsFiniteSet(1 .. m) /\ Cardinality(1 .. m) = m
    BY <1>3, FS_Interval
  <2> QED
    BY <2>6, <2>7, FS_Bijection DEF ExistsBijection
<1>8. first \in kSubset(m, levels)
  BY <1>6, <1>7 DEF kSubset
<1>9. TopOf(counts, levels, n) = CHOOSE top \in kSubset(m, levels) : Leads(top)
  BY DEF TopOf
<1> HIDE DEF first, m, Leads
<1>10. TopOf(counts, levels, n) \in kSubset(m, levels)
  BY <1>6, <1>8, <1>9
<1> QED
  BY <1>10 DEF kSubset, m

\* A quotient by its bounds.
LEMMA QuotientWithin ==
    ASSUME NEW a, NEW d, NEW k, a \in Nat, d \in Nat \ {0}, k \in Nat, d <= a, a < d * (k + 1)
    PROVE  (a \div d) \in 1 .. k
<1> DEFINE q == a \div d
           r == a % d
<1>1. q \in Int /\ r \in 0 .. d - 1 /\ a = d * q + r
  OBVIOUS
<1> HIDE DEF q, r
<1>2. q >= 1
  <2> SUFFICES ASSUME q <= 0 PROVE FALSE
    BY <1>1
  <2>1. d * q <= 0
    BY <1>1
  <2> QED
    BY <1>1, <2>1
<1>3. q <= k
  <2> SUFFICES ASSUME q >= k + 1 PROVE FALSE
    BY <1>1
  <2>1. d * q >= d * (k + 1)
    BY <1>1
  <2> QED
    BY <1>1, <2>1
<1> QED
  BY <1>1, <1>2, <1>3 DEF q

\* A multiple is divided without rest.
LEMMA QuotientOfMultiple ==
    ASSUME NEW d, NEW k, d \in Nat \ {0}, k \in Nat
    PROVE  (k * d) \div d = k /\ (k * d) % d = 0
<1> DEFINE a == k * d
           q == a \div d
           r == a % d
<1>1. a \in Nat /\ q \in Int /\ r \in 0 .. d - 1 /\ a = d * q + r
  OBVIOUS
<1>2. r = d * (k - q)
  BY <1>1
<1> HIDE DEF q, r, a
<1>3. k - q = 0
  <2>1. CASE k - q >= 1
    <3>1. d * (k - q) >= d
      BY <2>1, <1>1
    <3> QED
      BY <1>1, <1>2, <3>1
  <2>2. CASE k - q <= 0 - 1
    <3>1. d * (k - q) <= 0 - d
      BY <2>2, <1>1
    <3> QED
      BY <1>1, <1>2, <3>1
  <2> QED
    BY <1>1, <2>1, <2>2
<1>4. q = k /\ r = 0
  BY <1>1, <1>2, <1>3
<1> QED
  BY <1>4 DEF q, r, a

\* Every value falls into a bin.
LEMMA BinsCover ==
    ASSUME NEW values, Numbers(values), Cardinality(values) >= 2, NEW bins \in Nat \ {0}, NEW v \in values
    PROVE  BinOf(values, bins, v) \in 1 .. bins
<1> DEFINE low == Min(values)
           high == Max(values)
           span == high - low
           top == ((v - low) * bins) + span - 1
<1>1. /\ low \in values /\ high \in values /\ low \in Int /\ high \in Int /\ v \in Int
      /\ \A w \in values : low <= w /\ w <= high
  BY LeastIsLeast, GreatestIsGreatest DEF Numbers
<1>2. \E w \in values : w # low
  <2> SUFFICES ASSUME \A w \in values : w = low PROVE FALSE
    OBVIOUS
  <2>1. values = {low}
    BY <1>1
  <2>2. Cardinality(values) = 1
    BY <2>1, FS_Singleton
  <2> QED
    BY <2>2
<1>3. span \in Nat \ {0}
  BY <1>1, <1>2 DEF Numbers
<1>4. CASE v = low
  BY <1>4 DEF BinOf
<1>5. CASE v # low
  <2> DEFINE part == v - low
  <2>1. part \in Nat /\ part >= 1 /\ part <= span
    BY <1>1, <1>5
  <2>2. BinOf(values, bins, v) = top \div span
    BY <1>5 DEF BinOf
  <2>3. top = part * bins + span - 1
    OBVIOUS
  <2> HIDE DEF part, span, top
  <2>4. part * bins \in Nat /\ part * bins >= 1 /\ part * bins <= span * bins
    BY <1>3, <2>1
  <2>5. span * bins \in Nat /\ span * (bins + 1) = span * bins + span
    BY <1>3
  <2>6. top \in Nat /\ span <= top /\ top < span * (bins + 1)
    BY <1>3, <2>3, <2>4, <2>5
  <2>7. (top \div span) \in 1 .. bins
    BY <1>3, <2>6, QuotientWithin
  <2> QED
    BY <2>2, <2>7
<1> QED
  BY <1>4, <1>5

Exact(v) == v.status = "ok" => Drawn(v) = v.covers

Partly(v) == v.status = "ok" => IF v.less THEN Drawn(v) < v.covers ELSE Drawn(v) = v.covers

\* A refused view draws nothing and covers nothing.
LEMMA RefusedIsNothing ==
    \A status : Refused(status).status = status /\ Refused(status) = View(status, NoMarks, 0, FALSE)
BY DEF Refused, View

\* What is drawn of the lines, told apart by a key.
LEMMA KeyedMarks ==
    ASSUME NEW lines, IsFiniteSet(lines), NEW key, NEW K, IsFiniteSet(K), \A i \in lines : key[i] \in K,
           NEW marks, marks = [k \in K |-> Cardinality({i \in lines : key[i] = k})],
           NEW less
    PROVE  Exact(View("ok", marks, Size(lines), less))
<1>1. DOMAIN marks = K /\ \A k \in K : marks[k] = Cardinality({i \in lines : key[i] = k})
  OBVIOUS
<1>2. SumFunction(marks) = Cardinality(lines)
  BY <1>1, SumOfParts
<1> QED
  BY <1>2 DEF Exact, View, Drawn, Size

LEMMA BinsMax == HistogramMin \in Nat \ {0} /\ HistogramMax \in Nat /\ AutoHistogramBins \in SUBSET (Nat \ {0})
BY ChartsAssumption DEF AutoHistogramBins

\* The values a column has in some lines.
LEMMA DistinctValues ==
    ASSUME NEW t, IsGrid(t), NEW x \in AllColumns, NEW lines \in SUBSET DOMAIN t
    PROVE  Numbers(Distinct(t, x, lines)) /\ Cardinality(Distinct(t, x, lines)) \in Nat
<1> DEFINE f == [i \in lines |-> t[i][x].value]
<1>1. IsFiniteSet(lines)
  BY LinesAreFinite
<1>2. Distinct(t, x, lines) = {f[i] : i \in lines}
  BY DEF Distinct
<1>3. IsFiniteSet({f[i] : i \in lines})
  <2> HIDE DEF f
  <2> QED
    BY <1>1, ImageIsFinite
<1>4. Distinct(t, x, lines) \in SUBSET Int
  BY DEF Distinct, IsGrid
<1> QED
  BY <1>2, <1>3, <1>4, FS_CardinalityType DEF Numbers

\* A histogram counts every value that is a number, in one bin.
LEMMA HistogramAddsUp ==
    ASSUME NEW t, IsGrid(t), NEW x \in AllColumns, NEW bins \in Nat \ {0}
    PROVE  Exact(NumericHistogram(t, x, bins))
<1> DEFINE lines == Usable(t, x)
           values == Distinct(t, x, lines)
           key == [i \in lines |-> BinOf(values, bins, t[i][x].value)]
           marks == [b \in 1 .. bins |-> Size({i \in lines : BinOf(values, bins, t[i][x].value) = b})]
           K == 1 .. bins
<1> SUFFICES ASSUME NumericHistogram(t, x, bins).status = "ok"
             PROVE  Exact(NumericHistogram(t, x, bins))
  BY DEF Exact
<1>1. lines \in SUBSET DOMAIN t /\ IsFiniteSet(lines)
  BY UsableLines, LinesAreFinite
<1>2. Numbers(values) /\ Cardinality(values) \in Nat
  <2> HIDE DEF lines
  <2> QED
    BY <1>1, DistinctValues
<1>3. NumericHistogram(t, x, bins) = View("ok", marks, Size(lines), FALSE) /\ ~(Cardinality(values) < 2)
  BY DEF NumericHistogram, Refused, View
<1>4. \A i \in lines : key[i] \in K
  <2>1. TAKE i \in lines
  <2>2. t[i][x].value \in values /\ Cardinality(values) >= 2
    BY <1>2, <1>3 DEF Distinct
  <2>3. BinOf(values, bins, t[i][x].value) \in 1 .. bins
    <3> HIDE DEF values
    <3> QED
      BY <1>2, <2>2, BinsCover
  <2> QED
    BY <2>3
<1>5. marks = [b \in K |-> Cardinality({i \in lines : key[i] = b})]
  BY DEF Size
<1>6. IsFiniteSet(K)
  BY FS_Interval
<1> HIDE DEF lines, key, marks, K
<1>7. Exact(View("ok", marks, Size(lines), FALSE))
  BY <1>1, <1>4, <1>5, <1>6, KeyedMarks
<1> QED
  BY <1>3, <1>7

\* One mark for each of some rows.
LEMMA OnesAddUp ==
    ASSUME NEW S, IsFiniteSet(S), NEW marks, marks = [k \in S |-> 1], NEW less
    PROVE  Exact(View("ok", marks, Size(S), less))
<1> DEFINE key == [i \in S |-> i]
<1>1. \A i \in S : key[i] \in S
  OBVIOUS
<1>2. \A k \in S : Cardinality({i \in S : key[i] = k}) = 1
  <2>1. TAKE k \in S
  <2>2. {i \in S : key[i] = k} = {k}
    OBVIOUS
  <2> QED
    BY <2>2, FS_Singleton
<1>3. marks = [k \in S |-> Cardinality({i \in S : key[i] = k})]
  <2> HIDE DEF key
  <2> QED
    BY <1>2
<1> HIDE DEF key
<1> QED
  BY <1>1, <1>3, KeyedMarks

\* All rows in one mark.
LEMMA OneMarkAddsUp ==
    ASSUME NEW lines, IsFiniteSet(lines), NEW less
    PROVE  Exact(View("ok", <<Size(lines)>>, Size(lines), less))
<1> DEFINE key == [i \in lines |-> 1]
           K == {1}
           marks == <<Size(lines)>>
<1>1. \A i \in lines : key[i] \in K
  OBVIOUS
<1>2. {i \in lines : key[i] = 1} = lines
  OBVIOUS
<1>3. DOMAIN marks = K /\ marks[1] = Cardinality(lines)
  BY DEF Size
<1>4. marks = [k \in 1 .. 1 |-> Size(lines)]
  OBVIOUS
<1>5. \A k \in K : marks[k] = Cardinality({i \in lines : key[i] = k})
  BY <1>2, <1>3
<1>6. marks = [k \in DOMAIN marks |-> marks[k]]
  BY <1>4
<1>7. IsFiniteSet(K)
  BY FS_Singleton
<1> HIDE DEF key, K, marks
<1>8. marks = [k \in K |-> Cardinality({i \in lines : key[i] = k})]
  BY <1>3, <1>5, <1>6
<1>9. Exact(View("ok", marks, Size(lines), less))
  BY <1>1, <1>7, <1>8, KeyedMarks
<1> QED
  BY <1>9 DEF marks

\* The first and the last row are among those a plot takes.
LEMMA EndsArePlotted ==
    ASSUME NEW n, n \in Nat \ {0}
    PROVE  1 \in RowPositions(n, PlotRows) /\ n \in RowPositions(n, PlotRows)
<1> DEFINE d == PlotRows - 1
<1>1. PlotRows \in Nat \ {0, 1} /\ d \in Nat \ {0}
  BY ChartsAssumption
<1>2. CASE n <= PlotRows
  BY <1>2 DEF RowPositions
<1>3. CASE ~(n <= PlotRows)
  <2> DEFINE e == n - 1
             At(k) == 1 + RoundHalfEven(k * (n - 1), PlotRows - 1)
  <2>1. RowPositions(n, PlotRows) = {At(k) : k \in 0 .. d}
    BY <1>3 DEF RowPositions
  <2>2. 0 \in 0 .. d /\ d \in 0 .. d /\ e \in Nat
    BY <1>1
  <2>3. 0 * e = 0 * d /\ d * e = e * d
    BY <1>1, <2>2
  <2> HIDE DEF d, e
  <2>4. /\ (0 * e) \div d = 0 /\ (0 * e) % d = 0
        /\ (d * e) \div d = e /\ (d * e) % d = 0
    BY <1>1, <2>2, <2>3, QuotientOfMultiple
  <2>5. RoundHalfEven(0 * e, d) = 0 /\ RoundHalfEven(d * e, d) = e
    BY <1>1, <2>4 DEF RoundHalfEven
  <2>6. At(0) = 1 /\ At(d) = n
    BY <2>5 DEF d, e
  <2> QED
    BY <2>1, <2>2, <2>6
<1> QED
  BY <1>2, <1>3

\* A plot of the ranks keeps both ends.
LEMMA QQKeepsEnds ==
    ASSUME NEW t, IsGrid(t), NEW x
    PROVE  QQNormal(t, x).status = "ok" =>
               1 \in DOMAIN QQNormal(t, x).marks /\ QQNormal(t, x).covers \in DOMAIN QQNormal(t, x).marks
<1> DEFINE n == Size(Usable(t, x))
           v == QQNormal(t, x)
           ranks == RowPositions(n, PlotRows)
<1> SUFFICES ASSUME v.status = "ok" PROVE 1 \in DOMAIN v.marks /\ v.covers \in DOMAIN v.marks
  OBVIOUS
<1>1. v = View("ok", [k \in ranks |-> k], n, Cardinality(ranks) < n) /\ ~(n < QQMin)
  BY DEF QQNormal, Refused, View
<1>2. DOMAIN v.marks = ranks /\ v.covers = n
  BY <1>1 DEF View
<1>3. Usable(t, x) \in SUBSET DOMAIN t
  BY UsableLines
<1>4. n \in Nat
  BY <1>3, LinesAreFinite DEF Size
<1>5. n # 0
  BY <1>1, <1>4, ChartsAssumption
<1> HIDE DEF n, v
<1> QED
  BY <1>2, <1>4, <1>5, EndsArePlotted

\* The last step of a distribution function has counted every row.
LEMMA EcdfReachesAll ==
    ASSUME NEW t, IsGrid(t), NEW x \in AllColumns
    PROVE  NumericEcdf(t, x).status = "ok" =>
               NumericEcdf(t, x).marks[Max(DOMAIN NumericEcdf(t, x).marks)] = NumericEcdf(t, x).covers
<1> DEFINE lines == Usable(t, x)
           values == Distinct(t, x, lines)
           Below(v) == Size({i \in lines : t[i][x].value <= v})
           Rank(v) == Cardinality({w \in values : w <= v})
           left == {v \in values : Rank(v) \in RowPositions(Cardinality(values), PlotRows)}
           view == NumericEcdf(t, x)
           high == Max(values)
<1> SUFFICES ASSUME view.status = "ok" PROVE view.marks[Max(DOMAIN view.marks)] = view.covers
  OBVIOUS
<1>1. view = View("ok", [v \in left |-> Below(v)], Size(lines), left # values) /\ lines # {}
  BY DEF NumericEcdf, Refused, View
<1>2. lines \in SUBSET DOMAIN t
  BY UsableLines
<1>3. Numbers(values) /\ Cardinality(values) \in Nat
  <2> HIDE DEF lines
  <2> QED
    BY <1>2, DistinctValues
<1>4. values # {}
  BY <1>1 DEF Distinct
<1>5. high \in values /\ \A w \in values : w <= high
  <2> HIDE DEF values
  <2> QED
    BY <1>3, <1>4, GreatestIsGreatest
<1>6. Cardinality(values) # 0
  <2> HIDE DEF values
  <2> QED
    BY <1>3, <1>4, FS_EmptySet DEF Numbers
<1>7. Rank(high) = Cardinality(values)
  <2>1. {w \in values : w <= high} = values
    BY <1>5
  <2> QED
    BY <2>1
<1>8. high \in left
  <2>1. Cardinality(values) \in RowPositions(Cardinality(values), PlotRows)
    <3> HIDE DEF values
    <3> QED
      BY <1>3, <1>6, EndsArePlotted
  <2> QED
    BY <1>5, <1>7, <2>1
<1>9. Max(left) = high
  <2>1. left \in SUBSET values
    OBVIOUS
  <2>2. Numbers(left)
    <3> HIDE DEF left, values
    <3> QED
      BY <1>3, <2>1, FS_Subset DEF Numbers
  <2> HIDE DEF left, high, values
  <2>3. Max(left) \in left /\ \A w \in left : w <= Max(left)
    BY <1>8, <2>2, GreatestIsGreatest
  <2>4. Max(left) \in values /\ Max(left) <= high /\ high <= Max(left)
    BY <1>5, <1>8, <2>1, <2>3
  <2>5. values \in SUBSET Int
    BY <1>3 DEF Numbers
  <2>6. Max(left) \in Int /\ high \in Int
    BY <1>5, <2>4, <2>5
  <2> HIDE DEF Max
  <2> QED
    BY <2>4, <2>6
<1>10. Below(high) = Size(lines)
  <2>1. \A i \in lines : t[i][x].value \in values
    BY DEF Distinct
  <2>2. {i \in lines : t[i][x].value <= high} = lines
    BY <1>5, <2>1
  <2> QED
    BY <2>2
<1>11. DOMAIN view.marks = left /\ view.covers = Size(lines) /\ view.marks[high] = Below(high)
  <2> HIDE DEF lines, values, left, Below, high
  <2>1. view.marks = [v \in left |-> Below(v)] /\ view.covers = Size(lines)
    BY <1>1 DEF View
  <2> QED
    BY <1>8, <2>1
<1> QED
  BY <1>9, <1>10, <1>11

LEMMA BoxAddsUp ==
    ASSUME NEW t, IsGrid(t), NEW x
    PROVE  Exact(Boxplot(t, x))
<1> DEFINE n == Size(Usable(t, x))
           m == Sampled(n)
           S == 1 .. m
           marks == [k \in S |-> 1]
<1> SUFFICES ASSUME Boxplot(t, x).status = "ok" PROVE Exact(Boxplot(t, x))
  BY DEF Exact
<1>1. Boxplot(t, x) = View("ok", marks, m, n > PlotRows)
  BY DEF Boxplot, Refused, View
<1>2. n \in Nat
  BY UsableLines, LinesAreFinite DEF Size
<1>3. m \in Nat
  BY <1>2, ChartsAssumption DEF Sampled, Smaller
<1>4. IsFiniteSet(S) /\ Size(S) = m
  BY <1>3, FS_Interval DEF Size
<1> HIDE DEF n, m, S, marks
<1>5. Exact(View("ok", marks, Size(S), n > PlotRows))
  BY <1>4, OnesAddUp DEF marks
<1> QED
  BY <1>1, <1>4, <1>5

LEMMA RefusalIsNoResult == \A t, x, y : PairRefusal(t, x, y) # "ok"
<1>1. TAKE t, x, y
<1> DEFINE a == ~IsNumericDtype(t, x) \/ ~IsNumericDtype(t, y)
           b == \E z \in {x, y} : IsConstant(t, z, FinitePairs(t, x, y))
<1>2. PairRefusal(t, x, y) = CASE a -> "invalid_type" [] b -> "insufficient_data" [] OTHER -> ""
  BY DEF PairRefusal
<1> HIDE DEF a, b
<1>3. PairRefusal(t, x, y) \in {"invalid_type", "insufficient_data", ""}
  BY <1>2
<1> QED
  BY <1>3

\* Every point of a scatter is one row.
LEMMA ScatterAddsUp ==
    ASSUME NEW t, IsGrid(t), NEW x, NEW y, NEW plot \in Plots(t, x, y)
    PROVE  Exact(BoundedScatter(t, x, y, plot))
<1> DEFINE marks == [i \in plot |-> 1]
<1> SUFFICES ASSUME BoundedScatter(t, x, y, plot).status = "ok" PROVE Exact(BoundedScatter(t, x, y, plot))
  BY DEF Exact
<1>1. plot \in SUBSET DOMAIN t
  BY UsableLines DEF Plots, kSubset, FinitePairs
<1>2. IsFiniteSet(plot)
  BY <1>1, LinesAreFinite
<1>4. PairRefusal(t, x, y) # "ok"
  BY RefusalIsNoResult
<1>5. BoundedScatter(t, x, y, plot) = View("ok", marks, Size(plot), plot # FinitePairs(t, x, y))
  <2>1. CASE PairRefusal(t, x, y) # ""
    BY <1>4, <2>1 DEF BoundedScatter, Refused, View
  <2>2. CASE PairRefusal(t, x, y) = ""
    BY <2>2 DEF BoundedScatter
  <2> QED
    BY <2>1, <2>2
<1>6. marks = [i \in plot |-> 1]
  OBVIOUS
<1> HIDE DEF marks
<1> QED
  BY <1>2, <1>5, <1>6, OnesAddUp

\* The heatmap counts the rows it says, clipped or not.
LEMMA HeatmapAddsUp ==
    ASSUME NEW t, IsGrid(t), NEW x, NEW y, NEW clip
    PROVE  Exact(DensityHeatmap(t, x, y, clip))
<1> DEFINE lines == FinitePairs(t, x, y)
           counted == IF clip THEN InDomain(t, x, lines) \cap InDomain(t, y, lines) ELSE lines
<1> SUFFICES ASSUME DensityHeatmap(t, x, y, clip).status = "ok" PROVE Exact(DensityHeatmap(t, x, y, clip))
  BY DEF Exact
<1>1. lines \in SUBSET DOMAIN t
  BY UsableLines DEF FinitePairs
<1>2. counted \in SUBSET DOMAIN t
  <2> HIDE DEF lines
  <2>1. InDomain(t, x, lines) \in SUBSET lines
    BY DEF InDomain
  <2> QED
    BY <1>1, <2>1
<1>3. IsFiniteSet(counted)
  <2> HIDE DEF counted
  <2> QED
    BY <1>2, LinesAreFinite
<1>4. PairRefusal(t, x, y) # "ok"
  BY RefusalIsNoResult
<1>5. DensityHeatmap(t, x, y, clip) = View("ok", <<Size(counted)>>, Size(counted), clip)
  <2>1. DensityHeatmap(t, x, y, clip)
          = CASE PairRefusal(t, x, y) # "" -> Refused(PairRefusal(t, x, y))
              [] counted = {} -> Refused("insufficient_data")
              [] OTHER -> View("ok", <<Size(counted)>>, Size(counted), clip)
    BY DEF DensityHeatmap
  <2> HIDE DEF counted
  <2>2. Refused(PairRefusal(t, x, y)).status # "ok" /\ Refused("insufficient_data").status # "ok"
    BY <1>4 DEF Refused, View
  <2> QED
    BY <2>1, <2>2
<1> HIDE DEF counted
<1> QED
  BY <1>3, <1>5, OneMarkAddsUp

ValuesOf(t, x, lines) == [i \in lines |-> t[i][x].value]

\* Frequencies are numbers of lines.
LEMMA CountsAreCounts ==
    ASSUME NEW t, IsGrid(t), NEW x \in AllColumns, NEW lines \in SUBSET DOMAIN t
    PROVE  /\ IsFiniteSet(lines) /\ Cardinality(lines) \in Nat
           /\ IsCountOf(CountsOf(t, x, lines), lines, ValuesOf(t, x, lines))
           /\ DOMAIN CountsOf(t, x, lines) = Distinct(t, x, lines)
           /\ Distinct(t, x, lines) \in SUBSET Int /\ IsFiniteSet(Distinct(t, x, lines))
           /\ \A v \in DOMAIN CountsOf(t, x, lines) : CountsOf(t, x, lines)[v] \in Nat
<1> DEFINE f == ValuesOf(t, x, lines)
           counts == CountsOf(t, x, lines)
<1>1. IsFiniteSet(lines) /\ Cardinality(lines) \in Nat
  BY LinesAreFinite
<1>2. \A i \in lines : f[i] = t[i][x].value
  BY DEF ValuesOf
<1>3. Distinct(t, x, lines) = {f[i] : i \in lines}
  BY <1>2 DEF Distinct
<1>4. \A v : {i \in lines : t[i][x].value = v} = {i \in lines : f[i] = v}
  BY <1>2
<1>5. counts = [v \in Distinct(t, x, lines) |-> Cardinality({i \in lines : t[i][x].value = v})]
  BY DEF CountsOf, Size
<1> HIDE DEF f, counts
<1>6. counts = [v \in {f[i] : i \in lines} |-> Cardinality({i \in lines : f[i] = v})]
  BY <1>3, <1>4, <1>5
<1>7. IsCountOf(counts, lines, f)
  BY <1>6 DEF IsCountOf
<1>8. DOMAIN counts = Distinct(t, x, lines)
  BY <1>5
<1>9. Distinct(t, x, lines) \in SUBSET Int /\ IsFiniteSet(Distinct(t, x, lines))
  BY DistinctValues DEF Numbers
<1>10. DOMAIN counts \in SUBSET DOMAIN counts
  OBVIOUS
<1>11. \A v \in DOMAIN counts : counts[v] \in Nat
  BY <1>1, <1>7, <1>10, LevelsAddUp
<1> QED
  BY <1>1, <1>7, <1>8, <1>9, <1>11 DEF f, counts

\* The marks of some levels count the rows that have them, fewer than all if a level is
\* left out.
LEMMA LevelsOfColumn ==
    ASSUME NEW lines, IsFiniteSet(lines), NEW f, NEW counts, IsCountOf(counts, lines, f),
           NEW levels \in SUBSET DOMAIN counts
    PROVE  Partly(View("ok", [v \in levels |-> counts[v]], Size(lines), levels # DOMAIN counts))
<1> DEFINE part == LinesOf(lines, f, levels)
           marks == [v \in levels |-> counts[v]]
<1>1. /\ Total(counts, levels) = Cardinality(part) /\ part \in SUBSET lines
      /\ levels = DOMAIN counts <=> part = lines
  BY LevelsAddUp
<1>2. SumFunction(marks) = Total(counts, levels)
  BY DEF Total
<1> HIDE DEF part, marks
<1>3. /\ Cardinality(part) \in Nat /\ Cardinality(lines) \in Nat
      /\ part # lines => Cardinality(part) < Cardinality(lines)
  BY <1>1, SomeLines
<1> QED
  BY <1>1, <1>2, <1>3 DEF Partly, View, Drawn, Size, marks

\* Whatever is held, the bucket counts the rest.
LEMMA FoldedAddsUp ==
    ASSUME NEW lines, IsFiniteSet(lines), NEW f, NEW counts, IsCountOf(counts, lines, f),
           NEW held \in SUBSET DOMAIN counts, NEW less
    PROVE  Exact(View("ok", Folded(counts, held), Size(lines), less))
<1> DEFINE beyond == (DOMAIN counts) \ held
           other == LinesOf(lines, f, beyond)
           rest == Total(counts, beyond)
           labels == held \cup (IF rest > 0 THEN {OtherLabel} ELSE {})
           key == [i \in lines |-> IF f[i] \in held THEN f[i] ELSE OtherLabel]
           marks == Folded(counts, held)
<1>1. beyond \in SUBSET DOMAIN counts
  OBVIOUS
<1>2. /\ IsFiniteSet(DOMAIN counts) /\ IsFiniteSet(held)
      /\ \A v \in DOMAIN counts : counts[v] \in Nat
  BY LevelsAddUp
<1>3. rest = Cardinality(other) /\ other \in SUBSET lines
  <2> HIDE DEF beyond
  <2> QED
    BY <1>1, LevelsAddUp
<1>4. DOMAIN counts = {f[i] : i \in lines}
  BY DEF IsCountOf
<1>5. other = {i \in lines : f[i] \notin held}
  BY <1>4 DEF LinesOf
<1>6. IsFiniteSet(other) /\ rest \in Nat /\ (other # {} => rest > 0)
  <2>1. IsFiniteSet(other)
    <3> HIDE DEF other
    <3> QED
      BY <1>3, FS_Subset
  <2> HIDE DEF other, rest
  <2> QED
    BY <1>3, <2>1, FS_CardinalityType, FS_EmptySet
<1>7. IsFiniteSet(labels)
  <2>1. IsFiniteSet({OtherLabel}) /\ IsFiniteSet({})
    BY FS_Singleton, FS_EmptySet
  <2> HIDE DEF rest
  <2>2. IsFiniteSet(IF rest > 0 THEN {OtherLabel} ELSE {})
    BY <2>1
  <2> QED
    BY <1>2, <2>2, FS_Union
<1>8. \A i \in lines : key[i] \in labels
  BY <1>5, <1>6
<1>9. marks = [v \in labels |-> (IF v \in held THEN counts[v] ELSE 0) + (IF v = OtherLabel THEN rest ELSE 0)]
  BY DEF Folded
<1>10. \A v \in held : counts[v] = Cardinality({i \in lines : f[i] = v})
  BY DEF IsCountOf
<1>11. ASSUME NEW v \in labels PROVE marks[v] = Cardinality({i \in lines : key[i] = v})
  <2> DEFINE mine == {i \in lines : key[i] = v}
             same == {i \in lines : f[i] = v}
  <2>1. CASE v = OtherLabel /\ v \in held
    <3>1. mine = same \cup other /\ same \cap other = {}
      BY <1>5, <2>1
    <3>2. same \in SUBSET lines
      OBVIOUS
    <3> HIDE DEF same, other, mine
    <3>3. IsFiniteSet(same)
      BY <3>2, FS_Subset
    <3>4. Cardinality(same) \in Nat /\ Cardinality(other) \in Nat
      BY <1>6, <3>3, FS_CardinalityType
    <3>5. Cardinality(mine) = Cardinality(same) + Cardinality(other)
      <4>1. Cardinality(same \cup other) = Cardinality(same) + Cardinality(other) - Cardinality(same \cap other)
        BY <1>6, <3>3, FS_Union
      <4>2. Cardinality(same \cap other) = 0
        BY <3>1, FS_EmptySet
      <4> QED
        BY <3>1, <3>4, <4>1, <4>2
    <3>6. counts[v] = Cardinality(same)
      BY <1>10, <2>1 DEF same
    <3>7. marks[v] = counts[v] + rest
      <4> HIDE DEF marks, rest
      <4> QED
        BY <1>9, <2>1
    <3> QED
      BY <1>3, <3>5, <3>6, <3>7 DEF mine
  <2>2. CASE v = OtherLabel /\ v \notin held
    <3>1. mine = other
      BY <1>5, <2>2
    <3>2. marks[v] = 0 + rest
      <4> HIDE DEF marks, rest
      <4> QED
        BY <1>9, <2>2
    <3> HIDE DEF mine, other, marks, rest
    <3>3. marks[v] = Cardinality(mine)
      BY <1>3, <1>6, <3>1, <3>2
    <3> QED
      BY <3>3 DEF mine
  <2>3. CASE v # OtherLabel
    <3>1. v \in held
      <4> HIDE DEF rest
      <4> QED
        BY <2>3
    <3>2. mine = same
      BY <2>3, <3>1
    <3>3. marks[v] = counts[v] + 0 /\ counts[v] \in Nat
      <4> HIDE DEF marks, rest
      <4> QED
        BY <1>2, <1>9, <2>3, <3>1
    <3>4. counts[v] = Cardinality(same)
      BY <1>10, <3>1
    <3> HIDE DEF mine, same, marks
    <3>5. marks[v] = Cardinality(mine)
      BY <3>2, <3>3, <3>4
    <3> QED
      BY <3>5 DEF mine
  <2> QED
    BY <2>1, <2>2, <2>3
<1>12. DOMAIN marks = labels
  <2> HIDE DEF labels, rest, marks
  <2> QED
    BY <1>9
<1> HIDE DEF labels, key, marks
<1>13. marks = [v \in labels |-> Cardinality({i \in lines : key[i] = v})]
  <2>1. marks = [v \in labels |-> marks[v]]
    BY <1>9
  <2> QED
    BY <1>11, <2>1
<1>14. Exact(View("ok", marks, Size(lines), less))
  BY <1>7, <1>8, <1>13, KeyedMarks
<1> QED
  BY <1>14 DEF marks

LinesCounted(t, x, withMissing) == IF withMissing THEN DOMAIN t ELSE Present(t, x)

\* What the counts of a column count.
LEMMA CategoriesCounted ==
    ASSUME NEW t, IsGrid(t), NEW x \in AllColumns, NEW withMissing \in BOOLEAN
    PROVE  /\ LinesCounted(t, x, withMissing) \in SUBSET DOMAIN t
           /\ CategoryCounts(t, x, withMissing) = CountsOf(t, x, LinesCounted(t, x, withMissing))
           /\ Population(t, x, withMissing) = Size(LinesCounted(t, x, withMissing))
<1>1. Present(t, x) \in SUBSET DOMAIN t
  BY UsableLines
<1>2. Cardinality(DOMAIN t) = Len(t)
  BY LinesAreFinite
<1> QED
  BY <1>1, <1>2 DEF LinesCounted, CategoryCounts, Population, Size

\* The levels that are kept are levels, whether or not the missing bucket is one.
LEMMA KeptAreLevels ==
    ASSUME NEW counts, IsFiniteSet(DOMAIN counts), DOMAIN counts \in SUBSET Int,
           \A v \in DOMAIN counts : counts[v] \in Nat,
           NEW n, n \in Nat \ {0}, NEW withMissing
    PROVE  TopKept(counts, n, withMissing) \in SUBSET DOMAIN counts
<1> DEFINE levels == DOMAIN counts
           k == n - 1
<1>1. n \in Nat /\ k \in Nat
  OBVIOUS
<1>2. IsFiniteSet(levels) /\ levels \in SUBSET Int /\ \A v \in levels : counts[v] \in Nat
  OBVIOUS
<1> HIDE DEF levels, k
<1>3. TopOf(counts, levels, n) \in SUBSET levels /\ TopOf(counts, levels, k) \in SUBSET levels
  BY <1>1, <1>2, TopIsOfLevels
<1> QED
  BY <1>3 DEF TopKept, levels, k

\* A limit on levels is positive.
LEMMA RoomForLevels == \A n \in 1 .. TopMax : Smaller(n, TopMax) \in Nat \ {0} /\ n \in Nat \ {0}
BY ChartsAssumption DEF Smaller

\* The most frequent values, with a bucket for all others or without.
LEMMA TopAddsUp ==
    ASSUME NEW t, IsGrid(t), NEW x \in AllColumns, NEW n \in 1 .. TopMax, NEW withMissing \in BOOLEAN
    PROVE  /\ Partly(TopFrequency(t, x, n, withMissing, FALSE))
           /\ Exact(TopFrequency(t, x, n, withMissing, TRUE))
<1> DEFINE lines == LinesCounted(t, x, withMissing)
           counts == CategoryCounts(t, x, withMissing)
           m == Smaller(n, TopMax)
           held == TopKept(counts, m, withMissing)
           f == ValuesOf(t, x, lines)
<1>1. lines \in SUBSET DOMAIN t /\ counts = CountsOf(t, x, lines)
      /\ Population(t, x, withMissing) = Size(lines)
  BY CategoriesCounted
<1>2. m \in Nat \ {0}
  BY RoomForLevels
<1> HIDE DEF lines, m
<1>3. IsFiniteSet(lines) /\ IsCountOf(CountsOf(t, x, lines), lines, f)
  BY <1>1, CountsAreCounts
<1>4. /\ IsFiniteSet(DOMAIN counts) /\ DOMAIN counts \in SUBSET Int
      /\ \A v \in DOMAIN counts : counts[v] \in Nat
  <2>1. /\ DOMAIN CountsOf(t, x, lines) = Distinct(t, x, lines)
        /\ Distinct(t, x, lines) \in SUBSET Int /\ IsFiniteSet(Distinct(t, x, lines))
    BY <1>1, CountsAreCounts
  <2>2. \A v \in DOMAIN CountsOf(t, x, lines) : CountsOf(t, x, lines)[v] \in Nat
    BY <1>1, CountsAreCounts
  <2> HIDE DEF counts
  <2> QED
    BY <1>1, <2>1, <2>2
<1>5. IsCountOf(counts, lines, f)
  BY <1>1, <1>3
<1> HIDE DEF counts, f
<1>6. held \in SUBSET DOMAIN counts
  BY <1>2, <1>4, KeptAreLevels
<1>7. \A other \in BOOLEAN : TopFrequency(t, x, n, withMissing, other)
        = CASE IsNumericDtype(t, x) -> Refused("invalid_type")
            [] held = {} -> Refused("no_data")
            [] OTHER -> View("ok", IF other THEN Folded(counts, held) ELSE [v \in held |-> counts[v]],
                             Size(lines), held # DOMAIN counts)
  BY <1>1 DEF TopFrequency, counts, m
<1>8. Refused("invalid_type").status # "ok" /\ Refused("no_data").status # "ok"
  BY DEF Refused, View
<1> HIDE DEF held
<1>9. Partly(TopFrequency(t, x, n, withMissing, FALSE))
  <2>1. Partly(View("ok", [v \in held |-> counts[v]], Size(lines), held # DOMAIN counts))
    BY <1>3, <1>5, <1>6, LevelsOfColumn
  <2>2. TopFrequency(t, x, n, withMissing, FALSE).status = "ok" =>
          TopFrequency(t, x, n, withMissing, FALSE)
            = View("ok", [v \in held |-> counts[v]], Size(lines), held # DOMAIN counts)
    BY <1>7, <1>8
  <2> QED
    BY <2>1, <2>2 DEF Partly
<1>10. Exact(TopFrequency(t, x, n, withMissing, TRUE))
  <2> DEFINE less == held # DOMAIN counts
  <2>1. Exact(View("ok", Folded(counts, held), Size(lines), less))
    <3> HIDE DEF less
    <3> QED
      BY <1>3, <1>5, <1>6, FoldedAddsUp
  <2>2. TopFrequency(t, x, n, withMissing, TRUE).status = "ok" =>
          TopFrequency(t, x, n, withMissing, TRUE) = View("ok", Folded(counts, held), Size(lines), less)
    BY <1>7, <1>8
  <2> QED
    BY <2>1, <2>2 DEF Exact
<1> QED
  BY <1>9, <1>10

\* The bucket takes up what a Pareto view does not show.
LEMMA ParetoAddsUp ==
    ASSUME NEW t, IsGrid(t), NEW x \in AllColumns, NEW withMissing \in BOOLEAN
    PROVE  Exact(ParetoCategory(t, x, withMissing))
<1> DEFINE lines == LinesCounted(t, x, withMissing)
           counts == CategoryCounts(t, x, withMissing)
           frequent == {v \in DOMAIN counts : counts[v] >= RareBelow \/ (withMissing /\ v = MissingLabel)}
           held == ParetoShown(counts, withMissing)
           f == ValuesOf(t, x, lines)
           less == held # DOMAIN counts
<1>1. lines \in SUBSET DOMAIN t /\ counts = CountsOf(t, x, lines)
      /\ Population(t, x, withMissing) = Size(lines)
  BY CategoriesCounted
<1> HIDE DEF lines
<1>2. IsFiniteSet(lines) /\ IsCountOf(CountsOf(t, x, lines), lines, f)
  BY <1>1, CountsAreCounts
<1>3. /\ IsFiniteSet(DOMAIN counts) /\ DOMAIN counts \in SUBSET Int
      /\ \A v \in DOMAIN counts : counts[v] \in Nat
  <2>1. /\ DOMAIN CountsOf(t, x, lines) = Distinct(t, x, lines)
        /\ Distinct(t, x, lines) \in SUBSET Int /\ IsFiniteSet(Distinct(t, x, lines))
    BY <1>1, CountsAreCounts
  <2>2. \A v \in DOMAIN CountsOf(t, x, lines) : CountsOf(t, x, lines)[v] \in Nat
    BY <1>1, CountsAreCounts
  <2> HIDE DEF counts
  <2> QED
    BY <1>1, <2>1, <2>2
<1>4. IsCountOf(counts, lines, f)
  BY <1>1, <1>2
<1> HIDE DEF counts, f
<1>5. held \in SUBSET DOMAIN counts
  <2>1. frequent \in SUBSET DOMAIN counts
    OBVIOUS
  <2>2. held = TopOf(counts, frequent, TopMax) /\ TopMax \in Nat
    BY ChartsAssumption DEF ParetoShown
  <2> HIDE DEF frequent
  <2>3. IsFiniteSet(frequent) /\ frequent \in SUBSET Int /\ \A v \in frequent : counts[v] \in Nat
    BY <1>3, <2>1, FS_Subset
  <2>4. TopOf(counts, frequent, TopMax) \in SUBSET frequent
    BY <2>2, <2>3, TopIsOfLevels
  <2> QED
    BY <2>1, <2>2, <2>4
<1>6. Exact(View("ok", Folded(counts, held), Size(lines), less))
  <2> HIDE DEF less, held
  <2> QED
    BY <1>2, <1>4, <1>5, FoldedAddsUp
<1>7. ParetoCategory(t, x, withMissing)
        = CASE IsNumericDtype(t, x) -> Refused("invalid_type")
            [] Size(lines) = 0 -> Refused("no_data")
            [] IsNearUnique(Cardinality(DOMAIN counts), Size(lines)) -> Refused("near_unique")
            [] OTHER -> View("ok", Folded(counts, held), Size(lines), less)
  BY <1>1 DEF ParetoCategory, counts
<1>8. /\ Refused("invalid_type").status # "ok" /\ Refused("no_data").status # "ok"
      /\ Refused("near_unique").status # "ok"
  BY DEF Refused, View
<1> HIDE DEF held, less
<1>9. ParetoCategory(t, x, withMissing).status = "ok" =>
        ParetoCategory(t, x, withMissing) = View("ok", Folded(counts, held), Size(lines), less)
  BY <1>7, <1>8
<1> QED
  BY <1>6, <1>9 DEF Exact

\* Only the groups beyond the cap are left out.
LEMMA ByCategoryAddsUp ==
    ASSUME NEW t, IsGrid(t), NEW x \in AllColumns, NEW g \in AllColumns
    PROVE  Partly(NumericByCategory(t, x, g))
<1> DEFINE lines == Usable(t, x) \cap Present(t, g)
           counts == CountsOf(t, g, lines)
           held == TopOf(counts, DOMAIN counts, TopMax)
           f == ValuesOf(t, g, lines)
<1>1. lines \in SUBSET DOMAIN t
  BY UsableLines
<1>2. NumericByCategory(t, x, g)
        = CASE ~IsNumericDtype(t, x) \/ IsNumericDtype(t, g) -> Refused("invalid_type")
            [] lines = {} -> Refused("no_data")
            [] OTHER -> View("ok", [v \in held |-> counts[v]], Size(lines), held # DOMAIN counts)
  BY DEF NumericByCategory
<1> HIDE DEF lines
<1>3. IsFiniteSet(lines) /\ IsCountOf(counts, lines, f)
  BY <1>1, CountsAreCounts
<1>4. DOMAIN counts = Distinct(t, g, lines) /\ Distinct(t, g, lines) \in SUBSET Int /\ IsFiniteSet(Distinct(t, g, lines))
  BY <1>1, CountsAreCounts
<1>5. \A v \in DOMAIN counts : counts[v] \in Nat
  BY <1>1, CountsAreCounts
<1> HIDE DEF counts, f
<1>6. held \in SUBSET DOMAIN counts
  <2> DEFINE levels == DOMAIN counts
  <2>1. IsFiniteSet(levels) /\ levels \in SUBSET Int /\ \A v \in levels : counts[v] \in Nat
    BY <1>4, <1>5
  <2>2. TopMax \in Nat
    BY ChartsAssumption
  <2> HIDE DEF levels
  <2>3. TopOf(counts, levels, TopMax) \in SUBSET levels
    BY <2>1, <2>2, TopIsOfLevels
  <2> QED
    BY <2>3 DEF levels
<1> HIDE DEF held
<1>7. Partly(View("ok", [v \in held |-> counts[v]], Size(lines), held # DOMAIN counts))
  BY <1>3, <1>6, LevelsOfColumn
<1>8. Refused("invalid_type").status # "ok" /\ Refused("no_data").status # "ok"
  BY DEF Refused, View
<1>9. NumericByCategory(t, x, g).status = "ok" =>
        NumericByCategory(t, x, g) = View("ok", [v \in held |-> counts[v]], Size(lines), held # DOMAIN counts)
  BY <1>2, <1>8
<1> QED
  BY <1>7, <1>9 DEF Partly

\* The marks that a key makes of some lines, one for each of its values.
LEMMA ImageMarks ==
    ASSUME NEW lines, IsFiniteSet(lines), NEW key, NEW K, K = {key[i] : i \in lines},
           NEW marks, marks = [k \in K |-> Cardinality({i \in lines : key[i] = k})],
           NEW less
    PROVE  Exact(View("ok", marks, Size(lines), less))
<1>1. IsFiniteSet(K)
  BY ImageIsFinite
<1>2. \A i \in lines : key[i] \in K
  OBVIOUS
<1> QED
  BY <1>1, <1>2, KeyedMarks

TopLevels(t, z, lines) == TopOf(CountsOf(t, z, lines), Distinct(t, z, lines), TopMax)

LEMMA TopLevelsAreLevels ==
    ASSUME NEW t, IsGrid(t), NEW z \in AllColumns, NEW lines \in SUBSET DOMAIN t
    PROVE  TopLevels(t, z, lines) \in SUBSET Distinct(t, z, lines)
<1> DEFINE levels == Distinct(t, z, lines)
           counts == CountsOf(t, z, lines)
<1>1. levels \in SUBSET Int /\ IsFiniteSet(levels) /\ DOMAIN counts = levels
  BY CountsAreCounts
<1>2. \A v \in DOMAIN counts : counts[v] \in Nat
  BY CountsAreCounts
<1>3. TopMax \in Nat
  BY ChartsAssumption
<1>4. \A v \in levels : counts[v] \in Nat
  BY <1>1, <1>2
<1> HIDE DEF levels, counts
<1>5. TopOf(counts, levels, TopMax) \in SUBSET levels
  BY <1>1, <1>3, <1>4, TopIsOfLevels
<1> QED
  BY <1>5 DEF TopLevels, levels, counts

\* Only the rows of levels beyond the cap are left out.
LEMMA CrosstabAddsUp ==
    ASSUME NEW t, IsGrid(t), NEW x \in AllColumns, NEW y \in AllColumns
    PROVE  Partly(Crosstab(t, x, y))
<1> DEFINE lines == Present(t, x) \cap Present(t, y)
           topX == TopLevels(t, x, lines)
           topY == TopLevels(t, y, lines)
           capped == {i \in lines : t[i][x].value \in topX /\ t[i][y].value \in topY}
           cells == Distinct(t, x, capped) \X Distinct(t, y, capped)
           key == [i \in capped |-> <<t[i][x].value, t[i][y].value>>]
           marks == [c \in cells |-> Size({i \in capped : <<t[i][x].value, t[i][y].value>> = c})]
           less == \E z \in {x, y} : Distinct(t, z, lines) # TopLevels(t, z, lines)
<1>1. lines \in SUBSET DOMAIN t
  BY UsableLines
<1>2. Crosstab(t, x, y)
        = CASE IsNumericDtype(t, x) \/ IsNumericDtype(t, y) -> Refused("invalid_type")
            [] capped = {} -> Refused("no_data")
            [] OTHER -> View("ok", marks, Size(lines), less)
  BY DEF Crosstab, TopLevels
<1> HIDE DEF lines
<1>3. topX \in SUBSET Distinct(t, x, lines) /\ topY \in SUBSET Distinct(t, y, lines)
  BY <1>1, TopLevelsAreLevels
<1>4. capped \in SUBSET lines /\ capped \in SUBSET DOMAIN t
  BY <1>1
<1>5. IsFiniteSet(capped) /\ IsFiniteSet(lines)
  <2> HIDE DEF capped
  <2> QED
    BY <1>1, <1>4, LinesAreFinite
<1>6. less <=> capped # lines
  <2>1. less <=> (Distinct(t, x, lines) # topX \/ Distinct(t, y, lines) # topY)
    OBVIOUS
  <2> HIDE DEF topX, topY, less
  <2> QED
    BY <1>3, <2>1 DEF Distinct
<1>7. IsFiniteSet(cells)
  <2> HIDE DEF capped
  <2>1. IsFiniteSet(Distinct(t, x, capped)) /\ IsFiniteSet(Distinct(t, y, capped))
    BY <1>4, DistinctValues DEF Numbers
  <2> QED
    BY <2>1, FS_Product
<1>8. \A i \in capped : key[i] \in cells
  <2> HIDE DEF capped
  <2> QED
    BY DEF Distinct
<1>9. marks = [c \in cells |-> Cardinality({i \in capped : key[i] = c})]
  <2> HIDE DEF cells, capped
  <2>1. \A c : {i \in capped : <<t[i][x].value, t[i][y].value>> = c} = {i \in capped : key[i] = c}
    OBVIOUS
  <2> HIDE DEF key
  <2> QED
    BY <2>1 DEF Size
<1> HIDE DEF key, cells, marks, capped, less
<1>10. \A any : Exact(View("ok", marks, Size(capped), any))
  BY <1>5, <1>7, <1>8, <1>9, KeyedMarks
<1>11. SumFunction(marks) = Size(capped)
  <2>1. Exact(View("ok", marks, Size(capped), FALSE))
    BY <1>10
  <2> QED
    BY <2>1 DEF Exact, View, Drawn
<1>12. /\ Size(capped) \in Nat /\ Size(lines) \in Nat
       /\ capped # lines => Size(capped) < Size(lines)
  BY <1>4, <1>5, SomeLines DEF Size
<1>13. Partly(View("ok", marks, Size(lines), less))
  BY <1>6, <1>11, <1>12 DEF Partly, View, Drawn
<1>14. Refused("invalid_type").status # "ok" /\ Refused("no_data").status # "ok"
  BY DEF Refused, View
<1>15. Crosstab(t, x, y).status = "ok" => Crosstab(t, x, y) = View("ok", marks, Size(lines), less)
  BY <1>2, <1>14
<1> QED
  BY <1>13, <1>15 DEF Partly

\* Every dated row falls into one period.
LEMMA InTimeAddsUp ==
    ASSUME NEW t, IsGrid(t), NEW d, NEW metric, NEW granularity
    PROVE  Exact(InTime(t, d, metric, granularity))
<1> DEFINE lines == DatedRows(t, d, metric)
           key == [i \in lines |-> Period(t[i][d].value, granularity)]
           K == Periods(t, d, lines, granularity)
           marks == InPeriods(t, d, lines, granularity)
           less == lines # DOMAIN t
<1>1. lines \in SUBSET DOMAIN t
  BY UsableLines DEF DatedRows
<1>2. InTime(t, d, metric, granularity)
        = CASE MetricRefused(t, metric) -> Refused("invalid_type")
            [] ~Confident(t, d) -> Refused("low_parse_confidence")
            [] lines = {} -> Refused("no_data")
            [] Cardinality(K) < 2 -> Refused("insufficient_data")
            [] OTHER -> View("ok", marks, Size(lines), less)
  BY DEF InTime
<1> HIDE DEF lines
<1>3. IsFiniteSet(lines)
  BY <1>1, LinesAreFinite
<1>4. K = {key[i] : i \in lines}
  BY DEF Periods
<1>5. marks = [k \in K |-> Cardinality({i \in lines : key[i] = k})]
  <2>1. \A k : {i \in lines : Period(t[i][d].value, granularity) = k} = {i \in lines : key[i] = k}
    OBVIOUS
  <2>2. marks = [k \in K |-> Cardinality({i \in lines : Period(t[i][d].value, granularity) = k})]
    BY DEF InPeriods, Size
  <2> HIDE DEF key, marks, K
  <2> QED
    BY <2>1, <2>2
<1> HIDE DEF key, K, marks, less
<1>6. Exact(View("ok", marks, Size(lines), less))
  BY <1>3, <1>4, <1>5, ImageMarks
<1>7. /\ Refused("invalid_type").status # "ok" /\ Refused("no_data").status # "ok"
      /\ Refused("low_parse_confidence").status # "ok" /\ Refused("insufficient_data").status # "ok"
  BY DEF Refused, View
<1>8. InTime(t, d, metric, granularity).status = "ok" =>
        InTime(t, d, metric, granularity) = View("ok", marks, Size(lines), less)
  BY <1>2, <1>7
<1> QED
  BY <1>6, <1>8 DEF Exact

LEMMA TrendAddsUp ==
    ASSUME NEW t, IsGrid(t), NEW d, NEW metric, NEW granularity
    PROVE  Exact(DatetimeTrend(t, d, metric, granularity))
<1>1. Exact(InTime(t, d, metric, granularity))
  BY InTimeAddsUp
<1>2. Exact(Refused("no_data"))
  BY DEF Exact, Refused, View
<1> QED
  BY <1>1, <1>2 DEF DatetimeTrend

LEMMA TimeCategoriesAddUp ==
    ASSUME NEW t, IsGrid(t), NEW d, NEW x, NEW granularity, NEW n
    PROVE  Exact(DatetimeCategories(t, d, x, granularity, n))
<1> DEFINE lines == Parsed(t, d)
           counts == CountsOf(t, x, lines)
           held == TopOf(counts, DOMAIN counts, n)
           Label(i) == IF t[i][x].value \in held THEN t[i][x].value ELSE OtherLabel
           cells == {<<Period(t[i][d].value, granularity), Label(i)>> : i \in lines}
           key == [i \in lines |-> <<Period(t[i][d].value, granularity), Label(i)>>]
           marks == [c \in cells |-> Size({i \in lines : <<Period(t[i][d].value, granularity), Label(i)>> = c})]
           less == held # DOMAIN counts
<1>1. lines \in SUBSET DOMAIN t
  BY UsableLines
<1>2. DatetimeCategories(t, d, x, granularity, n)
        = CASE IsNumericDtype(t, x) -> Refused("invalid_type")
            [] ~Confident(t, d) -> Refused("low_parse_confidence")
            [] lines = {} -> Refused("no_data")
            [] OTHER -> View("ok", marks, Size(lines), less)
  BY DEF DatetimeCategories
<1> HIDE DEF lines, held
<1>3. IsFiniteSet(lines)
  BY <1>1, LinesAreFinite
<1>4. \A i \in lines : key[i] = <<Period(t[i][d].value, granularity), Label(i)>>
  OBVIOUS
<1> HIDE DEF key, Label
<1>5. cells = {key[i] : i \in lines}
  BY <1>4
<1>6. \A c : {i \in lines : <<Period(t[i][d].value, granularity), Label(i)>> = c} = {i \in lines : key[i] = c}
  BY <1>4
<1>7. marks = [c \in cells |-> Cardinality({i \in lines : key[i] = c})]
  <2> HIDE DEF cells
  <2> QED
    BY <1>6 DEF Size
<1> HIDE DEF cells, marks, less
<1>8. Exact(View("ok", marks, Size(lines), less))
  BY <1>3, <1>5, <1>7, ImageMarks
<1>9. /\ Refused("invalid_type").status # "ok" /\ Refused("no_data").status # "ok"
      /\ Refused("low_parse_confidence").status # "ok"
  BY DEF Refused, View
<1>10. DatetimeCategories(t, d, x, granularity, n).status = "ok" =>
        DatetimeCategories(t, d, x, granularity, n) = View("ok", marks, Size(lines), less)
  BY <1>2, <1>9
<1> QED
  BY <1>8, <1>10 DEF Exact

-----------------------------------------------------------------------------
(***************************************************************************)
(* Columns in order                                                        *)
(***************************************************************************)

\* The place of a column in the frame.
LEMMA ColumnsHavePlaces ==
    /\ IsFiniteSet(AllColumns) /\ Len(ColumnSeq) \in Nat /\ DOMAIN ColumnSeq = 1 .. Len(ColumnSeq)
    /\ \A x \in AllColumns : \E j \in DOMAIN ColumnSeq : ColumnSeq[j] = x
    /\ \A j, k \in DOMAIN ColumnSeq : ColumnSeq[j] = ColumnSeq[k] => j = k
    /\ \A j, k \in DOMAIN ColumnSeq : <<ColumnSeq[j], ColumnSeq[k]>> \in FrameOrder <=> j <= k
<1> DEFINE n == Len(ColumnSeq)
           ranks == DOMAIN ColumnSeq
<1>1. n \in Nat /\ ranks = 1 .. n
  BY ChartsAssumption
<1>2. IsFiniteSet(ranks)
  <2> HIDE DEF n
  <2> QED
    BY <1>1, FS_Interval
<1>3. IsFiniteSet(AllColumns)
  <2>1. AllColumns = {ColumnSeq[k] : k \in ranks}
    BY DEF AllColumns
  <2> HIDE DEF ranks
  <2> QED
    BY <1>2, <2>1, ImageIsFinite
<1>4. \A j, k \in ranks : ColumnSeq[j] = ColumnSeq[k] => j = k
  BY ChartsAssumption DEF IsInjective
<1>5. \A x \in AllColumns : \E j \in ranks : ColumnSeq[j] = x
  BY DEF AllColumns
<1>6. ASSUME NEW j \in ranks, NEW k \in ranks PROVE <<ColumnSeq[j], ColumnSeq[k]>> \in FrameOrder <=> j <= k
  <2>1. ASSUME j <= k PROVE <<ColumnSeq[j], ColumnSeq[k]>> \in FrameOrder
    <3>1. <<j, k>> \in {q \in ranks \X ranks : q[1] <= q[2]}
      BY <2>1
    <3>2. <<ColumnSeq[j], ColumnSeq[k]>> = <<ColumnSeq[<<j, k>>[1]], ColumnSeq[<<j, k>>[2]]>>
      OBVIOUS
    <3> QED
      BY <3>1, <3>2 DEF FrameOrder
  <2>2. ASSUME <<ColumnSeq[j], ColumnSeq[k]>> \in FrameOrder PROVE j <= k
    <3>1. PICK p \in {q \in ranks \X ranks : q[1] <= q[2]} :
              <<ColumnSeq[p[1]], ColumnSeq[p[2]]>> = <<ColumnSeq[j], ColumnSeq[k]>>
      BY <2>2 DEF FrameOrder
    <3>2. p[1] \in ranks /\ p[2] \in ranks /\ p[1] <= p[2]
      OBVIOUS
    <3>3. ColumnSeq[p[1]] = ColumnSeq[j] /\ ColumnSeq[p[2]] = ColumnSeq[k]
      BY <3>1
    <3>4. p[1] = j /\ p[2] = k
      BY <1>4, <3>2, <3>3
    <3> QED
      BY <3>2, <3>4
  <2> QED
    BY <2>1, <2>2
<1> QED
  BY <1>1, <1>3, <1>4, <1>5, <1>6

\* The order of the frame is total.
LEMMA FrameIsOrdered == TotalOrder(AllColumns, FrameOrder)
<1> DEFINE At(x) == CHOOSE j \in DOMAIN ColumnSeq : ColumnSeq[j] = x
<1>1. \A x \in AllColumns : At(x) \in DOMAIN ColumnSeq /\ ColumnSeq[At(x)] = x
  BY ColumnsHavePlaces
<1>2. \A x \in AllColumns : At(x) \in Int
  BY <1>1, ColumnsHavePlaces
<1> HIDE DEF At
<1>3. \A x, y \in AllColumns : <<x, y>> \in FrameOrder <=> At(x) <= At(y)
  <2>1. TAKE x, y \in AllColumns
  <2>2. <<ColumnSeq[At(x)], ColumnSeq[At(y)]>> \in FrameOrder <=> At(x) <= At(y)
    BY <1>1, ColumnsHavePlaces
  <2> QED
    BY <1>1, <2>2
<1>4. \A x, y \in AllColumns : At(x) = At(y) => x = y
  BY <1>1
<1>5. \A x \in AllColumns : <<x, x>> \in FrameOrder
  BY <1>2, <1>3
<1>6. \A x, y \in AllColumns : <<x, y>> \in FrameOrder \/ <<y, x>> \in FrameOrder
  <2>1. \A x, y \in AllColumns : At(x) <= At(y) \/ At(y) <= At(x)
    BY <1>2
  <2> QED
    BY <1>3, <2>1
<1>7. \A x, y \in AllColumns : <<x, y>> \in FrameOrder /\ <<y, x>> \in FrameOrder => x = y
  <2>1. \A x, y \in AllColumns : At(x) <= At(y) /\ At(y) <= At(x) => x = y
    BY <1>2, <1>4
  <2> QED
    BY <1>3, <2>1
<1>8. \A x, y, z \in AllColumns : <<x, y>> \in FrameOrder /\ <<y, z>> \in FrameOrder => <<x, z>> \in FrameOrder
  <2>1. \A x, y, z \in AllColumns : At(x) <= At(y) /\ At(y) <= At(z) => At(x) <= At(z)
    BY <1>2
  <2> QED
    BY <1>3, <2>1
<1> QED
  BY <1>5, <1>6, <1>7, <1>8 DEF TotalOrder

\* So is the order by what is missing.
LEMMA MissingIsOrdered ==
    ASSUME NEW t, IsGrid(t)
    PROVE  TotalOrder(AllColumns, MissingOrder(t))
<1> DEFINE Gaps(x) == Size(MissingIn(t, x))
<1>1. \A x : Gaps(x) \in Nat
  <2>1. TAKE x
  <2>2. MissingIn(t, x) \in SUBSET DOMAIN t
    BY DEF MissingIn
  <2> QED
    BY <2>2, LinesAreFinite DEF Size
<1>2. \A x, y \in AllColumns : <<x, y>> \in MissingOrder(t) <=>
         Gaps(x) > Gaps(y) \/ (Gaps(x) = Gaps(y) /\ <<x, y>> \in FrameOrder)
  BY DEF MissingOrder
<1> HIDE DEF Gaps
<1>3. \A x \in AllColumns : <<x, x>> \in MissingOrder(t)
  BY <1>2, FrameIsOrdered DEF TotalOrder
<1>4. \A x, y \in AllColumns : <<x, y>> \in MissingOrder(t) \/ <<y, x>> \in MissingOrder(t)
  <2>1. TAKE x, y \in AllColumns
  <2>2. Gaps(x) > Gaps(y) \/ Gaps(y) > Gaps(x) \/ Gaps(x) = Gaps(y)
    BY <1>1
  <2>3. <<x, y>> \in FrameOrder \/ <<y, x>> \in FrameOrder
    BY FrameIsOrdered DEF TotalOrder
  <2> QED
    BY <1>2, <2>2, <2>3
<1>5. \A x, y \in AllColumns : <<x, y>> \in MissingOrder(t) /\ <<y, x>> \in MissingOrder(t) => x = y
  <2> SUFFICES ASSUME NEW x \in AllColumns, NEW y \in AllColumns,
                      <<x, y>> \in MissingOrder(t), <<y, x>> \in MissingOrder(t)
               PROVE  x = y
    OBVIOUS
  <2>1. <<x, y>> \in FrameOrder /\ <<y, x>> \in FrameOrder
    BY <1>1, <1>2
  <2> QED
    BY <2>1, FrameIsOrdered DEF TotalOrder
<1>6. \A x, y, z \in AllColumns :
         <<x, y>> \in MissingOrder(t) /\ <<y, z>> \in MissingOrder(t) => <<x, z>> \in MissingOrder(t)
  <2> SUFFICES ASSUME NEW x \in AllColumns, NEW y \in AllColumns, NEW z \in AllColumns,
                      <<x, y>> \in MissingOrder(t), <<y, z>> \in MissingOrder(t)
               PROVE  <<x, z>> \in MissingOrder(t)
    OBVIOUS
  <2>1. /\ Gaps(x) > Gaps(y) \/ (Gaps(x) = Gaps(y) /\ <<x, y>> \in FrameOrder)
        /\ Gaps(y) > Gaps(z) \/ (Gaps(y) = Gaps(z) /\ <<y, z>> \in FrameOrder)
    BY <1>2
  <2>2. <<x, y>> \in FrameOrder /\ <<y, z>> \in FrameOrder => <<x, z>> \in FrameOrder
    BY FrameIsOrdered DEF TotalOrder
  <2>3. Gaps(x) > Gaps(z) \/ (Gaps(x) = Gaps(z) /\ <<x, z>> \in FrameOrder)
    BY <1>1, <2>1, <2>2
  <2> QED
    BY <1>2, <2>3
<1> QED
  BY <1>3, <1>4, <1>5, <1>6 DEF TotalOrder

\* The columns of a set, one at every place.
LEMMA ColumnsInOrder ==
    ASSUME NEW S \in SUBSET AllColumns, NEW order, TotalOrder(AllColumns, order)
    PROVE  /\ IsFiniteSet(S) /\ Cardinality(S) \in Nat
           /\ DOMAIN ColumnsBy(S, order) = 1 .. Cardinality(S) /\ Len(ColumnsBy(S, order)) = Cardinality(S)
           /\ \A r \in 1 .. Cardinality(S) : ColumnsBy(S, order)[r] \in S
           /\ \A x \in S : \E r \in 1 .. Cardinality(S) : ColumnsBy(S, order)[r] = x
           /\ \A r, q \in 1 .. Cardinality(S) : ColumnsBy(S, order)[r] = ColumnsBy(S, order)[q] => r = q
<1> DEFINE columns == ColumnsBy(S, order)
           n == Cardinality(S)
<1>1. IsFiniteSet(S) /\ n \in Nat
  BY ColumnsHavePlaces, FS_Subset, FS_CardinalityType
<1>2. TotalOrder(S, order)
  BY DEF TotalOrder
<1>3. columns = InOrder(S, order)
  BY DEF ColumnsBy, InOrder
<1>4. /\ DOMAIN columns = 1 .. n
      /\ \A x \in S : Cardinality(UpTo(S, order, x)) \in 1 .. n /\ columns[Cardinality(UpTo(S, order, x))] = x
      /\ \A r \in 1 .. n : columns[r] \in S /\ Cardinality(UpTo(S, order, columns[r])) = r
  BY <1>1, <1>2, <1>3, PlacesInOrder
<1>5. columns = [r \in 1 .. n |-> columns[r]]
  <2> DEFINE At(r) == CHOOSE x \in S : Cardinality({y \in S : <<y, x>> \in order}) = r
  <2>1. columns = [r \in 1 .. n |-> At(r)]
    BY DEF ColumnsBy
  <2> HIDE DEF At, columns, n
  <2> QED
    BY <2>1
<1> HIDE DEF columns, n
<1>6. Len(columns) = n
  BY <1>1, <1>5, LengthOfBuilt
<1>7. \A r, q \in 1 .. n : columns[r] = columns[q] => r = q
  BY <1>4
<1> QED
  BY <1>1, <1>4, <1>6, <1>7 DEF columns, n

-----------------------------------------------------------------------------
\* The cells that are missing.
MissingCells(t) == {p \in (DOMAIN t) \X AllColumns : p[1] \in MissingIn(t, p[2])}

\* Counted column by column, in any columns that have them all.
LEMMA MissingAddsUp ==
    ASSUME NEW t, IsGrid(t), NEW S \in SUBSET AllColumns,
           \A x \in AllColumns : MissingIn(t, x) # {} => x \in S,
           NEW marks, marks = [k \in 1 .. Cardinality(S) |-> Size(MissingIn(t, ColumnsBy(S, MissingOrder(t))[k]))]
    PROVE  SumFunction(marks) = Cardinality(MissingCells(t))
<1> DEFINE columns == ColumnsBy(S, MissingOrder(t))
           n == Cardinality(S)
           cells == MissingCells(t)
           PlaceOf(x) == CHOOSE r \in 1 .. n : columns[r] = x
           key == [p \in cells |-> PlaceOf(p[2])]
<1>1. /\ n \in Nat
      /\ \A r \in 1 .. n : columns[r] \in S
      /\ \A x \in S : \E r \in 1 .. n : columns[r] = x
      /\ \A r, q \in 1 .. n : columns[r] = columns[q] => r = q
  BY MissingIsOrdered, ColumnsInOrder
<1>2. marks = [k \in 1 .. n |-> Size(MissingIn(t, columns[k]))]
  OBVIOUS
<1>3. IsFiniteSet(cells)
  <2> DEFINE grid == (DOMAIN t) \X AllColumns
  <2>1. IsFiniteSet(grid)
    BY LinesAreFinite, ColumnsHavePlaces, FS_Product
  <2>2. cells \in SUBSET grid
    BY DEF MissingCells
  <2> HIDE DEF grid, cells
  <2> QED
    BY <2>1, <2>2, FS_Subset
<1> HIDE DEF columns, n
<1>4. \A x \in S : PlaceOf(x) \in 1 .. n /\ columns[PlaceOf(x)] = x
  BY <1>1
<1> HIDE DEF PlaceOf
<1>5. \A p \in cells : p[2] \in S /\ p[1] \in MissingIn(t, p[2]) /\ p[2] \in AllColumns
  BY DEF MissingCells
<1>6. \A p \in cells : key[p] \in DOMAIN marks
  BY <1>2, <1>4, <1>5
<1>7. IsFiniteSet(DOMAIN marks)
  BY <1>1, <1>2, FS_Interval
<1>8. ASSUME NEW k \in DOMAIN marks PROVE marks[k] = Cardinality({p \in cells : key[p] = k})
  <2> DEFINE x == columns[k]
             gaps == MissingIn(t, x)
  <2>1. k \in 1 .. n /\ x \in S /\ x \in AllColumns /\ marks[k] = Cardinality(gaps)
    BY <1>1, <1>2 DEF Size
  <2>2. gaps \in SUBSET DOMAIN t
    BY DEF MissingIn
  <2>3. IsFiniteSet(gaps) /\ Cardinality(gaps) \in Nat
    <3> HIDE DEF gaps
    <3> QED
      BY <2>2, LinesAreFinite
  <2>4. {p \in cells : key[p] = k} = gaps \X {x}
    <3>1. ASSUME NEW p \in cells PROVE key[p] = k <=> p[2] = x
      <4>1. key[p] = PlaceOf(p[2]) /\ p[2] \in S
        BY <1>5
      <4>2. PlaceOf(p[2]) \in 1 .. n /\ columns[PlaceOf(p[2])] = p[2]
        BY <1>4, <4>1
      <4> QED
        BY <1>1, <2>1, <4>1, <4>2
    <3>2. {p \in cells : key[p] = k} = {p \in cells : p[2] = x}
      BY <3>1
    <3> HIDE DEF x
    <3>3. {p \in cells : p[2] = x} = gaps \X {x}
      BY <2>1, <2>2 DEF MissingCells
    <3> QED
      BY <3>2, <3>3
  <2>5. IsFiniteSet({x}) /\ Cardinality({x}) = 1
    BY FS_Singleton
  <2> HIDE DEF gaps, x
  <2>6. Cardinality(gaps \X {x}) = Cardinality(gaps) * Cardinality({x})
    BY <2>3, <2>5, FS_Product
  <2>7. Cardinality(gaps \X {x}) = Cardinality(gaps)
    BY <2>3, <2>5, <2>6
  <2> QED
    BY <2>1, <2>4, <2>7
<1> HIDE DEF key, cells
<1>9. SumFunction(marks) = Cardinality(cells)
  BY <1>3, <1>6, <1>7, <1>8, SumOfParts
<1> QED
  BY <1>9 DEF cells

\* A line is missing from a scatter only because of its sample.
LEMMA TrendLineIsSampled ==
    ASSUME NEW t, NEW x, NEW y, NEW plot,
           BoundedScatter(t, x, y, plot).status = "ok", LinearTrendline(t, x, y, plot).status # "ok"
    PROVE  BoundedScatter(t, x, y, plot).less
<1>1. PairRefusal(t, x, y) = ""
  <2> SUFFICES ASSUME PairRefusal(t, x, y) # ""
               PROVE  FALSE
    OBVIOUS
  <2>1. BoundedScatter(t, x, y, plot) = Refused(PairRefusal(t, x, y))
    BY DEF BoundedScatter
  <2>2. Refused(PairRefusal(t, x, y)).status = PairRefusal(t, x, y)
    BY RefusedIsNothing
  <2> QED
    BY <2>1, <2>2, RefusalIsNoResult
<1>2. BoundedScatter(t, x, y, plot).less <=> plot # FinitePairs(t, x, y)
  BY <1>1 DEF BoundedScatter, View
<1>3. IsConstant(t, x, plot)
  BY DEF LinearTrendline, View
<1>4. ~IsConstant(t, x, FinitePairs(t, x, y))
  BY <1>1 DEF PairRefusal
<1> QED
  BY <1>2, <1>3, <1>4

-----------------------------------------------------------------------------
\* The columns with missing cells.
Gappy(t) == {x \in AllColumns : MissingIn(t, x) # {}}

\* The bars count every missing cell of the frame.
LEMMA BarAddsUp ==
    ASSUME NEW t, IsGrid(t)
    PROVE  Drawn(MissingnessBar(t)) = Cardinality(MissingCells(t))
<1> DEFINE columns == ColumnsBy(AllColumns, MissingOrder(t))
           marks == [k \in DOMAIN columns |-> Size(MissingIn(t, columns[k]))]
<1>1. DOMAIN columns = 1 .. Cardinality(AllColumns)
  BY MissingIsOrdered, ColumnsInOrder
<1>2. marks = [k \in 1 .. Cardinality(AllColumns) |-> Size(MissingIn(t, ColumnsBy(AllColumns, MissingOrder(t))[k]))]
  BY <1>1
<1>3. Drawn(MissingnessBar(t)) = SumFunction(marks)
  BY DEF MissingnessBar, MissingnessSummary, Drawn, View
<1> HIDE DEF marks
<1>4. SumFunction(marks) = Cardinality(MissingCells(t))
  BY <1>2, MissingAddsUp
<1> QED
  BY <1>3, <1>4

\* A pattern that leaves nothing out counts the same cells.
LEMMA PatternAddsUp ==
    ASSUME NEW t, IsGrid(t), MissingnessPattern(t).status = "ok", ~MissingnessPattern(t).less
    PROVE  Drawn(MissingnessPattern(t)) = Drawn(MissingnessBar(t))
<1> DEFINE columns == ColumnsBy(Gappy(t), MissingOrder(t))
           lines == RowPositions(Len(t), PlotRows)
           n == Cardinality(Gappy(t))
           marks == [k \in DOMAIN Atmost(AssocColumns, columns) |-> Size(MissingIn(t, columns[k]) \cap lines)]
<1>1. MissingColumns(t, FALSE) = columns
  BY DEF MissingColumns, Gappy
<1>2. Gappy(t) \in SUBSET AllColumns
  BY DEF Gappy
<1>3. /\ n \in Nat /\ DOMAIN columns = 1 .. n /\ Len(columns) = n
      /\ \A r \in 1 .. n : columns[r] \in Gappy(t)
  BY <1>2, MissingIsOrdered, ColumnsInOrder
<1>4. MissingnessPattern(t) = IF columns = <<>> THEN Refused("no_missing_values")
          ELSE View("ok", marks, 0, lines # DOMAIN t \/ Len(columns) > AssocColumns)
  BY <1>1 DEF MissingnessPattern
<1> HIDE DEF columns, marks, lines, n
<1>5. columns # <<>>
  BY <1>4, RefusedIsNothing
<1>6. /\ Drawn(MissingnessPattern(t)) = SumFunction(marks)
      /\ lines = DOMAIN t /\ ~(Len(columns) > AssocColumns)
  <2> DEFINE more == lines # DOMAIN t \/ Len(columns) > AssocColumns
  <2>1. MissingnessPattern(t) = View("ok", marks, 0, more)
    BY <1>4, <1>5
  <2> HIDE DEF more
  <2>2. MissingnessPattern(t).marks = marks /\ (MissingnessPattern(t).less <=> more)
    BY <2>1 DEF View
  <2> QED
    BY <2>2 DEF more, Drawn
<1>7. DOMAIN Atmost(AssocColumns, columns) = 1 .. n
  <2>1. columns = [r \in 1 .. n |-> columns[r]]
    <3> DEFINE At(r) == CHOOSE x \in Gappy(t) : Cardinality({y \in Gappy(t) : <<y, x>> \in MissingOrder(t)}) = r
    <3>1. columns = [r \in 1 .. n |-> At(r)]
      BY DEF columns, n, ColumnsBy
    <3> HIDE DEF At
    <3> QED
      BY <3>1
  <2>2. columns \in Seq(Gappy(t))
    BY <1>3, <2>1
  <2>3. AssocColumns \in Nat
    BY ChartsAssumption
  <2>4. Atmost(AssocColumns, columns) = SubSeq(columns, 1, n)
    BY <1>3, <1>6, <2>3 DEF Atmost
  <2> QED
    BY <1>3, <2>2, <2>4
<1>8. \A k \in 1 .. n : MissingIn(t, columns[k]) \cap lines = MissingIn(t, columns[k])
  BY <1>6 DEF MissingIn
<1>9. marks = [k \in 1 .. n |-> Size(MissingIn(t, columns[k]))]
  BY <1>7, <1>8 DEF marks
<1>10. \A x \in AllColumns : MissingIn(t, x) # {} => x \in Gappy(t)
  BY DEF Gappy
<1>11. marks = [k \in 1 .. Cardinality(Gappy(t)) |-> Size(MissingIn(t, ColumnsBy(Gappy(t), MissingOrder(t))[k]))]
  BY <1>9 DEF n, columns
<1>12. SumFunction(marks) = Cardinality(MissingCells(t))
  BY <1>2, <1>10, <1>11, MissingAddsUp
<1> QED
  BY <1>6, <1>12, BarAddsUp

-----------------------------------------------------------------------------
(***************************************************************************)
(* The views of a page together                                            *)
(***************************************************************************)

CoveringViews == {"histogram", "density", "box", "scatter", "heatmap", "pareto", "top and other",
                  "trend", "aggregation", "time categories", "log histogram"}

CappedViews == {"top", "by category", "crosstab", "crosstab heatmap", "stacked"}

\* What ChartsAddUp asks of a view that is told apart by no other view.
AddsUp(name, v) ==
    v.status = "ok" =>
        /\ name \in CoveringViews => Drawn(v) = v.covers
        /\ name \in CappedViews => IF v.less THEN Drawn(v) < v.covers ELSE Drawn(v) = v.covers
        /\ name = "ecdf" => v.marks[Max(DOMAIN v.marks)] = v.covers
        /\ name = "qq" => {1, v.covers} \subseteq DOMAIN v.marks

EachAddsUp(d) == \A name \in DOMAIN d : AddsUp(name, d[name])

\* Without a view that is compared with another one.
Standalone(d) == EachAddsUp(d) /\ "trend line" \notin DOMAIN d /\ "pattern" \notin DOMAIN d

LinesAreSampled(d) ==
    "trend line" \in DOMAIN d => d["trend line"].status = "ok" \/ d["scatter"].less

PatternsAddUp(d) ==
    "pattern" \in DOMAIN d /\ d["pattern"].status = "ok" =>
        d["pattern"].less \/ Drawn(d["pattern"]) = Drawn(d["missing"])

\* What ChartsAddUp asks, in parts.
LEMMA AllAddUp ==
    ASSUME EachAddsUp(drawn), LinesAreSampled(drawn), PatternsAddUp(drawn)
    PROVE  ChartsAddUp
<1> SUFFICES ASSUME NEW name \in DOMAIN drawn
             PROVE  IF drawn[name].status /= "ok" THEN name = "trend line" => drawn["scatter"].less
                    ELSE
                    CASE name \in CoveringViews -> Drawn(drawn[name]) = drawn[name].covers
                      [] name \in CappedViews ->
                            IF drawn[name].less THEN Drawn(drawn[name]) < drawn[name].covers
                                                ELSE Drawn(drawn[name]) = drawn[name].covers
                      [] name = "ecdf" -> drawn[name].marks[Max(DOMAIN drawn[name].marks)] = drawn[name].covers
                      [] name = "qq"   -> {1, drawn[name].covers} \subseteq DOMAIN drawn[name].marks
                      [] name = "pattern" -> drawn[name].less \/ Drawn(drawn[name]) = Drawn(drawn["missing"])
                      [] OTHER         -> TRUE
  BY DEF ChartsAddUp, CoveringViews, CappedViews
<1> DEFINE v == drawn[name]
           most == drawn["scatter"].less
           exact == Drawn(v) = v.covers
           part == IF v.less THEN Drawn(v) < v.covers ELSE Drawn(v) = v.covers
           whole == v.marks[Max(DOMAIN v.marks)] = v.covers
           ends == {1, v.covers} \subseteq DOMAIN v.marks
           pattern == v.less \/ Drawn(v) = Drawn(drawn["missing"])
           ok == v.status = "ok"
<1>1. ok => /\ name \in CoveringViews => exact
            /\ name \in CappedViews => part
            /\ name = "ecdf" => whole
            /\ name = "qq" => ends
  BY DEF EachAddsUp, AddsUp
<1>2. ~ok => (name = "trend line" => most)
  BY DEF LinesAreSampled
<1>3. ok => (name = "pattern" => pattern)
  BY DEF PatternsAddUp
<1>4. "pattern" \notin CoveringViews \cup CappedViews
  BY DEF CoveringViews, CappedViews
<1> HIDE DEF most, exact, part, whole, ends, pattern, ok, v
<1>5. IF ~ok THEN name = "trend line" => most
      ELSE CASE name \in CoveringViews -> exact
             [] name \in CappedViews -> part
             [] name = "ecdf" -> whole
             [] name = "qq" -> ends
             [] name = "pattern" -> pattern
             [] OTHER -> TRUE
  <2>1. CASE ~ok
    BY <1>2, <2>1
  <2>2. CASE ok /\ name \in CoveringViews
    BY <1>1, <1>4, <2>2
  <2>3. CASE ok /\ name \in CappedViews /\ name \notin CoveringViews
    BY <1>1, <1>4, <2>3
  <2>4. CASE ok /\ name \notin CoveringViews \cup CappedViews
    BY <1>1, <1>3, <2>4
  <2> QED
    BY <2>1, <2>2, <2>3, <2>4
<1> QED
  BY <1>5 DEF v, most, exact, part, whole, ends, pattern, ok

PageAddsUp(d) == EachAddsUp(d) /\ LinesAreSampled(d) /\ PatternsAddUp(d)

LEMMA StandaloneAddsUp == \A d : Standalone(d) => PageAddsUp(d)
BY DEF PageAddsUp, Standalone, LinesAreSampled, PatternsAddUp

\* Pages are put together of pages.
LEMMA ViewsTogether ==
    ASSUME NEW a, NEW b
    PROVE  /\ DOMAIN (a ++ b) = DOMAIN a \cup DOMAIN b
           /\ \A n \in DOMAIN a : (a ++ b)[n] = a[n]
           /\ \A n \in DOMAIN b : n \notin DOMAIN a => (a ++ b)[n] = b[n]
           /\ EachAddsUp(a) /\ EachAddsUp(b) => EachAddsUp(a ++ b)
           /\ Standalone(a) /\ Standalone(b) => Standalone(a ++ b)
<1> DEFINE both == a ++ b
<1>1. both = [n \in DOMAIN a \cup DOMAIN b |-> IF n \in DOMAIN a THEN a[n] ELSE b[n]]
  BY DEF ++
<1> HIDE DEF both
<1>2. /\ DOMAIN both = DOMAIN a \cup DOMAIN b
      /\ \A n \in DOMAIN a : both[n] = a[n]
      /\ \A n \in DOMAIN b : n \notin DOMAIN a => both[n] = b[n]
  BY <1>1
<1>3. ASSUME EachAddsUp(a), EachAddsUp(b) PROVE EachAddsUp(both)
  <2> SUFFICES ASSUME NEW n \in DOMAIN both
               PROVE  AddsUp(n, both[n])
    BY DEF EachAddsUp
  <2>1. CASE n \in DOMAIN a
    BY <1>2, <1>3, <2>1 DEF EachAddsUp
  <2>2. CASE n \notin DOMAIN a
    BY <1>2, <1>3, <2>2 DEF EachAddsUp
  <2> QED
    BY <2>1, <2>2
<1>4. Standalone(a) /\ Standalone(b) => Standalone(both)
  BY <1>2, <1>3 DEF Standalone
<1> QED
  BY <1>2, <1>3, <1>4 DEF both

\* A page of one view, and of none.
LEMMA OneView ==
    ASSUME NEW name, NEW v
    PROVE  /\ DOMAIN ViewNamed(name, v) = {name} /\ ViewNamed(name, v)[name] = v
           /\ AddsUp(name, v) => EachAddsUp(ViewNamed(name, v))
           /\ AddsUp(name, v) /\ name \notin {"trend line", "pattern"} => Standalone(ViewNamed(name, v))
<1>1. DOMAIN ViewNamed(name, v) = {name} /\ ViewNamed(name, v)[name] = v
  BY DEF ViewNamed
<1>2. AddsUp(name, v) => EachAddsUp(ViewNamed(name, v))
  BY <1>1 DEF EachAddsUp
<1> QED
  BY <1>1, <1>2 DEF Standalone

LEMMA NoViews == DOMAIN <<>> = {} /\ EachAddsUp(<<>>) /\ Standalone(<<>>)
<1>1. DOMAIN <<>> = {}
  OBVIOUS
<1> QED
  BY <1>1 DEF EachAddsUp, Standalone

\* One view of each kind.
LEMMA KindsOfViews ==
    /\ CoveringViews \cap CappedViews = {}
    /\ {"ecdf", "qq", "trend line", "pattern"} \cap (CoveringViews \cup CappedViews) = {}
BY DEF CoveringViews, CappedViews

LEMMA CoveringAddsUp ==
    ASSUME NEW name \in CoveringViews, NEW v, Exact(v)
    PROVE  AddsUp(name, v)
<1>1. name \notin CappedViews /\ name # "ecdf" /\ name # "qq"
  BY KindsOfViews
<1> QED
  BY <1>1 DEF AddsUp, Exact

LEMMA CappedAddsUp ==
    ASSUME NEW name \in CappedViews, NEW v, Partly(v)
    PROVE  AddsUp(name, v)
<1>1. name \notin CoveringViews /\ name # "ecdf" /\ name # "qq"
  BY KindsOfViews
<1> QED
  BY <1>1 DEF AddsUp, Partly

LEMMA OtherAddsUp ==
    ASSUME NEW name, name \notin CoveringViews \cup CappedViews \cup {"ecdf", "qq"}, NEW v
    PROVE  AddsUp(name, v)
BY DEF AddsUp

-----------------------------------------------------------------------------
(***************************************************************************)
(* The tabs                                                                *)
(***************************************************************************)

LEMMA DensityAddsUp ==
    ASSUME NEW t, IsGrid(t), NEW x \in AllColumns, NEW bins \in Nat \ {0}
    PROVE  Exact(DensityCurve(t, x, bins))
<1> DEFINE histogram == NumericHistogram(t, x, bins)
           empty == histogram.status = "ok" /\ Drawn(histogram) = 0
<1>1. DensityCurve(t, x, bins) = IF empty THEN Refused("insufficient_data") ELSE histogram
  BY DEF DensityCurve
<1>2. Exact(histogram)
  BY HistogramAddsUp
<1>3. Exact(Refused("insufficient_data"))
  BY RefusedIsNothing DEF Exact
<1> HIDE DEF histogram, empty
<1> QED
  BY <1>1, <1>2, <1>3

LEMMA LogHistogramAddsUp ==
    ASSUME NEW t, IsGrid(t), NEW x \in AllColumns, NEW bins \in Nat \ {0}
    PROVE  Standalone(RenderLogHistogram(t, x, bins))
<1> DEFINE values == Distinct(t, x, Usable(t, x))
           positive == 1000 * Min(values) > Max(values) - Min(values)
           v == IF positive THEN NumericHistogram(t, x, bins) ELSE Refused("linear")
<1>1. RenderLogHistogram(t, x, bins) = ViewNamed("log histogram", v)
  BY DEF RenderLogHistogram
<1>2. Exact(NumericHistogram(t, x, bins)) /\ Exact(Refused("linear"))
  BY HistogramAddsUp, RefusedIsNothing DEF Exact
<1> HIDE DEF positive
<1>3. Exact(v)
  BY <1>2
<1>4. "log histogram" \in CoveringViews /\ "log histogram" \notin {"trend line", "pattern"}
  BY DEF CoveringViews
<1> HIDE DEF v
<1>5. AddsUp("log histogram", v)
  BY <1>3, <1>4, CoveringAddsUp
<1>6. Standalone(ViewNamed("log histogram", v))
  BY <1>4, <1>5, OneView
<1> QED
  BY <1>1, <1>6

LEMMA QQAndEcdfAddUp ==
    ASSUME NEW t, IsGrid(t), NEW x \in AllColumns
    PROVE  AddsUp("ecdf", NumericEcdf(t, x)) /\ AddsUp("qq", QQNormal(t, x))
<1>1. AddsUp("ecdf", NumericEcdf(t, x))
  <2> DEFINE v == NumericEcdf(t, x)
  <2>1. v.status = "ok" => v.marks[Max(DOMAIN v.marks)] = v.covers
    BY EcdfReachesAll
  <2>2. "ecdf" \notin CoveringViews /\ "ecdf" \notin CappedViews
    BY KindsOfViews
  <2> HIDE DEF v
  <2>3. AddsUp("ecdf", v)
    BY <2>1, <2>2 DEF AddsUp
  <2> QED
    BY <2>3 DEF v
<1>2. AddsUp("qq", QQNormal(t, x))
  <2> DEFINE v == QQNormal(t, x)
  <2>1. v.status = "ok" => 1 \in DOMAIN v.marks /\ v.covers \in DOMAIN v.marks
    BY QQKeepsEnds
  <2>2. "qq" \notin CoveringViews /\ "qq" \notin CappedViews
    BY KindsOfViews
  <2> HIDE DEF v
  <2>3. AddsUp("qq", v)
    BY <2>1, <2>2 DEF AddsUp
  <2> QED
    BY <2>3 DEF v
<1> QED
  BY <1>1, <1>2

LEMMA NumericTabAddsUp ==
    ASSUME IsGrid(explored), RenderUnivariateNumeric
    PROVE  Standalone(drawn') /\ UNCHANGED explored
<1>1. PICK col \in NumberColumns(explored), bins \in AutoHistogramBins :
          LET histogram == NumericHistogram(explored, col, bins)
              below == IF histogram.status /= "ok" THEN <<>>
                       ELSE ViewNamed("density", DensityCurve(explored, col, bins))
                            ++ ViewNamed("box", Boxplot(explored, col))
                            ++ RenderLogHistogram(explored, col, bins)
          IN  Draw(ViewNamed("histogram", histogram) ++ ViewNamed("ecdf", NumericEcdf(explored, col))
                   ++ RenderQQDiagnostic(explored, col) ++ below)
  BY DEF RenderUnivariateNumeric
<1> DEFINE histogram == ViewNamed("histogram", NumericHistogram(explored, col, bins))
           density == ViewNamed("density", DensityCurve(explored, col, bins))
           box == ViewNamed("box", Boxplot(explored, col))
           log == RenderLogHistogram(explored, col, bins)
           ecdf == ViewNamed("ecdf", NumericEcdf(explored, col))
           qq == ViewNamed("qq", QQNormal(explored, col))
           more == NumericHistogram(explored, col, bins).status /= "ok"
           below == IF more THEN <<>> ELSE density ++ box ++ log
<1>2. drawn' = histogram ++ ecdf ++ qq ++ below /\ UNCHANGED explored
  BY <1>1 DEF Draw, RenderQQDiagnostic
<1>3. col \in AllColumns /\ bins \in Nat \ {0}
  BY BinsMax DEF NumberColumns
<1>4. /\ Exact(NumericHistogram(explored, col, bins)) /\ Exact(DensityCurve(explored, col, bins))
      /\ Exact(Boxplot(explored, col))
  BY <1>3, HistogramAddsUp, DensityAddsUp, BoxAddsUp
<1>5. {"histogram", "density", "box"} \subseteq CoveringViews
  BY DEF CoveringViews
<1>6. /\ AddsUp("histogram", NumericHistogram(explored, col, bins))
      /\ AddsUp("density", DensityCurve(explored, col, bins))
      /\ AddsUp("box", Boxplot(explored, col))
  BY <1>4, <1>5, CoveringAddsUp
<1>7. Standalone(histogram) /\ Standalone(density) /\ Standalone(box)
  BY <1>6, OneView
<1>8. Standalone(ecdf) /\ Standalone(qq)
  BY <1>3, QQAndEcdfAddUp, OneView
<1>9. Standalone(log)
  BY <1>3, LogHistogramAddsUp
<1> HIDE DEF histogram, density, box, log, ecdf, qq, more
<1>10. Standalone(below)
  <2>1. Standalone(density ++ box)
    BY <1>7, ViewsTogether
  <2>2. Standalone((density ++ box) ++ log)
    BY <1>9, <2>1, ViewsTogether
  <2> QED
    BY <2>2, NoViews
<1> HIDE DEF below
<1>11. Standalone(histogram ++ ecdf)
  BY <1>7, <1>8, ViewsTogether
<1>12. Standalone((histogram ++ ecdf) ++ qq)
  BY <1>8, <1>11, ViewsTogether
<1>13. Standalone(((histogram ++ ecdf) ++ qq) ++ below)
  BY <1>10, <1>12, ViewsTogether
<1> QED
  BY <1>2, <1>13

LEMMA CategoricalTabAddsUp ==
    ASSUME IsGrid(explored), RenderUnivariateCategorical
    PROVE  Standalone(drawn') /\ UNCHANGED explored
<1>1. PICK x \in CategoricalOptions(explored), n \in 1 .. TopMax, withMissing \in BOOLEAN, other \in BOOLEAN :
          LET top == TopFrequency(explored, x, n, withMissing, other)
          IN  Draw(ViewNamed(IF other THEN "top and other" ELSE "top", top)
                   ++ (IF top.status = "ok" THEN RenderPareto(explored, x, withMissing) ELSE <<>>))
  BY DEF RenderUnivariateCategorical
<1>2. x \in AllColumns
  BY DEF CategoricalOptions
<1> DEFINE name == IF other THEN "top and other" ELSE "top"
           top == TopFrequency(explored, x, n, withMissing, other)
           pareto == RenderPareto(explored, x, withMissing)
           below == IF top.status = "ok" THEN pareto ELSE <<>>
<1>3. drawn' = ViewNamed(name, top) ++ below /\ UNCHANGED explored
  BY <1>1 DEF Draw
<1>4. AddsUp(name, top)
  <2>1. CASE other = TRUE
    <3>1. Exact(TopFrequency(explored, x, n, withMissing, TRUE))
      BY <1>2, TopAddsUp
    <3>2. "top and other" \in CoveringViews
      BY DEF CoveringViews
    <3>3. AddsUp("top and other", TopFrequency(explored, x, n, withMissing, TRUE))
      BY <3>1, <3>2, CoveringAddsUp
    <3> QED
      BY <2>1, <3>3
  <2>2. CASE other = FALSE
    <3>1. Partly(TopFrequency(explored, x, n, withMissing, FALSE))
      BY <1>2, TopAddsUp
    <3>2. "top" \in CappedViews
      BY DEF CappedViews
    <3>3. AddsUp("top", TopFrequency(explored, x, n, withMissing, FALSE))
      BY <3>1, <3>2, CappedAddsUp
    <3> QED
      BY <2>2, <3>3
  <2> QED
    BY <2>1, <2>2
<1>5. name \notin {"trend line", "pattern"}
  OBVIOUS
<1>6. Standalone(pareto)
  <2>1. Exact(ParetoCategory(explored, x, withMissing))
    BY <1>2, ParetoAddsUp
  <2>2. "pareto" \in CoveringViews
    BY DEF CoveringViews
  <2>3. AddsUp("pareto", ParetoCategory(explored, x, withMissing))
    BY <2>1, <2>2, CoveringAddsUp
  <2> QED
    BY <2>3, OneView DEF RenderPareto
<1> HIDE DEF name, top, pareto
<1>7. Standalone(ViewNamed(name, top))
  BY <1>4, <1>5, OneView
<1>8. Standalone(below)
  BY <1>6, NoViews
<1> HIDE DEF below
<1> QED
  BY <1>3, <1>7, <1>8, ViewsTogether

LEMMA TimeTabAddsUp ==
    ASSUME IsGrid(explored), RenderDatetimeTrend
    PROVE  Standalone(drawn') /\ UNCHANGED explored
<1>1. PICK d \in DateColumns(explored), granularity \in Granularity, metric \in NumberColumns(explored) \cup {""} :
          Draw(ViewNamed("trend", DatetimeTrend(explored, d, metric, granularity)))
  BY DEF RenderDatetimeTrend
<1>2. Exact(DatetimeTrend(explored, d, metric, granularity))
  BY TrendAddsUp
<1>3. "trend" \in CoveringViews
  BY DEF CoveringViews
<1>4. AddsUp("trend", DatetimeTrend(explored, d, metric, granularity))
  BY <1>2, <1>3, CoveringAddsUp
<1> QED
  BY <1>1, <1>4, OneView DEF Draw

\* Of the Advanced tab, nothing is counted.
LEMMA UncountedView ==
    ASSUME NEW name, name \notin CoveringViews \cup CappedViews \cup {"ecdf", "qq", "trend line", "pattern"}, NEW v
    PROVE  Standalone(ViewNamed(name, v))
<1>1. AddsUp(name, v)
  BY OtherAddsUp
<1> QED
  BY <1>1, OneView

LEMMA AdvancedTabAddsUp ==
    ASSUME RenderAdvancedTab
    PROVE  Standalone(drawn') /\ UNCHANGED explored
<1>1. PICK chosen \in SUBSET AllColumns :
          LET correlation == RenderCorrelationMatrix(explored, chosen)
          IN  Draw(RenderNumericShape(explored) ++ correlation
                   ++ RenderCorrelationPairs(explored, chosen, correlation["correlation"])
                   ++ RenderCategoricalAssociation(explored, chosen)
                   ++ RenderOutlierSummary(explored))
  BY DEF RenderAdvancedTab
<1> DEFINE shape == RenderNumericShape(explored)
           correlation == RenderCorrelationMatrix(explored, chosen)
           correlated == RenderCorrelationPairs(explored, chosen, correlation["correlation"])
           association == RenderCategoricalAssociation(explored, chosen)
           outliers == RenderOutlierSummary(explored)
<1>2. drawn' = shape ++ correlation ++ correlated ++ association ++ outliers /\ UNCHANGED explored
  BY <1>1 DEF Draw
<1>3. {"shape", "correlation", "correlated", "association", "associated", "outliers"}
          \cap (CoveringViews \cup CappedViews \cup {"ecdf", "qq", "trend line", "pattern"}) = {}
  BY DEF CoveringViews, CappedViews
<1>4. Standalone(shape)
  BY <1>3, UncountedView DEF RenderNumericShape
<1>5. Standalone(correlation)
  BY <1>3, UncountedView DEF RenderCorrelationMatrix
<1>6. Standalone(correlated)
  <2> DEFINE heatmap == correlation["correlation"]
             drawnPairs == ViewNamed("correlated", RankedPairs(heatmap.marks,
                               CorrelationMatrix(explored, SelectCorrelationColumns(explored, chosen))))
             refused == heatmap.status /= "ok"
  <2>1. correlated = IF refused THEN <<>> ELSE drawnPairs
    BY DEF RenderCorrelationPairs
  <2>2. Standalone(drawnPairs)
    BY <1>3, UncountedView
  <2> HIDE DEF refused, drawnPairs, correlated
  <2> QED
    BY <2>1, <2>2, NoViews
<1>7. Standalone(association)
  <2> DEFINE selected == CategoricalAssociationColumns(explored, chosen)
             matrix == CategoricalAssociation(explored, selected)
             columns == {matrix.marks[k] : k \in DOMAIN matrix.marks}
             comparable == {p \in columns \X columns :
                               CramersVExists(explored, p[1], p[2], RowPositions(Len(explored), PlotRows))}
             one == ViewNamed("association", matrix)
             pairs == ViewNamed("associated", RankedPairs(matrix.marks, comparable))
             ok == matrix.status = "ok"
             two == IF ok THEN pairs ELSE <<>>
  <2>1. association = one ++ two
    BY DEF RenderCategoricalAssociation
  <2>2. Standalone(one) /\ Standalone(pairs)
    BY <1>3, UncountedView
  <2> HIDE DEF one, pairs, ok, association
  <2>3. Standalone(two)
    BY <2>2, NoViews
  <2> HIDE DEF two
  <2> QED
    BY <2>1, <2>2, <2>3, ViewsTogether
<1>8. Standalone(outliers)
  BY <1>3, UncountedView DEF RenderOutlierSummary
<1> HIDE DEF shape, correlation, correlated, association, outliers
<1>9. Standalone(shape ++ correlation)
  BY <1>4, <1>5, ViewsTogether
<1>10. Standalone((shape ++ correlation) ++ correlated)
  BY <1>6, <1>9, ViewsTogether
<1>11. Standalone(((shape ++ correlation) ++ correlated) ++ association)
  BY <1>7, <1>10, ViewsTogether
<1>12. Standalone((((shape ++ correlation) ++ correlated) ++ association) ++ outliers)
  BY <1>8, <1>11, ViewsTogether
<1> QED
  BY <1>2, <1>12

\* A pattern stands below the bars it is compared with.
LEMMA OverviewTabAddsUp ==
    ASSUME IsGrid(explored), RenderOverviewTab
    PROVE  PageAddsUp(drawn') /\ UNCHANGED explored
<1> DEFINE bar == MissingnessBar(explored)
           missing == ViewNamed("missing", bar)
           p == MissingnessPattern(explored)
           pattern == ViewNamed("pattern", p)
           together == ViewNamed("missing together", MissingnessAssociation(explored))
           ok == pattern["pattern"].status = "ok"
           below == IF ok THEN together ELSE <<>>
           page == missing ++ (pattern ++ below)
<1>1. drawn' = page /\ UNCHANGED explored
  BY DEF RenderOverviewTab, Draw, RenderMissingness, RenderStructuralMissingness, RenderMissingnessPattern,
         RenderMissingnessAssociation
<1>2. {"missing", "missing together"}
          \cap (CoveringViews \cup CappedViews \cup {"ecdf", "qq", "trend line", "pattern"}) = {}
  BY DEF CoveringViews, CappedViews
<1>3. Standalone(missing) /\ Standalone(together)
  BY <1>2, UncountedView
<1>4. AddsUp("pattern", p)
  BY KindsOfViews, OtherAddsUp
<1>5. EachAddsUp(pattern) /\ DOMAIN pattern = {"pattern"} /\ pattern["pattern"] = p
  BY <1>4, OneView
<1>6. DOMAIN missing = {"missing"} /\ missing["missing"] = bar
  BY OneView
<1>7. p.status = "ok" => p.less \/ Drawn(p) = Drawn(bar)
  BY PatternAddsUp
<1> HIDE DEF missing, pattern, together, bar, p, ok
<1>8. Standalone(below)
  BY <1>3, NoViews
<1> HIDE DEF below
<1>9. /\ EachAddsUp(pattern ++ below) /\ DOMAIN (pattern ++ below) = {"pattern"} \cup DOMAIN below
      /\ (pattern ++ below)["pattern"] = p
  <2>1. EachAddsUp(below)
    BY <1>8 DEF Standalone
  <2>2. /\ EachAddsUp(pattern ++ below) /\ DOMAIN (pattern ++ below) = DOMAIN pattern \cup DOMAIN below
        /\ \A n \in DOMAIN pattern : (pattern ++ below)[n] = pattern[n]
    BY <1>5, <2>1, ViewsTogether
  <2> QED
    BY <1>5, <2>2
<1> DEFINE lower == pattern ++ below
<1> HIDE DEF lower
<1>10. /\ EachAddsUp(lower) /\ DOMAIN lower = {"pattern"} \cup DOMAIN below /\ lower["pattern"] = p
  BY <1>9 DEF lower
<1>11. page = missing ++ lower
  BY DEF lower
<1> HIDE DEF page
<1>12. /\ EachAddsUp(page) /\ DOMAIN page = DOMAIN missing \cup DOMAIN lower
       /\ page["missing"] = bar /\ page["pattern"] = p
  <2>1. EachAddsUp(missing)
    BY <1>3 DEF Standalone
  <2>2. /\ EachAddsUp(missing ++ lower) /\ DOMAIN (missing ++ lower) = DOMAIN missing \cup DOMAIN lower
        /\ \A n \in DOMAIN missing : (missing ++ lower)[n] = missing[n]
        /\ \A n \in DOMAIN lower : n \notin DOMAIN missing => (missing ++ lower)[n] = lower[n]
    BY <1>10, <2>1, ViewsTogether
  <2>3. "pattern" \in DOMAIN lower /\ "pattern" \notin DOMAIN missing /\ "missing" \in DOMAIN missing
    BY <1>6, <1>10
  <2> QED
    BY <1>6, <1>10, <1>11, <2>2, <2>3
<1>13. "trend line" \notin DOMAIN page
  BY <1>6, <1>8, <1>10, <1>12 DEF Standalone
<1>14. LinesAreSampled(page)
  BY <1>13 DEF LinesAreSampled
<1>15. PatternsAddUp(page)
  BY <1>7, <1>12 DEF PatternsAddUp
<1>16. PageAddsUp(page)
  BY <1>12, <1>14, <1>15 DEF PageAddsUp
<1> QED
  BY <1>1, <1>16

\* A view that counts every row it covers, and one that may say that there is more.
LEMMA CoveringView ==
    ASSUME NEW name \in CoveringViews, NEW v, Exact(v)
    PROVE  Standalone(ViewNamed(name, v))
<1>1. AddsUp(name, v)
  BY CoveringAddsUp
<1>2. name # "trend line" /\ name # "pattern"
  BY KindsOfViews
<1> QED
  BY <1>1, <1>2, OneView

LEMMA CappedView ==
    ASSUME NEW name \in CappedViews, NEW v, Partly(v)
    PROVE  Standalone(ViewNamed(name, v))
<1>1. AddsUp(name, v)
  BY CappedAddsUp
<1>2. name # "trend line" /\ name # "pattern"
  BY KindsOfViews
<1> QED
  BY <1>1, <1>2, OneView

\* Below a scatter stand a line through the rows that are plotted and the heatmap.
LEMMA NumNumAddsUp ==
    ASSUME NEW t, IsGrid(t), NEW x, NEW y, NEW clip, NEW plot \in Plots(t, x, y)
    PROVE  PageAddsUp(RenderNumNum(t, x, y, clip, plot))
<1> DEFINE s == BoundedScatter(t, x, y, plot)
           l == LinearTrendline(t, x, y, plot)
           h == DensityHeatmap(t, x, y, clip)
           scatter == ViewNamed("scatter", s)
           line == ViewNamed("trend line", l)
           heatmap == ViewNamed("heatmap", h)
           ok == s.status = "ok"
           below == IF ok THEN line ++ heatmap ELSE <<>>
           page == scatter ++ below
<1>1. RenderNumNum(t, x, y, clip, plot) = page
  BY DEF RenderNumNum, RenderNumNumVega, RenderNumNumDensity
<1>2. Standalone(scatter) /\ Standalone(heatmap)
  <2>1. Exact(s) /\ Exact(h)
    BY ScatterAddsUp, HeatmapAddsUp
  <2>2. {"scatter", "heatmap"} \subseteq CoveringViews
    BY DEF CoveringViews
  <2> QED
    BY <2>1, <2>2, CoveringView
<1>3. AddsUp("trend line", l)
  BY KindsOfViews, OtherAddsUp
<1>4. ok /\ l.status # "ok" => s.less
  BY TrendLineIsSampled
<1>5. EachAddsUp(line) /\ DOMAIN line = {"trend line"} /\ line["trend line"] = l
  BY <1>3, OneView
<1>6. DOMAIN scatter = {"scatter"} /\ scatter["scatter"] = s
  BY OneView
<1> HIDE DEF scatter, line, heatmap, s, l, h, ok
<1>7. CASE ~ok
  <2>1. Standalone(page)
    BY <1>2, <1>7, NoViews, ViewsTogether
  <2> QED
    BY <1>1, <2>1, StandaloneAddsUp
<1>8. CASE ok
  <2> DEFINE both == line ++ heatmap
  <2>1. EachAddsUp(scatter) /\ EachAddsUp(heatmap) /\ "pattern" \notin DOMAIN scatter \cup DOMAIN heatmap
    BY <1>2 DEF Standalone
  <2>2. /\ EachAddsUp(line ++ heatmap) /\ DOMAIN (line ++ heatmap) = DOMAIN line \cup DOMAIN heatmap
        /\ \A n \in DOMAIN line : (line ++ heatmap)[n] = line[n]
    BY <1>5, <2>1, ViewsTogether
  <2>3. EachAddsUp(both) /\ both["trend line"] = l /\ "trend line" \in DOMAIN both /\ "pattern" \notin DOMAIN both
    BY <1>5, <2>1, <2>2
  <2> HIDE DEF both
  <2>4. /\ EachAddsUp(scatter ++ both) /\ DOMAIN (scatter ++ both) = DOMAIN scatter \cup DOMAIN both
        /\ \A n \in DOMAIN scatter : (scatter ++ both)[n] = scatter[n]
        /\ \A n \in DOMAIN both : n \notin DOMAIN scatter => (scatter ++ both)[n] = both[n]
    BY <2>1, <2>3, ViewsTogether
  <2>5. page = scatter ++ both
    BY <1>8 DEF both
  <2> HIDE DEF page
  <2>6. /\ EachAddsUp(page) /\ page["scatter"] = s /\ page["trend line"] = l
        /\ "pattern" \notin DOMAIN page
    BY <1>6, <2>1, <2>3, <2>4, <2>5
  <2>7. LinesAreSampled(page)
    BY <1>4, <1>8, <2>6 DEF LinesAreSampled
  <2>8. PatternsAddUp(page)
    BY <2>6 DEF PatternsAddUp
  <2>9. PageAddsUp(page)
    BY <2>6, <2>7, <2>8 DEF PageAddsUp
  <2> QED
    BY <1>1, <2>9
<1> QED
  BY <1>7, <1>8

LEMMA CatCatAddsUp ==
    ASSUME NEW t, IsGrid(t), NEW x \in AllColumns, NEW y \in AllColumns
    PROVE  Standalone(RenderCatCat(t, x, y))
<1> DEFINE crossed == Crosstab(t, x, y)
           table0 == ViewNamed("crosstab", crossed)
           heatmap == ViewNamed("crosstab heatmap", crossed)
           stacked == ViewNamed("stacked", crossed)
           ok == crossed.status = "ok"
           below == IF ok THEN heatmap ++ stacked ELSE <<>>
<1>1. RenderCatCat(t, x, y) = table0 ++ below
  BY DEF RenderCatCat, RenderCatCatHeatmap, RenderCatCatStacked, CrosstabHeatmap
<1>2. Partly(crossed)
  BY CrosstabAddsUp
<1>3. {"crosstab", "crosstab heatmap", "stacked"} \subseteq CappedViews
  BY DEF CappedViews
<1> HIDE DEF crossed
<1>4. Standalone(table0) /\ Standalone(heatmap) /\ Standalone(stacked)
  BY <1>2, <1>3, CappedView
<1> HIDE DEF table0, heatmap, stacked, ok
<1>5. Standalone(heatmap ++ stacked)
  BY <1>4, ViewsTogether
<1>6. Standalone(below)
  BY <1>5, NoViews
<1> HIDE DEF below
<1>7. Standalone(table0 ++ below)
  BY <1>4, <1>6, ViewsTogether
<1> QED
  BY <1>1, <1>7

\* Where a pair of columns goes.
Routed(t, r) ==
    /\ r[2] \in AllColumns /\ r[3] \in AllColumns
    /\ r[1] \in {"aggregation", "time categories"} => r[2] \in DateColumns(t)
    /\ r[1] \in {"aggregation", "scatter"} => IsNumericDtype(t, r[3])
    /\ r[1] \in {"by category", "scatter"} => IsNumericDtype(t, r[2])
    /\ r[1] \in {"time categories", "by category"} => ~IsNumericDtype(t, r[3])
    /\ r[1] \notin {"aggregation", "time categories", "by category", "scatter"} =>
           ~IsNumericDtype(t, r[2]) /\ ~IsNumericDtype(t, r[3])

LEMMA RouteOfColumns ==
    ASSUME NEW t, NEW x \in AllColumns, NEW y \in AllColumns
    PROVE  /\ Routed(t, Route(t, x, y))
           /\ Route(t, x, y)[1] = "scatter" => Route(t, x, y)[2] = x /\ Route(t, x, y)[3] = y
<1> DEFINE timed(z) == IF IsNumericDtype(t, z) THEN "aggregation" ELSE "time categories"
           a == x \in DateColumns(t) /\ y \notin DateColumns(t)
           b == y \in DateColumns(t) /\ x \notin DateColumns(t)
           p == IsNumericDtype(t, x)
           q == IsNumericDtype(t, y)
           over == <<timed(y), x, y>>
           under == <<timed(x), y, x>>
           scatter == <<"scatter", x, y>>
           group == <<"by category", x, y>>
           grouped == <<"by category", y, x>>
           crossed == <<"crosstab", x, y>>
           Fits(r) == Routed(t, r) /\ (r[1] = "scatter" => r[2] = x /\ r[3] = y)
<1>1. Route(t, x, y) = IF a THEN over ELSE IF b THEN under
                       ELSE CASE p /\ q -> scatter [] p /\ ~q -> group [] q /\ ~p -> grouped [] OTHER -> crossed
  BY DEF Route
<1>2. a => Fits(over)
  <2>1. CASE q
    <3>1. over = <<"aggregation", x, y>>
      BY <2>1
    <3> HIDE DEF over, q
    <3> QED
      BY <2>1, <3>1 DEF Routed, q
  <2>2. CASE ~q
    <3>1. over = <<"time categories", x, y>>
      BY <2>2
    <3> HIDE DEF over, q
    <3> QED
      BY <2>2, <3>1 DEF Routed, q
  <2> QED
    BY <2>1, <2>2
<1>3. b => Fits(under)
  <2>1. CASE p
    <3>1. under = <<"aggregation", y, x>>
      BY <2>1
    <3> HIDE DEF under, p
    <3> QED
      BY <2>1, <3>1 DEF Routed, p
  <2>2. CASE ~p
    <3>1. under = <<"time categories", y, x>>
      BY <2>2
    <3> HIDE DEF under, p
    <3> QED
      BY <2>2, <3>1 DEF Routed, p
  <2> QED
    BY <2>1, <2>2
<1> HIDE DEF timed
<1>4. /\ p /\ q => Fits(scatter)
      /\ p /\ ~q => Fits(group)
      /\ q /\ ~p => Fits(grouped)
      /\ ~p /\ ~q => Fits(crossed)
  BY DEF Routed
<1> HIDE DEF a, b, p, q, over, under, scatter, group, grouped, crossed, Fits
<1>5. Fits(Route(t, x, y))
  <2>1. CASE a
    BY <1>1, <1>2, <2>1
  <2>2. CASE ~a /\ b
    BY <1>1, <1>3, <2>2
  <2>3. CASE ~a /\ ~b
    <3>1. Route(t, x, y) = CASE p /\ q -> scatter [] p /\ ~q -> group [] q /\ ~p -> grouped [] OTHER -> crossed
      BY <1>1, <2>3
    <3> QED
      BY <1>4, <3>1
  <2> QED
    BY <2>1, <2>2, <2>3
<1> QED
  BY <1>5 DEF Fits

\* Whichever view a pair is routed to.
LEMMA BivariateAddsUp ==
    ASSUME IsGrid(explored), RenderBivariate
    PROVE  PageAddsUp(drawn') /\ UNCHANGED explored
<1>1. PICK x \in AllColumns, y \in AllColumns, granularity \in Granularity, n \in 1 .. TopMax, clip \in BOOLEAN :
          \E plot \in Plots(explored, x, y) : Draw(DispatchBivariate(explored, x, y, granularity, n, clip, plot))
  BY DEF RenderBivariate
<1>2. PICK plot \in Plots(explored, x, y) : Draw(DispatchBivariate(explored, x, y, granularity, n, clip, plot))
  BY <1>1
<1> DEFINE route == Route(explored, x, y)
           a == route[2]
           b == route[3]
           aggregation == RenderDtNum(explored, a, b, granularity)
           categories == RenderDtCat(explored, a, b, granularity, n)
           numbers == RenderNumNum(explored, a, b, clip, plot)
           groups == RenderNumCat(explored, a, b)
           crossed == RenderCatCat(explored, a, b)
           views == DispatchBivariate(explored, x, y, granularity, n, clip, plot)
<1>3. drawn' = views /\ UNCHANGED explored
  BY <1>2 DEF Draw
<1>4. views = CASE route[1] = "aggregation"     -> aggregation
                [] route[1] = "time categories" -> categories
                [] route[1] = "scatter"         -> numbers
                [] route[1] = "by category"     -> groups
                [] OTHER                        -> crossed
  BY DEF DispatchBivariate
<1>5. /\ a \in AllColumns /\ b \in AllColumns
      /\ route[1] = "scatter" => a = x /\ b = y
  <2>1. Routed(explored, route) /\ (route[1] = "scatter" => a = x /\ b = y)
    BY RouteOfColumns
  <2> HIDE DEF route
  <2>2. a \in AllColumns /\ b \in AllColumns
    BY <2>1 DEF Routed
  <2> QED
    BY <2>1, <2>2
<1> HIDE DEF a, b
<1>6. PageAddsUp(aggregation) /\ PageAddsUp(categories)
  <2>1. Exact(DatetimeAggregation(explored, a, b, granularity)) /\ Exact(DatetimeCategories(explored, a, b, granularity, n))
    BY InTimeAddsUp, TimeCategoriesAddUp DEF DatetimeAggregation
  <2>2. {"aggregation", "time categories"} \subseteq CoveringViews
    BY DEF CoveringViews
  <2>3. Standalone(aggregation) /\ Standalone(categories)
    BY <2>1, <2>2, CoveringView DEF RenderDtNum, RenderDtCat
  <2> QED
    BY <2>3, StandaloneAddsUp
<1>7. PageAddsUp(groups)
  <2>1. Partly(NumericByCategory(explored, a, b))
    BY <1>5, ByCategoryAddsUp
  <2>2. "by category" \in CappedViews
    BY DEF CappedViews
  <2>3. Standalone(groups)
    BY <2>1, <2>2, CappedView DEF RenderNumCat
  <2> QED
    BY <2>3, StandaloneAddsUp
<1>8. PageAddsUp(crossed)
  BY <1>5, CatCatAddsUp, StandaloneAddsUp
<1>9. route[1] = "scatter" => PageAddsUp(numbers)
  BY <1>5, NumNumAddsUp
<1> HIDE DEF aggregation, categories, numbers, groups, crossed, views, route
<1>10. PageAddsUp(views)
  BY <1>4, <1>6, <1>7, <1>8, <1>9
<1> QED
  BY <1>3, <1>10

-----------------------------------------------------------------------------
EdaInv == explored \in EdaFrames /\ PageAddsUp(drawn)

LEMMA EdaInitInv == EdaInit => EdaInv
<1> SUFFICES ASSUME EdaInit
             PROVE  EdaInv
  OBVIOUS
<1>1. drawn = <<>> /\ explored \in EdaFrames
  BY DEF EdaInit
<1>2. PageAddsUp(<<>>)
  BY NoViews, StandaloneAddsUp
<1> QED
  BY <1>1, <1>2 DEF EdaInv

\* Every page is drawn at once, and its views add up.
LEMMA EdaNextInv == EdaInv /\ [EdaNext]_edaVars => EdaInv'
<1> SUFFICES ASSUME EdaInv, [EdaNext]_edaVars
             PROVE  EdaInv'
  OBVIOUS
<1>1. explored \in EdaFrames /\ PageAddsUp(drawn) /\ IsGrid(explored)
  BY EdaFrameIsFrame DEF EdaInv
<1>2. CASE RenderUnivariateNumeric
  BY <1>1, <1>2, NumericTabAddsUp, StandaloneAddsUp DEF EdaInv
<1>3. CASE RenderUnivariateCategorical
  BY <1>1, <1>3, CategoricalTabAddsUp, StandaloneAddsUp DEF EdaInv
<1>4. CASE RenderDatetimeTrend
  BY <1>1, <1>4, TimeTabAddsUp, StandaloneAddsUp DEF EdaInv
<1>5. CASE RenderAdvancedTab
  BY <1>1, <1>5, AdvancedTabAddsUp, StandaloneAddsUp DEF EdaInv
<1>6. CASE RenderOverviewTab
  BY <1>1, <1>6, OverviewTabAddsUp DEF EdaInv
<1>7. CASE RenderBivariate
  BY <1>1, <1>7, BivariateAddsUp DEF EdaInv
<1>8. CASE ClearPage
  <2>1. drawn' = <<>> /\ UNCHANGED explored
    BY <1>8 DEF ClearPage
  <2>2. PageAddsUp(<<>>)
    BY NoViews, StandaloneAddsUp
  <2> QED
    BY <1>1, <2>1, <2>2 DEF EdaInv
<1>9. CASE UNCHANGED edaVars
  BY <1>1, <1>9 DEF EdaInv, edaVars
<1> QED
  BY <1>2, <1>3, <1>4, <1>5, <1>6, <1>7, <1>8, <1>9 DEF EdaNext

\* ChartsAddUp, of every page the EDA Explorer draws of every frame: what a view
\* draws adds up to the rows it says it covers, or the view says that there is more
\* (eda.py).
THEOREM ChartsAlwaysAddUp == EdaSpec => []ChartsAddUp
<1>1. EdaInit => EdaInv
  BY EdaInitInv
<1>2. EdaInv /\ [EdaNext]_edaVars => EdaInv'
  BY EdaNextInv
<1>3. EdaInv => ChartsAddUp
  BY AllAddUp DEF EdaInv, PageAddsUp
<1> QED
  BY <1>1, <1>2, <1>3, PTL DEF EdaSpec

-----------------------------------------------------------------------------
(***************************************************************************)
(* What is offered                                                         *)
(***************************************************************************)

\* Products, one factor more at a time.
LEMMA TimesMore ==
    ASSUME NEW n, NEW c, n \in Nat, c \in Int
    PROVE  (n + 1) * c = c + n * c /\ n * c \in Int
<1>1. (n + 1) * c = n * c + c
  BY SMT
<1>2. n * c \in Int
  BY SMT
<1> QED
  BY <1>1, <1>2

\* A sum of equal parts.
LEMMA SumOfEquals ==
    ASSUME NEW f, IsFiniteSet(DOMAIN f), NEW c, c \in Int, \A k \in DOMAIN f : f[k] = c
    PROVE  SumFunction(f) = Cardinality(DOMAIN f) * c
<1> DEFINE K == DOMAIN f
           First(s) == CHOOSE k \in s : TRUE
           Solves(g) == g = [s \in SUBSET K |-> IF s = {} THEN 0 ELSE f[First(s)] + g[s \ {First(s)}]]
           sum == [s \in SUBSET K |-> Cardinality(s) * c]
           iter == CHOOSE g : Solves(g)
           T == {n \in Nat : \A s \in SUBSET K : Cardinality(s) = n => iter[s] = n * c}
<1>1. \A s \in SUBSET K : IsFiniteSet(s) /\ Cardinality(s) \in Nat
  BY FS_Subset, FS_CardinalityType
<1>2. \A s \in SUBSET K : s # {} => First(s) \in s
  OBVIOUS
<1>3. ASSUME NEW s \in SUBSET K, NEW k \in s
      PROVE  Cardinality(s \ {k}) \in Nat /\ Cardinality(s) = Cardinality(s \ {k}) + 1
  <2>1. s \ {k} \in SUBSET K
    OBVIOUS
  <2> QED
    BY <1>1, <2>1, FS_RemoveElement
<1>4. Solves(sum)
  <2>1. ASSUME NEW s \in SUBSET K
        PROVE  sum[s] = IF s = {} THEN 0 ELSE f[First(s)] + sum[s \ {First(s)}]
    <3>1. CASE s = {}
      <4>1. Cardinality(s) = 0
        BY <3>1, FS_EmptySet
      <4> QED
        BY <3>1, <4>1
    <3>2. CASE s # {}
      <4> DEFINE k == First(s)
      <4>1. k \in s /\ s \ {k} \in SUBSET K
        BY <1>2, <3>2
      <4> HIDE DEF k
      <4>2. Cardinality(s \ {k}) \in Nat /\ Cardinality(s) = Cardinality(s \ {k}) + 1
        BY <1>3, <4>1
      <4>3. Cardinality(s) * c = c + Cardinality(s \ {k}) * c
        BY <4>2, TimesMore
      <4>4. sum[s] = f[k] + sum[s \ {k}]
        BY <4>1, <4>3
      <4> QED
        BY <3>2, <4>4 DEF k
    <3> QED
      BY <3>1, <3>2
  <2> HIDE DEF First
  <2>2. sum = [s \in SUBSET K |-> sum[s]]
    OBVIOUS
  <2> HIDE DEF sum
  <2> QED
    BY <2>1, <2>2
<1>5. Solves(iter)
  <2> HIDE DEF Solves
  <2> QED
    BY <1>4
<1>6. SumFunction(f) = iter[K]
  BY DEF SumFunction, SumFunctionOnSet, FoldFunctionOnSet, MapThenFoldSet
<1>7. \A s \in SUBSET K : iter[s] = IF s = {} THEN 0 ELSE f[First(s)] + iter[s \ {First(s)}]
  <2> HIDE DEF iter, First
  <2> QED
    BY <1>5
<1> HIDE DEF First, Solves, iter
<1>8. 0 \in T
  <2>1. ASSUME NEW s \in SUBSET K, Cardinality(s) = 0 PROVE iter[s] = 0 * c
    <3>1. s = {}
      BY <1>1, <2>1, FS_EmptySet
    <3>2. iter[s] = 0
      BY <1>7, <3>1
    <3> QED
      BY <3>2
  <2> QED
    BY <2>1
<1>9. ASSUME NEW n \in Nat, n \in T PROVE n + 1 \in T
  <2>1. ASSUME NEW s \in SUBSET K, Cardinality(s) = n + 1 PROVE iter[s] = (n + 1) * c
    <3>1. s # {}
      BY <2>1, FS_EmptySet
    <3> DEFINE k == First(s)
               rest == s \ {k}
    <3>2. k \in s /\ rest \in SUBSET K
      BY <1>2, <3>1
    <3>3. iter[s] = f[k] + iter[rest]
      BY <1>7, <3>1
    <3> HIDE DEF k
    <3>4. Cardinality(rest) \in Nat /\ Cardinality(s) = Cardinality(rest) + 1
      BY <1>3, <3>2
    <3> HIDE DEF rest
    <3>5. Cardinality(rest) = n
      BY <2>1, <3>4
    <3>6. iter[rest] = n * c
      BY <1>9, <3>2, <3>5
    <3>7. f[k] = c
      BY <3>2
    <3> QED
      BY <3>3, <3>6, <3>7, TimesMore
  <2>2. n + 1 \in Nat
    OBVIOUS
  <2> QED
    BY <2>1, <2>2
<1>10. Cardinality(K) \in T
  <2>1. Cardinality(K) \in Nat
    BY <1>1
  <2> HIDE DEF T, K
  <2>2. \A n \in Nat : n \in T
    BY <1>8, <1>9, Induction
  <2> QED
    BY <2>1, <2>2
<1> QED
  BY <1>6, <1>10

\* Columns of a set, in the order of the frame or in another one.
LEMMA OrderedColumns ==
    ASSUME NEW S \in SUBSET AllColumns, NEW order, TotalOrder(AllColumns, order)
    PROVE  /\ ColumnsBy(S, order) \in Seq(S) /\ Len(ColumnsBy(S, order)) = Cardinality(S) /\ Cardinality(S) \in Nat
           /\ DOMAIN ColumnsBy(S, order) = 1 .. Len(ColumnsBy(S, order))
           /\ \A x \in S : \E r \in DOMAIN ColumnsBy(S, order) : ColumnsBy(S, order)[r] = x
           /\ \A r, q \in DOMAIN ColumnsBy(S, order) : ColumnsBy(S, order)[r] = ColumnsBy(S, order)[q] => r = q
<1> DEFINE columns == ColumnsBy(S, order)
           n == Cardinality(S)
           At(r) == CHOOSE x \in S : Cardinality({y \in S : <<y, x>> \in order}) = r
<1>1. /\ n \in Nat /\ DOMAIN columns = 1 .. n /\ Len(columns) = n
      /\ \A r \in 1 .. n : columns[r] \in S
      /\ \A x \in S : \E r \in 1 .. n : columns[r] = x
      /\ \A r, q \in 1 .. n : columns[r] = columns[q] => r = q
  BY ColumnsInOrder
<1>2. columns = [r \in 1 .. n |-> At(r)]
  BY DEF ColumnsBy
<1> HIDE DEF columns, n, At
<1>3. columns \in [1 .. n -> S]
  BY <1>1, <1>2
<1>4. columns \in Seq(S)
  BY <1>1, <1>3
<1> QED
  BY <1>1, <1>4 DEF columns, n

LEMMA FrameColumns ==
    ASSUME NEW S \in SUBSET AllColumns
    PROVE  /\ InFrame(S) \in Seq(S) /\ Len(InFrame(S)) = Cardinality(S) /\ Cardinality(S) \in Nat
           /\ DOMAIN InFrame(S) = 1 .. Len(InFrame(S))
           /\ \A x \in S : \E r \in DOMAIN InFrame(S) : InFrame(S)[r] = x
           /\ \A r, q \in DOMAIN InFrame(S) : InFrame(S)[r] = InFrame(S)[q] => r = q
BY FrameIsOrdered, OrderedColumns DEF InFrame

\* Numbers are numeric for the builders, texts and dates are not.
LEMMA KindsOfColumns ==
    ASSUME NEW t
    PROVE  /\ NumberColumns(t) \in SUBSET AllColumns /\ DateColumns(t) \in SUBSET AllColumns
           /\ TextColumns(t) \in SUBSET AllColumns /\ Identifiers(t) \in SUBSET TextColumns(t)
           /\ CategoricalOptions(t) \in SUBSET AllColumns
           /\ NumberSeq(t) = InFrame(NumberColumns(t)) /\ DatetimeCandidates(t) = InFrame(DateColumns(t))
           /\ \A x \in NumberColumns(t) : IsNumericDtype(t, x)
           /\ \A x \in TextColumns(t) \cup DateColumns(t) : ~IsNumericDtype(t, x)
<1>1. \A x \in NumberColumns(t) : IsNumericDtype(t, x)
  BY DEF NumberColumns, IsNumericDtype
<1>2. \A x \in TextColumns(t) \cup DateColumns(t) : ~IsNumericDtype(t, x)
  BY DEF TextColumns, DateColumns
<1>3. NumberSeq(t) = InFrame(NumberColumns(t)) /\ DatetimeCandidates(t) = InFrame(DateColumns(t))
  BY DEF NumberSeq, DatetimeCandidates
<1> QED
  BY <1>1, <1>2, <1>3 DEF NumberColumns, DateColumns, TextColumns, Identifiers, CategoricalOptions

LEMMA ConstantHasOneValue ==
    \A t, x, lines : IsConstant(t, x, lines) <=> Cardinality(Distinct(t, x, lines)) <= 1
BY DEF IsConstant, Distinct, Size

\* A column that does not vary is not skewed.
LEMMA ConstantDoesNotLean ==
    ASSUME NEW t, IsGrid(t), NEW x \in AllColumns, IsConstant(t, x, Usable(t, x))
    PROVE  Lean(t, x) = 0
<1> DEFINE lines == Usable(t, x)
           n == Cardinality(lines)
           values == Distinct(t, x, lines)
           all == [j \in lines |-> t[j][x].value]
           away == [i \in lines |-> Deviation(t, x, lines, i) * Deviation(t, x, lines, i) * Deviation(t, x, lines, i)]
<1>1. lines \in SUBSET DOMAIN t /\ IsFiniteSet(lines) /\ n \in Nat
  BY UsableLines, LinesAreFinite
<1>2. \A i \in lines : t[i][x].value \in Int /\ t[i][x].value \in values
  BY <1>1 DEF IsGrid, Distinct
<1>3. \A i, j \in lines : t[i][x].value = t[j][x].value
  <2>1. IsFiniteSet(values) /\ Cardinality(values) \in Nat
    BY <1>1, CountsAreCounts, FS_CardinalityType
  <2>2. Cardinality(values) <= 1
    BY ConstantHasOneValue
  <2> HIDE DEF values, lines
  <2>3. \A v, w \in values : v = w
    <3>1. CASE Cardinality(values) = 0
      BY <2>1, <3>1, FS_EmptySet
    <3>2. CASE Cardinality(values) = 1
      BY <2>1, <3>2, FS_Singleton
    <3> QED
      BY <2>1, <2>2, <3>1, <3>2
  <2> QED
    BY <1>2, <2>3
<1> HIDE DEF values
<1>4. ASSUME NEW i \in lines PROVE Deviation(t, x, lines, i) = 0
  <2> DEFINE c == t[i][x].value
  <2>1. c \in Int
    BY <1>2
  <2>2. DOMAIN all = lines /\ \A k \in DOMAIN all : all[k] = c
    BY <1>3
  <2> HIDE DEF c
  <2>3. SumFunction(all) = n * c
    <3> HIDE DEF all, lines
    <3> QED
      BY <1>1, <2>1, <2>2, SumOfEquals DEF n
  <2>4. Deviation(t, x, lines, i) = n * c - SumFunction(all)
    BY DEF Deviation, Size, c
  <2>5. n * c \in Int
    BY <1>1, <2>1, TimesMore
  <2> HIDE DEF all, n
  <2> QED
    BY <2>3, <2>4, <2>5
<1>5. Lean(t, x) = SumFunction(away)
  BY DEF Lean
<1>6. DOMAIN away = lines /\ \A k \in DOMAIN away : away[k] = 0
  BY <1>4
<1> HIDE DEF away, lines
<1>7. SumFunction(away) = n * 0
  BY <1>1, <1>6, SumOfEquals
<1> HIDE DEF n
<1> QED
  BY <1>1, <1>5, <1>7

\* The guide, the Pareto view and the association matrix find the same identifiers: more
\* levels than the cap, and at least nine tenths of the values, is the same by each rule.
LEMMA AllIdentifiersAgree ==
    ASSUME NEW t, IsGrid(t)
    PROVE  IdentifiersAgree(t)
<1> SUFFICES ASSUME NEW x \in TextColumns(t)
             PROVE  /\ IsIdentifierLike(t, x) <=> (ParetoCategory(t, x, FALSE).status = "near_unique")
                    /\ IsIdentifierLike(t, x) <=> (ColumnRefusal(t, x) = "near_unique")
  BY DEF IdentifiersAgree
<1> DEFINE lines == Present(t, x)
           counts == CountsOf(t, x, lines)
           n == Size(lines)
           levels == Cardinality(Distinct(t, x, lines))
           near == levels > TopMax /\ 10 * levels >= 9 * n
           held == ParetoShown(counts, FALSE)
           whole == View("ok", Folded(counts, held), n, held /= DOMAIN counts)
           wrong == IsNumericDtype(t, x)
           unique == IsNearUnique(Cardinality(DOMAIN counts), n)
<1>1. x \in AllColumns /\ ~wrong
  BY KindsOfColumns
<1>2. lines \in SUBSET DOMAIN t /\ n \in Nat
  BY UsableLines, LinesAreFinite DEF Size
<1>3. DOMAIN counts = Distinct(t, x, lines) /\ levels \in Nat
  <2> HIDE DEF lines
  <2> QED
    BY <1>1, <1>2, CountsAreCounts, FS_CardinalityType
<1>4. TopMax \in Nat /\ TopMax >= 2
  BY ChartsAssumption
<1>5. IsIdentifierLike(t, x) <=> n > 0 /\ near
  BY <1>3, <1>4 DEF IsIdentifierLike
<1>6. unique <=> n > 0 /\ near
  BY <1>3 DEF IsNearUnique
<1>7. ParetoCategory(t, x, FALSE) = CASE wrong -> Refused("invalid_type")
                                      [] n = 0 -> Refused("no_data")
                                      [] unique -> Refused("near_unique")
                                      [] OTHER -> whole
  BY DEF ParetoCategory, CategoryCounts, Population
<1>8. /\ Refused("no_data").status = "no_data" /\ Refused("near_unique").status = "near_unique"
      /\ whole.status = "ok"
  BY RefusedIsNothing DEF View
<1>9. ColumnRefusal(t, x) = CASE n = 0 -> "empty" [] levels = 1 -> "constant" [] near -> "near_unique" [] OTHER -> ""
  BY DEF ColumnRefusal
<1>10. near => levels > TopMax
  OBVIOUS
<1>11. n = 0 => levels = 0
  <2>1. n = 0 => lines = {}
    BY <1>2, LinesAreFinite, FS_EmptySet DEF Size
  <2>2. lines = {} => Distinct(t, x, lines) = {}
    BY DEF Distinct
  <2> QED
    BY <2>1, <2>2, FS_EmptySet
<1> HIDE DEF whole, wrong, n, levels, near, unique
<1>12. IsIdentifierLike(t, x) <=> (ParetoCategory(t, x, FALSE).status = "near_unique")
  <2>1. CASE n = 0
    <3>1. ~(n > 0)
      BY <2>1
    <3>2. ParetoCategory(t, x, FALSE) = Refused("no_data")
      BY <1>1, <1>6, <1>7, <2>1, <3>1
    <3> QED
      BY <1>5, <1>8, <3>1, <3>2
  <2>2. CASE n # 0 /\ near
    BY <1>1, <1>2, <1>5, <1>6, <1>7, <1>8, <2>2
  <2>3. CASE n # 0 /\ ~near
    BY <1>1, <1>2, <1>5, <1>6, <1>7, <1>8, <2>3
  <2> QED
    BY <2>1, <2>2, <2>3
<1>13. IsIdentifierLike(t, x) <=> (ColumnRefusal(t, x) = "near_unique")
  <2>1. near => ~(levels = 1)
    BY <1>3, <1>4, <1>10
  <2>2. CASE n = 0
    <3>1. ~(n > 0)
      BY <2>2
    <3>2. ~near
      BY <1>4, <1>10, <1>11, <2>2
    <3>3. ColumnRefusal(t, x) \in {"empty", "constant", ""}
      BY <1>9, <2>2, <3>2
    <3> QED
      BY <1>5, <3>1, <3>3
  <2>3. CASE n # 0 /\ near
    <3>1. ColumnRefusal(t, x) = "near_unique" /\ n > 0
      BY <1>2, <1>9, <2>1, <2>3
    <3> QED
      BY <1>5, <2>3, <3>1
  <2>4. CASE n # 0 /\ ~near
    <3>1. ColumnRefusal(t, x) \in {"constant", ""}
      BY <1>9, <2>4
    <3> QED
      BY <1>5, <2>4, <3>1
  <2> QED
    BY <2>2, <2>3, <2>4
<1> QED
  BY <1>12, <1>13

\* With room for every column, none is left out.
LEMMA AllScattersCorrelate ==
    ASSUME NEW t, IsGrid(t)
    PROVE  ScatterIsCorrelation(t)
<1> SUFFICES ASSUME Cardinality(NumberColumns(t)) <= CorrColumns,
                    NEW one \in NumberColumns(t), NEW two \in NumberColumns(t), one # two
             PROVE  <<one, two>> \in CorrelationMatrix(t, {}) <=> PairRefusal(t, one, two) = ""
  BY DEF ScatterIsCorrelation
<1> DEFINE S == NumberColumns(t)
           columns == CorrelationColumns(t, {})
           over == {columns[k] : k \in DOMAIN columns}
           lines == FinitePairs(t, one, two)
           varies == ~IsConstant(t, one, lines) /\ ~IsConstant(t, two, lines)
<1>1. /\ S \in SUBSET AllColumns /\ IsNumericDtype(t, one) /\ IsNumericDtype(t, two)
      /\ one \in AllColumns /\ two \in AllColumns
  BY KindsOfColumns
<1>2. /\ InFrame(S) \in Seq(S) /\ Len(InFrame(S)) = Cardinality(S) /\ Cardinality(S) \in Nat
      /\ DOMAIN InFrame(S) = 1 .. Len(InFrame(S))
      /\ \A x \in S : \E r \in DOMAIN InFrame(S) : InFrame(S)[r] = x
  BY <1>1, FrameColumns
<1>3. columns = Atmost(CorrColumns, InFrame(S))
  <2>1. S \cap {} = {}
    OBVIOUS
  <2> QED
    BY <2>1 DEF CorrelationColumns
<1> HIDE DEF S, columns
<1>4. columns = InFrame(S)
  <2> DEFINE q == InFrame(S)
  <2>1. CorrColumns \in Nat /\ Cardinality(S) <= CorrColumns
    BY ChartsAssumption DEF S
  <2>2. q \in Seq(S) /\ Len(q) \in Nat /\ Len(q) <= CorrColumns
    BY <1>2, <2>1
  <2>3. columns = SubSeq(q, 1, IF CorrColumns < Len(q) THEN CorrColumns ELSE Len(q))
    BY <1>3 DEF Atmost
  <2> HIDE DEF q
  <2>4. columns = SubSeq(q, 1, Len(q))
    BY <2>1, <2>2, <2>3
  <2>5. SubSeq(q, 1, Len(q)) = q
    BY <2>2
  <2> QED
    BY <2>4, <2>5 DEF q
<1>5. one \in over /\ two \in over
  BY <1>2, <1>4 DEF S
<1>6. <<one, two>> \in CorrelationMatrix(t, {}) <=> Size(lines) >= 2 /\ varies
  <2> DEFINE Compared(p) == LET both == FinitePairs(t, p[1], p[2])
                            IN  Size(both) >= 2 /\ ~IsConstant(t, p[1], both) /\ ~IsConstant(t, p[2], both)
  <2>1. CorrelationMatrix(t, {}) = {p \in over \X over : Compared(p)}
    BY DEF CorrelationMatrix, columns
  <2>2. <<one, two>> \in over \X over
    BY <1>5
  <2>3. Compared(<<one, two>>) <=> Size(lines) >= 2 /\ varies
    OBVIOUS
  <2> HIDE DEF over, Compared
  <2> QED
    BY <2>1, <2>2, <2>3
<1>7. PairRefusal(t, one, two) = "" <=> varies
  BY <1>1 DEF PairRefusal
<1>8. varies => Size(lines) >= 2
  <2> DEFINE values == Distinct(t, one, lines)
             f == [i \in lines |-> t[i][one].value]
  <2>1. lines \in SUBSET DOMAIN t
    BY UsableLines DEF FinitePairs
  <2>2. IsFiniteSet(lines) /\ Cardinality(lines) \in Nat
    <3> HIDE DEF lines
    <3> QED
      BY <2>1, LinesAreFinite
  <2>3. f \in Surjection(lines, values)
    BY DEF Distinct, Surjection
  <2> HIDE DEF lines, values, f
  <2>4. IsFiniteSet(values) /\ Cardinality(values) <= Cardinality(lines) /\ Cardinality(values) \in Nat
    BY <2>2, <2>3, FS_Surjection, FS_CardinalityType
  <2>5. ~IsConstant(t, one, lines) => Cardinality(values) >= 2
    BY <2>4, ConstantHasOneValue DEF values
  <2> QED
    BY <2>2, <2>4, <2>5 DEF Size
<1> QED
  BY <1>6, <1>7, <1>8

-----------------------------------------------------------------------------
(***************************************************************************)
(* What the guide suggests                                                 *)
(***************************************************************************)

Suggested(visual, columns, available) == [visual |-> visual, columns |-> columns, available |-> available]

Visuals == {"shape", "log", "pareto", "none", "pattern", "missing together", "scatter", "by category",
            "crosstab", "aggregation", "time categories"}

Suggestions == [visual : Visuals, columns : Seq(AllColumns), available : BOOLEAN]

\* The suggestions that are drawn.
Fitting(t) == {s \in Suggestions : SuggestionIsDrawn(t, s)}

LEMMA OneSuggestion ==
    ASSUME NEW t, NEW visual \in Visuals, NEW columns \in Seq(AllColumns), NEW available \in BOOLEAN,
           SuggestionIsDrawn(t, Suggested(visual, columns, available))
    PROVE  Suggestion(visual, columns, available) \in Seq(Fitting(t))
<1> DEFINE s == Suggested(visual, columns, available)
<1>1. s \in Suggestions
  BY DEF Suggested, Suggestions
<1>2. Suggestion(visual, columns, available) = <<s>>
  BY DEF Suggestion, Suggested
<1> HIDE DEF s
<1>3. s \in Fitting(t)
  BY <1>1 DEF Fitting, s
<1> HIDE DEF Fitting
<1> QED
  BY <1>2, <1>3

LEMMA NoSuggestionFits == \A t : NoSuggestion \in Seq(Fitting(t))
<1>1. TAKE t
<1> DEFINE F == Fitting(t)
<1> HIDE DEF F
<1>2. <<>> \in Seq(F)
  OBVIOUS
<1> QED
  BY <1>2 DEF NoSuggestion, F

\* Suggestions that take the first columns of sets of columns.
LEMMA FirstFits ==
    ASSUME NEW t, NEW visual \in Visuals, NEW S \in SUBSET AllColumns,
           \A x \in S : SuggestionIsDrawn(t, Suggested(visual, <<x>>, TRUE))
    PROVE  FirstOne(visual, InFrame(S)) \in Seq(Fitting(t))
<1> DEFINE columns == InFrame(S)
<1>1. CASE columns = <<>>
  BY <1>1, NoSuggestionFits DEF FirstOne
<1>2. CASE columns # <<>>
  <2>1. columns \in Seq(S)
    BY FrameColumns
  <2> HIDE DEF columns
  <2>2. Head(columns) \in S
    BY <1>2, <2>1
  <2> DEFINE x == Head(columns)
  <2>3. FirstOne(visual, columns) = Suggestion(visual, <<x>>, TRUE)
    BY <1>2 DEF FirstOne
  <2> HIDE DEF x
  <2>4. x \in S /\ x \in AllColumns
    BY <2>2 DEF x
  <2>5. <<x>> \in Seq(AllColumns)
    BY <2>4
  <2>6. SuggestionIsDrawn(t, Suggested(visual, <<x>>, TRUE))
    BY <2>4
  <2>7. Suggestion(visual, <<x>>, TRUE) \in Seq(Fitting(t))
    BY <2>5, <2>6, OneSuggestion
  <2> QED
    BY <2>3, <2>7 DEF columns
<1> QED
  BY <1>1, <1>2

LEMMA PairFits ==
    ASSUME NEW t, NEW visual \in Visuals, NEW S \in SUBSET AllColumns, NEW R \in SUBSET AllColumns,
           \A x \in S, y \in R : SuggestionIsDrawn(t, Suggested(visual, <<x, y>>, TRUE))
    PROVE  PairOf(visual, InFrame(S), InFrame(R)) \in Seq(Fitting(t))
<1> DEFINE first == InFrame(S)
           second == InFrame(R)
<1>1. CASE first = <<>> \/ second = <<>>
  BY <1>1, NoSuggestionFits DEF PairOf
<1>2. CASE first # <<>> /\ second # <<>>
  <2>1. first \in Seq(S) /\ second \in Seq(R)
    BY FrameColumns
  <2> HIDE DEF first, second
  <2>2. Head(first) \in S /\ Head(second) \in R
    BY <1>2, <2>1
  <2> DEFINE x == Head(first)
             y == Head(second)
  <2>3. PairOf(visual, first, second) = Suggestion(visual, <<x, y>>, TRUE)
    BY <1>2 DEF PairOf
  <2> HIDE DEF x, y
  <2>4. x \in S /\ y \in R /\ x \in AllColumns /\ y \in AllColumns
    BY <2>2 DEF x, y
  <2>5. <<x, y>> \in Seq(AllColumns)
    BY <2>4
  <2>6. SuggestionIsDrawn(t, Suggested(visual, <<x, y>>, TRUE))
    BY <2>4
  <2>7. Suggestion(visual, <<x, y>>, TRUE) \in Seq(Fitting(t))
    BY <2>5, <2>6, OneSuggestion
  <2> QED
    BY <2>3, <2>7 DEF first, second
<1> QED
  BY <1>1, <1>2

LEMMA FirstTwoFits ==
    ASSUME NEW t, NEW visual \in Visuals, NEW S \in SUBSET AllColumns,
           \A x, y \in S : SuggestionIsDrawn(t, Suggested(visual, <<x, y>>, TRUE))
    PROVE  FirstTwo(visual, InFrame(S)) \in Seq(Fitting(t))
<1> DEFINE columns == InFrame(S)
           short == Len(columns) < 2
<1>1. CASE short
  BY <1>1, NoSuggestionFits DEF FirstTwo
<1>2. CASE ~short
  <2>1. columns \in Seq(S)
    BY FrameColumns
  <2> HIDE DEF columns
  <2>2. columns[1] \in S /\ columns[2] \in S
    BY <1>2, <2>1
  <2> DEFINE x == columns[1]
             y == columns[2]
  <2>3. FirstTwo(visual, columns) = Suggestion(visual, <<x, y>>, TRUE)
    BY <1>2 DEF FirstTwo
  <2> HIDE DEF x, y
  <2>4. x \in S /\ y \in S /\ x \in AllColumns /\ y \in AllColumns
    BY <2>2 DEF x, y
  <2>5. <<x, y>> \in Seq(AllColumns)
    BY <2>4
  <2>6. SuggestionIsDrawn(t, Suggested(visual, <<x, y>>, TRUE))
    BY <2>4
  <2>7. Suggestion(visual, <<x, y>>, TRUE) \in Seq(Fitting(t))
    BY <2>5, <2>6, OneSuggestion
  <2> QED
    BY <2>3, <2>7 DEF columns
<1> QED
  BY <1>1, <1>2

-----------------------------------------------------------------------------
\* One kind of suggestion after the other.
LEMMA ChartIsDrawn ==
    ASSUME NEW t, IsGrid(t), NEW x \in NumberColumns(t), ~IsConstant(t, x, Usable(t, x)), NEW bins \in Nat \ {0}
    PROVE  NumericHistogram(t, x, bins).status = "ok" /\ Cardinality(Distinct(t, x, Usable(t, x))) >= 2
<1> DEFINE lines == Usable(t, x)
           values == Distinct(t, x, lines)
           marks == [b \in 1 .. bins |-> Size({i \in lines : BinOf(values, bins, t[i][x].value) = b})]
           few == Cardinality(values) < 2
           wrong == ~IsNumericDtype(t, x)
           whole == View("ok", marks, Size(lines), FALSE)
<1>1. x \in AllColumns /\ ~wrong
  BY KindsOfColumns
<1>2. lines \in SUBSET DOMAIN t
  BY UsableLines
<1>3. Cardinality(values) \in Nat
  <2> HIDE DEF lines
  <2> QED
    BY <1>1, <1>2, DistinctValues
<1>4. ~(Cardinality(values) <= 1)
  BY ConstantHasOneValue
<1>5. NumericHistogram(t, x, bins) =
          CASE wrong -> Refused("invalid_type") [] few -> Refused("insufficient_data") [] OTHER -> whole
  BY DEF NumericHistogram
<1>6. ~few /\ Cardinality(values) >= 2
  BY <1>3, <1>4
<1>7. whole.status = "ok"
  BY DEF View
<1> HIDE DEF wrong, few, whole
<1> QED
  BY <1>1, <1>5, <1>6, <1>7

\* A column with a QQ plot has a histogram.
LEMMA ShapesFit ==
    ASSUME NEW t, IsGrid(t)
    PROVE  NumericShape(t) \in Seq(Fitting(t))
<1> DEFINE S == {x \in NumberColumns(t) : QQEligible(t, x)}
<1>1. S \in SUBSET AllColumns
  BY KindsOfColumns
<1>2. ASSUME NEW x \in S PROVE SuggestionIsDrawn(t, Suggested("shape", <<x>>, TRUE))
  <2> DEFINE s == Suggested("shape", <<x>>, TRUE)
             n == Size(Usable(t, x))
             ranks == RowPositions(n, PlotRows)
             wrong == ~IsNumericDtype(t, x) /\ n = 0
             few == n < QQMin
             flat == ~RobustScaleExists(Distinct(t, x, Usable(t, x)))
             whole == View("ok", [k \in ranks |-> k], n, Cardinality(ranks) < n)
  <2>1. x \in NumberColumns(t) /\ n >= QQMin /\ ~IsConstant(t, x, Usable(t, x)) /\ ~wrong
    BY KindsOfColumns DEF QQEligible
  <2>2. NumericHistogram(t, x, HistogramMin).status = "ok" /\ ~flat
    BY <2>1, ChartIsDrawn, BinsMax DEF RobustScaleExists
  <2>3. n \in Nat /\ QQMin \in Nat
    BY UsableLines, LinesAreFinite, ChartsAssumption DEF Size
  <2>4. QQNormal(t, x) = CASE wrong -> Refused("invalid_type") [] few -> Refused("insufficient_data")
                           [] flat -> Refused("insufficient_variation") [] OTHER -> whole
    BY DEF QQNormal
  <2>5. ~few
    BY <2>1, <2>3
  <2>6. whole.status = "ok"
    BY DEF View
  <2> HIDE DEF wrong, few, flat, whole
  <2>7. QQNormal(t, x).status = "ok"
    BY <2>1, <2>2, <2>4, <2>5, <2>6
  <2>8. s.visual = "shape" /\ s.columns[1] = x
    BY DEF Suggested
  <2> HIDE DEF s
  <2> QED
    BY <2>2, <2>7, <2>8 DEF SuggestionIsDrawn, s
<1> HIDE DEF S
<1>3. FirstOne("shape", InFrame(S)) \in Seq(Fitting(t))
  <2>1. "shape" \in Visuals
    BY DEF Visuals
  <2> QED
    BY <1>1, <1>2, <2>1, FirstFits
<1> QED
  BY <1>3 DEF NumericShape, S

\* A skewed column varies.
LEMMA LogsFit ==
    ASSUME NEW t, IsGrid(t)
    PROVE  SkewedNumericView(t) \in Seq(Fitting(t))
<1> DEFINE S == {x \in NumberColumns(t) : Skewed(t, x) /\ Lean(t, x) > 0 /\ \A i \in Usable(t, x) : t[i][x].value > 0}
<1>1. S \in SUBSET AllColumns
  BY KindsOfColumns
<1>2. ASSUME NEW x \in S PROVE SuggestionIsDrawn(t, Suggested("log", <<x>>, TRUE))
  <2> DEFINE s == Suggested("log", <<x>>, TRUE)
             histogram == NumericHistogram(t, x, HistogramMin)
  <2>1. x \in NumberColumns(t) /\ x \in AllColumns /\ Lean(t, x) > 0
    BY KindsOfColumns
  <2>2. ~IsConstant(t, x, Usable(t, x))
    BY <2>1, ConstantDoesNotLean
  <2>3. histogram.status = "ok"
    BY <2>1, <2>2, ChartIsDrawn, BinsMax
  <2> DEFINE values == Distinct(t, x, Usable(t, x))
             positive == 1000 * Min(values) > Max(values) - Min(values)
             v == IF positive THEN histogram ELSE Refused("linear")
  <2>4. RenderLogHistogram(t, x, HistogramMin) = ViewNamed("log histogram", v)
    BY DEF RenderLogHistogram
  <2>5. s.visual = "log" /\ s.columns[1] = x
    BY DEF Suggested
  <2>6. RenderLogHistogram(t, x, HistogramMin)["log histogram"] = v
    BY <2>4, OneView
  <2> HIDE DEF s, histogram
  <2>7. positive => RenderLogHistogram(t, x, HistogramMin)["log histogram"].status = "ok"
    BY <2>3, <2>6
  <2> QED
    BY <2>5, <2>7 DEF SuggestionIsDrawn, s
<1> HIDE DEF S
<1>3. FirstOne("log", InFrame(S)) \in Seq(Fitting(t))
  <2>1. "log" \in Visuals
    BY DEF Visuals
  <2> QED
    BY <1>1, <1>2, <2>1, FirstFits
<1> QED
  BY <1>3 DEF SkewedNumericView, S

\* Where suggested pairs go.
LEMMA RouteOfPairs ==
    ASSUME NEW t, NEW x, NEW y
    PROVE  /\ x \in NumberColumns(t) /\ y \in NumberColumns(t) => Route(t, x, y)[1] = "scatter"
           /\ x \in NumberColumns(t) /\ y \in TextColumns(t) /\ y \notin DateColumns(t) =>
                  Route(t, x, y)[1] = "by category"
           /\ x \in TextColumns(t) /\ y \in TextColumns(t) /\ x \notin DateColumns(t) /\ y \notin DateColumns(t) =>
                  Route(t, x, y)[1] = "crosstab"
           /\ x \in DateColumns(t) /\ y \in NumberColumns(t) => Route(t, x, y)[1] = "aggregation"
           /\ x \in DateColumns(t) /\ y \in TextColumns(t) /\ y \notin DateColumns(t) =>
                  Route(t, x, y)[1] = "time categories"
<1> DEFINE timed == IF IsNumericDtype(t, y) THEN "aggregation" ELSE "time categories"
           under == <<IF IsNumericDtype(t, x) THEN "aggregation" ELSE "time categories", y, x>>
           a == x \in DateColumns(t) /\ y \notin DateColumns(t)
           b == y \in DateColumns(t) /\ x \notin DateColumns(t)
           p == IsNumericDtype(t, x)
           q == IsNumericDtype(t, y)
           over == <<timed, x, y>>
           scatter == <<"scatter", x, y>>
           group == <<"by category", x, y>>
           grouped == <<"by category", y, x>>
           crossed == <<"crosstab", x, y>>
<1>1. Route(t, x, y) = IF a THEN over ELSE IF b THEN under
                       ELSE CASE p /\ q -> scatter [] p /\ ~q -> group [] q /\ ~p -> grouped [] OTHER -> crossed
  BY DEF Route
<1>2. /\ x \in NumberColumns(t) => p /\ x \notin DateColumns(t)
      /\ y \in NumberColumns(t) => q /\ y \notin DateColumns(t)
      /\ x \in TextColumns(t) \cup DateColumns(t) => ~p
      /\ y \in TextColumns(t) \cup DateColumns(t) => ~q
  BY KindsOfColumns
<1>3. /\ scatter[1] = "scatter" /\ group[1] = "by category" /\ crossed[1] = "crosstab" /\ over[1] = timed
      /\ q => timed = "aggregation"
      /\ ~q => timed = "time categories"
  OBVIOUS
<1> HIDE DEF p, q, over, timed, under, scatter, group, grouped, crossed
<1>4. CASE x \in NumberColumns(t) /\ y \in NumberColumns(t)
  <2>1. Route(t, x, y) = scatter
    BY <1>1, <1>2, <1>4
  <2> QED
    BY <1>2, <1>3, <1>4, <2>1
<1>5. x \in NumberColumns(t) /\ y \in TextColumns(t) /\ y \notin DateColumns(t) => Route(t, x, y) = group
  BY <1>1, <1>2
<1>6. x \in TextColumns(t) /\ y \in TextColumns(t) /\ x \notin DateColumns(t) /\ y \notin DateColumns(t) =>
          Route(t, x, y) = crossed
  BY <1>1, <1>2
<1>7. x \in NumberColumns(t) /\ y \in NumberColumns(t) => Route(t, x, y) = scatter
  BY <1>1, <1>2
<1>8. x \in DateColumns(t) /\ y \in NumberColumns(t) => Route(t, x, y) = over /\ timed = "aggregation"
  BY <1>1, <1>2, <1>3
<1>9. x \in DateColumns(t) /\ y \in TextColumns(t) /\ y \notin DateColumns(t) =>
          Route(t, x, y) = over /\ timed = "time categories"
  BY <1>1, <1>2, <1>3
<1> QED
  BY <1>3, <1>5, <1>6, <1>7, <1>8, <1>9

PairVisuals == {"scatter", "by category", "crosstab", "aggregation", "time categories"}

\* As the view it was suggested for, or with a date for a category.
GoesThere(t, visual, x, y) ==
    \/ Route(t, x, y)[1] = visual
    \/ visual \in {"by category", "crosstab"} /\ {x, y} \cap DateColumns(t) # {}

LEMMA PairIsDrawn ==
    ASSUME NEW t, NEW visual \in PairVisuals, NEW x, NEW y, GoesThere(t, visual, x, y)
    PROVE  SuggestionIsDrawn(t, Suggested(visual, <<x, y>>, TRUE))
<1> DEFINE s == Suggested(visual, <<x, y>>, TRUE)
<1>1. s.visual = visual /\ s.columns = <<x, y>> /\ s.columns[1] = x /\ s.columns[2] = y
  BY DEF Suggested
<1> HIDE DEF s
<1>2. s.visual \notin {"shape", "log", "pareto", "pattern", "missing together", "none"}
  BY <1>1 DEF PairVisuals
<1>3. SuggestionIsDrawn(t, s)
  <2>1. SuggestionIsDrawn(t, s) = (\/ Route(t, s.columns[1], s.columns[2])[1] = s.visual
                                   \/ /\ s.visual \in {"by category", "crosstab"}
                                      /\ {s.columns[1], s.columns[2]} \cap DateColumns(t) # {})
    BY <1>2 DEF SuggestionIsDrawn
  <2> QED
    BY <1>1, <2>1 DEF GoesThere
<1> QED
  BY <1>3 DEF s

\* A suggested pair goes where it is suggested to go.
LEMMA PairsFit ==
    ASSUME NEW t
    PROVE  /\ NumericPair(t) \in Seq(Fitting(t))
           /\ NumericCategorical(t) \in Seq(Fitting(t))
           /\ CategoricalPair(t) \in Seq(Fitting(t))
           /\ DatetimeNumeric(t) \in Seq(Fitting(t))
           /\ DatetimeCategorical(t) \in Seq(Fitting(t))
<1> DEFINE N == NumberColumns(t)
           C == TextColumns(t) \ Identifiers(t)
           D == DateColumns(t)
           E == (TextColumns(t) \ Identifiers(t)) \ DateColumns(t)
<1>1. N \in SUBSET AllColumns /\ C \in SUBSET AllColumns /\ D \in SUBSET AllColumns /\ E \in SUBSET AllColumns
  BY KindsOfColumns
<1>2. PairVisuals \subseteq Visuals /\ PairVisuals = {"scatter", "by category", "crosstab", "aggregation", "time categories"}
  BY DEF Visuals, PairVisuals
<1>3. ASSUME NEW x \in N, NEW y \in N PROVE SuggestionIsDrawn(t, Suggested("scatter", <<x, y>>, TRUE))
  <2>1. Route(t, x, y)[1] = "scatter"
    BY RouteOfPairs
  <2>2. GoesThere(t, "scatter", x, y)
    BY <2>1 DEF GoesThere
  <2> QED
    BY <1>2, <2>2, PairIsDrawn
<1>4. ASSUME NEW x \in N, NEW y \in C PROVE SuggestionIsDrawn(t, Suggested("by category", <<x, y>>, TRUE))
  <2>1. y \notin DateColumns(t) => Route(t, x, y)[1] = "by category"
    BY RouteOfPairs
  <2>2. y \in DateColumns(t) => {x, y} \cap DateColumns(t) # {}
    OBVIOUS
  <2>3. GoesThere(t, "by category", x, y)
    BY <2>1, <2>2 DEF GoesThere
  <2> QED
    BY <1>2, <2>3, PairIsDrawn
<1>5. ASSUME NEW x \in C, NEW y \in C PROVE SuggestionIsDrawn(t, Suggested("crosstab", <<x, y>>, TRUE))
  <2>1. x \notin DateColumns(t) /\ y \notin DateColumns(t) => Route(t, x, y)[1] = "crosstab"
    BY RouteOfPairs
  <2>2. x \in DateColumns(t) \/ y \in DateColumns(t) => {x, y} \cap DateColumns(t) # {}
    OBVIOUS
  <2>3. GoesThere(t, "crosstab", x, y)
    BY <2>1, <2>2 DEF GoesThere
  <2> QED
    BY <1>2, <2>3, PairIsDrawn
<1>6. ASSUME NEW x \in D, NEW y \in N PROVE SuggestionIsDrawn(t, Suggested("aggregation", <<x, y>>, TRUE))
  <2>1. Route(t, x, y)[1] = "aggregation"
    BY RouteOfPairs
  <2>2. GoesThere(t, "aggregation", x, y)
    BY <2>1 DEF GoesThere
  <2> QED
    BY <1>2, <2>2, PairIsDrawn
<1>7. ASSUME NEW x \in D, NEW y \in E PROVE SuggestionIsDrawn(t, Suggested("time categories", <<x, y>>, TRUE))
  <2>1. Route(t, x, y)[1] = "time categories"
    BY RouteOfPairs
  <2>2. GoesThere(t, "time categories", x, y)
    BY <2>1 DEF GoesThere
  <2> QED
    BY <1>2, <2>2, PairIsDrawn
<1> HIDE DEF N, C, D, E
<1>8. /\ FirstTwo("scatter", InFrame(N)) \in Seq(Fitting(t))
      /\ FirstTwo("crosstab", InFrame(C)) \in Seq(Fitting(t))
  <2>1. FirstTwo("scatter", InFrame(N)) \in Seq(Fitting(t))
    BY <1>1, <1>2, <1>3, FirstTwoFits
  <2>2. FirstTwo("crosstab", InFrame(C)) \in Seq(Fitting(t))
    BY <1>1, <1>2, <1>5, FirstTwoFits
  <2> QED
    BY <2>1, <2>2
<1>9. PairOf("by category", InFrame(N), InFrame(C)) \in Seq(Fitting(t))
  BY <1>1, <1>2, <1>4, PairFits
<1>10. PairOf("aggregation", InFrame(D), InFrame(N)) \in Seq(Fitting(t))
  BY <1>1, <1>2, <1>6, PairFits
<1>11. PairOf("time categories", InFrame(D), InFrame(E)) \in Seq(Fitting(t))
  BY <1>1, <1>2, <1>7, PairFits
<1>12. NumericPair(t) \in Seq(Fitting(t)) /\ CategoricalPair(t) \in Seq(Fitting(t))
  BY <1>8 DEF NumericPair, CategoricalPair, NumberSeq, GuideCategories, N, C
<1>13. NumericCategorical(t) \in Seq(Fitting(t))
  BY <1>9 DEF NumericCategorical, NumberSeq, GuideCategories, N, C
<1>14. DatetimeNumeric(t) \in Seq(Fitting(t)) /\ DatetimeCategorical(t) \in Seq(Fitting(t))
  BY <1>10, <1>11 DEF DatetimeNumeric, DatetimeCategorical, DatetimeCandidates, NumberSeq, D, N, E
<1> QED
  BY <1>12, <1>13, <1>14

\* A category that is no identifier is not refused as one.
LEMMA ParetosFit ==
    ASSUME NEW t, IsGrid(t)
    PROVE  CategoricalConcentration(t) \in Seq(Fitting(t))
<1> DEFINE C == TextColumns(t) \ Identifiers(t)
<1>1. C \in SUBSET AllColumns
  BY KindsOfColumns
<1>2. ASSUME NEW x \in C PROVE SuggestionIsDrawn(t, Suggested("pareto", <<x>>, TRUE))
  <2> DEFINE s == Suggested("pareto", <<x>>, TRUE)
             lines == Present(t, x)
             counts == CountsOf(t, x, lines)
             n == Size(lines)
             held == ParetoShown(counts, FALSE)
             whole == View("ok", Folded(counts, held), n, held /= DOMAIN counts)
             wrong == IsNumericDtype(t, x)
             unique == IsNearUnique(Cardinality(DOMAIN counts), n)
  <2>1. ~wrong /\ x \in TextColumns(t) /\ ~IsIdentifierLike(t, x)
    BY KindsOfColumns DEF Identifiers
  <2>2. ParetoCategory(t, x, FALSE).status # "near_unique"
    BY <2>1, AllIdentifiersAgree DEF IdentifiersAgree
  <2>3. ParetoCategory(t, x, FALSE) = CASE wrong -> Refused("invalid_type")
                                        [] n = 0 -> Refused("no_data")
                                        [] unique -> Refused("near_unique")
                                        [] OTHER -> whole
    BY DEF ParetoCategory, CategoryCounts, Population
  <2>4. whole.status = "ok" /\ Refused("near_unique").status = "near_unique"
    BY RefusedIsNothing DEF View
  <2>5. lines # {} => n # 0
    BY UsableLines, LinesAreFinite, FS_EmptySet DEF Size
  <2>6. s.visual = "pareto" /\ s.columns = <<x>> /\ s.columns[1] = x
    BY DEF Suggested
  <2> HIDE DEF s, n, whole, wrong, unique
  <2>7. n # 0 => ParetoCategory(t, x, FALSE).status = "ok"
    BY <2>1, <2>2, <2>3, <2>4
  <2>8. SuggestionIsDrawn(t, s) =
          ((\A j \in DOMAIN s.columns : Present(t, s.columns[j]) # {})
               => ParetoCategory(t, s.columns[1], FALSE).status = "ok")
    BY <2>6 DEF SuggestionIsDrawn
  <2>9. (\A j \in DOMAIN s.columns : Present(t, s.columns[j]) # {}) => n # 0
    BY <2>5, <2>6
  <2>10. SuggestionIsDrawn(t, s)
    BY <2>6, <2>7, <2>8, <2>9
  <2> QED
    BY <2>10 DEF s
<1> HIDE DEF C
<1>3. "pareto" \in Visuals
  BY DEF Visuals
<1>4. FirstOne("pareto", InFrame(C)) \in Seq(Fitting(t))
  BY <1>1, <1>2, <1>3, FirstFits
<1> QED
  BY <1>4 DEF CategoricalConcentration, GuideCategories, C

LEMMA IdentifiersFit ==
    ASSUME NEW t
    PROVE  IdentifierLikeColumns(t) \in Seq(Fitting(t))
<1> DEFINE columns == GuideIdentifiers(t)
           s == Suggested("none", columns, FALSE)
<1>1. columns \in Seq(AllColumns)
  <2>1. Identifiers(t) \in SUBSET AllColumns
    BY KindsOfColumns
  <2>2. columns \in Seq(Identifiers(t))
    BY <2>1, FrameColumns DEF GuideIdentifiers
  <2> HIDE DEF columns
  <2> QED
    BY <2>1, <2>2
<1>2. SuggestionIsDrawn(t, s)
  <2>1. s.visual = "none"
    BY DEF Suggested
  <2> HIDE DEF s
  <2> QED
    BY <2>1 DEF SuggestionIsDrawn
<1>3. "none" \in Visuals
  BY DEF Visuals
<1> HIDE DEF columns
<1>4. Suggestion("none", columns, FALSE) \in Seq(Fitting(t))
  BY <1>1, <1>2, <1>3, OneSuggestion
<1> QED
  BY <1>4, NoSuggestionFits DEF IdentifierLikeColumns, columns

\* What is missing has a pattern, and two columns that vary an association.
LEMMA MissingnessFits ==
    ASSUME NEW t, IsGrid(t)
    PROVE  MissingnessStructure(t) \in Seq(Fitting(t))
<1> DEFINE columns == MissingColumns(t, FALSE)
           S == Gappy(t)
           R == {x \in AllColumns : MissingIn(t, x) # {} /\ MissingIn(t, x) # DOMAIN t}
           some == IF columns = <<>> THEN NoSuggestion ELSE Suggestion("pattern", columns, TRUE)
           few == Len(columns) < 2
           more == IF few THEN NoSuggestion ELSE Suggestion("missing together", columns, TRUE)
<1>1. columns = ColumnsBy(S, MissingOrder(t)) /\ S \in SUBSET AllColumns
  BY DEF MissingColumns, Gappy
<1>2. /\ columns \in Seq(S) /\ Len(columns) = Cardinality(S)
      /\ \A x \in S : \E r \in DOMAIN columns : columns[r] = x
  <2> DEFINE order == MissingOrder(t)
  <2>1. TotalOrder(AllColumns, order)
    BY MissingIsOrdered
  <2> HIDE DEF order, S, columns
  <2>2. /\ ColumnsBy(S, order) \in Seq(S) /\ Len(ColumnsBy(S, order)) = Cardinality(S)
        /\ \A x \in S : \E r \in DOMAIN ColumnsBy(S, order) : ColumnsBy(S, order)[r] = x
    BY <1>1, <2>1, OrderedColumns
  <2>3. columns = ColumnsBy(S, order)
    BY <1>1 DEF order
  <2> QED
    BY <2>2, <2>3
<1>3. columns \in Seq(AllColumns)
  <2> HIDE DEF S, columns
  <2> QED
    BY <1>1, <1>2
<1>4. MissingColumns(t, TRUE) = ColumnsBy(R, MissingOrder(t)) /\ R \in SUBSET AllColumns
  BY DEF MissingColumns
<1>5. Len(MissingColumns(t, TRUE)) = Cardinality(R)
  BY <1>4, MissingIsOrdered, OrderedColumns
<1>6. some \in Seq(Fitting(t))
  <2> DEFINE s == Suggested("pattern", columns, TRUE)
  <2>1. ASSUME columns # <<>> PROVE MissingnessPattern(t).status = "ok"
    BY <2>1 DEF MissingnessPattern, View
  <2>2. s.visual = "pattern"
    BY DEF Suggested
  <2> HIDE DEF s
  <2>3. columns # <<>> => SuggestionIsDrawn(t, s)
    BY <2>1, <2>2 DEF SuggestionIsDrawn
  <2>4. "pattern" \in Visuals
    BY DEF Visuals
  <2> HIDE DEF columns
  <2>5. columns # <<>> => Suggestion("pattern", columns, TRUE) \in Seq(Fitting(t))
    BY <1>3, <2>3, <2>4, OneSuggestion DEF s
  <2> QED
    BY <2>5, NoSuggestionFits
<1>7. more \in Seq(Fitting(t))
  <2> DEFINE s == Suggested("missing together", columns, TRUE)
             usual == \A j \in DOMAIN columns : Present(t, columns[j]) # {}
  <2>1. s.visual = "missing together" /\ s.columns = columns
    BY DEF Suggested
  <2>2. ASSUME ~few, usual PROVE MissingnessAssociation(t).status # "insufficient_columns"
    <3>1. \A x \in S : Present(t, x) # {}
      BY <1>2, <2>2
    <3>2. S = R
      BY <3>1, UsableLines DEF Gappy, MissingIn
    <3>3. ~(Len(MissingColumns(t, TRUE)) < 2)
      BY <1>2, <1>5, <2>2, <3>2
    <3> DEFINE held == Atmost(AssocColumns, MissingColumns(t, TRUE))
               lines == RowPositions(Len(t), PlotRows)
               varying == {k \in DOMAIN held : MissingIn(t, held[k]) \cap lines \notin {{}, lines}}
               short == Len(MissingColumns(t, TRUE)) < 2
               flat == Cardinality(varying) < 2
               whole == View("ok", varying, 0, lines /= DOMAIN t)
    <3>4. MissingnessAssociation(t) = CASE short -> Refused("insufficient_columns")
                                        [] flat -> Refused("insufficient_variation") [] OTHER -> whole
      BY DEF MissingnessAssociation
    <3>5. whole.status = "ok" /\ Refused("insufficient_variation").status = "insufficient_variation"
      BY RefusedIsNothing DEF View
    <3> HIDE DEF short, flat, whole
    <3>6. ~short
      BY <3>3 DEF short
    <3> QED
      BY <3>4, <3>5, <3>6
  <2> HIDE DEF s
  <2>3. SuggestionIsDrawn(t, s) =
          ((\A j \in DOMAIN s.columns : Present(t, s.columns[j]) # {})
               => MissingnessAssociation(t).status # "insufficient_columns")
    BY <2>1 DEF SuggestionIsDrawn
  <2>4. ~few => SuggestionIsDrawn(t, s)
    BY <2>1, <2>2, <2>3
  <2>5. "missing together" \in Visuals
    BY DEF Visuals
  <2> HIDE DEF columns, few
  <2>6. ~few => Suggestion("missing together", columns, TRUE) \in Seq(Fitting(t))
    BY <1>3, <2>4, <2>5, OneSuggestion DEF s
  <2> QED
    BY <2>6, NoSuggestionFits
<1>8. MissingnessStructure(t) = some \o more
  BY DEF MissingnessStructure
<1> HIDE DEF some, more
<1> DEFINE F == Fitting(t)
<1> HIDE DEF F
<1>9. some \in Seq(F) /\ more \in Seq(F) => some \o more \in Seq(F)
  OBVIOUS
<1> QED
  BY <1>6, <1>7, <1>8, <1>9 DEF F

\* Whatever the guide suggests is drawn as it was suggested.
LEMMA SuggestionsAreDrawn ==
    ASSUME NEW t, IsGrid(t)
    PROVE  \A k \in DOMAIN VisualExplorations(t) : SuggestionIsDrawn(t, VisualExplorations(t)[k])
<1> DEFINE F == Fitting(t)
           a == NumericShape(t)
           b == SkewedNumericView(t)
           c == CategoricalConcentration(t)
           d == IdentifierLikeColumns(t)
           e == MissingnessStructure(t)
           f == NumericPair(t)
           g == NumericCategorical(t)
           h == CategoricalPair(t)
           i == DatetimeNumeric(t)
           j == DatetimeCategorical(t)
           all == a \o b \o c \o d \o e \o f \o g \o h \o i \o j
<1>1. /\ a \in Seq(F) /\ b \in Seq(F) /\ c \in Seq(F) /\ d \in Seq(F) /\ e \in Seq(F)
      /\ f \in Seq(F) /\ g \in Seq(F) /\ h \in Seq(F) /\ i \in Seq(F) /\ j \in Seq(F)
  BY ShapesFit, LogsFit, ParetosFit, IdentifiersFit, MissingnessFits, PairsFit
<1>2. VisualExplorations(t) = Atmost(GuideMax, all)
  BY DEF VisualExplorations
<1>3. \A s \in F : SuggestionIsDrawn(t, s)
  BY DEF Fitting
<1> HIDE DEF F, a, b, c, d, e, f, g, h, i, j
<1>4. all \in Seq(F)
  <2>1. a \o b \in Seq(F)
    BY <1>1
  <2>2. a \o b \o c \in Seq(F)
    BY <1>1, <2>1
  <2>3. a \o b \o c \o d \in Seq(F)
    BY <1>1, <2>2
  <2>4. a \o b \o c \o d \o e \in Seq(F)
    BY <1>1, <2>3
  <2>5. a \o b \o c \o d \o e \o f \in Seq(F)
    BY <1>1, <2>4
  <2>6. a \o b \o c \o d \o e \o f \o g \in Seq(F)
    BY <1>1, <2>5
  <2>7. a \o b \o c \o d \o e \o f \o g \o h \in Seq(F)
    BY <1>1, <2>6
  <2>8. a \o b \o c \o d \o e \o f \o g \o h \o i \in Seq(F)
    BY <1>1, <2>7
  <2> QED
    BY <1>1, <2>8
<1> HIDE DEF all
<1> DEFINE n == IF GuideMax < Len(all) THEN GuideMax ELSE Len(all)
<1>5. n \in 0 .. Len(all)
  BY <1>4, EdaAssumption
<1>6. VisualExplorations(t) = SubSeq(all, 1, n)
  BY <1>2 DEF Atmost
<1> HIDE DEF n
<1>7. SubSeq(all, 1, n) \in Seq(F)
  BY <1>4, <1>5
<1>8. \A k \in DOMAIN SubSeq(all, 1, n) : SubSeq(all, 1, n)[k] \in F
  <2> DEFINE q == SubSeq(all, 1, n)
  <2>1. q \in Seq(F)
    BY <1>7
  <2> HIDE DEF q
  <2>2. \A k \in DOMAIN q : q[k] \in F
    BY <2>1
  <2> QED
    BY <2>2 DEF q
<1> QED
  BY <1>3, <1>6, <1>8

-----------------------------------------------------------------------------
(***************************************************************************)
(* What the guide has said                                                 *)
(***************************************************************************)

Titles == {"missing", "cardinality", "correlation", "skewness", "time", "imbalance", "sampling",
           "capped correlation"}

Advices == [title : Titles, columns : Seq(AllColumns)]

Advised(title, columns) == [title |-> title, columns |-> columns]

Has(seq, a) == \E k \in DOMAIN seq : seq[k] = a

LEMMA PiecesAreHeld ==
    ASSUME NEW A, NEW p \in Seq(A), NEW q \in Seq(A), NEW a
    PROVE  p \o q \in Seq(A) /\ (Has(p, a) \/ Has(q, a) => Has(p \o q, a))
<1>1. p \o q \in Seq(A)
  OBVIOUS
<1>2. ASSUME NEW k \in DOMAIN p, p[k] = a PROVE Has(p \o q, a)
  <2>1. k \in DOMAIN (p \o q) /\ (p \o q)[k] = a
    BY <1>2
  <2> QED
    BY <2>1 DEF Has
<1>3. ASSUME NEW k \in DOMAIN q, q[k] = a PROVE Has(p \o q, a)
  <2>1. k \in 1 .. Len(q) /\ Len(p) \in Nat /\ Len(q) \in Nat
    OBVIOUS
  <2>2. Len(p) + k \in DOMAIN (p \o q) /\ (p \o q)[Len(p) + k] = a
    BY <1>3, <2>1
  <2> QED
    BY <2>2 DEF Has
<1> QED
  BY <1>1, <1>2, <1>3 DEF Has

\* Advice for every column of a list.
LEMMA AdvicePerColumn ==
    ASSUME NEW title \in Titles, NEW columns \in Seq(AllColumns)
    PROVE  /\ Advice(title, columns) \in Seq(Advices)
           /\ \A k \in DOMAIN columns : Has(Advice(title, columns), Advised(title, <<columns[k]>>))
<1> DEFINE one == [k \in DOMAIN columns |-> Advised(title, <<columns[k]>>)]
           n == Len(columns)
<1>1. Advice(title, columns) = one
  BY DEF Advice, Advised
<1>2. \A k \in DOMAIN columns : Advised(title, <<columns[k]>>) \in Advices
  BY DEF Advised, Advices
<1>3. n \in Nat /\ DOMAIN columns = 1 .. n
  OBVIOUS
<1>4. one \in [1 .. n -> Advices]
  BY <1>2, <1>3
<1>5. one \in Seq(Advices)
  <2> HIDE DEF one
  <2> QED
    BY <1>3, <1>4
<1>6. \A k \in DOMAIN columns : Has(one, Advised(title, <<columns[k]>>))
  BY DEF Has
<1> QED
  BY <1>1, <1>5, <1>6

LEMMA AdviceIfDue ==
    ASSUME NEW title \in Titles, NEW columns \in Seq(AllColumns), NEW due
    PROVE  /\ OneAdvice(title, columns, due) \in Seq(Advices)
           /\ due => Has(OneAdvice(title, columns, due), Advised(title, columns))
<1> DEFINE a == Advised(title, columns)
<1>1. OneAdvice(title, columns, due) = IF due THEN <<a>> ELSE <<>>
  BY DEF OneAdvice, Advised
<1>2. a \in Advices
  BY DEF Advised, Advices
<1> HIDE DEF a
<1>3. <<a>> \in Seq(Advices) /\ <<>> \in Seq(Advices)
  BY <1>2
<1>4. Has(<<a>>, a)
  BY DEF Has
<1> QED
  BY <1>1, <1>3, <1>4 DEF a

LEMMA ColumnsAreSeq ==
    ASSUME NEW S \in SUBSET AllColumns
    PROVE  InFrame(S) \in Seq(AllColumns) /\ \A t : IsGrid(t) => ColumnsBy(S, MissingOrder(t)) \in Seq(AllColumns)
<1>1. InFrame(S) \in Seq(S) /\ \A t : IsGrid(t) => ColumnsBy(S, MissingOrder(t)) \in Seq(S)
  BY FrameColumns, MissingIsOrdered, OrderedColumns
<1>2. \A q \in Seq(S) : q \in Seq(AllColumns)
  OBVIOUS
<1> QED
  BY <1>1, <1>2

\* With room for all of its advice, the guide says each of it.
LEMMA AllIsSaid ==
    ASSUME NEW t, IsGrid(t), Len(EdaActions(t)) < GuideMax, NEW a
    PROVE  \/ Has(HighCardinality(t), a)
           \/ Has(LargeDataset(t), a)
           \/ Has(WideNumeric(t), a)
           => Has(EdaActions(t), a)
<1> DEFINE p == HighMissingness(t)
           q == HighCardinality(t)
           r == StrongCorrelation(t)
           s == SkewedNumeric(t)
           u == UseTheTimeTab(t)
           v == DominantCategory(t)
           w == LargeDataset(t)
           z == WideNumeric(t)
           all == p \o q \o r \o s \o u \o v \o w \o z
           A == Advices
<1>1. Titles = {"missing", "cardinality", "correlation", "skewness", "time", "imbalance", "sampling",
                "capped correlation"}
  BY DEF Titles
<1>2. p \in Seq(A)
  <2> DEFINE S == {x \in AllColumns : 5 * Size(MissingIn(t, x)) > Len(t)}
  <2>1. S \in SUBSET AllColumns
    OBVIOUS
  <2> HIDE DEF S
  <2>2. ColumnsBy(S, MissingOrder(t)) \in Seq(AllColumns)
    BY <2>1, ColumnsAreSeq
  <2> QED
    BY <1>1, <2>2, AdvicePerColumn DEF HighMissingness, S
<1>3. q \in Seq(A)
  <2> DEFINE levels(x) == Cardinality(Distinct(t, x, Present(t, x)))
             S == {x \in TextColumns(t) : levels(x) > TopMax \/ 10 * levels(x) > 9 * Size(Present(t, x))}
  <2>1. S \in SUBSET AllColumns
    BY KindsOfColumns
  <2>2. q = Advice("cardinality", InFrame(S))
    BY DEF HighCardinality
  <2> HIDE DEF S, q
  <2>3. InFrame(S) \in Seq(AllColumns)
    BY <2>1, ColumnsAreSeq
  <2> QED
    BY <1>1, <2>2, <2>3, AdvicePerColumn
<1>4. r \in Seq(A) /\ w \in Seq(A) /\ z \in Seq(A)
  <2>1. <<>> \in Seq(AllColumns)
    OBVIOUS
  <2> QED
    BY <1>1, <2>1, AdviceIfDue DEF StrongCorrelation, LargeDataset, WideNumeric
<1>5. s \in Seq(A)
  <2> DEFINE S == {x \in NumberColumns(t) : Skewed(t, x)}
  <2>1. S \in SUBSET AllColumns
    BY KindsOfColumns
  <2> HIDE DEF S
  <2>2. InFrame(S) \in Seq(AllColumns)
    BY <2>1, ColumnsAreSeq
  <2> QED
    BY <1>1, <2>2, AdvicePerColumn DEF SkewedNumeric, S
<1>6. u \in Seq(A)
  <2>1. DatetimeCandidates(t) \in Seq(AllColumns)
    BY KindsOfColumns, ColumnsAreSeq
  <2> QED
    BY <1>1, <2>1, AdviceIfDue DEF UseTheTimeTab
<1>7. v \in Seq(A)
  <2> DEFINE counts(x) == CountsOf(t, x, Present(t, x))
             S == {x \in CategoricalOptions(t) :
                      \E l \in DOMAIN counts(x) : 10 * counts(x)[l] > 9 * Size(Present(t, x))}
  <2>1. S \in SUBSET AllColumns
    BY KindsOfColumns
  <2>2. v = Advice("imbalance", InFrame(S))
    BY DEF DominantCategory
  <2> HIDE DEF S, v
  <2>3. InFrame(S) \in Seq(AllColumns)
    BY <2>1, ColumnsAreSeq
  <2> QED
    BY <1>1, <2>2, <2>3, AdvicePerColumn
<1>8. EdaActions(t) = Atmost(GuideMax, all)
  BY DEF EdaActions
<1> HIDE DEF A, p, q, r, s, u, v, w, z
<1>9. p \o q \in Seq(A) /\ (Has(q, a) => Has(p \o q, a))
  BY <1>2, <1>3, PiecesAreHeld
<1>10. p \o q \o r \in Seq(A) /\ (Has(q, a) => Has(p \o q \o r, a))
  BY <1>4, <1>9, PiecesAreHeld
<1>11. p \o q \o r \o s \in Seq(A) /\ (Has(q, a) => Has(p \o q \o r \o s, a))
  BY <1>5, <1>10, PiecesAreHeld
<1>12. p \o q \o r \o s \o u \in Seq(A) /\ (Has(q, a) => Has(p \o q \o r \o s \o u, a))
  BY <1>6, <1>11, PiecesAreHeld
<1>13. p \o q \o r \o s \o u \o v \in Seq(A) /\ (Has(q, a) => Has(p \o q \o r \o s \o u \o v, a))
  BY <1>7, <1>12, PiecesAreHeld
<1>14. /\ p \o q \o r \o s \o u \o v \o w \in Seq(A)
       /\ Has(q, a) \/ Has(w, a) => Has(p \o q \o r \o s \o u \o v \o w, a)
  BY <1>4, <1>13, PiecesAreHeld
<1>15. all \in Seq(A) /\ (Has(q, a) \/ Has(w, a) \/ Has(z, a) => Has(all, a))
  BY <1>4, <1>14, PiecesAreHeld
<1> HIDE DEF all
<1>16. EdaActions(t) = all
  <2> DEFINE n == IF GuideMax < Len(all) THEN GuideMax ELSE Len(all)
  <2>1. GuideMax \in Nat /\ Len(all) \in Nat
    BY <1>15, EdaAssumption
  <2>2. n \in 0 .. Len(all) /\ n <= GuideMax
    BY <2>1
  <2>3. EdaActions(t) = SubSeq(all, 1, n)
    BY <1>8 DEF Atmost
  <2> HIDE DEF n
  <2>4. Len(SubSeq(all, 1, n)) = n
    BY <1>15, <2>2
  <2>5. n < GuideMax
    BY <2>3, <2>4
  <2>6. n = Len(all)
    BY <2>1, <2>5 DEF n
  <2>7. SubSeq(all, 1, Len(all)) = all
    BY <1>15
  <2> QED
    BY <2>3, <2>6, <2>7
<1> QED
  BY <1>15, <1>16 DEF q, w, z

\* What a column hides beyond its most frequent values.
LEMMA HiddenLevels ==
    ASSUME NEW t, IsGrid(t), NEW x \in AllColumns, TopFrequency(t, x, TopMax, FALSE, FALSE).less
    PROVE  Cardinality(Distinct(t, x, Present(t, x))) > TopMax
<1> DEFINE lines == Present(t, x)
           counts == CountsOf(t, x, lines)
           levels == DOMAIN counts
           held == TopKept(counts, Smaller(TopMax, TopMax), FALSE)
           more == held /= levels
           whole == View("ok", [v \in held |-> counts[v]], Population(t, x, FALSE), more)
           wrong == IsNumericDtype(t, x)
           none == held = {}
<1>1. TopFrequency(t, x, TopMax, FALSE, FALSE) =
          CASE wrong -> Refused("invalid_type") [] none -> Refused("no_data") [] OTHER -> whole
  BY DEF TopFrequency, CategoryCounts
<1>2. ~Refused("invalid_type").less /\ ~Refused("no_data").less
  BY DEF Refused, View
<1>3. whole.less <=> more
  BY DEF View
<1>4. TopMax \in Nat
  BY ChartsAssumption
<1>5. held = TopOf(counts, levels, TopMax)
  BY DEF TopKept, Smaller
<1>6. levels = Distinct(t, x, lines) /\ IsFiniteSet(levels) /\ levels \in SUBSET Int /\ \A v \in levels : counts[v] \in Nat
  <2>1. lines \in SUBSET DOMAIN t
    BY UsableLines
  <2> HIDE DEF lines
  <2> QED
    BY <2>1, CountsAreCounts
<1> HIDE DEF whole, wrong, none
<1>7. more
  BY <1>1, <1>2, <1>3
<1> HIDE DEF held, levels, counts
<1>8. held \in SUBSET levels /\ Cardinality(held) = Smaller(TopMax, Cardinality(levels))
  <2>1. levels \in SUBSET levels
    OBVIOUS
  <2> QED
    BY <1>4, <1>5, <1>6, <2>1, TopIsOfLevels
<1>9. Cardinality(held) # Cardinality(levels)
  BY <1>6, <1>7, <1>8, FS_Subset
<1>10. Cardinality(levels) \in Nat
  BY <1>6, FS_CardinalityType
<1>11. Cardinality(levels) > TopMax
  BY <1>4, <1>8, <1>9, <1>10 DEF Smaller
<1> QED
  BY <1>6, <1>11

\* A column that hides levels has more than the cap, and the guide says so.
LEMMA HiddenLevelsAreSaid ==
    ASSUME NEW t, IsGrid(t), Len(EdaActions(t)) < GuideMax
    PROVE  HiddenLevelsWereSaid(t)
<1> SUFFICES ASSUME NEW x \in TextColumns(t), TopFrequency(t, x, TopMax, FALSE, FALSE).less
             PROVE  \E n \in DOMAIN EdaActions(t) : EdaActions(t)[n] = Advised("cardinality", <<x>>)
  BY DEF HiddenLevelsWereSaid, Advised
<1> DEFINE levels(y) == Cardinality(Distinct(t, y, Present(t, y)))
           S == {y \in TextColumns(t) : levels(y) > TopMax \/ 10 * levels(y) > 9 * Size(Present(t, y))}
           columns == InFrame(S)
<1>1. x \in AllColumns /\ S \in SUBSET AllColumns
  BY KindsOfColumns
<1>2. x \in S
  BY <1>1, HiddenLevels
<1>3. HighCardinality(t) = Advice("cardinality", columns)
  BY DEF HighCardinality
<1> HIDE DEF S
<1>4. PICK r \in DOMAIN columns : columns[r] = x
  BY <1>1, <1>2, FrameColumns
<1>5. columns \in Seq(AllColumns)
  BY <1>1, ColumnsAreSeq
<1>6. "cardinality" \in Titles
  BY DEF Titles
<1> HIDE DEF columns
<1>7. Has(Advice("cardinality", columns), Advised("cardinality", <<columns[r]>>))
  BY <1>5, <1>6, AdvicePerColumn
<1>8. Has(EdaActions(t), Advised("cardinality", <<x>>))
  BY <1>3, <1>4, <1>7, AllIsSaid
<1> QED
  BY <1>8 DEF Has

\* Large frames and wide ones are said to be so.
LEMMA CapsAreSaid ==
    ASSUME NEW t, IsGrid(t), Len(EdaActions(t)) < GuideMax
    PROVE  /\ Len(t) > PlotRows => "sampling" \in {EdaActions(t)[k].title : k \in DOMAIN EdaActions(t)}
           /\ Cardinality(NumberColumns(t)) > CorrColumns =>
                  "capped correlation" \in {EdaActions(t)[k].title : k \in DOMAIN EdaActions(t)}
<1> DEFINE sampling == Advised("sampling", <<>>)
           capped == Advised("capped correlation", <<>>)
<1>1. {"sampling", "capped correlation"} \subseteq Titles /\ <<>> \in Seq(AllColumns)
  BY DEF Titles
<1>2. sampling.title = "sampling" /\ capped.title = "capped correlation"
  BY DEF Advised
<1>3. Len(t) > PlotRows => Has(LargeDataset(t), sampling)
  BY <1>1, AdviceIfDue DEF LargeDataset
<1>4. Cardinality(NumberColumns(t)) > CorrColumns => Has(WideNumeric(t), capped)
  BY <1>1, AdviceIfDue DEF WideNumeric
<1> HIDE DEF sampling, capped
<1>5. /\ Len(t) > PlotRows => Has(EdaActions(t), sampling)
      /\ Cardinality(NumberColumns(t)) > CorrColumns => Has(EdaActions(t), capped)
  BY <1>3, <1>4, AllIsSaid
<1> QED
  BY <1>2, <1>5 DEF Has

-----------------------------------------------------------------------------
(***************************************************************************)
(* What is offered is taken                                                *)
(***************************************************************************)

WrongTypes == {"invalid_type", "low_parse_confidence"}

\* Not refused for the type of a column.
Typed(v) == v.status \notin WrongTypes

\* No view is refused for the type of a column but by the two refusals for it.
LEMMA TypedViews ==
    /\ \A status : status \notin WrongTypes => Typed(Refused(status))
    /\ \A marks, covers, less : Typed(View("ok", marks, covers, less))
BY DEF Typed, WrongTypes, Refused, View

LEMMA TypedRefusals ==
    /\ Typed(Refused("insufficient_data")) /\ Typed(Refused("insufficient_variation")) /\ Typed(Refused("no_data"))
    /\ Typed(Refused("near_unique")) /\ Typed(Refused("linear")) /\ Typed(Refused("no_missing_values"))
    /\ Typed(Refused("insufficient_columns")) /\ Typed(Refused("no_numeric")) /\ Typed(Refused("insufficient_numeric"))
BY DEF Typed, WrongTypes, Refused, View

\* Of one numeric column.
LEMMA ChartsAreTyped ==
    ASSUME NEW t, NEW x, IsNumericDtype(t, x), NEW bins
    PROVE  /\ Typed(NumericHistogram(t, x, bins)) /\ Typed(DensityCurve(t, x, bins))
           /\ Typed(NumericEcdf(t, x)) /\ Typed(QQNormal(t, x)) /\ Typed(Boxplot(t, x))
<1> DEFINE wrong == ~IsNumericDtype(t, x)
<1>1. ~wrong
  OBVIOUS
<1>2. Typed(NumericHistogram(t, x, bins))
  <2> DEFINE values == Distinct(t, x, Usable(t, x))
             few == Cardinality(values) < 2
             whole == View("ok", [b \in 1 .. bins |-> Size({i \in Usable(t, x) : BinOf(values, bins, t[i][x].value) = b})],
                           Size(Usable(t, x)), FALSE)
  <2>1. NumericHistogram(t, x, bins) =
            CASE wrong -> Refused("invalid_type") [] few -> Refused("insufficient_data") [] OTHER -> whole
    BY DEF NumericHistogram
  <2>2. Typed(whole) /\ Typed(Refused("insufficient_data"))
    BY TypedViews, TypedRefusals
  <2> HIDE DEF wrong, few, whole
  <2> QED
    BY <1>1, <2>1, <2>2
<1>3. Typed(DensityCurve(t, x, bins))
  BY <1>2, TypedRefusals DEF DensityCurve
<1>4. Typed(NumericEcdf(t, x))
  <2> DEFINE lines == Usable(t, x)
             values == Distinct(t, x, lines)
             Below(v) == Size({i \in lines : t[i][x].value <= v})
             Rank(v) == Cardinality({w \in values : w <= v})
             left == {v \in values : Rank(v) \in RowPositions(Cardinality(values), PlotRows)}
             none == lines = {}
             whole == View("ok", [v \in left |-> Below(v)], Size(lines), left /= values)
  <2>1. NumericEcdf(t, x) =
            CASE wrong -> Refused("invalid_type") [] none -> Refused("insufficient_data") [] OTHER -> whole
    BY DEF NumericEcdf
  <2>2. Typed(whole) /\ Typed(Refused("insufficient_data"))
    BY TypedViews, TypedRefusals
  <2> HIDE DEF wrong, none, whole
  <2> QED
    BY <1>1, <2>1, <2>2
<1>5. Typed(QQNormal(t, x))
  <2> DEFINE n == Size(Usable(t, x))
             ranks == RowPositions(n, PlotRows)
             bad == ~IsNumericDtype(t, x) /\ n = 0
             few == n < QQMin
             flat == ~RobustScaleExists(Distinct(t, x, Usable(t, x)))
             whole == View("ok", [k \in ranks |-> k], n, Cardinality(ranks) < n)
  <2>1. QQNormal(t, x) = CASE bad -> Refused("invalid_type") [] few -> Refused("insufficient_data")
                           [] flat -> Refused("insufficient_variation") [] OTHER -> whole
    BY DEF QQNormal
  <2>2. Typed(whole) /\ Typed(Refused("insufficient_data")) /\ Typed(Refused("insufficient_variation"))
    BY TypedViews, TypedRefusals
  <2>3. ~bad
    OBVIOUS
  <2> HIDE DEF bad, few, flat, whole
  <2> QED
    BY <2>1, <2>2, <2>3
<1>6. Typed(Boxplot(t, x))
  <2> DEFINE n == Size(Usable(t, x))
             few == n < 1
             whole == View("ok", [k \in 1 .. Sampled(n) |-> 1], Sampled(n), n > PlotRows)
  <2>1. Boxplot(t, x) =
            CASE wrong -> Refused("invalid_type") [] few -> Refused("insufficient_data") [] OTHER -> whole
    BY DEF Boxplot
  <2>2. Typed(whole) /\ Typed(Refused("insufficient_data"))
    BY TypedViews, TypedRefusals
  <2> HIDE DEF wrong, few, whole
  <2> QED
    BY <1>1, <2>1, <2>2
<1> QED
  BY <1>2, <1>3, <1>4, <1>5, <1>6

\* What a sampled view leaves out, the frame has more of than may be plotted.
LEMMA SamplesAreLarge ==
    ASSUME NEW t, IsGrid(t), NEW x, NEW y
    PROVE  /\ Boxplot(t, x).less => Len(t) > PlotRows
           /\ \A plot \in Plots(t, x, y) : BoundedScatter(t, x, y, plot).less => Len(t) > PlotRows
<1>1. PlotRows \in Nat /\ Len(t) \in Nat
  BY ChartsAssumption DEF IsGrid
<1>2. \A lines \in SUBSET DOMAIN t : IsFiniteSet(lines) /\ Cardinality(lines) \in Nat /\ Cardinality(lines) <= Len(t)
  BY LinesAreFinite, FS_Subset
<1>3. ASSUME Boxplot(t, x).less PROVE Len(t) > PlotRows
  <2> DEFINE n == Size(Usable(t, x))
             few == n < 1
             wrong == ~IsNumericDtype(t, x)
             large == n > PlotRows
             whole == View("ok", [k \in 1 .. Sampled(n) |-> 1], Sampled(n), large)
  <2>1. Boxplot(t, x) =
            CASE wrong -> Refused("invalid_type") [] few -> Refused("insufficient_data") [] OTHER -> whole
    BY DEF Boxplot
  <2>2. (whole.less <=> large) /\ ~Refused("invalid_type").less /\ ~Refused("insufficient_data").less
    BY DEF View, Refused
  <2> HIDE DEF whole, few, wrong
  <2>3. large
    BY <1>3, <2>1, <2>2
  <2>4. n \in Nat /\ n <= Len(t)
    BY <1>2, UsableLines DEF Size
  <2> HIDE DEF n
  <2> QED
    BY <1>1, <2>3, <2>4
<1>4. ASSUME NEW plot \in Plots(t, x, y), BoundedScatter(t, x, y, plot).less PROVE Len(t) > PlotRows
  <2> DEFINE lines == FinitePairs(t, x, y)
             n == Cardinality(lines)
             more == plot /= lines
             refused == PairRefusal(t, x, y) /= ""
  <2>1. BoundedScatter(t, x, y, plot) =
            IF refused THEN Refused(PairRefusal(t, x, y)) ELSE View("ok", [i \in plot |-> 1], Size(plot), more)
    BY DEF BoundedScatter
  <2>2. ~Refused(PairRefusal(t, x, y)).less /\ (View("ok", [i \in plot |-> 1], Size(plot), more).less <=> more)
    BY DEF View, Refused
  <2> HIDE DEF refused
  <2>3. more
    <3> HIDE DEF more
    <3> QED
      BY <1>4, <2>1, <2>2
  <2>4. lines \in SUBSET DOMAIN t
    BY UsableLines DEF FinitePairs
  <2>5. IsFiniteSet(lines) /\ n \in Nat /\ n <= Len(t)
    <3> HIDE DEF lines
    <3> QED
      BY <1>2, <2>4
  <2>6. plot \in SUBSET lines /\ Cardinality(plot) = Sampled(n)
    BY DEF Plots, kSubset, Size
  <2>7. Cardinality(plot) # n
    <3> HIDE DEF lines
    <3> QED
      BY <2>3, <2>5, <2>6, FS_Subset
  <2> HIDE DEF n
  <2>8. n > PlotRows
    BY <1>1, <2>5, <2>6, <2>7 DEF Sampled, Smaller
  <2> QED
    BY <1>1, <2>5, <2>8
<1> QED
  BY <1>3, <1>4

\* Of one category; flags are refused.
LEMMA CategoriesAreTyped ==
    ASSUME NEW t, NEW x, NEW n, NEW withMissing, NEW other
    PROVE  /\ TopFrequency(t, x, n, withMissing, other).status \in WrongTypes => IsNumericDtype(t, x)
           /\ TopFrequency(t, x, n, withMissing, other).status = "ok" => ~IsNumericDtype(t, x)
           /\ ~IsNumericDtype(t, x) => Typed(ParetoCategory(t, x, withMissing))
<1> DEFINE wrong == IsNumericDtype(t, x)
           counts == CategoryCounts(t, x, withMissing)
<1>1. /\ TopFrequency(t, x, n, withMissing, other).status \in WrongTypes => wrong
      /\ TopFrequency(t, x, n, withMissing, other).status = "ok" => ~wrong
  <2> DEFINE top == TopKept(counts, Smaller(n, TopMax), withMissing)
             none == top = {}
             whole == View("ok", IF other THEN Folded(counts, top) ELSE [v \in top |-> counts[v]],
                           Population(t, x, withMissing), top /= DOMAIN counts)
  <2>1. TopFrequency(t, x, n, withMissing, other) =
            CASE wrong -> Refused("invalid_type") [] none -> Refused("no_data") [] OTHER -> whole
    BY DEF TopFrequency
  <2>2. /\ Refused("invalid_type").status # "ok" /\ Refused("no_data").status # "ok"
        /\ Refused("no_data").status \notin WrongTypes /\ whole.status \notin WrongTypes
    BY DEF Refused, View, WrongTypes
  <2> HIDE DEF wrong, none, whole
  <2> QED
    BY <2>1, <2>2
<1>2. ASSUME ~wrong PROVE Typed(ParetoCategory(t, x, withMissing))
  <2> DEFINE some == ParetoShown(counts, withMissing)
             all == Population(t, x, withMissing)
             none == all = 0
             unique == IsNearUnique(Cardinality(DOMAIN counts), all)
             whole == View("ok", Folded(counts, some), all, some /= DOMAIN counts)
  <2>1. ParetoCategory(t, x, withMissing) =
            CASE wrong -> Refused("invalid_type") [] none -> Refused("no_data")
              [] unique -> Refused("near_unique") [] OTHER -> whole
    BY DEF ParetoCategory
  <2>2. Typed(whole) /\ Typed(Refused("no_data")) /\ Typed(Refused("near_unique"))
    BY TypedViews, TypedRefusals
  <2> HIDE DEF wrong, none, unique, whole
  <2> QED
    BY <1>2, <2>1, <2>2
<1> QED
  BY <1>1, <1>2

\* Of a column of dates, which parses well enough, with the time of a number or a category.
LEMMA DatesAreTyped ==
    ASSUME NEW t, NEW d \in DateColumns(t), NEW granularity
    PROVE  /\ \A metric : metric = "" \/ IsNumericDtype(t, metric) =>
                  Typed(DatetimeTrend(t, d, metric, granularity)) /\ Typed(DatetimeAggregation(t, d, metric, granularity))
           /\ \A x, n : ~IsNumericDtype(t, x) => Typed(DatetimeCategories(t, d, x, granularity, n))
<1>1. Confident(t, d)
  BY DEF DateColumns
<1>2. ASSUME NEW metric, metric = "" \/ IsNumericDtype(t, metric)
      PROVE  Typed(InTime(t, d, metric, granularity))
  <2> DEFINE lines == DatedRows(t, d, metric)
             wrong == MetricRefused(t, metric)
             unsure == ~Confident(t, d)
             none == lines = {}
             few == Cardinality(Periods(t, d, lines, granularity)) < 2
             whole == View("ok", InPeriods(t, d, lines, granularity), Size(lines), lines /= DOMAIN t)
  <2>1. InTime(t, d, metric, granularity) =
            CASE wrong -> Refused("invalid_type") [] unsure -> Refused("low_parse_confidence")
              [] none -> Refused("no_data") [] few -> Refused("insufficient_data") [] OTHER -> whole
    BY DEF InTime
  <2>2. Typed(whole) /\ Typed(Refused("no_data")) /\ Typed(Refused("insufficient_data"))
    BY TypedViews, TypedRefusals
  <2>3. ~wrong /\ ~unsure
    BY <1>1, <1>2 DEF MetricRefused
  <2> HIDE DEF wrong, unsure, none, few, whole
  <2> QED
    BY <2>1, <2>2, <2>3
<1>3. ASSUME NEW x, NEW n, ~IsNumericDtype(t, x)
      PROVE  Typed(DatetimeCategories(t, d, x, granularity, n))
  <2> DEFINE lines == Parsed(t, d)
             counts == CountsOf(t, x, lines)
             top == TopOf(counts, DOMAIN counts, n)
             LabelOf(i) == IF t[i][x].value \in top THEN t[i][x].value ELSE OtherLabel
             cells == {<<Period(t[i][d].value, granularity), LabelOf(i)>> : i \in lines}
             wrong == IsNumericDtype(t, x)
             unsure == ~Confident(t, d)
             none == lines = {}
             whole == View("ok", [c \in cells |-> Size({i \in lines : <<Period(t[i][d].value, granularity), LabelOf(i)>> = c})],
                           Size(lines), top /= DOMAIN counts)
  <2>1. DatetimeCategories(t, d, x, granularity, n) =
            CASE wrong -> Refused("invalid_type") [] unsure -> Refused("low_parse_confidence")
              [] none -> Refused("no_data") [] OTHER -> whole
    BY DEF DatetimeCategories
  <2>2. Typed(whole) /\ Typed(Refused("no_data"))
    BY TypedViews, TypedRefusals
  <2>3. ~wrong /\ ~unsure
    BY <1>1, <1>3
  <2> HIDE DEF wrong, unsure, none, whole
  <2> QED
    BY <2>1, <2>2, <2>3
<1> QED
  BY <1>2, <1>3, TypedRefusals DEF DatetimeTrend, DatetimeAggregation

\* Of two columns, routed by their types.
LEMMA PairsAreTyped ==
    ASSUME NEW t, NEW x, NEW y, NEW plot, NEW clip
    PROVE  /\ IsNumericDtype(t, x) /\ IsNumericDtype(t, y) =>
                  /\ Typed(BoundedScatter(t, x, y, plot)) /\ Typed(LinearTrendline(t, x, y, plot))
                  /\ Typed(DensityHeatmap(t, x, y, clip))
           /\ IsNumericDtype(t, x) /\ ~IsNumericDtype(t, y) => Typed(NumericByCategory(t, x, y))
           /\ ~IsNumericDtype(t, x) /\ ~IsNumericDtype(t, y) => Typed(Crosstab(t, x, y))
<1> DEFINE p == IsNumericDtype(t, x)
           q == IsNumericDtype(t, y)
<1>1. ASSUME p, q
      PROVE  /\ Typed(BoundedScatter(t, x, y, plot)) /\ Typed(LinearTrendline(t, x, y, plot))
             /\ Typed(DensityHeatmap(t, x, y, clip))
  <2>1. PairRefusal(t, x, y) \in {"insufficient_data", ""}
    <3> DEFINE wrong == ~IsNumericDtype(t, x) \/ ~IsNumericDtype(t, y)
               flat == \E z \in {x, y} : IsConstant(t, z, FinitePairs(t, x, y))
    <3>1. PairRefusal(t, x, y) = CASE wrong -> "invalid_type" [] flat -> "insufficient_data" [] OTHER -> ""
      BY DEF PairRefusal
    <3>2. ~wrong
      BY <1>1
    <3> HIDE DEF wrong, flat
    <3> QED
      BY <3>1, <3>2
  <2>2. PairRefusal(t, x, y) # "" => Typed(Refused(PairRefusal(t, x, y)))
    BY <2>1, TypedRefusals
  <2>3. Typed(BoundedScatter(t, x, y, plot))
    BY <2>2, TypedViews DEF BoundedScatter
  <2>4. Typed(LinearTrendline(t, x, y, plot))
    BY TypedViews, TypedRefusals DEF LinearTrendline
  <2>5. Typed(DensityHeatmap(t, x, y, clip))
    <3> DEFINE lines == FinitePairs(t, x, y)
               counted == IF clip THEN InDomain(t, x, lines) \cap InDomain(t, y, lines) ELSE lines
               wrong == PairRefusal(t, x, y) /= ""
               none == counted = {}
               whole == View("ok", <<Size(counted)>>, Size(counted), clip)
    <3>1. DensityHeatmap(t, x, y, clip) =
              CASE wrong -> Refused(PairRefusal(t, x, y)) [] none -> Refused("insufficient_data") [] OTHER -> whole
      BY DEF DensityHeatmap
    <3>2. /\ Typed(whole) /\ Typed(Refused("insufficient_data"))
          /\ wrong => Typed(Refused(PairRefusal(t, x, y)))
      BY <2>2, TypedViews, TypedRefusals
    <3> HIDE DEF wrong, none, whole
    <3> QED
      BY <3>1, <3>2
  <2> QED
    BY <2>3, <2>4, <2>5
<1>2. ASSUME p, ~q PROVE Typed(NumericByCategory(t, x, y))
  <2> DEFINE lines == Usable(t, x) \cap Present(t, y)
             counts == CountsOf(t, y, lines)
             top == TopOf(counts, DOMAIN counts, TopMax)
             wrong == ~IsNumericDtype(t, x) \/ IsNumericDtype(t, y)
             none == lines = {}
             whole == View("ok", [v \in top |-> counts[v]], Size(lines), top /= DOMAIN counts)
  <2>1. NumericByCategory(t, x, y) =
            CASE wrong -> Refused("invalid_type") [] none -> Refused("no_data") [] OTHER -> whole
    BY DEF NumericByCategory
  <2>2. Typed(whole) /\ Typed(Refused("no_data"))
    BY TypedViews, TypedRefusals
  <2>3. ~wrong
    BY <1>2
  <2> HIDE DEF wrong, none, whole
  <2> QED
    BY <2>1, <2>2, <2>3
<1>3. ASSUME ~p, ~q PROVE Typed(Crosstab(t, x, y))
  <2> DEFINE lines == Present(t, x) \cap Present(t, y)
             Top(z) == TopOf(CountsOf(t, z, lines), Distinct(t, z, lines), TopMax)
             capped == {i \in lines : t[i][x].value \in Top(x) /\ t[i][y].value \in Top(y)}
             cells == Distinct(t, x, capped) \X Distinct(t, y, capped)
             wrong == IsNumericDtype(t, x) \/ IsNumericDtype(t, y)
             none == capped = {}
             marks == [c \in cells |-> Size({i \in capped : <<t[i][x].value, t[i][y].value>> = c})]
             more == \E z \in {x, y} : Distinct(t, z, lines) /= Top(z)
             whole == View("ok", marks, Size(lines), more)
  <2>1. Crosstab(t, x, y) =
            CASE wrong -> Refused("invalid_type") [] none -> Refused("no_data") [] OTHER -> whole
    BY DEF Crosstab
  <2>2. Typed(whole) /\ Typed(Refused("no_data"))
    BY TypedViews, TypedRefusals
  <2>3. ~wrong
    BY <1>3
  <2> HIDE DEF wrong, none, whole
  <2> QED
    BY <2>1, <2>2, <2>3
<1> QED
  BY <1>1, <1>2, <1>3

\* The views of all columns pick their columns by the types.
LEMMA SurveysAreTyped ==
    ASSUME NEW t
    PROVE  /\ Typed(OutlierSummary(t)) /\ Typed(MissingnessBar(t))
           /\ Typed(MissingnessPattern(t)) /\ Typed(MissingnessAssociation(t))
           /\ \A columns, comparable : Typed(RankedPairs(columns, comparable))
           /\ \A selected : Typed(CorrelationHeatmap(t, selected)) /\ Typed(CategoricalAssociation(t, selected))
<1>1. Typed(OutlierSummary(t))
  BY TypedViews, TypedRefusals DEF OutlierSummary
<1>2. Typed(MissingnessBar(t))
  BY TypedViews DEF MissingnessBar
<1>3. Typed(MissingnessPattern(t))
  BY TypedViews, TypedRefusals DEF MissingnessPattern
<1>4. Typed(MissingnessAssociation(t))
  <2> DEFINE columns == Atmost(AssocColumns, MissingColumns(t, TRUE))
             lines == RowPositions(Len(t), PlotRows)
             varying == {k \in DOMAIN columns : MissingIn(t, columns[k]) \cap lines \notin {{}, lines}}
             few == Len(MissingColumns(t, TRUE)) < 2
             flat == Cardinality(varying) < 2
             whole == View("ok", varying, 0, lines /= DOMAIN t)
  <2>1. MissingnessAssociation(t) =
            CASE few -> Refused("insufficient_columns") [] flat -> Refused("insufficient_variation") [] OTHER -> whole
    BY DEF MissingnessAssociation
  <2>2. Typed(whole) /\ Typed(Refused("insufficient_columns")) /\ Typed(Refused("insufficient_variation"))
    BY TypedViews, TypedRefusals
  <2> HIDE DEF few, flat, whole
  <2> QED
    BY <2>1, <2>2
<1>5. ASSUME NEW columns, NEW comparable PROVE Typed(RankedPairs(columns, comparable))
  <2>1. \A marks, covers, less : Typed(View("none", marks, covers, less)) /\ Typed(View("ok", marks, covers, less))
    BY DEF Typed, WrongTypes, View
  <2> QED
    BY <2>1 DEF RankedPairs
<1>6. ASSUME NEW selected PROVE Typed(CorrelationHeatmap(t, selected)) /\ Typed(CategoricalAssociation(t, selected))
  BY TypedViews, TypedRefusals DEF CorrelationHeatmap, CategoricalAssociation
<1> QED
  BY <1>1, <1>2, <1>3, <1>4, <1>5, <1>6

FlagsOffered(t) == \E x \in CategoricalOptions(t) : IsFlags(t, x)

\* Refused for the type of a column only as a category, of a frame with flags; and
\* less than there is, only where the guide has a rule for it.
Taken(t, name, v) ==
    /\ v.status \in WrongTypes => name \in {"top", "top and other"} /\ FlagsOffered(t)
    /\ v.status = "ok" /\ v.less =>
           /\ name \in {"scatter", "box"} => Len(t) > PlotRows
           /\ name = "correlation" => Cardinality(NumberColumns(t)) > CorrColumns

AllTaken(t, d) == \A name \in DOMAIN d : Taken(t, name, d[name])

\* Pages are put together of views that are taken.
LEMMA OneTaken ==
    ASSUME NEW t, NEW name, NEW v, Taken(t, name, v)
    PROVE  AllTaken(t, ViewNamed(name, v))
<1> DEFINE d == ViewNamed(name, v)
<1>1. DOMAIN d = {name} /\ d[name] = v
  BY OneView
<1> HIDE DEF d
<1>2. AllTaken(t, d)
  BY <1>1 DEF AllTaken
<1> QED
  BY <1>2 DEF d

LEMMA TypedIsTaken ==
    ASSUME NEW t, NEW name, name \notin {"scatter", "box", "correlation"}, NEW v, Typed(v)
    PROVE  AllTaken(t, ViewNamed(name, v))
<1>1. Taken(t, name, v)
  BY DEF Taken, Typed
<1> QED
  BY <1>1, OneTaken

LEMMA TakenTogether ==
    ASSUME NEW t
    PROVE  /\ AllTaken(t, <<>>)
           /\ \A a, b : AllTaken(t, a) /\ AllTaken(t, b) => AllTaken(t, a ++ b)
<1>1. AllTaken(t, <<>>)
  BY NoViews DEF AllTaken
<1>2. ASSUME NEW a, NEW b, AllTaken(t, a), AllTaken(t, b) PROVE AllTaken(t, a ++ b)
  <2> DEFINE both == a ++ b
  <2>1. /\ DOMAIN both = DOMAIN a \cup DOMAIN b
        /\ \A n \in DOMAIN a : both[n] = a[n]
        /\ \A n \in DOMAIN b : n \notin DOMAIN a => both[n] = b[n]
    BY ViewsTogether
  <2> HIDE DEF both
  <2>2. AllTaken(t, both)
    BY <1>2, <2>1 DEF AllTaken
  <2> QED
    BY <2>2 DEF both
<1> QED
  BY <1>1, <1>2

-----------------------------------------------------------------------------
LEMMA NumericTabIsTaken ==
    ASSUME IsGrid(explored), RenderUnivariateNumeric
    PROVE  AllTaken(explored, drawn') /\ UNCHANGED explored
<1>1. PICK col \in NumberColumns(explored), bins \in AutoHistogramBins :
          LET histogram == NumericHistogram(explored, col, bins)
              below == IF histogram.status /= "ok" THEN <<>>
                       ELSE ViewNamed("density", DensityCurve(explored, col, bins))
                            ++ ViewNamed("box", Boxplot(explored, col))
                            ++ RenderLogHistogram(explored, col, bins)
          IN  Draw(ViewNamed("histogram", histogram) ++ ViewNamed("ecdf", NumericEcdf(explored, col))
                   ++ RenderQQDiagnostic(explored, col) ++ below)
  BY DEF RenderUnivariateNumeric
<1> DEFINE histogram == ViewNamed("histogram", NumericHistogram(explored, col, bins))
           density == ViewNamed("density", DensityCurve(explored, col, bins))
           box == ViewNamed("box", Boxplot(explored, col))
           log == RenderLogHistogram(explored, col, bins)
           ecdf == ViewNamed("ecdf", NumericEcdf(explored, col))
           qq == ViewNamed("qq", QQNormal(explored, col))
           more == NumericHistogram(explored, col, bins).status /= "ok"
           below == IF more THEN <<>> ELSE density ++ box ++ log
<1>2. drawn' = histogram ++ ecdf ++ qq ++ below /\ UNCHANGED explored
  BY <1>1 DEF Draw, RenderQQDiagnostic
<1>3. IsNumericDtype(explored, col)
  BY KindsOfColumns
<1>4. /\ Typed(NumericHistogram(explored, col, bins)) /\ Typed(DensityCurve(explored, col, bins))
      /\ Typed(NumericEcdf(explored, col)) /\ Typed(QQNormal(explored, col)) /\ Typed(Boxplot(explored, col))
  BY <1>3, ChartsAreTyped
<1>5. AllTaken(explored, histogram) /\ AllTaken(explored, density) /\ AllTaken(explored, ecdf) /\ AllTaken(explored, qq)
  BY <1>4, TypedIsTaken
<1>6. AllTaken(explored, box)
  <2>1. Boxplot(explored, col).less => Len(explored) > PlotRows
    BY SamplesAreLarge
  <2>2. Taken(explored, "box", Boxplot(explored, col))
    BY <1>4, <2>1 DEF Taken, Typed
  <2> QED
    BY <2>2, OneTaken
<1>7. AllTaken(explored, log)
  <2> DEFINE values == Distinct(explored, col, Usable(explored, col))
             positive == 1000 * Min(values) > Max(values) - Min(values)
             v == IF positive THEN NumericHistogram(explored, col, bins) ELSE Refused("linear")
  <2>1. log = ViewNamed("log histogram", v)
    BY DEF RenderLogHistogram
  <2> HIDE DEF positive
  <2>2. Typed(v)
    BY <1>4, TypedRefusals
  <2> HIDE DEF v, log
  <2> QED
    BY <2>1, <2>2, TypedIsTaken
<1> HIDE DEF histogram, density, box, log, ecdf, qq, more
<1>8. AllTaken(explored, below)
  <2>1. AllTaken(explored, density ++ box)
    BY <1>5, <1>6, TakenTogether
  <2>2. AllTaken(explored, (density ++ box) ++ log)
    BY <1>7, <2>1, TakenTogether
  <2> QED
    BY <2>2, TakenTogether
<1> HIDE DEF below
<1>9. AllTaken(explored, histogram ++ ecdf)
  BY <1>5, TakenTogether
<1>10. AllTaken(explored, (histogram ++ ecdf) ++ qq)
  BY <1>5, <1>9, TakenTogether
<1>11. AllTaken(explored, ((histogram ++ ecdf) ++ qq) ++ below)
  BY <1>8, <1>10, TakenTogether
<1> QED
  BY <1>2, <1>11

\* Flags are offered as a category, and refused.
LEMMA CategoricalTabIsTaken ==
    ASSUME IsGrid(explored), RenderUnivariateCategorical
    PROVE  AllTaken(explored, drawn') /\ UNCHANGED explored
<1>1. PICK x \in CategoricalOptions(explored), n \in 1 .. TopMax, withMissing \in BOOLEAN, other \in BOOLEAN :
          LET top == TopFrequency(explored, x, n, withMissing, other)
          IN  Draw(ViewNamed(IF other THEN "top and other" ELSE "top", top)
                   ++ (IF top.status = "ok" THEN RenderPareto(explored, x, withMissing) ELSE <<>>))
  BY DEF RenderUnivariateCategorical
<1> DEFINE name == IF other THEN "top and other" ELSE "top"
           top == TopFrequency(explored, x, n, withMissing, other)
           pareto == ParetoCategory(explored, x, withMissing)
           ok == top.status = "ok"
           below == IF ok THEN ViewNamed("pareto", pareto) ELSE <<>>
<1>2. drawn' = ViewNamed(name, top) ++ below /\ UNCHANGED explored
  BY <1>1 DEF Draw, RenderPareto
<1>3. /\ top.status \in WrongTypes => IsNumericDtype(explored, x)
      /\ ok => ~IsNumericDtype(explored, x)
      /\ ~IsNumericDtype(explored, x) => Typed(pareto)
  BY CategoriesAreTyped
<1>4. IsNumericDtype(explored, x) => FlagsOffered(explored)
  BY DEF CategoricalOptions, NumberColumns, IsNumericDtype, FlagsOffered
<1>5. name \in {"top", "top and other"}
  OBVIOUS
<1> HIDE DEF top, pareto, name
<1>6. AllTaken(explored, ViewNamed(name, top))
  <2>1. Taken(explored, name, top)
    BY <1>3, <1>4, <1>5 DEF Taken
  <2> QED
    BY <2>1, OneTaken
<1> HIDE DEF ok
<1>7. AllTaken(explored, below)
  BY <1>3, TypedIsTaken, TakenTogether
<1> HIDE DEF below
<1> QED
  BY <1>2, <1>6, <1>7, TakenTogether

LEMMA TimeTabIsTaken ==
    ASSUME RenderDatetimeTrend
    PROVE  AllTaken(explored, drawn') /\ UNCHANGED explored
<1>1. PICK d \in DateColumns(explored), granularity \in Granularity, metric \in NumberColumns(explored) \cup {""} :
          Draw(ViewNamed("trend", DatetimeTrend(explored, d, metric, granularity)))
  BY DEF RenderDatetimeTrend
<1>2. metric = "" \/ IsNumericDtype(explored, metric)
  BY KindsOfColumns
<1>3. Typed(DatetimeTrend(explored, d, metric, granularity))
  BY <1>2, DatesAreTyped
<1> QED
  BY <1>1, <1>3, TypedIsTaken DEF Draw

LEMMA AdvancedTabIsTaken ==
    ASSUME RenderAdvancedTab
    PROVE  AllTaken(explored, drawn') /\ UNCHANGED explored
<1>1. PICK chosen \in SUBSET AllColumns :
          LET correlation == RenderCorrelationMatrix(explored, chosen)
          IN  Draw(RenderNumericShape(explored) ++ correlation
                   ++ RenderCorrelationPairs(explored, chosen, correlation["correlation"])
                   ++ RenderCategoricalAssociation(explored, chosen)
                   ++ RenderOutlierSummary(explored))
  BY DEF RenderAdvancedTab
<1> DEFINE shape == RenderNumericShape(explored)
           correlation == RenderCorrelationMatrix(explored, chosen)
           correlated == RenderCorrelationPairs(explored, chosen, correlation["correlation"])
           association == RenderCategoricalAssociation(explored, chosen)
           outliers == RenderOutlierSummary(explored)
<1>2. drawn' = shape ++ correlation ++ correlated ++ association ++ outliers /\ UNCHANGED explored
  BY <1>1 DEF Draw
<1>3. AllTaken(explored, shape)
  <2> DEFINE none == NumberColumns(explored) = {}
             v == IF none THEN Refused("no_numeric") ELSE View("ok", SkewKurtosis(explored), 0, FALSE)
  <2>1. shape = ViewNamed("shape", v)
    BY DEF RenderNumericShape
  <2>2. Typed(v)
    BY TypedViews, TypedRefusals
  <2> HIDE DEF v, shape
  <2> QED
    BY <2>1, <2>2, TypedIsTaken
<1>4. AllTaken(explored, correlation)
  <2> DEFINE selected == SelectCorrelationColumns(explored, chosen)
             v == CorrelationHeatmap(explored, selected)
             columns == CorrelationColumns(explored, selected)
             few == Len(columns) < 2
             more == Len(NumberSeq(explored)) > CorrColumns
  <2>1. v = IF few THEN Refused("insufficient_numeric") ELSE View("ok", columns, 0, more)
    BY DEF CorrelationHeatmap
  <2>2. Typed(v)
    BY SurveysAreTyped
  <2>3. v.less => more
    <3>1. ~Refused("insufficient_numeric").less /\ (View("ok", columns, 0, more).less <=> more)
      BY DEF Refused, View
    <3> HIDE DEF few, more, columns, v
    <3> QED
      BY <2>1, <3>1
  <2>4. more <=> Cardinality(NumberColumns(explored)) > CorrColumns
    BY KindsOfColumns, FrameColumns
  <2>5. correlation = ViewNamed("correlation", v)
    BY DEF RenderCorrelationMatrix
  <2> HIDE DEF v, more, correlation
  <2>6. Taken(explored, "correlation", v)
    BY <2>2, <2>3, <2>4 DEF Taken, Typed
  <2> QED
    BY <2>5, <2>6, OneTaken
<1>5. AllTaken(explored, correlated)
  <2> DEFINE heatmap == correlation["correlation"]
             pairs == RankedPairs(heatmap.marks, CorrelationMatrix(explored, SelectCorrelationColumns(explored, chosen)))
             refused == heatmap.status /= "ok"
  <2>1. correlated = IF refused THEN <<>> ELSE ViewNamed("correlated", pairs)
    BY DEF RenderCorrelationPairs
  <2>2. Typed(pairs)
    BY SurveysAreTyped
  <2> HIDE DEF refused, pairs, correlated
  <2> QED
    BY <2>1, <2>2, TypedIsTaken, TakenTogether
<1>6. AllTaken(explored, association)
  <2> DEFINE selected == CategoricalAssociationColumns(explored, chosen)
             matrix == CategoricalAssociation(explored, selected)
             columns == {matrix.marks[k] : k \in DOMAIN matrix.marks}
             comparable == {p \in columns \X columns :
                               CramersVExists(explored, p[1], p[2], RowPositions(Len(explored), PlotRows))}
             ranked == RankedPairs(matrix.marks, comparable)
             one == ViewNamed("association", matrix)
             ok == matrix.status = "ok"
             two == IF ok THEN ViewNamed("associated", ranked) ELSE <<>>
  <2>1. association = one ++ two
    BY DEF RenderCategoricalAssociation
  <2>2. Typed(matrix) /\ Typed(ranked)
    BY SurveysAreTyped
  <2> HIDE DEF matrix, ranked, ok, association
  <2>3. AllTaken(explored, one) /\ AllTaken(explored, two)
    BY <2>2, TypedIsTaken, TakenTogether
  <2> HIDE DEF one, two
  <2> QED
    BY <2>1, <2>3, TakenTogether
<1>7. AllTaken(explored, outliers)
  BY SurveysAreTyped, TypedIsTaken DEF RenderOutlierSummary
<1> HIDE DEF shape, correlation, correlated, association, outliers
<1>8. AllTaken(explored, shape ++ correlation)
  BY <1>3, <1>4, TakenTogether
<1>9. AllTaken(explored, (shape ++ correlation) ++ correlated)
  BY <1>5, <1>8, TakenTogether
<1>10. AllTaken(explored, ((shape ++ correlation) ++ correlated) ++ association)
  BY <1>6, <1>9, TakenTogether
<1>11. AllTaken(explored, (((shape ++ correlation) ++ correlated) ++ association) ++ outliers)
  BY <1>7, <1>10, TakenTogether
<1> QED
  BY <1>2, <1>11

LEMMA OverviewTabIsTaken ==
    ASSUME RenderOverviewTab
    PROVE  AllTaken(explored, drawn') /\ UNCHANGED explored
<1> DEFINE missing == ViewNamed("missing", MissingnessBar(explored))
           pattern == ViewNamed("pattern", MissingnessPattern(explored))
           together == ViewNamed("missing together", MissingnessAssociation(explored))
           ok == pattern["pattern"].status = "ok"
           below == IF ok THEN together ELSE <<>>
<1>1. drawn' = missing ++ (pattern ++ below) /\ UNCHANGED explored
  BY DEF RenderOverviewTab, Draw, RenderMissingness, RenderStructuralMissingness, RenderMissingnessPattern,
         RenderMissingnessAssociation
<1>2. AllTaken(explored, missing) /\ AllTaken(explored, pattern) /\ AllTaken(explored, together)
  BY SurveysAreTyped, TypedIsTaken
<1> HIDE DEF missing, pattern, together, ok
<1>3. AllTaken(explored, below)
  BY <1>2, TakenTogether
<1> HIDE DEF below
<1>4. AllTaken(explored, pattern ++ below)
  BY <1>2, <1>3, TakenTogether
<1>5. AllTaken(explored, missing ++ (pattern ++ below))
  BY <1>2, <1>4, TakenTogether
<1> QED
  BY <1>1, <1>5

LEMMA ScattersAreTaken ==
    ASSUME NEW t, IsGrid(t), NEW x, NEW y, NEW clip, NEW plot \in Plots(t, x, y),
           IsNumericDtype(t, x), IsNumericDtype(t, y)
    PROVE  AllTaken(t, RenderNumNum(t, x, y, clip, plot))
<1> DEFINE s == BoundedScatter(t, x, y, plot)
           scatter == ViewNamed("scatter", s)
           line == ViewNamed("trend line", LinearTrendline(t, x, y, plot))
           heatmap == ViewNamed("heatmap", DensityHeatmap(t, x, y, clip))
           ok == s.status = "ok"
           below == IF ok THEN line ++ heatmap ELSE <<>>
<1>1. RenderNumNum(t, x, y, clip, plot) = scatter ++ below
  BY DEF RenderNumNum, RenderNumNumVega, RenderNumNumDensity
<1>2. /\ Typed(s) /\ Typed(LinearTrendline(t, x, y, plot)) /\ Typed(DensityHeatmap(t, x, y, clip))
  BY PairsAreTyped
<1>3. s.less => Len(t) > PlotRows
  BY SamplesAreLarge
<1>4. AllTaken(t, line) /\ AllTaken(t, heatmap)
  BY <1>2, TypedIsTaken
<1> HIDE DEF s, line, heatmap
<1>5. Taken(t, "scatter", s)
  BY <1>2, <1>3 DEF Taken, Typed
<1>6. AllTaken(t, scatter)
  BY <1>5, OneTaken
<1>7. AllTaken(t, line ++ heatmap)
  BY <1>4, TakenTogether
<1> HIDE DEF scatter, ok
<1>8. AllTaken(t, below)
  BY <1>7, TakenTogether
<1> HIDE DEF below
<1>9. AllTaken(t, scatter ++ below)
  BY <1>6, <1>8, TakenTogether
<1> QED
  BY <1>1, <1>9

LEMMA CrossedIsTaken ==
    ASSUME NEW t, NEW x, NEW y, ~IsNumericDtype(t, x), ~IsNumericDtype(t, y)
    PROVE  AllTaken(t, RenderCatCat(t, x, y))
<1> DEFINE crossed == Crosstab(t, x, y)
           one == ViewNamed("crosstab", crossed)
           heatmap == ViewNamed("crosstab heatmap", crossed)
           stacked == ViewNamed("stacked", crossed)
           ok == crossed.status = "ok"
           below == IF ok THEN heatmap ++ stacked ELSE <<>>
<1>1. RenderCatCat(t, x, y) = one ++ below
  BY DEF RenderCatCat, RenderCatCatHeatmap, RenderCatCatStacked, CrosstabHeatmap
<1>2. Typed(crossed)
  BY PairsAreTyped
<1> HIDE DEF crossed
<1>3. AllTaken(t, one) /\ AllTaken(t, heatmap) /\ AllTaken(t, stacked)
  BY <1>2, TypedIsTaken
<1> HIDE DEF one, heatmap, stacked, ok
<1>4. AllTaken(t, heatmap ++ stacked)
  BY <1>3, TakenTogether
<1>5. AllTaken(t, below)
  BY <1>4, TakenTogether
<1> HIDE DEF below
<1>6. AllTaken(t, one ++ below)
  BY <1>3, <1>5, TakenTogether
<1> QED
  BY <1>1, <1>6

\* The route gives every pair a view for its types.
LEMMA BivariateIsTaken ==
    ASSUME IsGrid(explored), RenderBivariate
    PROVE  AllTaken(explored, drawn') /\ UNCHANGED explored
<1>1. PICK x \in AllColumns, y \in AllColumns, granularity \in Granularity, n \in 1 .. TopMax, clip \in BOOLEAN :
          \E plot \in Plots(explored, x, y) : Draw(DispatchBivariate(explored, x, y, granularity, n, clip, plot))
  BY DEF RenderBivariate
<1>2. PICK plot \in Plots(explored, x, y) : Draw(DispatchBivariate(explored, x, y, granularity, n, clip, plot))
  BY <1>1
<1> DEFINE route == Route(explored, x, y)
           a == route[2]
           b == route[3]
           aggregation == RenderDtNum(explored, a, b, granularity)
           categories == RenderDtCat(explored, a, b, granularity, n)
           numbers == RenderNumNum(explored, a, b, clip, plot)
           groups == RenderNumCat(explored, a, b)
           crossed == RenderCatCat(explored, a, b)
           views == DispatchBivariate(explored, x, y, granularity, n, clip, plot)
<1>3. drawn' = views /\ UNCHANGED explored
  BY <1>2 DEF Draw
<1>4. views = CASE route[1] = "aggregation"     -> aggregation
                [] route[1] = "time categories" -> categories
                [] route[1] = "scatter"         -> numbers
                [] route[1] = "by category"     -> groups
                [] OTHER                        -> crossed
  BY DEF DispatchBivariate
<1> DEFINE p == IsNumericDtype(explored, a)
           q == IsNumericDtype(explored, b)
<1>5. /\ route[1] = "scatter" => a = x /\ b = y /\ p /\ q
      /\ route[1] \in {"aggregation", "time categories"} => a \in DateColumns(explored)
      /\ route[1] = "aggregation" => q
      /\ route[1] = "time categories" => ~q
      /\ route[1] = "by category" => p /\ ~q
      /\ route[1] \notin {"aggregation", "time categories", "by category", "scatter"} => ~p /\ ~q
  <2>1. Routed(explored, route) /\ (route[1] = "scatter" => a = x /\ b = y)
    BY RouteOfColumns
  <2> HIDE DEF route
  <2> QED
    BY <2>1 DEF Routed
<1> HIDE DEF a, b
<1>6. route[1] = "aggregation" => AllTaken(explored, aggregation)
  <2>1. a \in DateColumns(explored) /\ q => Typed(DatetimeAggregation(explored, a, b, granularity))
    BY DatesAreTyped
  <2> QED
    BY <1>5, <2>1, TypedIsTaken DEF RenderDtNum
<1>7. route[1] = "time categories" => AllTaken(explored, categories)
  <2>1. a \in DateColumns(explored) /\ ~q => Typed(DatetimeCategories(explored, a, b, granularity, n))
    BY DatesAreTyped
  <2> QED
    BY <1>5, <2>1, TypedIsTaken DEF RenderDtCat
<1>8. route[1] = "scatter" => AllTaken(explored, numbers)
  BY <1>1, <1>5, ScattersAreTaken
<1>9. route[1] = "by category" => AllTaken(explored, groups)
  <2>1. p /\ ~q => Typed(NumericByCategory(explored, a, b))
    BY PairsAreTyped
  <2> QED
    BY <1>5, <2>1, TypedIsTaken DEF RenderNumCat
<1>10. ~p /\ ~q => AllTaken(explored, crossed)
  BY CrossedIsTaken
<1> HIDE DEF aggregation, categories, numbers, groups, crossed, views, route, p, q
<1>11. AllTaken(explored, views)
  BY <1>4, <1>5, <1>6, <1>7, <1>8, <1>9, <1>10
<1> QED
  BY <1>3, <1>11

-----------------------------------------------------------------------------
OfferInv == explored \in EdaFrames /\ AllTaken(explored, drawn)

\* Every page is of views that are taken.
LEMMA OfferNextInv == OfferInv /\ [EdaNext]_edaVars => OfferInv'
<1> SUFFICES ASSUME OfferInv, [EdaNext]_edaVars
             PROVE  OfferInv'
  OBVIOUS
<1>1. explored \in EdaFrames /\ AllTaken(explored, drawn) /\ IsGrid(explored)
  BY EdaFrameIsFrame DEF OfferInv
<1> SUFFICES explored' = explored /\ AllTaken(explored, drawn')
  BY <1>1 DEF OfferInv
<1>2. CASE RenderUnivariateNumeric
  BY <1>1, <1>2, NumericTabIsTaken
<1>3. CASE RenderUnivariateCategorical
  BY <1>1, <1>3, CategoricalTabIsTaken
<1>4. CASE RenderDatetimeTrend
  BY <1>4, TimeTabIsTaken
<1>5. CASE RenderAdvancedTab
  BY <1>5, AdvancedTabIsTaken
<1>6. CASE RenderOverviewTab
  BY <1>6, OverviewTabIsTaken
<1>7. CASE RenderBivariate
  BY <1>1, <1>7, BivariateIsTaken
<1>8. CASE ClearPage
  BY <1>8, TakenTogether DEF ClearPage
<1>9. CASE UNCHANGED edaVars
  BY <1>1, <1>9 DEF edaVars
<1> QED
  BY <1>2, <1>3, <1>4, <1>5, <1>6, <1>7, <1>8, <1>9 DEF EdaNext

\* The parts of OfferedIsDrawn that are about the frame hold of every frame.
LEMMA OfferedAndTaken ==
    ASSUME OfferInv
    PROVE  OfferedIsDrawn
<1>1. IsGrid(explored) /\ AllTaken(explored, drawn)
  BY EdaFrameIsFrame DEF OfferInv
<1>2. ASSUME NEW name \in DOMAIN drawn, drawn[name].status \in WrongTypes
      PROVE  name \in {"top", "top and other"} /\ \E x \in CategoricalOptions(explored) : IsFlags(explored, x)
  BY <1>1, <1>2 DEF AllTaken, Taken, FlagsOffered
<1>3. IdentifiersAgree(explored)
  BY <1>1, AllIdentifiersAgree
<1>4. \A k \in DOMAIN VisualExplorations(explored) : SuggestionIsDrawn(explored, VisualExplorations(explored)[k])
  BY <1>1, SuggestionsAreDrawn
<1>5. ScatterIsCorrelation(explored)
  BY <1>1, AllScattersCorrelate
<1>6. ASSUME Len(EdaActions(explored)) < GuideMax PROVE HiddenLevelsWereSaid(explored)
  BY <1>1, <1>6, HiddenLevelsAreSaid
<1>7. ASSUME Len(EdaActions(explored)) < GuideMax,
             NEW name \in DOMAIN drawn, drawn[name].status = "ok", drawn[name].less
      PROVE  LessWasSaid(explored, name)
  <2> DEFINE titles == {EdaActions(explored)[k].title : k \in DOMAIN EdaActions(explored)}
             sampling == "sampling" \in titles
             capped == "capped correlation" \in titles
  <2>1. /\ Len(explored) > PlotRows => sampling
        /\ Cardinality(NumberColumns(explored)) > CorrColumns => capped
    BY <1>1, <1>7, CapsAreSaid
  <2>2. LessWasSaid(explored, name) =
            CASE name \in {"scatter", "box"} -> sampling [] name = "correlation" -> capped [] OTHER -> TRUE
    BY DEF LessWasSaid
  <2> HIDE DEF sampling, capped
  <2>3. /\ name \in {"scatter", "box"} => sampling
        /\ name = "correlation" => capped
    BY <1>1, <1>7, <2>1 DEF AllTaken, Taken
  <2> QED
    BY <2>2, <2>3
<1> QED
  BY <1>2, <1>3, <1>4, <1>5, <1>6, <1>7 DEF OfferedIsDrawn, WrongTypes

\* OfferedIsDrawn, of every frame and every choice of columns: what a tab offers and
\* the guide suggests, the builder behind it takes, and what a view samples, caps or
\* hides the guide has said, unless there was no room (eda_sections.py, eda_guide.py,
\* eda.py).
THEOREM OfferedIsAlwaysDrawn == EdaSpec => []OfferedIsDrawn
<1>1. EdaInit => OfferInv
  BY TakenTogether DEF EdaInit, OfferInv
<1>2. OfferInv /\ [EdaNext]_edaVars => OfferInv'
  BY OfferNextInv
<1>3. OfferInv => OfferedIsDrawn
  BY OfferedAndTaken
<1> QED
  BY <1>1, <1>2, <1>3, PTL DEF EdaSpec
=============================================================================
