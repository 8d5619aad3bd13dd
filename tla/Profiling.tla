------------------------------ MODULE Profiling ------------------------------
(***************************************************************************)
(* What a CSV file is profiled to: read as a whole (csv_loader,            *)
(* profiling_orchestrator.run_profiling) or chunk by chunk                 *)
(* (run_chunked_profiling with the aggregators of chunked_aggregators).    *)
(* A file is its columns' names and the cells of each.  A cell has a kind, *)
(* what its text looks like ("na" is a missing one), and a value: numbers  *)
(* in halves, flags 0 and 2, so that they compare as pandas compares them. *)
(* A minimum, a maximum or a count that a profile lacks is the empty set,  *)
(* one it has a singleton.  Memory, sums and time stamps are left out.     *)
(***************************************************************************)
EXTENDS Integers, Sequences, FiniteSets, FiniteSetsExt, SequencesExt

CONSTANTS
    DefaultSample,  \* DEFAULT_SAMPLE_SIZE, the rows the column extras are read from
    MaxRowsInMemory \* max_rows_in_memory

ASSUME ProfilingAssumption == {DefaultSample, MaxRowsInMemory} \subseteq Nat \ {0}

RowsOf(file) == Len(file.cells[1])

ColumnsOf(file) == DOMAIN file.names

Kinds(cells) == {cells[i].k : i \in DOMAIN cells}

PresentRows(cells) == {i \in DOMAIN cells : cells[i].k /= "na"}

Nulls(cells) == Len(cells) - Cardinality(PresentRows(cells))

\* The type pandas gives a column it reads.
ReadDtype(cells) ==
    CASE cells = <<>> -> "object"
      [] cells /= <<>> /\ Kinds(cells) = {"int"} -> "int64"
      [] cells /= <<>> /\ Kinds(cells) \subseteq {"na", "int", "float"} /\ Kinds(cells) /= {"int"} -> "float64"
      [] cells /= <<>> /\ Kinds(cells) = {"bool"} -> "bool"
      [] OTHER -> "object"

NumericDtype(dtype) == dtype \in {"int64", "float64", "bool"}

\* What a cell compares as: a number in a numeric column, its text elsewhere.
Token(dtype, cell) == IF NumericDtype(dtype) THEN <<"number", cell.v>> ELSE <<cell.k, cell.v>>

Tokens(cells, rows) == {Token(ReadDtype(cells), cells[i]) : i \in rows \cap PresentRows(cells)}

NumbersIn(cells, rows) == {cells[i].v : i \in rows \cap PresentRows(cells)}

-----------------------------------------------------------------------------
(***************************************************************************)
(* The whole file                                                          *)
(***************************************************************************)

\* The rows the loader keeps; SAMPLE_SIZE is 0 while the environment does not
\* set it.  The sample is shuffled, too: files in every order stand for that.
Loads(file, sampleSize) ==
    IF sampleSize > 0 /\ RowsOf(file) > sampleSize
        THEN kSubset(sampleSize, 1 .. RowsOf(file))
        ELSE {1 .. RowsOf(file)}

TooLarge(rows) == Cardinality(rows) > MaxRowsInMemory

\* The frame of the rows that were kept.
Frame(file, rows) ==
    [names |-> file.names,
     cells |-> [c \in ColumnsOf(file) |->
                   [i \in 1 .. Cardinality(rows) |->
                       file.cells[c][CHOOSE r \in rows :
                                        Cardinality({s \in rows : s <= r}) = i]]]]

\* The rows that minima and maxima are read from.
Samples(frame, sampleSize) ==
    LET effective == IF sampleSize > 0 THEN sampleSize ELSE DefaultSample
    IN  IF RowsOf(frame) > effective THEN kSubset(effective, 1 .. RowsOf(frame))
                                     ELSE {1 .. RowsOf(frame)}

LeastOf(values) == IF values = {} THEN {} ELSE {Min(values)}
GreatestOf(values) == IF values = {} THEN {} ELSE {Max(values)}

ProfileColumn(name, cells, rows) ==
    LET values == IF NumericDtype(ReadDtype(cells)) THEN NumbersIn(cells, rows) ELSE {}
    IN  [name |-> name, dtype |-> ReadDtype(cells), nulls |-> Nulls(cells),
         unique |-> {Cardinality(Tokens(cells, DOMAIN cells))},
         min |-> LeastOf(values), max |-> GreatestOf(values)]

RunProfiling(frame, rows) ==
    [rows |-> RowsOf(frame),
     columns |-> [c \in ColumnsOf(frame) |-> ProfileColumn(frame.names[c], frame.cells[c], rows)]]

-----------------------------------------------------------------------------
(***************************************************************************)
(* Chunk by chunk                                                          *)
(***************************************************************************)

\* The next rows of a file of which some are read.
Chunk(file, read, size) ==
    LET last == IF read + size < RowsOf(file) THEN read + size ELSE RowsOf(file)
    IN  [c \in ColumnsOf(file) |-> SubSeq(file.cells[c], read + 1, last)]

WidenRank == [bool |-> 0, int64 |-> 1, float64 |-> 2]

\* Seeded fault: the type of the first chunk stays.
KeepFirst(seen, incoming) == seen

Widen(seen, incoming) ==
    CASE seen = incoming -> seen
      [] seen /= incoming /\ {seen, incoming} \subseteq DOMAIN WidenRank ->
            IF WidenRank[seen] >= WidenRank[incoming] THEN seen ELSE incoming
      [] OTHER -> "object"

InferDtype(seen, cells) ==
    {IF seen = {} THEN ReadDtype(cells) ELSE Widen(CHOOSE t \in seen : TRUE, ReadDtype(cells))}

CountNulls(count, cells) == count + Nulls(cells)

\* Infinity is the empty set; a chunk without a value yields NaN, which stays.
NoBound == [nan |-> FALSE, least |-> {}, greatest |-> {}]

UpdateStats(bound, cells) ==
    LET values == NumbersIn(cells, DOMAIN cells)
    IN  IF ~NumericDtype(ReadDtype(cells)) THEN bound
        ELSE [nan |-> bound.nan \/ values = {},
              least |-> LeastOf(bound.least \cup values),
              greatest |-> GreatestOf(bound.greatest \cup values)]

NoAggregates(file) ==
    [rows |-> 0, nulls |-> [c \in ColumnsOf(file) |-> 0],
     stats |-> [c \in ColumnsOf(file) |-> NoBound], seen |-> [c \in ColumnsOf(file) |-> {}]]

\* One chunk through the four aggregators.
Aggregate(agg, chunk) ==
    [rows |-> agg.rows + Len(chunk[1]),
     nulls |-> [c \in DOMAIN chunk |-> CountNulls(agg.nulls[c], chunk[c])],
     stats |-> [c \in DOMAIN chunk |-> UpdateStats(agg.stats[c], chunk[c])],
     seen |-> [c \in DOMAIN chunk |-> InferDtype(agg.seen[c], chunk[c])]]

\* NumericStats.finalize, and NaN is no data.
FinalBound(bound, side) == IF bound.nan THEN {} ELSE side

FinalizeProfile(file, agg) ==
    [rows |-> agg.rows,
     columns |-> [c \in ColumnsOf(file) |->
        [name |-> file.names[c], dtype |-> CHOOSE t \in agg.seen[c] \cup {"object"} :
                                              agg.seen[c] = {} \/ t \in agg.seen[c],
         nulls |-> agg.nulls[c], unique |-> {},
         min |-> FinalBound(agg.stats[c], agg.stats[c].least),
         max |-> FinalBound(agg.stats[c], agg.stats[c].greatest)]]]
=============================================================================
