--------------------------- MODULE HistoryProofs ---------------------------
(***************************************************************************)
(* Proofs about RunHistory, for any runs, datasets and number of torn      *)
(* appends, and about DriftDetection, DriftHistory and DriftReaders, for   *)
(* any frames, detections, imports and readers.                            *)
(*                                                                         *)
(* A torn append is paid for once: either its line is still the last one   *)
(* and open, or one later record was written behind it and lost.  The      *)
(* invariant counts the open line as a loss to come.  Of the database, it  *)
(* follows an export from its own transaction on.                          *)
(***************************************************************************)
EXTENDS RunHistory, DriftReaders, SequenceTheorems, FiniteSetTheorems, TLAPS

Stage == {"export", "ensure", "import", "delete", "persist", "source",
          "persisted", "failed", "dead"}

\* The shape of the state.
TypeOK ==
    /\ lines \in Seq(Run \cup {Garbage})
    /\ open \in BOOLEAN
    /\ row \in [Run -> {"none", "imported", "full"}]
    /\ source \in [Dataset -> {"absent", "blank", "known"}]
    /\ stage \in [Run -> Stage]
    /\ seen \in [Run -> Nat]
    /\ acked \subseteq Run /\ IsFiniteSet(acked)
    /\ torn \in Nat

\* Only exports whose append returned are acknowledged, and an open line is the
\* last one and of none of them.
OpenIsUnacknowledged ==
    /\ \A r \in Run : stage[r] = "export" => r \notin acked
    /\ open => lines # <<>> /\ lines[Len(lines)] \notin acked

\* The open line may still cost the next record.
LossesArePaid == Cardinality(Lost) + (IF open THEN 1 ELSE 0) <= torn

\* The row of an export is its own from its transaction on, and nobody takes the
\* source of a dataset away.
RowIsKept ==
    \A r \in Run :
        /\ stage[r] \in {"source", "persisted"} => row[r] = "full"
        /\ stage[r] = "persisted" => source[DatasetOf[r]] = "known"

IInv ==
    /\ TypeOK
    /\ OpenIsUnacknowledged
    /\ LossesArePaid
    /\ RowIsKept

-----------------------------------------------------------------------------
\* Writing at the end of the history takes no acknowledged run from it; the new
\* line can be read when it starts on a line of its own.
LEMMA WithLineProperties ==
    ASSUME TypeOK, OpenIsUnacknowledged, NEW line \in Run \cup {Garbage}
    PROVE  /\ WithLine(line) \in Seq(Run \cup {Garbage})
           /\ WithLine(line) # <<>>
           /\ WithLine(line)[Len(WithLine(line))] = IF open THEN Garbage ELSE line
           /\ Readable(lines) \cap acked \subseteq Readable(WithLine(line))
           /\ ~open /\ line \in Run => line \in Readable(WithLine(line))
<1> USE GarbageAssumption
<1> DEFINE S == Run \cup {Garbage}
<1>1. Len(lines) \in Nat /\ DOMAIN lines = 1 .. Len(lines) /\ lines \in Seq(S)
  BY LenProperties DEF TypeOK
<1>2. CASE open
  <2> DEFINE new == [lines EXCEPT ![Len(lines)] = Garbage]
  <2>1. Len(lines) \in 1 .. Len(lines)
    BY <1>1, <1>2, EmptySeq DEF OpenIsUnacknowledged
  <2>2. /\ new \in Seq(S) /\ Len(new) = Len(lines)
        /\ \A j \in 1 .. Len(lines) : new[j] = IF j = Len(lines) THEN Garbage ELSE lines[j]
    BY <1>1, <2>1, ExceptSeq
  <2>3. DOMAIN new = 1 .. Len(lines)
    BY <2>2, LenProperties
  <2>4. new # <<>>
    BY <2>1, <2>2, EmptySeq
  <2>5. WithLine(line) = new
    BY <1>2 DEF WithLine
  <2>6. ASSUME NEW r \in Readable(lines) \cap acked PROVE r \in Readable(new)
    <3>1. PICK j \in 1 .. Len(lines) : lines[j] = r
      BY <1>1 DEF Readable
    <3>2. j # Len(lines)
      BY <1>2, <3>1 DEF OpenIsUnacknowledged
    <3>3. new[j] = r /\ r \in Run
      BY <2>2, <3>1, <3>2 DEF Readable
    <3> QED
      BY <2>3, <3>3 DEF Readable
  <2> HIDE DEF new
  <2> QED
    BY <1>2, <2>1, <2>2, <2>4, <2>5, <2>6
<1>3. CASE ~open
  <2> DEFINE new == Append(lines, line)
  <2>1. /\ new \in Seq(S) /\ Len(new) = Len(lines) + 1 /\ DOMAIN new = 1 .. Len(lines) + 1
        /\ \A j \in 1 .. Len(lines) : new[j] = lines[j]
        /\ new[Len(lines) + 1] = line
    BY <1>1, AppendProperties, LenProperties
  <2>2. new # <<>>
    BY <1>1, <2>1, EmptySeq
  <2>3. WithLine(line) = new
    BY <1>3 DEF WithLine
  <2> HIDE DEF new
  <2>4. \A j \in 1 .. Len(lines) : j \in DOMAIN new
    BY <1>1, <2>1
  <2>5. Len(lines) + 1 \in DOMAIN new
    BY <1>1, <2>1
  <2>6. Readable(lines) \subseteq Readable(new)
    BY <1>1, <2>1, <2>4 DEF Readable
  <2>7. line \in Run => line \in Readable(new)
    BY <2>1, <2>5 DEF Readable
  <2> QED
    BY <1>3, <2>1, <2>2, <2>3, <2>6, <2>7
<1> QED
  BY <1>2, <1>3

\* What is lost is finite, and one more export can add one loss at most.
LEMMA LossGrowsByOne ==
    ASSUME TypeOK, NEW lost, NEW r, lost \subseteq Lost \cup {r}
    PROVE  /\ IsFiniteSet(Lost) /\ Cardinality(Lost) \in Nat
           /\ Cardinality(lost) <= Cardinality(Lost) + 1
           /\ lost \subseteq Lost => Cardinality(lost) <= Cardinality(Lost)
<1>1. IsFiniteSet(Lost)
  BY FS_Subset DEF TypeOK, Lost
<1>2. /\ IsFiniteSet(Lost \cup {r})
      /\ Cardinality(Lost \cup {r}) \in {Cardinality(Lost), Cardinality(Lost) + 1}
  BY <1>1, FS_AddElement
<1>3. IsFiniteSet(lost) /\ Cardinality(lost) <= Cardinality(Lost \cup {r})
  BY <1>2, FS_Subset
<1>4. Cardinality(Lost) \in Nat /\ Cardinality(lost) \in Nat
  BY <1>1, <1>3, FS_CardinalityType
<1>5. lost \subseteq Lost => Cardinality(lost) <= Cardinality(Lost)
  BY <1>1, FS_Subset
<1> QED
  BY <1>1, <1>2, <1>3, <1>4, <1>5

\* The initial states satisfy the invariant.
LEMMA InitIInv == RunsInit => IInv
<1> SUFFICES ASSUME RunsInit PROVE IInv
  OBVIOUS
<1>1. <<>> \in Seq(Run \cup {Garbage})
  BY EmptySeq
<1>2. TypeOK
  BY <1>1, FS_EmptySet DEF RunsInit, TypeOK, Stage
<1>3. Lost = {}
  BY DEF RunsInit, Lost
<1>4. Cardinality(Lost) = 0
  BY <1>3, FS_EmptySet
<1> QED
  BY <1>2, <1>4 DEF RunsInit, IInv, OpenIsUnacknowledged, LossesArePaid, RowIsKept

-----------------------------------------------------------------------------
\* A step that leaves the files of the history alone loses none of it.
LEMMA HistoryFrame ==
    ASSUME IInv, UNCHANGED <<lines, open, acked, torn>>,
           \A r \in Run : stage'[r] = "export" => stage[r] = "export"
    PROVE  OpenIsUnacknowledged' /\ LossesArePaid'
BY DEF IInv, OpenIsUnacknowledged, LossesArePaid, Lost, Readable

\* Every step, and a stutter, keeps the invariant.
LEMMA NextIInv == IInv /\ [RunsNext]_runsVars => IInv'
<1> SUFFICES ASSUME IInv, [RunsNext]_runsVars PROVE IInv'
  OBVIOUS
<1> USE DatasetAssumption, GarbageAssumption, MaxTornAssumption DEF IInv, logVars, dbVars
<1>1. ASSUME NEW r \in Run, AppendRecord(r) PROVE IInv'
  <2>1. /\ r \notin acked /\ acked' = acked \cup {r} /\ lines' = WithLine(r)
        /\ open' = FALSE /\ torn' = torn
    BY <1>1 DEF AppendRecord, OpenIsUnacknowledged
  <2>2. /\ lines' \in Seq(Run \cup {Garbage})
        /\ Readable(lines) \cap acked \subseteq Readable(lines')
        /\ ~open => r \in Readable(lines')
    BY <2>1, WithLineProperties
  <2>3. IsFiniteSet(acked')
    BY <2>1, FS_AddElement DEF TypeOK
  <2>4. TypeOK'
    BY <1>1, <2>2, <2>3 DEF AppendRecord, Reach, TypeOK, Stage
  <2>5. OpenIsUnacknowledged'
    BY <1>1, <2>1 DEF AppendRecord, Reach, OpenIsUnacknowledged, TypeOK
  <2>6. LossesArePaid'
    <3>1. Lost' \subseteq Lost \cup {r} /\ (~open => Lost' \subseteq Lost)
      BY <2>1, <2>2 DEF Lost
    <3>2. /\ Cardinality(Lost) \in Nat
          /\ Cardinality(Lost') <= Cardinality(Lost) + 1
          /\ ~open => Cardinality(Lost') <= Cardinality(Lost)
      BY <3>1, LossGrowsByOne
    <3>3. Cardinality(Lost') \in Nat
      BY <2>4, FS_Subset, FS_CardinalityType DEF TypeOK, Lost
    <3> QED
      BY <2>1, <3>2, <3>3 DEF LossesArePaid, TypeOK
  <2>7. RowIsKept'
    BY <1>1 DEF AppendRecord, Reach, RowIsKept, TypeOK
  <2> QED
    BY <2>4, <2>5, <2>6, <2>7
<1>2. ASSUME NEW r \in Run, AppendTorn(r) PROVE IInv'
  <2>1. PICK line \in {r, Garbage} : lines' = WithLine(line)
    BY <1>2 DEF AppendTorn
  <2>2. /\ r \notin acked /\ acked' = acked /\ open' = TRUE /\ torn' = torn + 1
    BY <1>2 DEF AppendTorn, OpenIsUnacknowledged
  <2>3. /\ lines' \in Seq(Run \cup {Garbage}) /\ lines' # <<>>
        /\ lines'[Len(lines')] \in {r, Garbage}
        /\ Readable(lines) \cap acked \subseteq Readable(lines')
    BY <2>1, WithLineProperties
  <2>4. TypeOK'
    BY <1>2, <2>3 DEF AppendTorn, Reach, TypeOK, Stage
  <2>5. OpenIsUnacknowledged'
    BY <1>2, <2>2, <2>3 DEF AppendTorn, Reach, OpenIsUnacknowledged, TypeOK
  <2>6. LossesArePaid'
    <3>1. Lost' \subseteq Lost
      BY <2>2, <2>3 DEF Lost
    <3>2. Cardinality(Lost) \in Nat /\ Cardinality(Lost') <= Cardinality(Lost)
      BY <3>1, LossGrowsByOne
    <3>3. Cardinality(Lost') \in Nat
      BY <2>4, FS_Subset, FS_CardinalityType DEF TypeOK, Lost
    <3> QED
      BY <2>2, <3>2, <3>3 DEF LossesArePaid, TypeOK
  <2>7. RowIsKept'
    BY <1>2 DEF AppendTorn, Reach, RowIsKept, TypeOK
  <2> QED
    BY <2>4, <2>5, <2>6, <2>7
<1>3. ASSUME NEW r \in Run, EnsureDb(r) PROVE IInv'
  <2>1. TypeOK'
    BY <1>3, LenProperties DEF EnsureDb, Reach, TypeOK, Stage
  <2>2. OpenIsUnacknowledged' /\ LossesArePaid'
    BY <1>3, HistoryFrame DEF EnsureDb, Reach, TypeOK
  <2>3. RowIsKept'
    BY <1>3 DEF EnsureDb, Reach, RowIsKept, TypeOK
  <2> QED
    BY <2>1, <2>2, <2>3
<1>4. ASSUME NEW r \in Run, NEW n \in 0 .. Len(lines), Import(r, n) PROVE IInv'
  <2>1. TypeOK'
    BY <1>4 DEF Import, Reach, TypeOK, Stage
  <2>2. OpenIsUnacknowledged' /\ LossesArePaid'
    BY <1>4, HistoryFrame DEF Import, Reach, TypeOK
  <2>3. RowIsKept'
    BY <1>4 DEF Import, Reach, RowIsKept, TypeOK
  <2> QED
    BY <2>1, <2>2, <2>3
<1>5. ASSUME NEW r \in Run, Delete(r) PROVE IInv'
  <2>1. TypeOK'
    BY <1>5 DEF Delete, Reach, TypeOK, Stage
  <2>2. OpenIsUnacknowledged' /\ LossesArePaid'
    BY <1>5, HistoryFrame DEF Delete, Reach, TypeOK
  <2>3. RowIsKept'
    BY <1>5 DEF Delete, Reach, RowIsKept, TypeOK
  <2> QED
    BY <2>1, <2>2, <2>3
<1>6. ASSUME NEW r \in Run, Persist(r) PROVE IInv'
  <2>1. TypeOK'
    BY <1>6 DEF Persist, Reach, TypeOK, Stage
  <2>2. OpenIsUnacknowledged' /\ LossesArePaid'
    BY <1>6, HistoryFrame DEF Persist, Reach, TypeOK
  <2>3. RowIsKept'
    BY <1>6 DEF Persist, Reach, RowIsKept, TypeOK
  <2> QED
    BY <2>1, <2>2, <2>3
<1>7. ASSUME NEW r \in Run, PersistConflicts(r) PROVE IInv'
  <2>1. TypeOK'
    BY <1>7 DEF PersistConflicts, Reach, TypeOK, Stage
  <2>2. OpenIsUnacknowledged' /\ LossesArePaid'
    BY <1>7, HistoryFrame DEF PersistConflicts, Reach, TypeOK
  <2>3. RowIsKept'
    BY <1>7 DEF PersistConflicts, Reach, RowIsKept, TypeOK
  <2> QED
    BY <2>1, <2>2, <2>3
<1>8. ASSUME NEW r \in Run, SetSource(r) PROVE IInv'
  <2>1. TypeOK'
    BY <1>8 DEF SetSource, Reach, TypeOK, Stage
  <2>2. OpenIsUnacknowledged' /\ LossesArePaid'
    BY <1>8, HistoryFrame DEF SetSource, Reach, TypeOK
  <2>3. RowIsKept'
    BY <1>8 DEF SetSource, Reach, RowIsKept, TypeOK
  <2> QED
    BY <2>1, <2>2, <2>3
<1>9. ASSUME NEW r \in Run, DatabaseFails(r) PROVE IInv'
  <2>1. TypeOK'
    BY <1>9 DEF DatabaseFails, Reach, TypeOK, Stage
  <2>2. OpenIsUnacknowledged' /\ LossesArePaid'
    BY <1>9, HistoryFrame DEF DatabaseFails, Reach, TypeOK
  <2>3. RowIsKept'
    BY <1>9 DEF DatabaseFails, Reach, RowIsKept, TypeOK
  <2> QED
    BY <2>1, <2>2, <2>3
<1>10. ASSUME NEW r \in Run, Die(r) PROVE IInv'
  <2>1. TypeOK'
    BY <1>10 DEF Die, Reach, TypeOK, Stage
  <2>2. OpenIsUnacknowledged' /\ LossesArePaid'
    BY <1>10, HistoryFrame DEF Die, Reach, TypeOK
  <2>3. RowIsKept'
    BY <1>10 DEF Die, Reach, RowIsKept, TypeOK
  <2> QED
    BY <2>1, <2>2, <2>3
<1>11. CASE UNCHANGED runsVars
  <2>1. TypeOK' /\ RowIsKept'
    BY <1>11 DEF runsVars, TypeOK, RowIsKept
  <2>2. OpenIsUnacknowledged' /\ LossesArePaid'
    BY <1>11, HistoryFrame DEF runsVars
  <2> QED
    BY <2>1, <2>2
<1> QED
  BY <1>1, <1>2, <1>3, <1>4, <1>5, <1>6, <1>7, <1>8, <1>9, <1>10, <1>11 DEF RunsNext

-----------------------------------------------------------------------------
\* The invariant holds throughout.
LEMMA SpecIInv == RunsSpec => []IInv
BY InitIInv, NextIInv, PTL DEF RunsSpec

\* For any number of exports at once, the history loses at most one acknowledged
\* record per torn append, and what is reported as persisted is in the database
\* (append_jsonl_record, _persist_star_to_sqlite).
THEOREM HistoryStays == RunsSpec => []HistoryIsKept
<1>1. IInv => HistoryIsKept
  <2> SUFFICES ASSUME IInv PROVE HistoryIsKept
    OBVIOUS
  <2>1. Cardinality(Lost) \in Nat
    BY FS_Subset, FS_CardinalityType DEF IInv, TypeOK, Lost
  <2>2. LossIsBounded
    BY <2>1 DEF IInv, TypeOK, LossesArePaid, LossIsBounded
  <2>3. PersistedIsWhole
    BY DEF IInv, RowIsKept, PersistedIsWhole
  <2> QED
    BY <2>2, <2>3 DEF HistoryIsKept
<1> QED
  BY <1>1, SpecIInv, PTL

-----------------------------------------------------------------------------
(***************************************************************************)
(* The comparison of two frames                                            *)
(***************************************************************************)

Sample == Seq(Int)

\* How often a value occurs, and how many values a bucket holds, are numbers.
LEMMA BucketsAreNumbers ==
    ASSUME NEW vals \in Sample, NEW keep, NEW v
    PROVE  Occurrences(v, vals) \in Nat /\ Bucketed(vals, keep, v) \in Nat
<1>1. DOMAIN vals = 1 .. Len(vals) /\ Len(vals) \in Nat
  BY LenProperties DEF Sample
<1>2. IsFiniteSet(DOMAIN vals)
  BY <1>1, FS_Interval
<1>3. Cardinality({i \in DOMAIN vals : vals[i] = v}) \in Nat
  BY <1>2, FS_Subset, FS_CardinalityType
<1>4. Cardinality({i \in DOMAIN vals : vals[i] \notin keep}) \in Nat
  BY <1>2, FS_Subset, FS_CardinalityType
<1> QED
  BY <1>3, <1>4 DEF Occurrences, Bucketed

\* The categories that keep a column are those of both samples together.
LEMMA KeptAlike ==
    ASSUME NEW ref \in Sample, NEW cur \in Sample, NEW max
    PROVE  KeptCategories(ref, cur, max) = KeptCategories(cur, ref, max)
<1>1. \A v : Occurrences(v, ref) \in Nat /\ Occurrences(v, cur) \in Nat
  BY BucketsAreNumbers
<1>2. \A v : Occurrences(v, ref) + Occurrences(v, cur) = Occurrences(v, cur) + Occurrences(v, ref)
  BY <1>1
<1>3. Values(ref) \cup Values(cur) = Values(cur) \cup Values(ref)
  OBVIOUS
<1> QED
  BY <1>2, <1>3 DEF KeptCategories

\* The other order swaps the two rows of the table.
LEMMA TableSwaps ==
    ASSUME NEW ref \in Sample, NEW cur \in Sample, NEW keep
    PROVE  LET t == ContingencyTable(ref, cur, keep)
               u == ContingencyTable(cur, ref, keep)
           IN  /\ DOMAIN u = DOMAIN t
               /\ \A v \in DOMAIN t :
                    /\ t[v].reference \in Nat /\ t[v].current \in Nat
                    /\ u[v].reference = t[v].current /\ u[v].current = t[v].reference
BY BucketsAreNumbers DEF ContingencyTable

LEMMA SwapKeepsProportions ==
    ASSUME NEW ref \in Sample, NEW cur \in Sample, NEW keep
    PROVE  PossiblyBelow(ContingencyTable(ref, cur, keep), RowTotals(ref, cur))
             = PossiblyBelow(ContingencyTable(cur, ref, keep), RowTotals(cur, ref))
BY TableSwaps DEF PossiblyBelow, SameProportions, RowTotals

LEMMA SwapKeepsExpected ==
    ASSUME NEW ref \in Sample, NEW cur \in Sample, NEW keep
    PROVE  ExpectedTooLow(ContingencyTable(ref, cur, keep), RowTotals(ref, cur))
             => ExpectedTooLow(ContingencyTable(cur, ref, keep), RowTotals(cur, ref))
<1> DEFINE t == ContingencyTable(ref, cur, keep)
           u == ContingencyTable(cur, ref, keep)
           n == RowTotals(ref, cur)
           m == RowTotals(cur, ref)
<1>1. /\ n.reference \in Nat /\ n.current \in Nat
      /\ m.reference = n.current /\ m.current = n.reference
      /\ m["reference"] = n["current"] /\ m["current"] = n["reference"]
  BY LenProperties DEF RowTotals, Sample
<1>2. /\ DOMAIN u = DOMAIN t
      /\ \A v \in DOMAIN t :
           /\ t[v].reference \in Nat /\ t[v].current \in Nat
           /\ u[v].reference = t[v].current /\ u[v].current = t[v].reference
  BY TableSwaps
<1> HIDE DEF t, u, n, m
<1>3. SUFFICES ASSUME NEW v \in DOMAIN t, NEW side \in {"reference", "current"},
                      n[side] * (t[v].reference + t[v].current)
                        < MinExpected * (n.reference + n.current)
               PROVE  ExpectedTooLow(u, m)
  BY DEF ExpectedTooLow, t, u, n, m
<1>4. PICK other \in {"reference", "current"} : m[other] = n[side]
  BY <1>1
<1>5. u[v].reference + u[v].current = t[v].reference + t[v].current
  BY <1>2
<1>6. m.reference + m.current = n.reference + n.current
  BY <1>1
<1>7. m[other] * (u[v].reference + u[v].current) < MinExpected * (m.reference + m.current)
  BY <1>3, <1>4, <1>5, <1>6
<1> QED
  BY <1>2, <1>7 DEF ExpectedTooLow

\* What Verdicts keeps of an entry.
Verdict(e) == [test |-> e.test, drift |-> e.drift, status |-> e.status, skip_reason |-> e.skip_reason]

Skipped(reason) == [test |-> NoValue, drift |-> NoValue, status |-> "skipped", skip_reason |-> reason]
Tested(test, below) ==
    [test |-> test, drift |-> IF below THEN "yes" ELSE "no", status |-> "tested", skip_reason |-> NoValue]

\* Metrics change no verdict: what is skipped or tested after them says the same.
LEMMA EntryVerdict ==
    ASSUME NEW column, NEW kind, NEW ref, NEW cur, NEW reason
    PROVE  Verdict(Skip(Entry(column, kind, ref, cur), reason)) = Skipped(reason)
BY DEF Verdict, Skip, Entry, Skipped

LEMMA MeasuredVerdict ==
    ASSUME NEW column, NEW kind, NEW a, NEW b, NEW ref, NEW cur, NEW keep
    PROVE  LET m == AttachMetrics(Entry(column, kind, a, b), ref, cur, keep)
           IN  /\ \A reason : Verdict(Skip(m, reason)) = Skipped(reason)
               /\ \A test, below : Verdict(FinishTested(m, test, below)) = Tested(test, below)
<1> DEFINE e == Entry(column, kind, a, b)
           m == AttachMetrics(e, ref, cur, keep)
<1>1. PICK psi, js, bins, far :
         m \in {[e EXCEPT !.wasserstein = far],
               [e EXCEPT !.psi = psi, !.js = js, !.bins = bins, !.wasserstein = far],
               [e EXCEPT !.psi = psi, !.js = js, !.bins = bins]}
  <2> HIDE DEF e
  <2> QED
    BY DEF AttachMetrics
<1>2. /\ DOMAIN e = {"column", "kind", "test", "drift", "reference_n", "current_n", "status",
                     "skip_reason", "psi", "js", "wasserstein", "bins"}
      /\ e.test = NoValue /\ e.drift = NoValue
      /\ m = [x \in DOMAIN e |-> m[x]]
  <2>1. e = [x \in DOMAIN e |-> e[x]]
    BY DEF Entry
  <2>2. m = [x \in DOMAIN e |-> m[x]]
    <3> HIDE DEF e, m
    <3> QED
      BY <1>1, <2>1
  <2> QED
    BY <2>2 DEF Entry
<1>3. m.test = NoValue /\ m.drift = NoValue
  <2> HIDE DEF e, m
  <2> QED
    BY <1>1, <1>2
<1> HIDE DEF e, m
<1>4. \A reason : Verdict(Skip(m, reason)) = Skipped(reason)
  BY <1>2, <1>3 DEF Verdict, Skip, Skipped
<1>5. \A test, below : Verdict(FinishTested(m, test, below)) = Tested(test, below)
  BY <1>2, <1>3 DEF Verdict, FinishTested, Tested
<1> QED
  BY <1>4, <1>5 DEF e, m

\* Every verdict of a test on one order is one on the other order.
LEMMA TestedAlike ==
    ASSUME NEW column, NEW kind, NEW ref \in Sample, NEW cur \in Sample,
           NEW keep, NEW e \in TestCategorical(AttachMetrics(Entry(column, kind, ref, cur), ref, cur, keep),
                                               ContingencyTable(ref, cur, keep), RowTotals(ref, cur))
    PROVE  \E f \in TestCategorical(AttachMetrics(Entry(column, kind, cur, ref), cur, ref, keep),
                                   ContingencyTable(cur, ref, keep), RowTotals(cur, ref)) :
              Verdict(f) = Verdict(e)
<1> DEFINE m == AttachMetrics(Entry(column, kind, ref, cur), ref, cur, keep)
           n == AttachMetrics(Entry(column, kind, cur, ref), cur, ref, keep)
           t == ContingencyTable(ref, cur, keep)
           u == ContingencyTable(cur, ref, keep)
           mt == RowTotals(ref, cur)
           nt == RowTotals(cur, ref)
<1>1. /\ \A reason : Verdict(Skip(m, reason)) = Verdict(Skip(n, reason))
      /\ \A test, below : Verdict(FinishTested(m, test, below)) = Verdict(FinishTested(n, test, below))
  BY MeasuredVerdict
<1>2. /\ DOMAIN u = DOMAIN t
      /\ ExpectedTooLow(t, mt) <=> ExpectedTooLow(u, nt)
      /\ PossiblyBelow(t, mt) = PossiblyBelow(u, nt)
  BY TableSwaps, SwapKeepsExpected, SwapKeepsProportions
<1>3. e \in TestCategorical(m, t, mt)
  OBVIOUS
<1> HIDE DEF m, n, t, u, mt, nt
<1>4. \E f \in TestCategorical(n, u, nt) : Verdict(f) = Verdict(e)
  BY <1>1, <1>2, <1>3 DEF TestCategorical
<1> QED
  BY <1>4 DEF n, u, nt

LEMMA ColumnAlike ==
    ASSUME NEW c, NEW reference, NEW against, NEW minSamples, NEW maxCategories,
           c \in DOMAIN reference => reference[c].vals \in Sample,
           c \in DOMAIN against => against[c].vals \in Sample,
           NEW e \in DriftForColumn(c, reference, against, minSamples, maxCategories)
    PROVE  \E f \in DriftForColumn(c, against, reference, minSamples, maxCategories) :
              Verdict(f) = Verdict(e)
<1>1. CASE ~(c \in DOMAIN reference /\ c \in DOMAIN against)
  <2>1. \E kind : e = Skip(Entry(c, kind, <<>>, <<>>), "column_missing")
    BY <1>1 DEF DriftForColumn
  <2>2. \E kind : DriftForColumn(c, against, reference, minSamples, maxCategories)
                    = {Skip(Entry(c, kind, <<>>, <<>>), "column_missing")}
    BY <1>1 DEF DriftForColumn
  <2> QED
    BY <2>1, <2>2, EntryVerdict
<1>2. CASE c \in DOMAIN reference /\ c \in DOMAIN against
  <2> DEFINE rk == ColumnKind(reference[c])
             ck == ColumnKind(against[c])
             ref == reference[c].vals
             cur == against[c].vals
  <2>1. CASE NoValue \in {rk, ck} \/ rk # ck
    <3> DEFINE reason == IF NoValue \in {rk, ck} THEN "unsupported_dtype" ELSE "dtype_mismatch"
    <3>1. \E kind : e = Skip(Entry(c, kind, <<>>, <<>>), reason)
      BY <1>2, <2>1 DEF DriftForColumn
    <3>2. \E kind : DriftForColumn(c, against, reference, minSamples, maxCategories)
                      = {Skip(Entry(c, kind, <<>>, <<>>), reason)}
      BY <1>2, <2>1 DEF DriftForColumn
    <3> QED
      BY <3>1, <3>2, EntryVerdict
  <2>2. CASE rk = ck /\ rk # NoValue /\ (<<>> \in {ref, cur} \/ TooFew(ref, cur, minSamples))
    <3> DEFINE reason == IF <<>> \in {ref, cur} THEN "all_null" ELSE "insufficient_samples"
    <3>1. TooFew(cur, ref, minSamples) <=> TooFew(ref, cur, minSamples)
      BY DEF TooFew
    <3>2. e = Skip(Entry(c, rk, ref, cur), reason)
      BY <1>2, <2>2 DEF DriftForColumn
    <3>3. DriftForColumn(c, against, reference, minSamples, maxCategories)
            = {Skip(Entry(c, ck, cur, ref), reason)}
      BY <1>2, <2>2, <3>1 DEF DriftForColumn
    <3> QED
      BY <3>2, <3>3, EntryVerdict
  <2>3. CASE rk = ck /\ rk # NoValue /\ <<>> \notin {ref, cur} /\ ~TooFew(ref, cur, minSamples)
    <3> DEFINE branch(kind, x, y, keep) ==
                 LET measured == AttachMetrics(Entry(c, kind, x, y), x, y, keep)
                     total == RowTotals(x, y)
                 IN IF kind = "numeric"
                    THEN {FinishTested(measured, "ks", below) :
                            below \in PossiblyBelow(ContingencyTable(
                                x, y, Values(x) \cup Values(y)), total)}
                    ELSE TestCategorical(measured, ContingencyTable(x, y, keep), total)
    <3>1. ~TooFew(cur, ref, minSamples)
      BY <2>3 DEF TooFew
    <3>2. DriftForColumn(c, reference, against, minSamples, maxCategories)
            = UNION {branch(rk, ref, cur, keep) : keep \in KeptCategories(ref, cur, maxCategories)}
      BY <1>2, <2>3 DEF DriftForColumn
    <3>3. DriftForColumn(c, against, reference, minSamples, maxCategories)
            = UNION {branch(ck, cur, ref, keep) : keep \in KeptCategories(cur, ref, maxCategories)}
      BY <1>2, <2>3, <3>1 DEF DriftForColumn
    <3>4. PICK keep \in KeptCategories(ref, cur, maxCategories) : e \in branch(rk, ref, cur, keep)
      BY <3>2
    <3>5. keep \in KeptCategories(cur, ref, maxCategories)
      BY <1>2, KeptAlike
    <3>6. \E f \in branch(ck, cur, ref, keep) : Verdict(f) = Verdict(e)
      <4>1. CASE rk = "numeric"
        <5> DEFINE all == Values(ref) \cup Values(cur)
        <5>1. PossiblyBelow(ContingencyTable(ref, cur, all), RowTotals(ref, cur))
                = PossiblyBelow(ContingencyTable(cur, ref, all), RowTotals(cur, ref))
          BY <1>2, SwapKeepsProportions
        <5>2. all = Values(cur) \cup Values(ref)
          OBVIOUS
        <5>3. PICK below \in PossiblyBelow(ContingencyTable(ref, cur, all), RowTotals(ref, cur)) :
                e = FinishTested(AttachMetrics(Entry(c, rk, ref, cur), ref, cur, keep), "ks", below)
          BY <3>4, <4>1
        <5>4. FinishTested(AttachMetrics(Entry(c, rk, cur, ref), cur, ref, keep), "ks", below)
                \in branch(ck, cur, ref, keep)
          BY <2>3, <4>1, <5>1, <5>2
        <5>5. Verdict(FinishTested(AttachMetrics(Entry(c, rk, cur, ref), cur, ref, keep), "ks", below))
                = Verdict(e)
          BY <5>3, MeasuredVerdict
        <5> QED
          BY <5>4, <5>5
      <4>2. CASE rk # "numeric"
        BY <1>2, <2>3, <3>4, <4>2, TestedAlike
      <4> QED
        BY <4>1, <4>2
    <3> HIDE DEF branch
    <3> QED
      BY <3>3, <3>5, <3>6
  <2> QED
    BY <2>1, <2>2, <2>3
<1> QED
  BY <1>1, <1>2

\* Two frames get the same verdicts in either order, whatever their columns, samples
\* and limits are.
LEMMA EitherOrder ==
    ASSUME NEW reference, NEW against, NEW minSamples, NEW maxCategories,
           \A c \in DOMAIN reference : reference[c].vals \in Seq(Int),
           \A c \in DOMAIN against : against[c].vals \in Seq(Int)
    PROVE  Symmetric(reference, against, minSamples, maxCategories)
<1>1. ASSUME NEW c \in DOMAIN reference \cup DOMAIN against
      PROVE  /\ \A e \in DriftForColumn(c, reference, against, minSamples, maxCategories) :
                  \E f \in DriftForColumn(c, against, reference, minSamples, maxCategories) :
                     Verdict(f) = Verdict(e)
             /\ \A e \in DriftForColumn(c, against, reference, minSamples, maxCategories) :
                  \E f \in DriftForColumn(c, reference, against, minSamples, maxCategories) :
                     Verdict(f) = Verdict(e)
  BY ColumnAlike DEF Sample
<1>2. \A S : Verdicts(S) = {Verdict(e) : e \in S}
  BY DEF Verdicts, Verdict
<1>3. ASSUME NEW S, NEW T, \A e \in S : \E f \in T : Verdict(f) = Verdict(e),
             \A e \in T : \E f \in S : Verdict(f) = Verdict(e)
      PROVE  {Verdict(e) : e \in S} = {Verdict(e) : e \in T}
  BY <1>3
<1> QED
  BY <1>1, <1>2, <1>3 DEF Symmetric

\* Which of two frames is called the baseline decides no verdict, for any frames that
\* may be compared and any limits (detect_drift_frames).
THEOREM VerdictsAreSymmetric == ComparisonSpec => []VerdictIsSymmetric
<1> DEFINE Compared == baseline \in Frames /\ current \in Frames
<1>1. ComparisonInit => Compared
  BY DEF ComparisonInit
<1>2. Compared /\ [FALSE]_<<baseline, current>> => Compared'
  OBVIOUS
<1>3. Compared => VerdictIsSymmetric
  BY EitherOrder, FramesAssumption DEF VerdictIsSymmetric
<1> QED
  BY <1>1, <1>2, <1>3, PTL DEF ComparisonSpec

-----------------------------------------------------------------------------
(***************************************************************************)
(* Detections and imports                                                  *)
(***************************************************************************)

\* What a detection at work carries, and what a row of the history then is.
Working ==
    [step : {"write", "append"}, run_id : Runs, created_at : Nat, ds : Datasets,
     result : Results, path : Paths \cup {NoPath}, keep : BOOLEAN]
Row == {HistoryRecord(call) : call \in Working}

DriftTypeOK ==
    /\ DOMAIN report = Paths
    /\ \A p \in Paths : report[p].run \in Runs \cup {NoPath}
    /\ history \in Seq(Row)
    /\ DOMAIN driftCols = Runs /\ DOMAIN driftBins = Runs
    /\ detector \in [Detectors -> {Idle} \cup Working]
    /\ \A d \in Detectors : detector[d].step = "write" => detector[d].path \in Paths
    /\ importer \in [Importers -> {"idle", "columns", "bins", "done"}]
    /\ quiet \in [Importers -> BOOLEAN]

\* An identity is drawn once, and the table holds records of the history only.
RunsAreDistinct ==
    /\ driftRuns \subseteq ToSet(history)
    /\ \A r, s \in ToSet(history) : r.run_id = s.run_id => r = s
    /\ \A d \in Detectors : detector[d] # Idle =>
         \A r \in ToSet(history) : r.run_id # detector[d].run_id
    /\ \A d, e \in Detectors :
         detector[d] # Idle /\ detector[e] # Idle /\ detector[d].run_id = detector[e].run_id => d = e

\* The rows and the bins of every run are those of the report at its path.
ColumnsComplete ==
    \A s \in driftRuns : LoadReportColumns(s.report_path) # {} =>
        driftCols[s.run_id] = [of |-> report[s.report_path].run,
                               columns |-> LoadReportColumns(s.report_path)]
BinsComplete ==
    \A s \in driftRuns : LoadReportColumns(s.report_path) # {} =>
        driftBins[s.run_id] =
          [of |-> report[s.report_path].run,
           columns |-> {c \in LoadReportColumns(s.report_path) : HasDistribution(c)}]

\* A quiet import has completed one table with each commit, and nobody, another
\* import neither, takes that back.
QuietSoFar ==
    \A i \in Importers : quiet[i] =>
        /\ importer[i] \in {"bins", "done"} => ColumnsComplete
        /\ importer[i] = "done" => BinsComplete

DriftInv == DriftTypeOK /\ RunsAreDistinct /\ QuietSoFar

\* A record of the history keeps what its detection carried.
LEMMA RowFields ==
    /\ \A r \in Row : /\ r.run_id \in Runs /\ r.created_at \in Nat
                       /\ r.report_path \in Paths \cup {NoPath}
    /\ \A call \in Working : HistoryRecord(call) \in Row /\ HistoryRecord(call).run_id = call.run_id
BY DEF Row, Working, HistoryRecord

\* The history grows by what is appended.
LEMMA AppendGrows ==
    ASSUME NEW h \in Seq(Row), NEW r \in Row
    PROVE  Append(h, r) \in Seq(Row) /\ ToSet(Append(h, r)) = ToSet(h) \cup {r}
<1>1. /\ Append(h, r) \in Seq(Row) /\ Len(Append(h, r)) = Len(h) + 1
      /\ \A j \in 1 .. Len(h) : Append(h, r)[j] = h[j]
      /\ Append(h, r)[Len(h) + 1] = r
  BY AppendProperties
<1>2. /\ Len(h) \in Nat /\ DOMAIN h = 1 .. Len(h)
      /\ DOMAIN Append(h, r) = 1 .. Len(h) + 1
  BY <1>1, LenProperties
<1>3. ToSet(h) = {h[j] : j \in 1 .. Len(h)}
  BY <1>2 DEF ToSet
<1>4. ToSet(Append(h, r)) = {Append(h, r)[j] : j \in 1 .. Len(h) + 1}
  BY <1>2 DEF ToSet
<1>5. 1 .. Len(h) + 1 = (1 .. Len(h)) \cup {Len(h) + 1}
  BY <1>2
<1> QED
  BY <1>1, <1>3, <1>4, <1>5

\* How many identities were drawn is a number, for finitely many can be.
LEMMA UsedAreFinite ==
    ASSUME DriftTypeOK
    PROVE  Cardinality(UsedRuns) \in Nat
<1>1. IsFiniteSet(Runs \cup {NoPath})
  BY RunsAssumption, FS_AddElement
<1>2. \A r \in ToSet(history) : r.run_id \in Runs
  BY RowFields DEF DriftTypeOK, ToSet
<1>3. \A d \in Detectors : detector[d] # Idle => detector[d].run_id \in Runs
  BY DEF DriftTypeOK, Working
<1>4. UsedRuns \subseteq Runs \cup {NoPath}
  BY <1>2, <1>3 DEF UsedRuns, DriftTypeOK
<1> QED
  BY <1>1, <1>4, FS_Subset, FS_CardinalityType

\* The row that a stored run is read from is the one with its identity.
LEMMA StoredIsOwn ==
    ASSUME DriftTypeOK, RunsAreDistinct, NEW s \in driftRuns, LoadReportColumns(s.report_path) # {}
    PROVE  /\ s.run_id \in Runs /\ s.report_path \in Paths
           /\ Stored(s.run_id) = {s}
<1>1. s \in Row
  BY DEF DriftTypeOK, RunsAreDistinct, ToSet
<1>2. s.run_id \in Runs /\ s.report_path \in Paths
  BY <1>1, RowFields DEF LoadReportColumns
<1>3. s.report_path # NoPath
  BY <1>2, RunsAssumption
<1> QED
  BY <1>2, <1>3 DEF Stored, RunsAreDistinct

LEMMA EvidenceCompletes ==
    ASSUME DriftTypeOK, RunsAreDistinct, NEW rows, NEW binned \in BOOLEAN,
           NEW s \in driftRuns, LoadReportColumns(s.report_path) # {}
    PROVE  Evidence(rows, binned)[s.run_id] =
              [of |-> report[s.report_path].run,
               columns |-> {c \in LoadReportColumns(s.report_path) : binned => HasDistribution(c)}]
<1>1. s.run_id \in Runs /\ Stored(s.run_id) = {s}
  BY StoredIsOwn
<1>2. (CHOOSE x \in Stored(s.run_id) : TRUE) = s
  BY <1>1
<1> QED
  BY <1>1, <1>2 DEF Evidence

LEMMA InitDriftInv == DriftInit => DriftInv
<1> SUFFICES ASSUME DriftInit PROVE DriftInv
  OBVIOUS
<1>1. history \in Seq(Row) /\ ToSet(history) = {}
  BY EmptySeq DEF DriftInit, ToSet
<1>2. DriftTypeOK
  BY <1>1 DEF DriftInit, DriftTypeOK, NoReport, Idle
<1>3. RunsAreDistinct
  BY <1>1 DEF DriftInit, RunsAreDistinct
<1> QED
  BY <1>2, <1>3 DEF DriftInit, DriftInv, QuietSoFar

\* A step that touches neither reports nor tables leaves a quiet import complete.
LEMMA QuietFrame ==
    ASSUME QuietSoFar, UNCHANGED <<report, driftRuns, driftCols, driftBins, importer, quiet>>
    PROVE  QuietSoFar'
BY DEF QuietSoFar, ColumnsComplete, BinsComplete, LoadReportColumns

LEMMA NextDriftInv == DriftInv /\ [DriftNext]_driftVars => DriftInv'
<1> SUFFICES ASSUME DriftInv, [DriftNext]_driftVars PROVE DriftInv'
  OBVIOUS
<1> USE DEF DriftInv
<1>1. ASSUME NEW d \in Detectors, NEW ds \in Datasets, NEW result \in Results,
             NEW path \in Paths \cup {NoPath}, NEW keep \in BOOLEAN,
             BeginDetection(d, ds, result, path, keep)
      PROVE  DriftInv'
  <2>1. PICK run \in Runs \ UsedRuns :
          detector' = [detector EXCEPT ![d] =
            [step |-> IF path = NoPath THEN "append" ELSE "write", run_id |-> run,
             created_at |-> Cardinality(UsedRuns) + 1, ds |-> ds, result |-> result,
             path |-> path, keep |-> keep]]
    BY <1>1 DEF BeginDetection
  <2> DEFINE new == [step |-> IF path = NoPath THEN "append" ELSE "write", run_id |-> run,
                     created_at |-> Cardinality(UsedRuns) + 1, ds |-> ds, result |-> result,
                     path |-> path, keep |-> keep]
  <2>2. /\ detector[d] = Idle
        /\ UNCHANGED <<report, history, driftRuns, driftCols, driftBins, importer, quiet>>
    BY <1>1 DEF BeginDetection
  <2>3. /\ new \in Working /\ new.run_id = run
        /\ new.step = "write" => new.path \in Paths
    BY UsedAreFinite DEF Working
  <2>4. detector' = [detector EXCEPT ![d] = new]
    BY <2>1
  <2> HIDE DEF new
  <2>5. DriftTypeOK'
    BY <2>2, <2>3, <2>4 DEF DriftTypeOK
  <2>6. RunsAreDistinct'
    <3>1. \A r \in ToSet(history) : r.run_id # run
      BY DEF UsedRuns
    <3>2. \A e \in Detectors : detector[e] # Idle => detector[e].run_id # run
      BY DEF UsedRuns
    <3> QED
      BY <2>2, <2>3, <2>4, <3>1, <3>2 DEF RunsAreDistinct, DriftTypeOK
  <2>7. QuietSoFar'
    BY <2>2, QuietFrame
  <2> QED
    BY <2>5, <2>6, <2>7
<1>2. ASSUME NEW d \in Detectors, WriteDriftReport(d) PROVE DriftInv'
  <2>1. /\ detector[d].step = "write"
        /\ report' = [report EXCEPT ![detector[d].path] =
                        [run |-> detector[d].run_id, columns |-> detector[d].result.columns]]
        /\ detector' = [detector EXCEPT ![d] =
                      IF detector[d].keep THEN [@ EXCEPT !.step = "append"] ELSE Idle]
        /\ quiet' = [i \in Importers |-> FALSE]
        /\ UNCHANGED <<history, driftRuns, driftCols, driftBins, importer>>
    BY <1>2 DEF WriteDriftReport
  <2>2. detector[d] \in Working /\ detector[d].path \in Paths
    BY <2>1 DEF DriftTypeOK, Idle
  <2> DEFINE moved == [detector[d] EXCEPT !.step = "append"]
  <2>3. moved \in Working /\ moved.run_id = detector[d].run_id /\ moved.step = "append"
    BY <2>2 DEF Working
  <2>4. \/ detector' = [detector EXCEPT ![d] = moved]
        \/ detector' = [detector EXCEPT ![d] = Idle]
    BY <2>1
  <2>5. detector[d] # Idle /\ detector[d].run_id \in Runs
    BY <2>1, <2>2 DEF Idle, Working
  <2> HIDE DEF moved
  <2>6. DriftTypeOK'
    <3>1. DOMAIN report' = Paths /\ \A p \in Paths : report'[p].run \in Runs \cup {NoPath}
      BY <2>1, <2>2, <2>5 DEF DriftTypeOK
    <3>2. /\ detector' \in [Detectors -> {Idle} \cup Working]
          /\ \A e \in Detectors : detector'[e].step = "write" => detector'[e].path \in Paths
      BY <2>3, <2>4 DEF DriftTypeOK, Idle
    <3> QED
      BY <2>1, <3>1, <3>2 DEF DriftTypeOK
  <2>7. RunsAreDistinct'
    BY <2>1, <2>3, <2>4, <2>5 DEF RunsAreDistinct, DriftTypeOK
  <2>8. QuietSoFar'
    BY <2>1 DEF QuietSoFar
  <2> QED
    BY <2>6, <2>7, <2>8
<1>3. ASSUME NEW d \in Detectors, AppendDriftHistory(d) PROVE DriftInv'
  <2>1. /\ detector[d].step = "append"
        /\ history' = Append(history, HistoryRecord(detector[d]))
        /\ detector' = [detector EXCEPT ![d] = Idle]
        /\ UNCHANGED <<report, driftRuns, driftCols, driftBins, importer, quiet>>
    BY <1>3 DEF AppendDriftHistory
  <2>2. detector[d] \in Working /\ detector[d] # Idle
    BY <2>1 DEF DriftTypeOK, Idle
  <2>3. /\ HistoryRecord(detector[d]) \in Row
        /\ HistoryRecord(detector[d]).run_id = detector[d].run_id
    BY <2>2, RowFields
  <2>4. /\ history' \in Seq(Row)
        /\ ToSet(history') = ToSet(history) \cup {HistoryRecord(detector[d])}
    BY <2>1, <2>3, AppendGrows DEF DriftTypeOK
  <2>5. DriftTypeOK'
    BY <2>1, <2>4 DEF DriftTypeOK, Idle
  <2>6. RunsAreDistinct'
    BY <2>1, <2>2, <2>3, <2>4 DEF RunsAreDistinct, DriftTypeOK
  <2>7. QuietSoFar'
    BY <2>1, QuietFrame
  <2> QED
    BY <2>5, <2>6, <2>7
<1>4. ASSUME NEW d \in Detectors, DetectionFails(d) PROVE DriftInv'
  <2>1. /\ detector' = [detector EXCEPT ![d] = Idle]
        /\ UNCHANGED <<report, history, driftRuns, driftCols, driftBins, importer, quiet>>
    BY <1>4 DEF DetectionFails
  <2>2. DriftTypeOK'
    BY <2>1 DEF DriftTypeOK, Idle
  <2>3. RunsAreDistinct'
    BY <2>1 DEF RunsAreDistinct, DriftTypeOK
  <2>4. QuietSoFar'
    BY <2>1, QuietFrame
  <2> QED
    BY <2>2, <2>3, <2>4
<1>5. ASSUME NEW i \in Importers, ImportRuns(i) PROVE DriftInv'
  <2>1. /\ importer' = [importer EXCEPT ![i] = "columns"]
        /\ quiet' = [x \in Importers |-> x = i \/ (quiet[x] /\ driftRuns' = driftRuns)]
        /\ UNCHANGED <<report, history, driftCols, driftBins, detector>>
        /\ driftRuns' = driftRuns \cup
             {r \in ToSet(history) : r.run_id \notin {s.run_id : s \in driftRuns}}
    BY <1>5 DEF ImportRuns
  <2>2. DriftTypeOK'
    BY <2>1 DEF DriftTypeOK
  <2>3. RunsAreDistinct'
    <3>1. driftRuns' \subseteq ToSet(history)
      BY <2>1 DEF RunsAreDistinct
    <3> QED
      BY <2>1, <3>1 DEF RunsAreDistinct
  <2>4. QuietSoFar'
    <3> SUFFICES ASSUME NEW x \in Importers, quiet'[x], importer'[x] \in {"bins", "done"}
                 PROVE  ColumnsComplete' /\ (importer'[x] = "done" => BinsComplete')
      BY DEF QuietSoFar
    <3>1. x # i
      BY <2>1 DEF DriftTypeOK
    <3>2. importer'[x] = importer[x] /\ quiet[x] /\ driftRuns' = driftRuns
      BY <2>1, <3>1 DEF DriftTypeOK
    <3> QED
      BY <2>1, <3>2 DEF QuietSoFar, ColumnsComplete, BinsComplete, LoadReportColumns
  <2> QED
    BY <2>2, <2>3, <2>4
<1>6. ASSUME NEW i \in Importers, ImportDriftColumns(i) PROVE DriftInv'
  <2>1. /\ importer[i] = "columns"
        /\ driftCols' = Evidence(driftCols, FALSE)
        /\ importer' = [importer EXCEPT ![i] = "bins"]
        /\ UNCHANGED <<report, history, driftRuns, driftBins, detector, quiet>>
    BY <1>6 DEF ImportDriftColumns
  <2>2. DriftTypeOK'
    BY <2>1 DEF DriftTypeOK, Evidence
  <2>3. RunsAreDistinct'
    BY <2>1 DEF RunsAreDistinct
  <2>4. ColumnsComplete'
    <3>1. ASSUME NEW s \in driftRuns, LoadReportColumns(s.report_path) # {}
          PROVE  Evidence(driftCols, FALSE)[s.run_id]
                   = [of |-> report[s.report_path].run, columns |-> LoadReportColumns(s.report_path)]
      <4>1. {c \in LoadReportColumns(s.report_path) : FALSE => HasDistribution(c)}
              = LoadReportColumns(s.report_path)
        OBVIOUS
      <4>2. Evidence(driftCols, FALSE)[s.run_id] =
              [of |-> report[s.report_path].run,
               columns |-> {c \in LoadReportColumns(s.report_path) : FALSE => HasDistribution(c)}]
        BY <3>1, EvidenceCompletes
      <4> QED
        BY <4>1, <4>2
    <3> QED
      BY <2>1, <3>1 DEF ColumnsComplete, LoadReportColumns
  <2>5. QuietSoFar'
    BY <2>1, <2>4 DEF QuietSoFar, BinsComplete, LoadReportColumns, DriftTypeOK
  <2> QED
    BY <2>2, <2>3, <2>5
<1>7. ASSUME NEW i \in Importers, ImportDriftDistributions(i) PROVE DriftInv'
  <2>1. /\ importer[i] = "bins"
        /\ driftBins' = Evidence(driftBins, TRUE)
        /\ importer' = [importer EXCEPT ![i] = "done"]
        /\ UNCHANGED <<report, history, driftRuns, driftCols, detector, quiet>>
    BY <1>7 DEF ImportDriftDistributions
  <2>2. DriftTypeOK'
    BY <2>1 DEF DriftTypeOK, Evidence
  <2>3. RunsAreDistinct'
    BY <2>1 DEF RunsAreDistinct
  <2>4. BinsComplete'
    <3>1. ASSUME NEW s \in driftRuns, LoadReportColumns(s.report_path) # {}
          PROVE  Evidence(driftBins, TRUE)[s.run_id] =
                   [of |-> report[s.report_path].run,
                    columns |-> {c \in LoadReportColumns(s.report_path) : HasDistribution(c)}]
      <4>1. {c \in LoadReportColumns(s.report_path) : TRUE => HasDistribution(c)}
              = {c \in LoadReportColumns(s.report_path) : HasDistribution(c)}
        OBVIOUS
      <4>2. Evidence(driftBins, TRUE)[s.run_id] =
              [of |-> report[s.report_path].run,
               columns |-> {c \in LoadReportColumns(s.report_path) : TRUE => HasDistribution(c)}]
        BY <3>1, EvidenceCompletes
      <4> QED
        BY <4>1, <4>2
    <3> QED
      BY <2>1, <3>1 DEF BinsComplete, LoadReportColumns
  <2>5. ColumnsComplete => ColumnsComplete'
    BY <2>1 DEF ColumnsComplete, LoadReportColumns
  <2>6. QuietSoFar'
    BY <2>1, <2>4, <2>5 DEF QuietSoFar, DriftTypeOK
  <2> QED
    BY <2>2, <2>3, <2>6
<1>8. ASSUME NEW i \in Importers, ImportFails(i) PROVE DriftInv'
  <2>1. /\ importer' = [importer EXCEPT ![i] = "idle"]
        /\ UNCHANGED <<report, history, driftRuns, driftCols, driftBins, detector, quiet>>
    BY <1>8 DEF ImportFails
  <2>2. DriftTypeOK'
    BY <2>1 DEF DriftTypeOK
  <2>3. RunsAreDistinct'
    BY <2>1 DEF RunsAreDistinct
  <2>4. QuietSoFar'
    BY <2>1 DEF QuietSoFar, ColumnsComplete, BinsComplete, LoadReportColumns, DriftTypeOK
  <2> QED
    BY <2>2, <2>3, <2>4
<1>9. CASE UNCHANGED driftVars
  <2>1. DriftTypeOK' /\ RunsAreDistinct'
    BY <1>9 DEF driftVars, DriftTypeOK, RunsAreDistinct
  <2>2. QuietSoFar'
    BY <1>9, QuietFrame DEF driftVars
  <2> QED
    BY <2>1, <2>2
<1> QED
  BY <1>1, <1>2, <1>3, <1>4, <1>5, <1>6, <1>7, <1>8, <1>9 DEF DriftNext

\* However many imports and detections run at once: a quiet import that has ended
\* has given every run the columns and the bins of one report (import_drift_history,
\* import_drift_columns, import_drift_distributions).
THEOREM QuietImportsComplete == DriftSpec => []QuietImportIsComplete
<1>1. DriftInv => QuietImportIsComplete
  <2> SUFFICES ASSUME DriftInv, NEW i \in Importers, importer[i] = "done", quiet[i],
                      NEW s \in driftRuns, LoadReportColumns(s.report_path) # {}
               PROVE  /\ driftCols[s.run_id] = [of |-> report[s.report_path].run,
                                                columns |-> LoadReportColumns(s.report_path)]
                      /\ driftBins[s.run_id].of = driftCols[s.run_id].of
                      /\ driftBins[s.run_id].columns
                           = {c \in driftCols[s.run_id].columns : HasDistribution(c)}
    BY DEF QuietImportIsComplete
  <2>1. ColumnsComplete /\ BinsComplete
    BY DEF DriftInv, QuietSoFar
  <2>2. /\ driftCols[s.run_id] = [of |-> report[s.report_path].run,
                                 columns |-> LoadReportColumns(s.report_path)]
        /\ driftBins[s.run_id] =
             [of |-> report[s.report_path].run,
              columns |-> {c \in LoadReportColumns(s.report_path) : HasDistribution(c)}]
    BY <2>1 DEF ColumnsComplete, BinsComplete
  <2> QED
    BY <2>2
<1> QED
  BY <1>1, InitDriftInv, NextDriftInv, PTL DEF DriftSpec

-----------------------------------------------------------------------------
(***************************************************************************)
(* The list of runs                                                        *)
(***************************************************************************)

\* Newest first is a strict order of the stored runs, for no two share their id.
LEMMA NewestIsStrict ==
    ASSUME NEW S, S \subseteq Row, \A r, s \in S : r.run_id = s.run_id => r = s
    PROVE  /\ \A r \in S : ~Newest(r, r)
           /\ \A r, s \in S : r # s => Newest(r, s) \/ Newest(s, r)
           /\ \A r, s, t \in S : Newest(r, s) /\ Newest(s, t) => Newest(r, t)
<1>1. \A r \in S : r.run_id \in Nat /\ r.created_at \in Nat
  BY RowFields, RunsAssumption
<1> QED
  BY <1>1 DEF Newest

\* So every place of the list is that of one of them.
LEMMA EveryPlaceIsTaken ==
    ASSUME NEW S, S \subseteq Row, IsFiniteSet(S),
           \A r, s \in S : r.run_id = s.run_id => r = s
    PROVE  /\ Cardinality(S) \in Nat
           /\ \A k \in 1 .. Cardinality(S) :
                 \E r \in S : Cardinality({s \in S : Newest(s, r)}) = k - 1
<1> DEFINE before == [r \in S |-> {s \in S : Newest(s, r)}]
           n == Cardinality(S)
           rank == [r \in S |-> Cardinality(before[r])]
<1>1. n \in Nat
  BY FS_CardinalityType
<1>a. \A r \in S : before[r] = {s \in S : Newest(s, r)}
  OBVIOUS
<1> HIDE DEF before
<1>2. \A r \in S : IsFiniteSet(before[r]) /\ Cardinality(before[r]) \in Nat
  BY <1>a, FS_Subset, FS_CardinalityType
<1>3. ASSUME NEW r \in S, NEW s \in S, Newest(r, s)
      PROVE  Cardinality(before[r]) < Cardinality(before[s])
  <2>1. before[r] \cup {r} \subseteq before[s] /\ r \notin before[r]
    BY <1>a, <1>3, NewestIsStrict
  <2>2. /\ IsFiniteSet(before[r] \cup {r})
        /\ Cardinality(before[r] \cup {r}) = Cardinality(before[r]) + 1
    BY <1>2, <2>1, FS_AddElement
  <2>3. Cardinality(before[r] \cup {r}) <= Cardinality(before[s])
    BY <1>2, <2>1, FS_Subset
  <2> QED
    BY <1>2, <2>2, <2>3
<1>4. ASSUME NEW r \in S PROVE Cardinality(before[r]) \in 0 .. (n - 1)
  <2>1. before[r] \subseteq S /\ r \notin before[r]
    BY <1>a, NewestIsStrict
  <2>2. Cardinality(before[r]) <= n /\ (Cardinality(before[r]) = n => before[r] = S)
    BY <2>1, FS_Subset
  <2> HIDE DEF n
  <2> QED
    BY <1>1, <1>2, <2>1, <2>2
<1>5. rank \in Injection(S, 0 .. (n - 1))
  <2>1. rank \in [S -> 0 .. (n - 1)]
    BY <1>4
  <2>2. ASSUME NEW r \in S, NEW s \in S, r # s PROVE rank[r] # rank[s]
    BY <1>2, <1>3, <2>2, NewestIsStrict
  <2> HIDE DEF rank, n
  <2> QED
    BY <2>1, <2>2 DEF Injection, IsInjective
<1>6. IsFiniteSet(0 .. (n - 1)) /\ Cardinality(0 .. (n - 1)) = n
  <2> HIDE DEF n
  <2> QED
    BY <1>1, FS_Interval
<1>7. rank \in Surjection(S, 0 .. (n - 1))
  BY <1>5, <1>6, FS_Injection
<1>8. \A k \in 1 .. n : \E r \in S : rank[r] = k - 1
  <2> HIDE DEF rank, n
  <2> QED
    BY <1>1, <1>7 DEF Surjection
<1> QED
  BY <1>a, <1>1, <1>8

\* A list, cut or not, holds runs of the table.
LEMMA ListedAreStored ==
    ASSUME DriftInv, NEW ds, NEW limit \in Nat \cup {Unlimited}
    PROVE  ReadDriftRuns(ds, limit) \in Seq(driftRuns)
<1> DEFINE found == {r \in driftRuns : ds \in {NoDataset, r.current_dataset_id}}
           rows == [k \in 1 .. Cardinality(found) |->
                      CHOOSE r \in found : Cardinality({s \in found : Newest(s, r)}) = k - 1]
<1>1. /\ found \subseteq Row /\ found \subseteq driftRuns
      /\ \A r, s \in found : r.run_id = s.run_id => r = s
  BY DEF DriftInv, RunsAreDistinct, DriftTypeOK, ToSet
<1>2. IsFiniteSet(found)
  <2> DEFINE id == [r \in found |-> r.run_id]
  <2>1. id \in Injection(found, Runs)
    BY <1>1, RowFields DEF Injection, IsInjective
  <2> HIDE DEF id, found
  <2> QED
    BY <2>1, RunsAssumption, FS_Injection
<1> HIDE DEF found
<1>3. /\ Cardinality(found) \in Nat
      /\ \A k \in 1 .. Cardinality(found) :
            \E r \in found : Cardinality({s \in found : Newest(s, r)}) = k - 1
  BY <1>1, <1>2, EveryPlaceIsTaken
<1>4. rows \in Seq(found) /\ Len(rows) = Cardinality(found)
  <2> DEFINE c == Cardinality(found)
         place(k) == CHOOSE r \in found : Cardinality({s \in found : Newest(s, r)}) = k - 1
  <2>1. \A k \in 1 .. c : place(k) \in found
    BY <1>3
  <2>2. rows = [k \in 1 .. c |-> place(k)]
    BY Zenon
  <2> HIDE DEF rows, c, place
  <2>3. c \in Nat
    BY <1>3 DEF c
  <2>4. rows \in [1 .. c -> found]
    BY <2>1, <2>2
  <2>5. rows \in Seq(found) /\ Len(rows) = c
    BY <2>3, <2>4
  <2> QED
    BY <2>5 DEF c
<1>5. rows \in Seq(driftRuns) /\ Len(rows) \in Nat
  BY <1>1, <1>3, <1>4
<1>6. limit \in Nat /\ ~(limit > Len(rows)) => SubSeq(rows, 1, limit) \in Seq(driftRuns)
  <2> HIDE DEF rows
  <2> QED
    BY <1>5
<1>7. ReadDriftRuns(ds, limit)
        = IF limit = Unlimited \/ limit > Len(rows) THEN rows ELSE SubSeq(rows, 1, limit)
  BY DEF ReadDriftRuns, found
<1> HIDE DEF rows
<1> QED
  BY <1>5, <1>6, <1>7

-----------------------------------------------------------------------------
(***************************************************************************)
(* The readers of the database                                             *)
(***************************************************************************)

\* What may be asked.
Request ==
    [kind : {"report", "dashboard", "workbook", "plots", "mirror", "notify", "explorer",
             "list", "trend", "columns"},
     ds : Datasets \cup {NoDataset}, limit : Nat \cup {Unlimited},
     columns : BOOLEAN, bins : BOOLEAN, chart : Charts \cup {"all"},
     maxRate : Nat \cup {Unlimited}, maxPsi : Nat \cup {Unlimited}, send : BOOLEAN,
     plan : {<<>>}]

CallField ==
    {"kind", "ds", "limit", "columns", "bins", "chart", "maxRate", "maxPsi", "send", "plan",
     "summary", "runs", "detail", "columnRows", "binRows", "selected", "answer"}

Seam == {"summary", "runs", "detail", "columns", "bins"}
NoListIn(plan) == \A k \in DOMAIN plan : plan[k] # "runs"

\* The list of runs comes once, and before anything that is scoped by it.
ListFirst(plan) ==
    \A j, k \in DOMAIN plan : j < k /\ plan[k] = "runs" => plan[j] = "summary"

Listed(call) == {call.runs[k].run_id : k \in DOMAIN call.runs}
Read(call) == call.columnRows \cup call.binRows

\* What the page has left to read.
PageLeft == {<<"summary", "runs", "detail", "columns", "bins">>,
             <<"runs", "detail", "columns", "bins">>, <<"detail", "columns", "bins">>,
             <<"columns", "bins">>, <<"bins">>, <<>>}

\* A call at work: rows are read after the list, in the scope it gives, which no
\* later step changes; and the run that the page chose is in the table for good.
CallOK(call) ==
    /\ DOMAIN call = CallField
    /\ call.answer = {}
    /\ call.limit \in Nat \cup {Unlimited}
    /\ call.plan \in Seq(Seam) /\ ListFirst(call.plan)
    /\ Read(call) # {} => NoListIn(call.plan)
    /\ ScopeOf(call) # Unscoped => \A fact \in Read(call) : fact.run_id \in Listed(call)
    /\ call.kind = "explorer" =>
         /\ call.plan \in PageLeft
         /\ call.selected = NoPath \/ (NoListIn(call.plan) /\ call.selected \in Listed(call))
         /\ call.plan = <<"detail", "columns", "bins">> =>
              \E s \in driftRuns : s.run_id = call.selected
         /\ call.plan = <<"columns", "bins">> => call.detail # {}

ReadersInv == \A r \in Readers : ~Answered(reader[r]) => CallOK(reader[r])

\* An answered one has nothing left to read.
ReadersShape ==
    /\ DOMAIN reader = Readers
    /\ \A r \in Readers : Answered(reader[r]) => reader[r].plan = <<>>

\* What is appended to a plan that lists first, and lists nothing itself.
LEMMA PlanGrows ==
    ASSUME NEW p \in Seq(Seam), NEW q \in Seq(Seam), ListFirst(p), NoListIn(q)
    PROVE  p \o q \in Seq(Seam) /\ ListFirst(p \o q) /\ (NoListIn(p) => NoListIn(p \o q))
BY DEF ListFirst, NoListIn

\* What is left of a plan after a step still lists first, and nothing more once
\* the list, or something after it, has been read.
LEMMA PlanShrinks ==
    ASSUME NEW p \in Seq(Seam), p # <<>>, ListFirst(p)
    PROVE  /\ Tail(p) \in Seq(Seam) /\ ListFirst(Tail(p))
           /\ Head(p) # "summary" => NoListIn(Tail(p))
           /\ NoListIn(p) => NoListIn(Tail(p)) /\ Head(p) # "runs"
<1>1. /\ Len(p) \in Nat /\ Len(p) >= 1 /\ DOMAIN p = 1 .. Len(p) /\ Head(p) = p[1]
      /\ Tail(p) \in Seq(Seam) /\ Len(Tail(p)) = Len(p) - 1
      /\ DOMAIN Tail(p) = 1 .. Len(p) - 1
      /\ \A k \in 1 .. Len(p) - 1 : Tail(p)[k] = p[k + 1]
  OBVIOUS
<1>2. \A k \in DOMAIN Tail(p) : k + 1 \in DOMAIN p /\ 1 < k + 1 /\ Tail(p)[k] = p[k + 1]
  BY <1>1
<1>3. 1 \in DOMAIN p
  BY <1>1
<1>4. ListFirst(Tail(p))
  BY <1>1, <1>2 DEF ListFirst
<1>5. Head(p) # "summary" => NoListIn(Tail(p))
  BY <1>1, <1>2, <1>3 DEF ListFirst, NoListIn
<1>6. NoListIn(p) => NoListIn(Tail(p)) /\ Head(p) # "runs"
  BY <1>1, <1>2, <1>3 DEF NoListIn
<1> QED
  BY <1>1, <1>4, <1>5, <1>6

\* Short plans, and their parts.
LEMMA PlanParts ==
    /\ {<<>>, <<"summary">>, <<"columns">>, <<"bins">>, <<"runs">>, <<"summary", "runs">>,
        <<"runs", "summary">>, <<"summary", "runs", "columns">>, MirrorPlan, ExplorerPlan}
         \subseteq {p \in Seq(Seam) : ListFirst(p)}
    /\ {<<>>, <<"summary">>, <<"columns">>, <<"bins">>} \subseteq {p \in Seq(Seam) : NoListIn(p)}
<1>1. /\ <<>> \in Seq(Seam) /\ ListFirst(<<>>) /\ NoListIn(<<>>)
      /\ \A a \in Seam \ {"runs"} :
            <<a>> \in Seq(Seam) /\ ListFirst(<<a>>) /\ NoListIn(<<a>>)
  BY DEF ListFirst, NoListIn
<1>2. <<"runs">> \in Seq(Seam) /\ ListFirst(<<"runs">>)
  BY DEF ListFirst, Seam
<1>3. /\ <<"summary", "runs">> \in Seq(Seam) /\ ListFirst(<<"summary", "runs">>)
      /\ <<"runs", "summary">> \in Seq(Seam) /\ ListFirst(<<"runs", "summary">>)
  BY DEF ListFirst, Seam
<1>4. <<"summary", "runs", "columns">> \in Seq(Seam) /\ ListFirst(<<"summary", "runs", "columns">>)
  BY DEF ListFirst, Seam
<1>5. MirrorPlan \in Seq(Seam) /\ ListFirst(MirrorPlan)
  BY DEF ListFirst, Seam, MirrorPlan
<1>6. ExplorerPlan \in Seq(Seam) /\ ListFirst(ExplorerPlan)
  BY DEF ListFirst, Seam, ExplorerPlan
<1>7. {"summary", "columns", "bins"} \subseteq Seam \ {"runs"}
  BY DEF Seam
<1> QED
  BY <1>1, <1>2, <1>3, <1>4, <1>5, <1>6, <1>7

\* Every plan lists first.
LEMMA PlansListFirst ==
    ASSUME NEW call \in Request
    PROVE  /\ Plan(call) \in Seq(Seam) /\ ListFirst(Plan(call))
           /\ call.kind = "explorer" => Plan(call) = ExplorerPlan
<1> DEFINE columns(b) == IF b THEN <<"columns">> ELSE <<>>
           bins(b) == IF b THEN <<"bins">> ELSE <<>>
           OK(p) == p \in Seq(Seam) /\ ListFirst(p)
<1>1. \A b : /\ columns(b) \in Seq(Seam) /\ NoListIn(columns(b))
             /\ bins(b) \in Seq(Seam) /\ NoListIn(bins(b))
  BY PlanParts
<1>2. OK(ReportPlan(call))
  <2>1. OK(<<"summary", "runs">>)
    BY PlanParts
  <2>2. OK(<<"summary", "runs">> \o columns(call.columns))
    BY <1>1, <2>1, PlanGrows
  <2>3. OK((<<"summary", "runs">> \o columns(call.columns)) \o bins(call.bins))
    BY <1>1, <2>2, PlanGrows
  <2> QED
    BY <2>3 DEF ReportPlan
<1>3. OK(DashboardPlan(call))
  <2>1. OK(<<"summary", "runs", "columns">>)
    BY PlanParts
  <2> QED
    BY <1>1, <2>1, PlanGrows DEF DashboardPlan
<1>4. OK(WorkbookPlan(call))
  <2>1. OK(<<"runs", "summary">>)
    BY PlanParts
  <2>2. OK(<<"runs", "summary">> \o columns(call.columns))
    BY <1>1, <2>1, PlanGrows
  <2>3. OK((<<"runs", "summary">> \o columns(call.columns)) \o bins(call.bins))
    BY <1>1, <2>2, PlanGrows
  <2> QED
    BY <2>3 DEF WorkbookPlan
<1>5. OK(PlotsPlan(call))
  <2> DEFINE needRuns == "drift-rate" \in ResolveCharts(call.chart)
             needColumns == ResolveCharts(call.chart) \cap {"psi-by-column", "top-drifted"} # {}
             first == IF needRuns \/ (needColumns /\ Scoped(call)) THEN <<"runs">> ELSE <<>>
             second == IF needRuns THEN <<"summary">> ELSE <<>>
  <2>1. OK(first) /\ second \in Seq(Seam) /\ NoListIn(second)
    BY PlanParts
  <2>2. OK(first \o second)
    BY <2>1, PlanGrows
  <2>3. OK((first \o second) \o columns(needColumns))
    BY <1>1, <2>2, PlanGrows
  <2> QED
    BY <2>3 DEF PlotsPlan
<1>6. OK(NotificationPlan(call))
  <2>1. OK(<<"summary">>)
    BY PlanParts
  <2> QED
    BY <1>1, <2>1, PlanGrows DEF NotificationPlan
<1>7. OK(MirrorPlan) /\ OK(ExplorerPlan) /\ OK(<<"runs">>) /\ OK(<<"summary">>) /\ OK(<<"columns">>)
  BY PlanParts
<1> HIDE DEF OK
<1>8. OK(Plan(call)) /\ (call.kind = "explorer" => Plan(call) = ExplorerPlan)
  BY <1>2, <1>3, <1>4, <1>5, <1>6, <1>7 DEF Plan, Request
<1> QED
  BY <1>8 DEF OK

\* How the plan of the page goes on, and which of its steps comes first.
LEMMA PagePlansDiffer ==
    LET p5 == <<"summary", "runs", "detail", "columns", "bins">>
        p4 == <<"runs", "detail", "columns", "bins">>
        p3 == <<"detail", "columns", "bins">>
        p2 == <<"columns", "bins">>
        p1 == <<"bins">>
    IN  /\ Head(p5) = "summary" /\ Head(p4) = "runs" /\ Head(p3) = "detail"
        /\ Head(p2) = "columns" /\ Head(p1) = "bins"
        /\ Tail(p5) = p4 /\ Tail(p4) = p3 /\ Tail(p3) = p2 /\ Tail(p2) = p1 /\ Tail(p1) = <<>>
        /\ p5 # p3 /\ p4 # p3 /\ p2 # p3 /\ p1 # p3 /\ <<>> # p3
        /\ p5 # p2 /\ p4 # p2 /\ p1 # p2 /\ <<>> # p2
<1>1. /\ Len(<<"summary", "runs", "detail", "columns", "bins">>) = 5
      /\ Len(<<"runs", "detail", "columns", "bins">>) = 4
      /\ Len(<<"detail", "columns", "bins">>) = 3
      /\ Len(<<"columns", "bins">>) = 2
      /\ Len(<<"bins">>) = 1
      /\ Len(<<>>) = 0
  OBVIOUS
<1>2. /\ Head(<<"summary", "runs", "detail", "columns", "bins">>) = "summary"
      /\ Head(<<"runs", "detail", "columns", "bins">>) = "runs"
      /\ Head(<<"detail", "columns", "bins">>) = "detail"
      /\ Head(<<"columns", "bins">>) = "columns"
      /\ Head(<<"bins">>) = "bins"
  OBVIOUS
<1>3. Tail(<<"summary", "runs", "detail", "columns", "bins">>) = <<"runs", "detail", "columns", "bins">>
  OBVIOUS
<1>4. Tail(<<"runs", "detail", "columns", "bins">>) = <<"detail", "columns", "bins">>
  OBVIOUS
<1>5. Tail(<<"detail", "columns", "bins">>) = <<"columns", "bins">>
  OBVIOUS
<1>6. Tail(<<"columns", "bins">>) = <<"bins">> /\ Tail(<<"bins">>) = <<>>
  OBVIOUS
<1> QED
  BY <1>1, <1>2, <1>3, <1>4, <1>5, <1>6

\* A call starts with nothing read.
LEMMA BeginIsOK ==
    ASSUME NEW call \in Request
    PROVE  CallOK(NothingRead(call))
<1> DEFINE c == NothingRead(call)
<1>1. /\ DOMAIN c = CallField
      /\ c.answer = {} /\ c.limit = call.limit /\ c.plan = Plan(call) /\ c.kind = call.kind
      /\ c.columnRows = {} /\ c.binRows = {} /\ c.selected = NoPath
  BY DEF NothingRead, Request, CallField
<1>2. call.limit \in Nat \cup {Unlimited}
  BY DEF Request
<1> HIDE DEF c
<1>3. Read(c) = {}
  BY <1>1 DEF Read
<1>4. c.kind = "explorer" => c.plan = <<"summary", "runs", "detail", "columns", "bins">>
  BY <1>1, PlansListFirst DEF ExplorerPlan
<1>5. c.kind = "explorer" =>
         /\ c.plan \in PageLeft
         /\ c.plan # <<"detail", "columns", "bins">> /\ c.plan # <<"columns", "bins">>
  BY <1>4, PagePlansDiffer DEF PageLeft
<1>6. c.plan \in Seq(Seam) /\ ListFirst(c.plan)
  BY <1>1, PlansListFirst
<1> QED
  BY <1>1, <1>2, <1>3, <1>5, <1>6 DEF CallOK, c

\* The scope comes from the request, the list and the run chosen in it.
LEMMA ScopeIsFixed ==
    ASSUME NEW c, NEW d, d.kind = c.kind, d.ds = c.ds, d.limit = c.limit,
           d.runs = c.runs, d.selected = c.selected
    PROVE  ScopeOf(d) = ScopeOf(c) /\ Listed(d) = Listed(c)
BY DEF ScopeOf, Listed, Scoped

\* One seam read: the call d is c without the first step of its plan.
Passed(c, d) ==
    /\ DOMAIN d = CallField
    /\ d.plan = Tail(c.plan)
    /\ \A f \in {"kind", "ds", "limit", "answer"} : d[f] = c[f]

LEMMA PassingKeeps ==
    ASSUME NEW c, NEW d, CallOK(c), c.plan # <<>>, Passed(c, d)
    PROVE  /\ d.answer = {} /\ d.limit \in Nat \cup {Unlimited} /\ d.kind = c.kind
           /\ d.plan \in Seq(Seam) /\ ListFirst(d.plan)
           /\ Head(c.plan) # "summary" => NoListIn(d.plan)
           /\ NoListIn(c.plan) => NoListIn(d.plan)
           /\ Head(c.plan) = "runs" => Read(c) = {}
           /\ d.kind = "explorer" =>
                /\ d.plan \in PageLeft
                /\ d.plan = <<"detail", "columns", "bins">> => Head(c.plan) = "runs"
                /\ d.plan = <<"columns", "bins">> => Head(c.plan) = "detail"
<1>1. /\ d.answer = c.answer /\ d.limit = c.limit /\ d.kind = c.kind
  BY DEF Passed
<1>2. /\ d.plan \in Seq(Seam) /\ ListFirst(d.plan)
      /\ Head(c.plan) # "summary" => NoListIn(d.plan)
      /\ NoListIn(c.plan) => NoListIn(d.plan) /\ Head(c.plan) # "runs"
  BY PlanShrinks DEF CallOK, Passed
<1>3. ASSUME d.kind = "explorer"
      PROVE  /\ d.plan \in PageLeft
             /\ d.plan = <<"detail", "columns", "bins">> => Head(c.plan) = "runs"
             /\ d.plan = <<"columns", "bins">> => Head(c.plan) = "detail"
  <2>1. c.plan \in PageLeft \ {<<>>} /\ d.plan = Tail(c.plan)
    BY <1>1, <1>3 DEF CallOK, Passed
  <2> QED
    BY <2>1, PagePlansDiffer DEF PageLeft
<1> QED
  BY <1>1, <1>2, <1>3 DEF CallOK

\* A reader that moves on leaves the others as they are.
LEMMA OneMoves ==
    ASSUME ReadersInv, ReadersShape, UNCHANGED driftRuns, NEW r \in Readers, NEW d,
           reader' = [reader EXCEPT ![r] = d],
           (d.answer # {} /\ d.plan = <<>>) \/ CallOK(d)
    PROVE  ReadersInv' /\ ReadersShape'
<1>1. CallOK(d) => d.answer = {}
  BY DEF CallOK
<1>2. \A c : CallOK(c)' <=> CallOK(c)
  BY DEF CallOK
<1>3. ASSUME NEW q \in Readers
      PROVE  /\ ~Answered(reader'[q]) => CallOK(reader'[q])
             /\ Answered(reader'[q]) => reader'[q].plan = <<>>
  <2>1. CASE q = r
    BY <1>1, <2>1 DEF ReadersShape, Answered
  <2>2. CASE q # r
    BY <2>2 DEF ReadersShape, ReadersInv
  <2> QED
    BY <2>1, <2>2
<1>4. DOMAIN reader' = Readers
  BY DEF ReadersShape
<1> QED
  BY <1>3, <1>4 DEF ReadersInv, ReadersShape, Answered, CallOK, Read, Listed, ScopeOf, Scoped

\* A reader that has something to read is at work.
LEMMA AtWork ==
    ASSUME ReadersInv, ReadersShape, NEW r \in Readers, reader[r].plan # <<>>
    PROVE  CallOK(reader[r])
BY DEF ReadersInv, ReadersShape

\* The summary changes no scope.
LEMMA SummaryKeeps ==
    ASSUME ReadersInv, ReadersShape, NEW r \in Readers, ReadSummary(r)
    PROVE  ReadersInv' /\ ReadersShape'
<1> DEFINE c == reader[r]
           x == {SummarizeDriftTrends(reader[r].ds, reader[r].limit)}
           d == [AfterSeam(c) EXCEPT !.summary = x]
<1>1. /\ c.plan # <<>> /\ Head(c.plan) = "summary" /\ CallOK(c)
      /\ reader' = [reader EXCEPT ![r] = d] /\ UNCHANGED driftRuns
  BY AtWork DEF ReadSummary, driftVars, ReadersShape
<1>2. DOMAIN c = CallField
  BY <1>1 DEF CallOK
<1> HIDE DEF c, x
<1>3. /\ DOMAIN d = CallField /\ d.plan = Tail(c.plan)
      /\ \A f \in CallField \ {"plan", "summary"} : d[f] = c[f]
  BY <1>2 DEF AfterSeam, CallField
<1> HIDE DEF d
<1>4. /\ Passed(c, d)
      /\ d.kind = c.kind /\ d.ds = c.ds /\ d.limit = c.limit /\ d.runs = c.runs
      /\ d.selected = c.selected /\ d.detail = c.detail
      /\ d.columnRows = c.columnRows /\ d.binRows = c.binRows
  BY <1>3 DEF Passed, CallField
<1>5. ScopeOf(d) = ScopeOf(c) /\ Listed(d) = Listed(c) /\ Read(d) = Read(c)
  BY <1>4, ScopeIsFixed DEF Read
<1>6. CallOK(d)
  BY <1>1, <1>3, <1>4, <1>5, PassingKeeps DEF CallOK
<1> QED
  BY <1>1, <1>6, OneMoves

\* The chosen run is found again, for no run leaves the table.
LEMMA DetailKeeps ==
    ASSUME ReadersInv, ReadersShape, NEW r \in Readers, ReadDetail(r)
    PROVE  ReadersInv' /\ ReadersShape'
<1> DEFINE c == reader[r]
           x == {s \in driftRuns : s.run_id = c.selected}
           d == [AfterSeam(c) EXCEPT !.detail = x]
<1>1. /\ c.plan # <<>> /\ Head(c.plan) = "detail" /\ CallOK(c)
      /\ reader' = [reader EXCEPT ![r] = d] /\ UNCHANGED driftRuns
  BY AtWork DEF ReadDetail, driftVars, ReadersShape
<1>2. DOMAIN c = CallField
  BY <1>1 DEF CallOK
<1>3. c.kind = "explorer" => x # {}
  <2>1. c.kind = "explorer" => c.plan = <<"detail", "columns", "bins">>
    BY <1>1, PagePlansDiffer DEF CallOK, PageLeft
  <2> QED
    BY <1>1, <2>1 DEF CallOK
<1> HIDE DEF c, x
<1>4. /\ DOMAIN d = CallField /\ d.plan = Tail(c.plan) /\ d.detail = x
      /\ \A f \in CallField \ {"plan", "detail"} : d[f] = c[f]
  BY <1>2 DEF AfterSeam, CallField
<1> HIDE DEF d
<1>5. /\ Passed(c, d)
      /\ d.kind = c.kind /\ d.ds = c.ds /\ d.limit = c.limit /\ d.runs = c.runs
      /\ d.selected = c.selected /\ d.columnRows = c.columnRows /\ d.binRows = c.binRows
  BY <1>4 DEF Passed, CallField
<1>6. ScopeOf(d) = ScopeOf(c) /\ Listed(d) = Listed(c) /\ Read(d) = Read(c)
  BY <1>5, ScopeIsFixed DEF Read
<1>7. CallOK(d)
  BY <1>1, <1>3, <1>4, <1>5, <1>6, PassingKeeps DEF CallOK
<1> QED
  BY <1>1, <1>7, OneMoves

\* Rows come from the scope.
LEMMA RowsAreScoped ==
    ASSUME NEW c, NEW table, CallOK(c), ScopeOf(c) # Unscoped
    PROVE  \A fact \in FetchRunScoped(table, ScopeOf(c)) : fact.run_id \in Listed(c)
<1>1. \A fact \in FetchRunScoped(table, ScopeOf(c)) : fact.run_id \in ScopeOf(c)
  BY DEF FetchRunScoped, InScope
<1>2. ScopeOf(c) \subseteq Listed(c)
  <2>1. CASE c.kind = "explorer"
    BY <2>1 DEF ScopeOf, CallOK, Unscoped
  <2>2. CASE c.kind # "explorer"
    BY <2>2 DEF ScopeOf, Listed
  <2> QED
    BY <2>1, <2>2
<1> QED
  BY <1>1, <1>2

LEMMA BinsKeep ==
    ASSUME ReadersInv, ReadersShape, NEW r \in Readers, ReadBins(r)
    PROVE  ReadersInv' /\ ReadersShape'
<1> DEFINE c == reader[r]
           x == ReadDriftDistributions(ScopeOf(c))
           d == [AfterSeam(c) EXCEPT !.binRows = x]
<1>1. /\ c.plan # <<>> /\ Head(c.plan) = "bins" /\ CallOK(c)
      /\ reader' = [reader EXCEPT ![r] = d] /\ UNCHANGED driftRuns
  BY AtWork DEF ReadBins, driftVars, ReadersShape
<1>2. DOMAIN c = CallField
  BY <1>1 DEF CallOK
<1>3. ScopeOf(c) # Unscoped => \A fact \in x : fact.run_id \in Listed(c)
  BY <1>1, RowsAreScoped DEF ReadDriftDistributions
<1> HIDE DEF c, x
<1>4. /\ DOMAIN d = CallField /\ d.plan = Tail(c.plan) /\ d.binRows = x
      /\ \A f \in CallField \ {"plan", "binRows"} : d[f] = c[f]
  BY <1>2 DEF AfterSeam, CallField
<1> HIDE DEF d
<1>5. /\ Passed(c, d)
      /\ d.kind = c.kind /\ d.ds = c.ds /\ d.limit = c.limit /\ d.runs = c.runs
      /\ d.selected = c.selected /\ d.columnRows = c.columnRows
  BY <1>4 DEF Passed, CallField
<1>6. /\ ScopeOf(d) = ScopeOf(c) /\ Listed(d) = Listed(c)
      /\ Read(d) \subseteq Read(c) \cup x
  BY <1>4, <1>5, ScopeIsFixed DEF Read
<1>7. CallOK(d)
  BY <1>1, <1>3, <1>4, <1>5, <1>6, PassingKeeps DEF CallOK
<1> QED
  BY <1>1, <1>7, OneMoves

LEMMA ColumnsKeep ==
    ASSUME ReadersInv, ReadersShape, NEW r \in Readers, ReadColumns(r)
    PROVE  ReadersInv' /\ ReadersShape'
<1> DEFINE c == reader[r]
           x == ReadDriftColumns(ScopeOf(c))
           d == [AfterSeam(c) EXCEPT !.columnRows = x]
           e == [d EXCEPT !.plan = <<>>]
<1>1. /\ c.plan # <<>> /\ Head(c.plan) = "columns" /\ CallOK(c) /\ UNCHANGED driftRuns
      /\ reader' = [reader EXCEPT ![r] = IF c.kind = "explorer" /\ x = {} THEN e ELSE d]
  BY AtWork DEF ReadColumns, driftVars, ReadersShape
<1>2. DOMAIN c = CallField
  BY <1>1 DEF CallOK
<1>3. ScopeOf(c) # Unscoped => \A fact \in x : fact.run_id \in Listed(c)
  BY <1>1, RowsAreScoped DEF ReadDriftColumns
<1> HIDE DEF c, x
<1>4. /\ DOMAIN d = CallField /\ d.plan = Tail(c.plan) /\ d.columnRows = x
      /\ \A f \in CallField \ {"plan", "columnRows"} : d[f] = c[f]
  BY <1>2 DEF AfterSeam, CallField
<1> HIDE DEF d
<1>5. /\ Passed(c, d)
      /\ d.kind = c.kind /\ d.ds = c.ds /\ d.limit = c.limit /\ d.runs = c.runs
      /\ d.selected = c.selected /\ d.binRows = c.binRows
  BY <1>4 DEF Passed, CallField
<1>6. /\ ScopeOf(d) = ScopeOf(c) /\ Listed(d) = Listed(c)
      /\ Read(d) \subseteq Read(c) \cup x
  BY <1>4, <1>5, ScopeIsFixed DEF Read
<1>7. CallOK(d)
  BY <1>1, <1>3, <1>4, <1>5, <1>6, PassingKeeps DEF CallOK
<1>8. CallOK(e)
  <2>1. /\ DOMAIN e = CallField /\ e.plan = <<>>
        /\ \A f \in CallField \ {"plan"} : e[f] = d[f]
    BY <1>4 DEF CallField
  <2> HIDE DEF e
  <2>2. /\ e.kind = d.kind /\ e.ds = d.ds /\ e.limit = d.limit /\ e.runs = d.runs
        /\ e.selected = d.selected /\ e.answer = d.answer /\ e.detail = d.detail
        /\ Read(e) = Read(d)
    BY <2>1 DEF CallField, Read
  <2>3. ScopeOf(e) = ScopeOf(d) /\ Listed(e) = Listed(d)
    BY <2>2, ScopeIsFixed
  <2> QED
    BY <1>7, <2>1, <2>2, <2>3, PlanParts, PagePlansDiffer DEF CallOK, PageLeft
<1> QED
  BY <1>1, <1>7, <1>8, OneMoves

\* The list is read before any row, and the run that the page chooses is stored.
LEMMA RunsKeep ==
    ASSUME DriftInv, ReadersInv, ReadersShape, NEW r \in Readers, ReadRuns(r)
    PROVE  ReadersInv' /\ ReadersShape'
<1> DEFINE c == reader[r]
           rows == ReadDriftRuns(c.ds, c.limit)
           d == [AfterSeam(c) EXCEPT !.runs = rows]
           e == [d EXCEPT !.plan = <<>>]
           f(k) == [d EXCEPT !.selected = rows[k].run_id]
<1>1. /\ c.plan # <<>> /\ Head(c.plan) = "runs" /\ CallOK(c) /\ UNCHANGED driftRuns
      /\ \/ c.kind # "explorer" /\ reader' = [reader EXCEPT ![r] = d]
         \/ reader' = [reader EXCEPT ![r] = e]
         \/ \E k \in DOMAIN rows : reader' = [reader EXCEPT ![r] = f(k)]
  BY AtWork DEF ReadRuns, driftVars, ReadersShape
<1>2. DOMAIN c = CallField /\ c.limit \in Nat \cup {Unlimited}
  BY <1>1 DEF CallOK
<1>3. \A k \in DOMAIN rows : rows[k] \in driftRuns
  BY <1>2, ListedAreStored, LenProperties
<1> HIDE DEF c, rows
<1>4. /\ DOMAIN d = CallField /\ d.plan = Tail(c.plan) /\ d.runs = rows
      /\ \A x \in CallField \ {"plan", "runs"} : d[x] = c[x]
  BY <1>2 DEF AfterSeam, CallField
<1> HIDE DEF d
<1>5. Passed(c, d) /\ d.columnRows = c.columnRows /\ d.binRows = c.binRows
  BY <1>4 DEF Passed, CallField
<1>6. Read(d) = {}
  BY <1>1, <1>5, PassingKeeps DEF Read
<1>7. c.kind # "explorer" => CallOK(d)
  BY <1>1, <1>4, <1>5, <1>6, PassingKeeps DEF CallOK
<1>8. c.kind = "explorer" => c.plan = <<"runs", "detail", "columns", "bins">>
  BY <1>1, PagePlansDiffer DEF CallOK, PageLeft
<1>9. ASSUME c.kind = "explorer", NEW k \in DOMAIN rows PROVE CallOK(f(k))
  <2> DEFINE g == f(k)
  <2>1. /\ DOMAIN g = CallField /\ g.selected = rows[k].run_id
        /\ \A x \in CallField \ {"selected"} : g[x] = d[x]
    BY <1>4 DEF CallField
  <2> HIDE DEF g
  <2>2. /\ Passed(c, g) /\ g.runs = rows /\ Read(g) = {} /\ g.plan = Tail(c.plan)
    BY <1>4, <1>5, <1>6, <2>1 DEF Passed, CallField, Read
  <2>3. g.plan = <<"detail", "columns", "bins">>
    BY <1>8, <1>9, <2>2, PagePlansDiffer
  <2>4. g.selected \in Listed(g)
    BY <1>9, <2>1, <2>2 DEF Listed
  <2>5. \E s \in driftRuns : s.run_id = g.selected
    BY <1>3, <1>9, <2>1
  <2> QED
    BY <1>1, <2>1, <2>2, <2>3, <2>4, <2>5, PassingKeeps, PagePlansDiffer DEF CallOK, g
<1>10. CASE c.kind # "explorer"
  <2>1. CallOK(d)
    BY <1>7, <1>10
  <2>2. reader' = [reader EXCEPT ![r] = d]
    BY <1>10 DEF ReadRuns, c, d, rows
  <2> QED
    BY <1>1, <2>1, <2>2, OneMoves
<1>11. CASE c.kind = "explorer" /\ rows = <<>>
  <2>1. reader' = [reader EXCEPT ![r] = e]
    BY <1>11 DEF ReadRuns, c, d, rows
  <2>2. /\ DOMAIN e = CallField /\ e.plan = <<>> /\ e.runs = <<>>
        /\ \A x \in CallField \ {"plan"} : e[x] = d[x]
    BY <1>4, <1>11 DEF CallField
  <2> HIDE DEF e
  <2>3. /\ Read(e) = {} /\ e.answer = c.answer /\ e.limit = c.limit /\ e.selected = c.selected
    BY <1>4, <1>6, <2>2 DEF Read, CallField
  <2>4. c.selected = NoPath
    BY <1>1, <1>11, PassingKeeps, PlanShrinks DEF CallOK
  <2> QED
    BY <1>1, <2>1, <2>2, <2>3, <2>4, PlanParts, PagePlansDiffer, OneMoves DEF CallOK, PageLeft
<1>12. CASE c.kind = "explorer" /\ rows # <<>>
  <2>1. PICK k \in DOMAIN rows : reader' = [reader EXCEPT ![r] = f(k)]
    BY <1>12 DEF ReadRuns, c, d, rows
  <2>2. CallOK(f(k))
    BY <1>9, <1>12
  <2> HIDE DEF f
  <2> QED
    BY <1>1, <2>1, <2>2, OneMoves
<1> QED
  BY <1>10, <1>11, <1>12

\* The table only grows, so what was found in it stays.
LEMMA RunsGrow == [DriftNext]_driftVars => driftRuns \subseteq driftRuns'
BY DEF DriftNext, BeginDetection, WriteDriftReport, AppendDriftHistory, DetectionFails,
       ImportRuns, ImportDriftColumns, ImportDriftDistributions, ImportFails, driftVars

LEMMA DriftKeepsReaders ==
    ASSUME ReadersInv, ReadersShape, driftRuns \subseteq driftRuns', UNCHANGED reader
    PROVE  ReadersInv' /\ ReadersShape'
<1>1. ASSUME NEW r \in Readers, ~Answered(reader[r]) PROVE CallOK(reader[r])'
  BY <1>1 DEF ReadersInv, CallOK, Read, Listed, ScopeOf, Scoped
<1> QED
  BY <1>1 DEF ReadersInv, ReadersShape, Answered

LEMMA InitReadersInv == ReadersInit => ReadersInv /\ ReadersShape
BY DEF ReadersInit, ReadersInv, ReadersShape, Answered, NothingAsked

LEMMA NextReadersInv ==
    ASSUME NEW calls \in SUBSET Request, DriftInv, ReadersInv, ReadersShape,
           [ReadersNext(calls)]_readerVars
    PROVE  ReadersInv' /\ ReadersShape'
<1>1. CASE DriftNext /\ UNCHANGED <<reader, output>>
  BY <1>1, RunsGrow, DriftKeepsReaders
<1>2. CASE UNCHANGED readerVars
  BY <1>2, DriftKeepsReaders DEF readerVars, driftVars
<1>3. ASSUME NEW r \in Readers, NEW call \in calls, NEW overwrite \in BOOLEAN,
             BeginRead(r, call, overwrite)
      PROVE  ReadersInv' /\ ReadersShape'
  <2>1. reader' = [reader EXCEPT ![r] = NothingRead(call)] /\ UNCHANGED driftRuns
    BY <1>3 DEF BeginRead, driftVars
  <2>2. CallOK(NothingRead(call))
    BY BeginIsOK
  <2> QED
    BY <2>1, <2>2, OneMoves
<1>4. ASSUME NEW r \in Readers, Answer(r) PROVE ReadersInv' /\ ReadersShape'
  <2>1. PICK answer : reader' = [reader EXCEPT ![r] = [NothingAsked EXCEPT !.answer = {answer}]]
    BY <1>4 DEF Answer
  <2> DEFINE d == [NothingAsked EXCEPT !.answer = {answer}]
  <2>2. d.answer # {} /\ d.plan = <<>>
    BY DEF NothingAsked
  <2>3. UNCHANGED driftRuns
    BY <1>4 DEF Answer, driftVars
  <2> HIDE DEF d
  <2> QED
    BY <2>1, <2>2, <2>3, OneMoves DEF d
<1>5. ASSUME NEW r \in Readers, ReadFails(r) PROVE ReadersInv' /\ ReadersShape'
  <2>1. reader' = [reader EXCEPT ![r] = NothingAsked] /\ UNCHANGED driftRuns
    BY <1>5 DEF ReadFails, driftVars
  <2>2. NothingAsked.answer # {} /\ NothingAsked.plan = <<>>
    BY DEF NothingAsked
  <2> QED
    BY <2>1, <2>2, OneMoves
<1> QED
  BY <1>1, <1>2, <1>3, <1>4, <1>5, SummaryKeeps, RunsKeep, DetailKeeps, ColumnsKeep, BinsKeep
     DEF ReadersNext

\* However many runs are imported while somebody reads: the rows shown are those of
\* the runs listed, no filter widens to the whole database, and the run chosen in a
\* list is found again (build_monitoring_overview, build_run_detail, _fetch_run_scoped).
THEOREM DetailBelongsToList ==
    ASSUME NEW calls \in SUBSET Request
    PROVE  ReadersSpec(calls) => []DetailIsOfListedRuns
<1>1. ReadersInit => DriftInv /\ ReadersInv /\ ReadersShape
  BY InitDriftInv, InitReadersInv DEF ReadersInit
<1>2. DriftInv /\ ReadersInv /\ ReadersShape /\ [ReadersNext(calls)]_readerVars
        => DriftInv' /\ ReadersInv' /\ ReadersShape'
  <2>1. [ReadersNext(calls)]_readerVars => [DriftNext]_driftVars
    BY DEF ReadersNext, readerVars, BeginRead, ReadSummary, ReadRuns, ReadDetail, ReadColumns,
           ReadBins, Answer, ReadFails
  <2> QED
    BY <2>1, NextDriftInv, NextReadersInv
<1>3. DriftInv /\ ReadersInv /\ ReadersShape => DetailIsOfListedRuns
  <2> SUFFICES ASSUME ReadersInv, NEW r \in Readers, ~Answered(reader[r])
               PROVE  /\ ScopeOf(reader[r]) # Unscoped =>
                           \A fact \in Read(reader[r]) : fact.run_id \in Listed(reader[r])
                      /\ reader[r].kind = "explorer" /\ reader[r].plan # <<>>
                           /\ Head(reader[r].plan) = "columns" => reader[r].detail # {}
    BY DEF DetailIsOfListedRuns, Read, Listed
  <2>1. CallOK(reader[r])
    BY DEF ReadersInv
  <2>2. reader[r].kind = "explorer" /\ reader[r].plan # <<>> /\ Head(reader[r].plan) = "columns"
          => reader[r].plan = <<"columns", "bins">>
    BY <2>1, PagePlansDiffer DEF CallOK, PageLeft
  <2> QED
    BY <2>1, <2>2 DEF CallOK
<1> QED
  BY <1>1, <1>2, <1>3, PTL DEF ReadersSpec

=============================================================================
