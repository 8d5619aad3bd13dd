---------------------------- MODULE PagesProofs ----------------------------
(***************************************************************************)
(* Proofs about what pages show: the frames they read, for any number of   *)
(* sessions and versions and any size of the cache, the lineage of a       *)
(* version, for any versions, contents and limits, the panels of the       *)
(* Statistics Lab, for any tables, the calendar, for any days, the package *)
(* for Power BI, for any exports and builds, and the measures of a catalog *)
(* of KPIs, for any catalogs.                                              *)
(*                                                                         *)
(* The property of frames speaks of what is cached and what was returned;  *)
(* its invariant also of the frame a call holds between its reading and    *)
(* its storing, and of the version it has checked.  That no relation is    *)
(* called corrupt rests on an order: parents are older than their children.*)
(* The walk over a catalog is a recursion whose invariant follows the calls*)
(* under way; it ends because every turn does something not done before.   *)
(***************************************************************************)
EXTENDS ManagedFrames, VersionHistory, StatisticsLab, PowerBIPackage, KpiCatalog, RecipeProofs, SequenceTheorems

Place == {"idle", "verify", "read", "bound", "pick", "pop", "store", "raised"}

EntryOf == [key : Session \X Version, by : Session, of : Version, own : BOOLEAN]

\* The shape of the state.
TypeOK ==
    /\ root \in [Session -> Version \cup {None}]
    /\ file \in [Version -> {"own", "changed", "disguised"}]
    /\ writes \in Nat
    /\ exposed \subseteq Version
    /\ cache \in Seq(EntryOf)
    /\ pc \in [Session -> Place]
    /\ frame \in [Session -> EntryOf \cup {None}]
    /\ victim \in [Session -> (Session \X Version) \cup {None}]
    /\ returned \in [Session -> EntryOf \cup {None}]

\* An entry is the frame of the version that governs its session, and has that
\* version's bytes unless the version was exposed.
Current(entry) ==
    /\ entry.key = <<entry.by, entry.of>>
    /\ entry.of = root[entry.by]
    /\ entry.own \/ entry.of \in exposed

CacheOfCurrent == \A i \in DOMAIN cache : Current(cache[i])

\* The frame of s, in a call or returned by one.
CurrentOf(s, entry) == entry.by = s /\ Current(entry)

ReturnedOfCurrent == \A s \in Session : returned[s] # None => CurrentOf(s, returned[s])

\* A call in progress works for a root, which does not change under it, and holds
\* a frame from its reading to its end.
CallIsCurrent ==
    \A s \in Session :
        /\ pc[s] # "idle" => root[s] # None
        /\ pc[s] \in {"bound", "pick", "pop", "store"} =>
             frame[s] \in EntryOf /\ CurrentOf(s, frame[s])

\* What the check of size and time cannot see is exposed.
CheckedIsOwn ==
    /\ \A v \in Version : file[v] = "disguised" => v \in exposed
    /\ \A s \in Session : pc[s] = "read" =>
         file[root[s]] = "own" \/ root[s] \in exposed

IInv ==
    /\ TypeOK
    /\ CacheOfCurrent
    /\ ReturnedOfCurrent
    /\ CallIsCurrent
    /\ CheckedIsOwn

-----------------------------------------------------------------------------
\* A key that is cached has a position.
LEMMA PositionIsInside ==
    ASSUME NEW key, Cached(key)
    PROVE  Position(key) \in DOMAIN cache /\ cache[Position(key)].key = key
BY DEF Cached, Position

\* Evicting one entry invents none.
LEMMA WithoutKeepsEntries ==
    ASSUME cache \in Seq(EntryOf), NEW key, Cached(key)
    PROVE  /\ Without(key) \in Seq(EntryOf)
           /\ \A i \in DOMAIN Without(key) : \E j \in DOMAIN cache : Without(key)[i] = cache[j]
<1>1. DOMAIN cache = 1 .. Len(cache) /\ Len(cache) \in Nat /\ Position(key) \in 1 .. Len(cache)
  BY PositionIsInside, LenProperties
<1>2. \A i \in 1 .. Len(cache) - 1 :
        (IF i < Position(key) THEN i ELSE i + 1) \in 1 .. Len(cache)
  BY <1>1
<1>3. Without(key) \in [1 .. Len(cache) - 1 -> EntryOf]
  BY <1>1, <1>2, ElementOfSeq DEF Without
<1>4. Len(cache) - 1 \in Nat
  BY <1>1
<1> QED
  BY <1>1, <1>2, <1>3, <1>4 DEF Without

\* Storing an entry adds that entry at most.
LEMMA WithAddsEntry ==
    ASSUME cache \in Seq(EntryOf), NEW entry \in EntryOf
    PROVE  /\ With(entry) \in Seq(EntryOf)
           /\ \A i \in DOMAIN With(entry) :
                With(entry)[i] = entry \/ \E j \in DOMAIN cache : With(entry)[i] = cache[j]
<1>1. CASE Cached(entry.key)
  <2> DEFINE replaced == [i \in DOMAIN cache |-> IF cache[i].key = entry.key THEN entry ELSE cache[i]]
  <2>1. With(entry) = replaced
    BY <1>1 DEF With
  <2>2. replaced \in Seq(EntryOf)
    <3>1. Len(cache) \in Nat /\ DOMAIN cache = 1 .. Len(cache)
      BY LenProperties
    <3>2. replaced \in [1 .. Len(cache) -> EntryOf]
      BY <3>1, ElementOfSeq
    <3> QED
      BY <3>1, <3>2
  <2> QED
    BY <2>1, <2>2
<1>2. CASE ~Cached(entry.key)
  <2>1. With(entry) = Append(cache, entry)
    BY <1>2 DEF With
  <2>2. /\ Append(cache, entry) \in Seq(EntryOf)
        /\ DOMAIN Append(cache, entry) = 1 .. Len(cache) + 1
        /\ DOMAIN cache = 1 .. Len(cache)
        /\ \A i \in 1 .. Len(cache) : Append(cache, entry)[i] = cache[i]
        /\ Append(cache, entry)[Len(cache) + 1] = entry
    BY AppendProperties, LenProperties
  <2>3. \A i \in 1 .. Len(cache) + 1 : i \in 1 .. Len(cache) \/ i = Len(cache) + 1
    BY LenProperties
  <2> QED
    BY <2>1, <2>2, <2>3
<1> QED
  BY <1>1, <1>2
\* The initial states satisfy the invariant.
LEMMA InitIInv == FramesInit => IInv
<1> SUFFICES ASSUME FramesInit PROVE IInv
  OBVIOUS
<1>1. cache = <<>> /\ cache \in Seq(EntryOf) /\ DOMAIN cache = {}
  BY EmptySeq DEF FramesInit
<1>2. TypeOK
  BY <1>1 DEF FramesInit, TypeOK, Place
<1> QED
  BY <1>1, <1>2 DEF FramesInit, IInv, CacheOfCurrent, ReturnedOfCurrent, CallIsCurrent, CheckedIsOwn

-----------------------------------------------------------------------------
\* Whatever a step stores or evicts, the cache stays current when its new entries
\* are, no session's root changes and no version loses its exposure.
LEMMA CacheStaysCurrent ==
    ASSUME CacheOfCurrent, UNCHANGED root, exposed \subseteq exposed',
           \A i \in DOMAIN cache' :
               \/ \E j \in DOMAIN cache : cache'[i] = cache[j]
               \/ Current(cache'[i])
    PROVE  CacheOfCurrent'
BY DEF CacheOfCurrent, Current

\* So does what was returned, for the sessions whose answer stays,
LEMMA ReturnedStaysCurrent ==
    ASSUME ReturnedOfCurrent, UNCHANGED root, exposed \subseteq exposed',
           \A s \in Session :
               \/ returned'[s] = returned[s]
               \/ CurrentOf(s, returned'[s])
    PROVE  ReturnedOfCurrent'
BY DEF ReturnedOfCurrent, CurrentOf, Current

\* and the calls that stay where they are.
LEMMA CallStaysCurrent ==
    ASSUME CallIsCurrent, UNCHANGED root, exposed \subseteq exposed', NEW s \in Session,
           \A t \in Session \ {s} : pc'[t] = pc[t] /\ frame'[t] = frame[t],
           pc'[s] # "idle" => root[s] # None,
           pc'[s] \in {"bound", "pick", "pop", "store"} =>
               frame'[s] \in EntryOf /\ CurrentOf(s, frame'[s])
    PROVE  CallIsCurrent'
BY DEF CallIsCurrent, CurrentOf, Current

\* Every step, and a stutter, keeps the invariant.
LEMMA NextIInv == IInv /\ [FramesNext]_framesVars => IInv'
<1> SUFFICES ASSUME IInv, [FramesNext]_framesVars PROVE IInv'
  OBVIOUS
<1> USE NoneAssumption DEF IInv
<1>1. ASSUME NEW s \in Session, Hit(s) PROVE IInv'
  <2>0. LET entry == Lookup(Key(s, root[s])) IN entry \in EntryOf /\ CurrentOf(s, entry)
    <3> DEFINE p == Position(Key(s, root[s]))
    <3>1. p \in DOMAIN cache /\ cache[p].key = Key(s, root[s])
      BY <1>1, PositionIsInside DEF Hit
    <3>2. cache[p] \in EntryOf
      BY <3>1, LenProperties, ElementOfSeq DEF TypeOK
    <3>3. Current(cache[p])
      BY <3>1 DEF CacheOfCurrent
    <3> QED
      BY <3>1, <3>2, <3>3 DEF Lookup, CurrentOf, Current, Key, EntryOf
  <2>1. TypeOK'
    BY <1>1, <2>0 DEF Hit, callVars, TypeOK
  <2>2. CacheOfCurrent'
    BY <1>1, CacheStaysCurrent DEF Hit, callVars
  <2>3. ReturnedOfCurrent'
    BY <1>1, <2>0, ReturnedStaysCurrent DEF Hit, callVars, TypeOK
  <2>4. CallIsCurrent'
    BY <1>1, CallStaysCurrent DEF CallIsCurrent, Hit, Go, callVars, TypeOK
  <2>5. CheckedIsOwn'
    BY <1>1 DEF Hit, Go, callVars, CheckedIsOwn, TypeOK
  <2> QED
    BY <2>1, <2>2, <2>3, <2>4, <2>5
<1>2. ASSUME NEW s \in Session, Miss(s) PROVE IInv'
  <2>1. TypeOK'
    BY <1>2 DEF Miss, Go, callVars, TypeOK, Place
  <2>2. CacheOfCurrent'
    BY <1>2, CacheStaysCurrent DEF Miss, callVars
  <2>3. ReturnedOfCurrent'
    BY <1>2, ReturnedStaysCurrent DEF Miss, callVars
  <2>4. CallIsCurrent'
    BY <1>2, CallStaysCurrent DEF CallIsCurrent, Miss, Go, callVars, TypeOK
  <2>5. CheckedIsOwn'
    BY <1>2 DEF Miss, Go, callVars, CheckedIsOwn, TypeOK
  <2> QED
    BY <2>1, <2>2, <2>3, <2>4, <2>5
<1>3. ASSUME NEW s \in Session, Verify(s) PROVE IInv'
  <2>1. TypeOK'
    BY <1>3 DEF Verify, Go, callVars, TypeOK, Place
  <2>2. CacheOfCurrent'
    BY <1>3, CacheStaysCurrent DEF Verify, callVars
  <2>3. ReturnedOfCurrent'
    BY <1>3, ReturnedStaysCurrent DEF Verify, callVars
  <2>4. CallIsCurrent'
    BY <1>3, CallStaysCurrent DEF CallIsCurrent, Verify, Go, callVars, TypeOK
  <2>5. CheckedIsOwn'
    BY <1>3 DEF Verify, Go, callVars, CheckedIsOwn, CallIsCurrent, TypeOK
  <2> QED
    BY <2>1, <2>2, <2>3, <2>4, <2>5
<1>4. ASSUME NEW s \in Session, Read(s) PROVE IInv'
  <2>0. LET entry == Entry(s, root[s], file[root[s]] = "own")
        IN  entry \in EntryOf /\ CurrentOf(s, entry)
    <3>1. root[s] \in Version /\ (file[root[s]] = "own" \/ root[s] \in exposed)
      BY <1>4 DEF Read, CallIsCurrent, CheckedIsOwn, TypeOK
    <3> QED
      BY <3>1 DEF Entry, Key, EntryOf, CurrentOf, Current
  <2>1. TypeOK'
    BY <1>4, <2>0 DEF Read, Go, TypeOK, Place
  <2>2. CacheOfCurrent'
    BY <1>4, CacheStaysCurrent DEF Read, callVars
  <2>3. ReturnedOfCurrent'
    BY <1>4, ReturnedStaysCurrent DEF Read, callVars
  <2>4. CallIsCurrent'
    BY <1>4, <2>0, CallStaysCurrent DEF CallIsCurrent, Read, Go, TypeOK
  <2>5. CheckedIsOwn'
    BY <1>4 DEF Read, Go, callVars, CheckedIsOwn, TypeOK
  <2> QED
    BY <2>1, <2>2, <2>3, <2>4, <2>5
<1>5. ASSUME NEW s \in Session, ReadFails(s) PROVE IInv'
  <2>1. TypeOK'
    BY <1>5 DEF ReadFails, Go, callVars, TypeOK, Place
  <2>2. CacheOfCurrent'
    BY <1>5, CacheStaysCurrent DEF ReadFails, callVars
  <2>3. ReturnedOfCurrent'
    BY <1>5, ReturnedStaysCurrent DEF ReadFails, callVars
  <2>4. CallIsCurrent'
    BY <1>5, CallStaysCurrent DEF CallIsCurrent, ReadFails, Go, callVars, TypeOK
  <2>5. CheckedIsOwn'
    BY <1>5 DEF ReadFails, Go, callVars, CheckedIsOwn, TypeOK
  <2> QED
    BY <2>1, <2>2, <2>3, <2>4, <2>5
<1>6. ASSUME NEW s \in Session, Room(s) PROVE IInv'
  <2>1. TypeOK'
    BY <1>6 DEF Room, Go, callVars, TypeOK, Place
  <2>2. CacheOfCurrent'
    BY <1>6, CacheStaysCurrent DEF Room, callVars
  <2>3. ReturnedOfCurrent'
    BY <1>6, ReturnedStaysCurrent DEF Room, callVars
  <2>4. CallIsCurrent'
    BY <1>6, CallStaysCurrent DEF CallIsCurrent, Room, Go, callVars, TypeOK
  <2>5. CheckedIsOwn'
    BY <1>6 DEF Room, Go, callVars, CheckedIsOwn, TypeOK
  <2> QED
    BY <2>1, <2>2, <2>3, <2>4, <2>5
<1>7. ASSUME NEW s \in Session, NoRoom(s) PROVE IInv'
  <2>1. TypeOK'
    BY <1>7 DEF NoRoom, Go, callVars, TypeOK, Place
  <2>2. CacheOfCurrent'
    BY <1>7, CacheStaysCurrent DEF NoRoom, callVars
  <2>3. ReturnedOfCurrent'
    BY <1>7, ReturnedStaysCurrent DEF NoRoom, callVars
  <2>4. CallIsCurrent'
    BY <1>7, CallStaysCurrent DEF CallIsCurrent, NoRoom, Go, callVars, TypeOK
  <2>5. CheckedIsOwn'
    BY <1>7 DEF NoRoom, Go, callVars, CheckedIsOwn, TypeOK
  <2> QED
    BY <2>1, <2>2, <2>3, <2>4, <2>5
<1>8. ASSUME NEW s \in Session, Pick(s) PROVE IInv'
  <2>0. cache # <<>> => Head(cache).key \in Session \X Version
    <3>1. cache # <<>> => Head(cache) \in EntryOf
      BY HeadTailProperties DEF TypeOK
    <3> QED
      BY <3>1 DEF EntryOf
  <2>1. TypeOK'
    BY <1>8, <2>0 DEF Pick, Go, TypeOK, Place
  <2>2. CacheOfCurrent'
    BY <1>8, CacheStaysCurrent DEF Pick, callVars
  <2>3. ReturnedOfCurrent'
    BY <1>8, ReturnedStaysCurrent DEF Pick, callVars
  <2>4. CallIsCurrent'
    BY <1>8, CallStaysCurrent DEF CallIsCurrent, Pick, Go, callVars, TypeOK
  <2>5. CheckedIsOwn'
    BY <1>8 DEF Pick, Go, callVars, CheckedIsOwn, TypeOK
  <2> QED
    BY <2>1, <2>2, <2>3, <2>4, <2>5
<1>9. ASSUME NEW s \in Session, Pop(s) PROVE IInv'
  <2>0. Cached(victim[s]) =>
          /\ Without(victim[s]) \in Seq(EntryOf)
          /\ \A i \in DOMAIN Without(victim[s]) :
               \E j \in DOMAIN cache : Without(victim[s])[i] = cache[j]
    BY WithoutKeepsEntries DEF TypeOK
  <2>1. TypeOK'
    BY <1>9, <2>0 DEF Pop, Go, TypeOK, Place
  <2>2. CacheOfCurrent'
    BY <1>9, <2>0, CacheStaysCurrent DEF Pop
  <2>3. ReturnedOfCurrent'
    BY <1>9, ReturnedStaysCurrent DEF Pop, callVars
  <2>4. CallIsCurrent'
    BY <1>9, CallStaysCurrent DEF CallIsCurrent, Pop, Go, callVars, TypeOK
  <2>5. CheckedIsOwn'
    BY <1>9 DEF Pop, Go, callVars, CheckedIsOwn, TypeOK
  <2> QED
    BY <2>1, <2>2, <2>3, <2>4, <2>5
<1>10. ASSUME NEW s \in Session, Store(s) PROVE IInv'
  <2>0. /\ frame[s] \in EntryOf /\ CurrentOf(s, frame[s])
        /\ With(frame[s]) \in Seq(EntryOf)
        /\ \A i \in DOMAIN With(frame[s]) :
             \/ With(frame[s])[i] = frame[s]
             \/ \E j \in DOMAIN cache : With(frame[s])[i] = cache[j]
    BY <1>10, WithAddsEntry DEF Store, CallIsCurrent, TypeOK
  <2>1. TypeOK'
    BY <1>10, <2>0 DEF Store, Go, TypeOK, Place
  <2>2. CacheOfCurrent'
    BY <1>10, <2>0, CacheStaysCurrent DEF Store, CurrentOf
  <2>3. ReturnedOfCurrent'
    BY <1>10, <2>0, ReturnedStaysCurrent DEF Store, TypeOK
  <2>4. CallIsCurrent'
    BY <1>10, CallStaysCurrent DEF CallIsCurrent, Store, Go, callVars, TypeOK
  <2>5. CheckedIsOwn'
    BY <1>10 DEF Store, Go, callVars, CheckedIsOwn, TypeOK
  <2> QED
    BY <2>1, <2>2, <2>3, <2>4, <2>5
<1>11. ASSUME NEW s \in Session, Recover(s) PROVE IInv'
  <2>1. TypeOK'
    BY <1>11 DEF Recover, Go, callVars, TypeOK, Place
  <2>2. CacheOfCurrent'
    BY <1>11, CacheStaysCurrent DEF Recover, callVars
  <2>3. ReturnedOfCurrent'
    BY <1>11, ReturnedStaysCurrent DEF Recover, callVars
  <2>4. CallIsCurrent'
    BY <1>11, CallStaysCurrent DEF CallIsCurrent, Recover, Go, callVars, TypeOK
  <2>5. CheckedIsOwn'
    BY <1>11 DEF Recover, Go, callVars, CheckedIsOwn, TypeOK
  <2> QED
    BY <2>1, <2>2, <2>3, <2>4, <2>5
<1>12. ASSUME NEW s \in Session, NEW v \in Version \cup {None}, Trust(s, v) PROVE IInv'
  <2>0. <<>> \in Seq(EntryOf) /\ DOMAIN <<>> = {}
    BY EmptySeq
  <2>1. TypeOK'
    BY <1>12, <2>0 DEF Trust, callVars, TypeOK
  <2>2. CacheOfCurrent'
    BY <1>12, <2>0 DEF Trust, CacheOfCurrent
  <2>3. ReturnedOfCurrent'
    BY <1>12 DEF Trust, ReturnedOfCurrent, CurrentOf, Current, TypeOK
  <2>4. CallIsCurrent'
    BY <1>12 DEF Trust, callVars, CallIsCurrent, CurrentOf, Current, TypeOK
  <2>5. CheckedIsOwn'
    BY <1>12 DEF Trust, Go, callVars, CheckedIsOwn, TypeOK
  <2> QED
    BY <2>1, <2>2, <2>3, <2>4, <2>5
<1>13. ASSUME NEW v \in Version, NEW state \in {"own", "changed", "disguised"}, WriteFile(v, state) PROVE IInv'
  <2>1. TypeOK'
    BY <1>13 DEF WriteFile, Go, callVars, TypeOK, Place
  <2>2. CacheOfCurrent'
    BY <1>13, CacheStaysCurrent DEF WriteFile, callVars
  <2>3. ReturnedOfCurrent'
    BY <1>13, ReturnedStaysCurrent DEF WriteFile, callVars
  <2>4. CallIsCurrent'
    BY <1>13, CallStaysCurrent DEF CallIsCurrent, WriteFile, Go, callVars, TypeOK
  <2>5. CheckedIsOwn'
    BY <1>13 DEF WriteFile, Go, callVars, CheckedIsOwn, TypeOK
  <2> QED
    BY <2>1, <2>2, <2>3, <2>4, <2>5
<1>14. CASE UNCHANGED framesVars
  BY <1>14 DEF framesVars, TypeOK, CacheOfCurrent, ReturnedOfCurrent, CallIsCurrent, CheckedIsOwn,
               CurrentOf, Current
<1> QED
  BY <1>1, <1>2, <1>3, <1>4, <1>5, <1>6, <1>7, <1>8, <1>9, <1>10, <1>11, <1>12, <1>13, <1>14
     DEF FramesNext

-----------------------------------------------------------------------------
\* The invariant holds throughout.
LEMMA SpecIInv == FramesSpec => []IInv
BY InitIInv, NextIInv, PTL DEF FramesSpec

\* Sessions are isolated for every number of sessions, versions and entries: a call
\* returns its own session's frame of the version that governs, and the cache holds
\* none of a version that no longer does (get_managed_frame, _invalidation_hook).
THEOREM FramesAreOwn == FramesSpec => []OwnFramesOnly
<1>1. IInv => OwnFramesOnly
  BY DEF IInv, OwnFramesOnly, ReturnedIsOwn, CacheIsCurrent, ReturnedOfCurrent, CacheOfCurrent,
         CurrentOf, Current
<1> QED
  BY <1>1, SpecIInv, PTL

\* A dict has every key once,
KeysDiffer == \A i, j \in DOMAIN cache : cache[i].key = cache[j].key => i = j

\* and this one has no two entries of one session, however many there are.
OneEntryPerSession == \A i, j \in DOMAIN cache : cache[i].by = cache[j].by => i = j

CacheIsBounded == IsFiniteSet(Session) => Len(cache) <= Cardinality(Session)

\* What is evicted leaves the other keys in their order; what is stored takes the
\* place of its key or one at the end.
LEMMA NextKeysDiffer == IInv /\ KeysDiffer /\ [FramesNext]_framesVars => KeysDiffer'
<1> SUFFICES ASSUME IInv, KeysDiffer, [FramesNext]_framesVars PROVE KeysDiffer'
  OBVIOUS
<1>0. cache \in Seq(EntryOf) /\ Len(cache) \in Nat /\ DOMAIN cache = 1 .. Len(cache)
  BY LenProperties DEF IInv, TypeOK
<1>1. ASSUME NEW s \in Session, Pop(s), cache' # cache PROVE KeysDiffer'
  <2>1. Cached(victim[s]) /\ cache' = Without(victim[s])
    BY <1>1 DEF Pop
  <2> DEFINE p == Position(victim[s])
             kept(i) == IF i < p THEN i ELSE i + 1
  <2>2. p \in 1 .. Len(cache)
    BY <1>0, <2>1, PositionIsInside
  <2>3. /\ DOMAIN cache' = 1 .. Len(cache) - 1
        /\ \A i \in 1 .. Len(cache) - 1 : cache'[i] = cache[kept(i)]
    BY <2>1 DEF Without
  <2> HIDE DEF p
  <2>4. \A i, j \in 1 .. Len(cache) - 1 :
          kept(i) \in 1 .. Len(cache) /\ (kept(i) = kept(j) => i = j)
    BY <1>0, <2>2
  <2> HIDE DEF kept
  <2> QED
    BY <1>0, <2>3, <2>4 DEF KeysDiffer
<1>2. ASSUME NEW s \in Session, Store(s) PROVE KeysDiffer'
  <2> DEFINE entry == frame[s]
  <2>0. cache' = With(entry) /\ entry \in EntryOf
    BY <1>2 DEF Store, IInv, CallIsCurrent
  <2> HIDE DEF entry
  <2>1. CASE Cached(entry.key)
    <3>1. cache' = [i \in DOMAIN cache |-> IF cache[i].key = entry.key THEN entry ELSE cache[i]]
      BY <2>0, <2>1 DEF With
    <3>2. DOMAIN cache' = DOMAIN cache /\ \A i \in DOMAIN cache : cache'[i].key = cache[i].key
      BY <3>1
    <3> QED
      BY <3>2 DEF KeysDiffer
  <2>2. CASE ~Cached(entry.key)
    <3>1. cache' = Append(cache, entry)
      BY <2>0, <2>2 DEF With
    <3>2. /\ DOMAIN cache' = 1 .. Len(cache) + 1
          /\ \A i \in 1 .. Len(cache) : cache'[i] = cache[i]
          /\ cache'[Len(cache) + 1] = entry
      BY <1>0, <2>0, <3>1, AppendProperties, LenProperties
    <3>3. \A i \in 1 .. Len(cache) + 1 : i \in 1 .. Len(cache) \/ i = Len(cache) + 1
      BY <1>0
    <3>4. \A i \in 1 .. Len(cache) : cache[i].key # entry.key
      BY <1>0, <2>2 DEF Cached
    <3> QED
      BY <1>0, <3>2, <3>3, <3>4 DEF KeysDiffer
  <2> QED
    BY <2>1, <2>2
<1>3. ASSUME NEW s \in Session, NEW v, Trust(s, v) PROVE KeysDiffer'
  BY <1>3 DEF Trust, KeysDiffer
<1>4. CASE cache' = cache
  BY <1>4 DEF KeysDiffer
<1>5. \/ cache' = cache
      \/ \E s \in Session : Pop(s) \/ Store(s) \/ \E v : Trust(s, v)
  BY DEF FramesNext, framesVars, Hit, Miss, Verify, Read, ReadFails, Room, NoRoom, Pick, Recover, WriteFile
<1> QED
  BY <1>1, <1>2, <1>3, <1>4, <1>5

\* The cache, the calls and what they return stay well formed: whatever the threads
\* test, evict and store in between, no key is in the cache twice and no session has two
\* entries there, so that it holds no more entries than there are sessions.
THEOREM FramesTypeCorrect ==
    FramesSpec => [](TypeOK /\ KeysDiffer /\ OneEntryPerSession /\ CacheIsBounded)
<1>1. FramesInit => KeysDiffer
  BY DEF FramesInit, KeysDiffer
<1>2. IInv /\ KeysDiffer => OneEntryPerSession
  BY DEF IInv, CacheOfCurrent, Current, KeysDiffer, OneEntryPerSession
<1>3. ASSUME IInv, OneEntryPerSession, IsFiniteSet(Session) PROVE Len(cache) <= Cardinality(Session)
  <2> DEFINE by == [i \in 1 .. Len(cache) |-> cache[i].by]
  <2>0. cache \in Seq(EntryOf) /\ Len(cache) \in Nat /\ DOMAIN cache = 1 .. Len(cache)
    BY <1>3, LenProperties DEF IInv, TypeOK
  <2>1. ASSUME NEW i \in 1 .. Len(cache) PROVE cache[i].by \in Session
    <3>1. cache[i] \in EntryOf
      BY <2>0, ElementOfSeq
    <3> QED
      BY <3>1 DEF EntryOf
  <2>2. by \in Injection(1 .. Len(cache), Session)
    BY <1>3, <2>0, <2>1 DEF OneEntryPerSession, Injection, IsInjective
  <2> HIDE DEF by
  <2>3. Cardinality(1 .. Len(cache)) <= Cardinality(Session)
    BY <1>3, <2>2, FS_Injection
  <2> QED
    BY <2>0, <2>3, FS_Interval
<1>4. IInv /\ KeysDiffer => TypeOK /\ KeysDiffer /\ OneEntryPerSession /\ CacheIsBounded
  BY <1>2, <1>3 DEF IInv, CacheIsBounded
<1>5. FramesSpec => []KeysDiffer
  BY <1>1, SpecIInv, NextKeysDiffer, PTL DEF FramesSpec
<1> QED
  BY <1>4, <1>5, SpecIInv, PTL

-----------------------------------------------------------------------------
(***************************************************************************)
(* Lineage of a version                                                    *)
(***************************************************************************)

RecordOf == [family : Id, root : Content, content : Content,
             parent : Id \cup {NoId}, parentContent : Content]

\* A version that has a parent repeats what its parent says of the family.
Inherits(v) ==
    LET p == Parent(v)
    IN  /\ p \in Registered
        /\ record[p].family = record[v].family
        /\ record[p].root = record[v].root
        /\ record[p].content = record[v].parentContent

\* Parents are older than their children.
Older(birth) == \A v \in Registered : Parent(v) # NoId => birth[Parent(v)] < birth[v]

LineageInv ==
    /\ record \in [Id -> RecordOf \cup {NoRecord}]
    /\ IsFiniteSet(Registered)
    /\ active \in Id \cup {NoId}
    /\ pending \in Id \cup {NoId}
    /\ ~edited => /\ \A v \in Registered : Parent(v) # NoId => Inherits(v)
                  /\ \E birth \in [Id -> Nat] : Older(birth)

LEMMA RegisteredIsRecord ==
    ASSUME record \in [Id -> RecordOf \cup {NoRecord}], NEW v \in Id
    PROVE  v \in Registered <=> record[v] \in RecordOf
BY IdAssumption DEF Registered, RecordOf, NoRecord

LEMMA LineageInitially == HistoryInit => LineageInv
<1> SUFFICES ASSUME HistoryInit PROVE LineageInv
  OBVIOUS
<1>1. Registered = {} /\ record \in [Id -> RecordOf \cup {NoRecord}]
  BY DEF HistoryInit, Registered
<1>2. IsFiniteSet(Registered)
  BY <1>1, FS_EmptySet
<1>3. [v \in Id |-> 0] \in [Id -> Nat] /\ Older([v \in Id |-> 0])
  BY <1>1 DEF Older
<1> QED
  BY <1>1, <1>2, <1>3 DEF HistoryInit, LineageInv

\* A new version is younger than its parent and passes on what its parent says.
LEMMA RegisterKeeps ==
    ASSUME LineageInv, NEW v \in Id, NEW r \in RecordOf, Register(v, r),
           ~edited => \/ r.parent = NoId
                      \/ /\ r.parent \in Registered
                         /\ record[r.parent].family = r.family
                         /\ record[r.parent].root = r.root
                         /\ record[r.parent].content = r.parentContent
    PROVE  LineageInv'
<1> USE IdAssumption
<1>1. /\ record[v] = NoRecord /\ v \notin Registered
      /\ record' = [record EXCEPT ![v] = r]
      /\ UNCHANGED <<edited, active, pending>>
  BY DEF Register, Registered, pageVars
<1>2. record' \in [Id -> RecordOf \cup {NoRecord}]
  BY <1>1 DEF LineageInv
<1>3. Registered' = Registered \cup {v}
  BY <1>1, r \in RecordOf DEF LineageInv, Registered, RecordOf, NoRecord
<1>4. IsFiniteSet(Registered)'
  BY <1>3, FS_AddElement DEF LineageInv
<1>5. \A w \in Registered : record'[w] = record[w] /\ w # v /\ w \in Id
  BY <1>1 DEF LineageInv, Registered
<1>6. record'[v] = r
  BY <1>1 DEF LineageInv
<1>7. ASSUME ~edited, NEW w \in Registered', Parent(w)' # NoId PROVE Inherits(w)'
  <2>1. CASE w = v
    BY <1>1, <1>3, <1>5, <1>6, <1>7, <2>1 DEF Inherits, Parent
  <2>2. CASE w # v
    <3>1. w \in Registered /\ Parent(w)' = Parent(w) /\ Inherits(w)
      BY <1>3, <1>5, <1>7, <2>2 DEF LineageInv, Parent
    <3> QED
      BY <1>3, <1>5, <3>1 DEF Inherits
  <2> QED
    BY <2>1, <2>2
<1>8. ASSUME ~edited PROVE \E birth \in [Id -> Nat] : Older(birth)'
  <2>1. PICK old \in [Id -> Nat] : Older(old)
    BY <1>8 DEF LineageInv
  <2> DEFINE birth == [old EXCEPT ![v] = IF r.parent = NoId THEN 0 ELSE old[r.parent] + 1]
  <2>2. r.parent # NoId => r.parent \in Id
    BY DEF RecordOf
  <2>3. birth \in [Id -> Nat]
    BY <2>2
  <2>4. ASSUME NEW w \in Registered', Parent(w)' # NoId PROVE birth[Parent(w)'] < birth[w]
    <3>1. CASE w = v
      <4>1. Parent(w)' = r.parent /\ r.parent # NoId /\ r.parent \in Id /\ r.parent # v
        BY <1>1, <1>6, <1>8, <2>4, <2>2, <3>1 DEF Parent
      <4> QED
        BY <3>1, <4>1
    <3>2. CASE w # v
      <4>1. w \in Registered /\ Parent(w)' = Parent(w)
        BY <1>3, <1>5, <3>2 DEF Parent
      <4>2. Parent(w) \in Registered /\ old[Parent(w)] < old[w]
        BY <1>8, <2>1, <2>4, <4>1 DEF LineageInv, Inherits, Older
      <4> QED
        BY <1>1, <1>5, <3>2, <4>1, <4>2
    <3> QED
      BY <3>1, <3>2
  <2> HIDE DEF birth
  <2> QED
    BY <2>3, <2>4 DEF Older
<1> QED
  BY <1>1, <1>2, <1>4, <1>7, <1>8 DEF LineageInv

LEMMA LineageStep == LineageInv /\ [HistoryNext]_historyVars => LineageInv'
<1> SUFFICES ASSUME LineageInv, [HistoryNext]_historyVars PROVE LineageInv'
  OBVIOUS
<1>1. ASSUME NEW v \in Id, NEW content \in Content, NEW source \in Content,
             ConfirmFromFile(v, source, content)
      PROVE  LineageInv'
  <2> DEFINE r == [family |-> v, root |-> source, content |-> content,
                   parent |-> NoId, parentContent |-> source]
  <2>1. r \in RecordOf /\ r.parent = NoId /\ Register(v, r)
    BY <1>1 DEF RecordOf, ConfirmFromFile
  <2> HIDE DEF r
  <2> QED
    BY <2>1, RegisterKeeps
<1>2. ASSUME NEW v \in Id, NEW content \in Content, ConfirmFromVersion(v, content)
      PROVE  LineageInv'
  <2> DEFINE r == [family |-> record[active].family, root |-> record[active].root,
                   content |-> content, parent |-> active,
                   parentContent |-> record[active].content]
  <2>1. active \in Id /\ active \in Registered /\ record[active] \in RecordOf
    BY <1>2, RegisteredIsRecord DEF LineageInv, ConfirmFromVersion, Registered
  <2>2. Register(v, r)
    BY <1>2 DEF ConfirmFromVersion
  <2>3. r \in RecordOf
    BY <2>1 DEF RecordOf
  <2>4. /\ r.parent \in Registered
        /\ record[r.parent].family = r.family
        /\ record[r.parent].root = r.root
        /\ record[r.parent].content = r.parentContent
    BY <2>1
  <2> HIDE DEF r
  <2> QED
    BY <2>2, <2>3, <2>4, RegisterKeeps
<1>3. ASSUME UNCHANGED <<record, edited>>,
             active' \in Id \cup {NoId}, pending' \in Id \cup {NoId}
      PROVE  LineageInv'
  BY <1>3 DEF LineageInv, Registered, Inherits, Older, Parent
<1>4. ASSUME NEW v \in Id, NEW parent \in Id \cup {NoId}, NEW family \in Id,
             EditRecord(v, parent, family)
      PROVE  LineageInv'
  <2>1. record[v] \in RecordOf
    BY <1>4, RegisteredIsRecord DEF LineageInv, EditRecord
  <2> DEFINE r == [record[v] EXCEPT !.parent = parent, !.family = family]
  <2>2. r \in RecordOf /\ record' = [record EXCEPT ![v] = r] /\ edited'
    BY <1>4, <2>1 DEF RecordOf, EditRecord, LineageInv
  <2>3. record' \in [Id -> RecordOf \cup {NoRecord}]
    BY <2>2 DEF LineageInv
  <2>4. Registered' = Registered
    BY <1>4, <2>2, <2>3, IdAssumption DEF Registered, EditRecord, LineageInv, RecordOf, NoRecord
  <2> QED
    BY <1>4, <2>2, <2>3, <2>4 DEF LineageInv, EditRecord, pageVars
<1>5. ASSUME NEW row \in rows, ClickRow(row) PROVE LineageInv'
  <2>1. pending' \in Id \cup {NoId}
    BY <1>5 DEF ClickRow, Matches, Listed, Registered
  <2> QED
    BY <1>3, <1>5, <2>1 DEF LineageInv, ClickRow, recordVars
<1> QED
  BY <1>1, <1>2, <1>3, <1>4, <1>5
     DEF HistoryNext, CopyVersion, ChangeFile, ShowHistory, Reopen, historyVars, recordVars,
         pageVars, LineageInv

LEMMA LineageAlways == HistorySpec => []LineageInv
<1> QED
  BY LineageInitially, LineageStep, PTL DEF HistorySpec

IsWay(way, v, size) ==
    /\ way \in [0 .. size -> Listed]
    /\ way[0] = v
    /\ \A i \in 1 .. size : way[i] = Parent(way[i - 1])

\* Along a way, versions only get older: it cannot have more of them than are listed.
LEMMA WayEnds ==
    ASSUME LineageInv, ~edited, NEW v \in Listed
    PROVE  ~ReachesCycle(v)
<1> DEFINE size == Cardinality(Listed)
<1>1. IsFiniteSet(Listed) /\ size \in Nat
  BY FS_Subset, FS_CardinalityType DEF LineageInv, Listed
<1>2. SUFFICES ASSUME NEW way, IsWay(way, v, size) PROVE FALSE
  BY DEF ReachesCycle, IsWay
<1>3. PICK birth \in [Id -> Nat] : Older(birth)
  BY DEF LineageInv
<1> HIDE DEF size
<1>4. ASSUME NEW n \in Nat, n + 1 <= size PROVE birth[way[n + 1]] < birth[way[n]]
  <2>1. n \in 0 .. size /\ n + 1 \in 0 .. size /\ n + 1 \in 1 .. size /\ (n + 1) - 1 = n
    BY <1>1, <1>4
  <2>2. way[n] \in Listed /\ way[n + 1] \in Listed /\ way[n + 1] = Parent(way[n])
    BY <1>2, <2>1 DEF IsWay
  <2>3. way[n] \in Registered /\ way[n + 1] \in Id
    BY <2>2 DEF Listed, Registered
  <2> QED
    BY <1>3, <2>2, <2>3, IdAssumption DEF Older
<1>5. \A n \in 0 .. size : birth[way[n]] \in Nat
  BY <1>2, <1>3 DEF IsWay, Listed, Registered
<1> DEFINE T == {n \in Nat : n <= size => \A i \in 0 .. n - 1 : birth[way[n]] < birth[way[i]]}
<1>6. 0 \in T
  OBVIOUS
<1>7. ASSUME NEW n \in Nat, n \in T PROVE n + 1 \in T
  <2>1. SUFFICES ASSUME n + 1 <= size, NEW i \in 0 .. n PROVE birth[way[n + 1]] < birth[way[i]]
    OBVIOUS
  <2>2. birth[way[n + 1]] < birth[way[n]]
    BY <1>4, <2>1
  <2>3. n \in 0 .. size /\ n + 1 \in 0 .. size /\ i \in 0 .. size
    BY <1>1, <2>1
  <2>4. i # n => birth[way[n]] < birth[way[i]]
    BY <1>1, <1>7, <2>1
  <2> QED
    BY <1>5, <2>2, <2>3, <2>4
<1>8. Nat \subseteq T
  <2> HIDE DEF T
  <2> QED
    BY <1>6, <1>7, Induction
<1>9. \A n \in 0 .. size : \A i \in 0 .. n - 1 : birth[way[n]] < birth[way[i]]
  BY <1>1, <1>8
<1>10. way \in Injection(0 .. size, Listed)
  <2>1. SUFFICES ASSUME NEW i \in 0 .. size, NEW j \in 0 .. size, i < j PROVE way[i] # way[j]
    BY <1>1, <1>2 DEF IsWay, Injection, IsInjective
  <2>2. i \in 0 .. j - 1
    BY <1>1, <2>1
  <2> QED
    BY <1>5, <1>9, <2>1, <2>2
<1>11. Cardinality(0 .. size) <= Cardinality(Listed)
  BY <1>1, <1>10, FS_Injection
<1> QED
  BY <1>1, <1>11, FS_Interval DEF size

\* The parents of a circle of versions never end.
LEMMA CircleIsReached ==
    ASSUME NEW circle, circle \subseteq Listed, \A w \in circle : Parent(w) \in circle,
           Cardinality(Listed) \in Nat, NEW v \in circle
    PROVE  ReachesCycle(v)
<1> DEFINE size == Cardinality(Listed)
           Goes(way, n) == /\ way \in [0 .. n -> circle] /\ way[0] = v
                           /\ \A i \in 1 .. n : way[i] = Parent(way[i - 1])
           T == {n \in Nat : \E way : Goes(way, n)}
<1>1. 0 \in T
  <2> DEFINE way == [i \in 0 .. 0 |-> v]
  <2>1. Goes(way, 0)
    OBVIOUS
  <2> QED
    BY <2>1
<1>2. ASSUME NEW n \in Nat, n \in T PROVE n + 1 \in T
  <2>1. PICK way : Goes(way, n)
    BY <1>2
  <2>2. way[n] \in circle /\ Parent(way[n]) \in circle
    BY <2>1
  <2> DEFINE next == [i \in 0 .. n + 1 |-> IF i = n + 1 THEN Parent(way[n]) ELSE way[i]]
  <2>3. next \in [0 .. n + 1 -> circle] /\ next[0] = v
    BY <2>1, <2>2
  <2>4. ASSUME NEW i \in 1 .. n + 1 PROVE next[i] = Parent(next[i - 1])
    <3>1. i - 1 \in 0 .. n + 1 /\ i - 1 # n + 1 /\ next[i - 1] = way[i - 1]
      OBVIOUS
    <3>2. CASE i = n + 1
      BY <3>1, <3>2
    <3>3. CASE i # n + 1
      <4>1. i \in 1 .. n /\ next[i] = way[i]
        BY <3>3
      <4> HIDE DEF next
      <4> QED
        BY <2>1, <3>1, <4>1
    <3> QED
      BY <3>2, <3>3
  <2>5. Goes(next, n + 1)
    <3> HIDE DEF next
    <3> QED
      BY <2>3, <2>4
  <2> HIDE DEF Goes
  <2> QED
    BY <2>5
<1>3. size \in T
  <2> HIDE DEF T
  <2> QED
    BY <1>1, <1>2, Induction
<1>4. PICK way : Goes(way, size)
  BY <1>3
<1>5. way \in [0 .. size -> Listed]
  BY <1>4
<1> QED
  BY <1>4, <1>5 DEF ReachesCycle

\* Both ends of a relation between versions tell the same story, for any versions, contents
\* and limits, whatever users copy, delete or edit (_resolve_parent, _resolve_root,
\* _resolve_children, _reaches_cycle).
THEOREM RelationsAreMutual == HistorySpec => []LineageIsMutual
<1> SUFFICES LineageInv => LineageIsMutual
  BY LineageAlways, PTL
<1> SUFFICES ASSUME LineageInv PROVE LineageIsMutual
  OBVIOUS
<1>1. Listed \subseteq Id /\ Listed \subseteq Registered
  BY DEF Listed, Registered
<1>2. ASSUME NEW v \in Listed, ParentState(v) = "node" PROVE v \in Children(Parent(v))
  BY <1>2 DEF ParentState, Children
<1>3. ASSUME NEW v \in Listed, NEW w \in Children(v) PROVE ParentState(w) \in {"node", "corrupt"}
  BY <1>1, <1>3, IdAssumption DEF ParentState, Children
<1>4. ASSUME NEW v \in Listed, ~edited PROVE ParentState(v) # "corrupt"
  <2>1. ~ReachesCycle(v)
    BY <1>4, WayEnds
  <2>2. Parent(v) # NoId => Inherits(v) /\ Parent(v) # v
    <3>1. PICK birth \in [Id -> Nat] : Older(birth)
      BY <1>4 DEF LineageInv
    <3> QED
      BY <1>1, <1>4, <3>1 DEF LineageInv, Older
  <2> QED
    BY <2>1, <2>2 DEF ParentState, Inherits
<1>5. ASSUME NEW v \in Listed, ~edited, ParentState(v) = "node"
      PROVE  RootState(v) = RootState(Parent(v))
  <2>1. Inherits(v)
    BY <1>1, <1>5 DEF LineageInv, ParentState
  <2>2. RootCandidates(v) = RootCandidates(Parent(v))
    BY <2>1 DEF Inherits, RootCandidates
  <2> QED
    BY <2>2 DEF RootState
<1>6. ASSUME NEW circle \in (SUBSET Listed) \ {{}}
      PROVE  \E v \in circle : ParentState(v) # "node" \/ Parent(v) \notin circle
  <2>1. SUFFICES ASSUME \A w \in circle : ParentState(w) = "node" /\ Parent(w) \in circle PROVE FALSE
    OBVIOUS
  <2>2. PICK v \in circle : TRUE
    BY <1>6
  <2>3. Cardinality(Listed) \in Nat
    BY FS_Subset, FS_CardinalityType DEF LineageInv, Listed
  <2>4. ReachesCycle(v)
    BY <1>6, <2>1, <2>3, CircleIsReached
  <2> QED
    BY <2>1, <2>4 DEF ParentState
<1>7. \A v \in Listed :
        /\ ParentState(v) = "node" => v \in Children(Parent(v))
        /\ \A w \in Children(v) : ParentState(w) \in {"node", "corrupt"}
  BY <1>2, <1>3
<1>8. \A v \in Listed :
        ~edited => /\ LineageState(v) # "corrupt_relation"
                   /\ ParentState(v) = "node" => RootState(v) = RootState(Parent(v))
  BY <1>4, <1>5 DEF LineageState
<1> QED
  BY <1>6, <1>7, <1>8 DEF LineageIsMutual

-----------------------------------------------------------------------------
(***************************************************************************)
(* Counting the rows of a table                                            *)
(***************************************************************************)

\* What a finite set is taken to is finite.
LEMMA ImageIsFinite ==
    ASSUME NEW S, IsFiniteSet(S), NEW f
    PROVE  /\ IsFiniteSet({f[i] : i \in S})
           /\ Cardinality({f[i] : i \in S}) \in Nat
<1> DEFINE T == {f[i] : i \in S}
           onto == [i \in S |-> f[i]]
<1>1. onto \in Surjection(S, T)
  BY DEF Surjection
<1> HIDE DEF T, onto
<1>2. IsFiniteSet(T) /\ Cardinality(T) \in Nat
  BY <1>1, FS_Surjection, FS_CardinalityType
<1> QED
  BY <1>2 DEF T

\* Two ways to tell the members of a set apart that agree on any two of them.
LEMMA ToldApartAlike ==
    ASSUME NEW S, IsFiniteSet(S), NEW f, NEW g,
           \A i, j \in S : f[i] = f[j] <=> g[i] = g[j]
    PROVE  Cardinality({f[i] : i \in S}) = Cardinality({g[i] : i \in S})
<1> DEFINE F == {f[i] : i \in S}
           G == {g[i] : i \in S}
           back == [v \in F |-> CHOOSE i \in S : f[i] = v]
           over == [v \in F |-> g[back[v]]]
<1>1. \A v \in F : back[v] \in S /\ f[back[v]] = v
  OBVIOUS
<1>2. over \in [F -> G]
  BY <1>1
<1>3. \A v, w \in F : over[v] = over[w] => v = w
  <2>1. TAKE v, w \in F
  <2>2. over[v] = over[w] => f[back[v]] = f[back[w]]
    BY <1>1
  <2> QED
    BY <1>1, <2>2
<1>4. \A u \in G : \E v \in F : over[v] = u
  <2>1. TAKE u \in G
  <2>2. PICK i \in S : u = g[i]
    OBVIOUS
  <2>3. f[i] \in F /\ f[back[f[i]]] = f[i] /\ back[f[i]] \in S
    BY <1>1, <2>2
  <2>4. over[f[i]] = u
    BY <2>2, <2>3
  <2> QED
    BY <2>3, <2>4
<1>5. over \in Bijection(F, G)
  <2> HIDE DEF F, G, back, over
  <2> QED
    BY <1>2, <1>3, <1>4 DEF Bijection, Injection, Surjection, IsInjective
<1>6. IsFiniteSet(F)
  BY ImageIsFinite
<1>7. Cardinality(F) = Cardinality(G)
  <2> HIDE DEF F, G, over
  <2> QED
    BY <1>5, <1>6, FS_Bijection DEF ExistsBijection
<1> QED
  BY <1>7

\* A recursion over the subsets of a set that takes one member after another, as
\* SumFunction does.
LEMMA SumOfParts ==
    ASSUME NEW lines, IsFiniteSet(lines), NEW key, NEW counts,
           IsFiniteSet(DOMAIN counts),
           \A i \in lines : key[i] \in DOMAIN counts,
           \A k \in DOMAIN counts : counts[k] = Cardinality({i \in lines : key[i] = k})
    PROVE  SumFunction(counts) = Cardinality(lines)
<1> DEFINE K == DOMAIN counts
           Of(s) == {i \in lines : key[i] \in s}
           First(s) == CHOOSE k \in s : TRUE
           Solves(f) == f = [s \in SUBSET K |-> IF s = {} THEN 0
                                                ELSE counts[First(s)] + f[s \ {First(s)}]]
           sum == [s \in SUBSET K |-> Cardinality(Of(s))]
           iter == CHOOSE f : Solves(f)
<1>1. \A s : IsFiniteSet(Of(s)) /\ Cardinality(Of(s)) \in Nat
  <2>1. ASSUME NEW s
        PROVE  IsFiniteSet(Of(s)) /\ Cardinality(Of(s)) \in Nat
    <3>1. Of(s) \in SUBSET lines
      OBVIOUS
    <3> HIDE DEF Of
    <3>2. IsFiniteSet(Of(s))
      BY <3>1, FS_Subset
    <3> QED
      BY <3>2, FS_CardinalityType
  <2> HIDE DEF Of
  <2> QED
    BY <2>1
<1>2. ASSUME NEW s \in SUBSET K, NEW k \in s
      PROVE  Cardinality(Of(s)) = counts[k] + Cardinality(Of(s \ {k}))
  <2>1. /\ Of(s) = Of({k}) \cup Of(s \ {k}) /\ Of({k}) \cap Of(s \ {k}) = {}
        /\ Of({k}) = {i \in lines : key[i] = k}
    OBVIOUS
  <2>2. Cardinality(Of(s)) = Cardinality(Of({k})) + Cardinality(Of(s \ {k})) - Cardinality({})
    <3>1. IsFiniteSet(Of({k})) /\ IsFiniteSet(Of(s \ {k}))
      BY <1>1
    <3>2. Cardinality(Of({k}) \cup Of(s \ {k}))
            = Cardinality(Of({k})) + Cardinality(Of(s \ {k})) - Cardinality(Of({k}) \cap Of(s \ {k}))
      <4> HIDE DEF Of
      <4> QED
        BY <3>1, FS_Union
    <3> HIDE DEF Of
    <3> QED
      BY <2>1, <3>2
  <2>3. Cardinality(Of({k})) = counts[k]
    BY <1>2, <2>1
  <2> HIDE DEF Of
  <2> QED
    BY <1>1, <2>2, <2>3, FS_EmptySet
<1>3. \A s \in SUBSET K : s # {} => First(s) \in s
  OBVIOUS
<1>4. Cardinality(Of({})) = 0
  <2>1. Of({}) = {}
    OBVIOUS
  <2> QED
    BY <2>1, FS_EmptySet
<1>5. Solves(sum)
  <2>1. ASSUME NEW s \in SUBSET K
        PROVE  sum[s] = IF s = {} THEN 0 ELSE counts[First(s)] + sum[s \ {First(s)}]
    <3>1. CASE s = {}
      BY <1>4, <3>1
    <3>2. CASE s # {}
      <4>1. First(s) \in s /\ s \ {First(s)} \in SUBSET K
        BY <1>3, <3>2
      <4>2. Cardinality(Of(s)) = counts[First(s)] + Cardinality(Of(s \ {First(s)}))
        <5> HIDE DEF Of, First
        <5> QED
          BY <1>2, <4>1
      <4> HIDE DEF Of, First
      <4> QED
        BY <3>2, <4>1, <4>2
    <3> QED
      BY <3>1, <3>2
  <2> HIDE DEF Of, First
  <2> QED
    BY <2>1
<1>6. Solves(iter)
  <2> HIDE DEF Solves
  <2> QED
    BY <1>5
<1>7. SumFunction(counts) = iter[K]
  BY DEF SumFunction, SumFunctionOnSet, FoldFunctionOnSet, MapThenFoldSet
<1> DEFINE T == {n \in Nat : \A s \in SUBSET K : Cardinality(s) = n => iter[s] = sum[s]}
<1>8. \A s \in SUBSET K : IsFiniteSet(s) /\ Cardinality(s) \in Nat
  BY FS_Subset, FS_CardinalityType
<1>9. \A s \in SUBSET K : iter[s] = IF s = {} THEN 0 ELSE counts[First(s)] + iter[s \ {First(s)}]
  <2> HIDE DEF iter, First
  <2> QED
    BY <1>6
<1>10. 0 \in T
  <2>1. ASSUME NEW s \in SUBSET K, Cardinality(s) = 0 PROVE iter[s] = sum[s]
    <3>1. s = {}
      BY <1>8, <2>1, FS_EmptySet
    <3> HIDE DEF iter, Of, First
    <3> QED
      BY <1>4, <1>9, <3>1
  <2> HIDE DEF iter, sum
  <2> QED
    BY <2>1
<1>11. ASSUME NEW n \in Nat, n \in T PROVE n + 1 \in T
  <2>1. ASSUME NEW s \in SUBSET K, Cardinality(s) = n + 1 PROVE iter[s] = sum[s]
    <3>1. s # {}
      BY <2>1, FS_EmptySet
    <3> DEFINE rest == s \ {First(s)}
    <3>2. First(s) \in s /\ rest \in SUBSET K
      BY <1>3, <3>1
    <3>3. Cardinality(rest) = n
      <4> HIDE DEF First
      <4> QED
        BY <1>8, <2>1, <3>2, FS_RemoveElement
    <3>4. iter[rest] = sum[rest]
      <4> HIDE DEF rest, iter, sum
      <4> QED
        BY <1>11, <3>2, <3>3
    <3>5. iter[s] = counts[First(s)] + iter[rest]
      <4> HIDE DEF iter, First
      <4> QED
        BY <1>9, <3>1
    <3>6. sum[s] = counts[First(s)] + sum[rest]
      <4> HIDE DEF First, Of
      <4> QED
        BY <1>2, <3>2
    <3> HIDE DEF iter, sum, rest
    <3> QED
      BY <3>4, <3>5, <3>6
  <2> HIDE DEF iter, sum
  <2> QED
    BY <2>1
<1>12. Cardinality(K) \in T
  <2> HIDE DEF T
  <2> QED
    BY <1>8, <1>10, <1>11, Induction
<1>13. iter[K] = sum[K]
  <2> HIDE DEF iter, sum
  <2> QED
    BY <1>12
<1>14. Of(K) = lines
  OBVIOUS
<1> HIDE DEF iter, Of
<1> QED
  BY <1>7, <1>13, <1>14

-----------------------------------------------------------------------------
(***************************************************************************)
(* The Statistics Lab: what is offered is run                              *)
(***************************************************************************)

\* A table has as many rows as it is long, and some of its rows can be counted.
LEMMA RowsAreFinite ==
    ASSUME NEW t \in Tables
    PROVE  /\ IsFiniteSet(DOMAIN t) /\ Len(t) \in Nat /\ Cardinality(DOMAIN t) = Len(t)
           /\ \A lines \in SUBSET DOMAIN t : IsFiniteSet(lines) /\ Cardinality(lines) \in Nat
<1>1. DOMAIN t = 1..Len(t) /\ Len(t) \in Nat
  BY TablesAssumption
<1>2. IsFiniteSet(DOMAIN t) /\ Cardinality(DOMAIN t) = Len(t)
  <2>1. IsFiniteSet(1..Len(t)) /\ Cardinality(1..Len(t)) = Len(t)
    <3> DEFINE n == Len(t)
    <3>1. n \in Int /\ 1 \in Int /\ n \in Nat
      BY <1>1
    <3> HIDE DEF n
    <3>2. IsFiniteSet(1..n) /\ Cardinality(1..n) = IF 1 > n THEN 0 ELSE n - 1 + 1
      BY <3>1, FS_Interval
    <3>3. (IF 1 > n THEN 0 ELSE n - 1 + 1) = n
      BY <3>1
    <3> QED
      BY <3>2, <3>3 DEF n
  <2> QED
    BY <1>1, <2>1
<1> DEFINE all == DOMAIN t
<1>3. ASSUME NEW lines \in SUBSET all PROVE IsFiniteSet(lines) /\ Cardinality(lines) \in Nat
  <2>1. IsFiniteSet(all)
    BY <1>2
  <2> HIDE DEF all
  <2>2. IsFiniteSet(lines)
    BY <2>1, FS_Subset
  <2> QED
    BY <2>2, FS_CardinalityType
<1> QED
  BY <1>1, <1>2, <1>3

\* Some rows and the others are all of them.
LEMMA RowsApart ==
    ASSUME NEW lines, IsFiniteSet(lines), NEW part \in SUBSET lines
    PROVE  /\ IsFiniteSet(part) /\ Cardinality(part) \in Nat /\ Cardinality(lines) \in Nat
           /\ Cardinality(part) + Cardinality(lines \ part) = Cardinality(lines)
<1>1. IsFiniteSet(part) /\ IsFiniteSet(lines \ part)
  BY FS_Subset
<1>2. lines = part \cup (lines \ part) /\ part \cap (lines \ part) = {}
  OBVIOUS
<1>3. Cardinality(part \cup (lines \ part))
        = Cardinality(part) + Cardinality(lines \ part) - Cardinality(part \cap (lines \ part))
  BY <1>1, FS_Union
<1>4. /\ Cardinality(part) \in Nat /\ Cardinality(lines \ part) \in Nat
      /\ Cardinality(lines) \in Nat /\ Cardinality({}) = 0
  BY <1>1, FS_CardinalityType, FS_EmptySet
<1>5. Cardinality(lines) = Cardinality(part) + Cardinality(lines \ part) - Cardinality({})
  BY <1>2, <1>3
<1> QED
  BY <1>1, <1>4, <1>5

\* Fewer rows have fewer values.
LEMMA FewerValues ==
    ASSUME NEW lines, IsFiniteSet(lines), NEW part \in SUBSET lines, NEW f
    PROVE  /\ Cardinality({f[i] : i \in part}) \in Nat
           /\ Cardinality({f[i] : i \in lines}) \in Nat
           /\ Cardinality({f[i] : i \in part}) <= Cardinality({f[i] : i \in lines})
<1> DEFINE F == {f[i] : i \in lines}
           P == {f[i] : i \in part}
<1>1. IsFiniteSet(F) /\ P \in SUBSET F
  BY ImageIsFinite
<1> HIDE DEF F, P
<1>2. Cardinality(P) <= Cardinality(F) /\ Cardinality(P) \in Nat /\ Cardinality(F) \in Nat
  BY <1>1, FS_Subset, FS_CardinalityType
<1> QED
  BY <1>2 DEF F, P

\* In a plain table the values of pandas and the typed categories are the same, and the
\* rows at hand have no more of them than the column.
LEMMA CategoriesOfPlainColumns ==
    ASSUME NEW t \in Tables, Plain(t), NEW x \in Column, NEW lines \in SUBSET ValidRows(t, x)
    PROVE  /\ CheapRows(t, x) = ValidRows(t, x)
           /\ ~Undisplayable(t, x, lines)
           /\ Size(Identities(t, x, lines)) = Cardinality({t[i][x].value : i \in lines})
           /\ Size(Identities(t, x, lines)) \in Nat /\ Levels(t, x) \in Nat
           /\ Size(Identities(t, x, lines)) <= Levels(t, x)
           /\ TooWideIn(t, x, lines) <=> Size(Identities(t, x, lines)) > MaxLevels
<1>1. CheapRows(t, x) = ValidRows(t, x)
  BY DEF CheapRows, ValidRows, Present, IsValid, Plain
<1>2. ValidRows(t, x) \in SUBSET DOMAIN t /\ lines \in SUBSET DOMAIN t
  BY DEF ValidRows
<1>3. ~Undisplayable(t, x, lines)
  BY <1>2 DEF Undisplayable, Plain
<1> DEFINE value == [i \in ValidRows(t, x) |-> t[i][x].value]
           id == [i \in ValidRows(t, x) |-> Identity(t[i][x])]
<1>4. \A i, j \in ValidRows(t, x) : id[i] = id[j] <=> value[i] = value[j]
  BY DEF Plain, ValidRows, IsValid, Present
<1>5. /\ {id[i] : i \in lines} = Identities(t, x, lines)
      /\ {value[i] : i \in lines} = {t[i][x].value : i \in lines}
      /\ {value[i] : i \in ValidRows(t, x)} = {t[i][x].value : i \in ValidRows(t, x)}
  BY DEF Identities
<1>6. IsFiniteSet(ValidRows(t, x)) /\ IsFiniteSet(lines)
  BY <1>2, RowsAreFinite
<1>7. Cardinality({id[i] : i \in lines}) = Cardinality({value[i] : i \in lines})
  <2>1. \A i, j \in lines : id[i] = id[j] <=> value[i] = value[j]
    BY <1>4
  <2> HIDE DEF id, value
  <2> QED
    BY <2>1, <1>6, ToldApartAlike
<1>8. /\ Cardinality({value[i] : i \in lines}) \in Nat
      /\ Cardinality({value[i] : i \in ValidRows(t, x)}) \in Nat
      /\ Cardinality({value[i] : i \in lines}) <= Cardinality({value[i] : i \in ValidRows(t, x)})
  <2> HIDE DEF value
  <2> QED
    BY <1>6, FewerValues
<1>9. /\ Size(Identities(t, x, lines)) = Cardinality({t[i][x].value : i \in lines})
      /\ Levels(t, x) = Cardinality({t[i][x].value : i \in ValidRows(t, x)})
  <2> HIDE DEF id, value
  <2> QED
    BY <1>1, <1>5, <1>7 DEF Size, Levels
<1>10. lines \cap CheapRows(t, x) = lines
  BY <1>1
<1>11. TooWideIn(t, x, lines) <=> Size(Identities(t, x, lines)) > MaxLevels
  BY <1>9, <1>10 DEF TooWideIn
<1> HIDE DEF id, value
<1> QED
  BY <1>1, <1>3, <1>5, <1>8, <1>9, <1>11

\* What it means for a column to be offered.
LEMMA EligibleColumns ==
    ASSUME NEW t \in Tables, NEW x \in Column, Classify(t, x) = "eligible"
    PROVE  Levels(t, x) \in Nat /\ 2 <= Levels(t, x) /\ Levels(t, x) <= MaxLevels
<1> DEFINE value == [i \in CheapRows(t, x) |-> t[i][x].value]
<1>1. CheapRows(t, x) \in SUBSET DOMAIN t
  BY DEF CheapRows, Present
<1>2. Cardinality({value[i] : i \in CheapRows(t, x)}) \in Nat
  <2> HIDE DEF value
  <2> QED
    BY <1>1, RowsAreFinite, ImageIsFinite
<1>3. Levels(t, x) = Cardinality({value[i] : i \in CheapRows(t, x)})
  BY DEF Levels
<1>4. Levels(t, x) \in Nat
  BY <1>2, <1>3
<1> QED
  BY <1>4, BoundsAssumption DEF Classify, TooWide

\* The rows of two columns have no more categories than either: an axis may have too few.
LEMMA PlainAxes ==
    ASSUME NEW t \in Tables, Plain(t), NEW x \in Categorical(t), NEW lines \in SUBSET ValidRows(t, x)
    PROVE  AxisError(t, x, lines) \in {"", "too few"}
<1>1. x \in Column /\ Classify(t, x) = "eligible"
  BY DEF Categorical
<1>2. /\ Levels(t, x) \in Nat /\ Levels(t, x) <= MaxLevels
      /\ Size(Identities(t, x, lines)) \in Nat
      /\ Size(Identities(t, x, lines)) <= Levels(t, x)
      /\ ~Undisplayable(t, x, lines)
      /\ TooWideIn(t, x, lines) <=> Size(Identities(t, x, lines)) > MaxLevels
  BY <1>1, EligibleColumns, CategoriesOfPlainColumns
<1> QED
  BY <1>2, BoundsAssumption DEF AxisError

\* All the valid rows have as many categories as were counted.
LEMMA PlainCategories ==
    ASSUME NEW t \in Tables, Plain(t), NEW x \in Categorical(t)
    PROVE  /\ Size(Options(t, x)) \in Nat /\ Size(Options(t, x)) = Levels(t, x)
           /\ 2 <= Size(Options(t, x)) /\ Size(Options(t, x)) <= MaxLevels
           /\ ~Undisplayable(t, x, ValidRows(t, x)) /\ ~TooWideIn(t, x, ValidRows(t, x))
<1>1. x \in Column /\ Classify(t, x) = "eligible"
  BY DEF Categorical
<1>2. /\ Levels(t, x) \in Nat /\ 2 <= Levels(t, x) /\ Levels(t, x) <= MaxLevels
  BY <1>1, EligibleColumns
<1>3. /\ CheapRows(t, x) = ValidRows(t, x)
      /\ ~Undisplayable(t, x, ValidRows(t, x))
      /\ Size(Identities(t, x, ValidRows(t, x)))
            = Cardinality({t[i][x].value : i \in ValidRows(t, x)})
      /\ TooWideIn(t, x, ValidRows(t, x))
            <=> Size(Identities(t, x, ValidRows(t, x))) > MaxLevels
  BY <1>1, CategoriesOfPlainColumns
<1>4. Size(Options(t, x)) = Levels(t, x)
  BY <1>3 DEF Levels, Options
<1> QED
  BY <1>2, <1>3, <1>4, BoundsAssumption DEF Options

\* An answer that refuses nothing the offer had promised.
Delivered(answer) ==
    /\ answer.status /= "not eligible"
    /\ answer.reason \notin {"too wide", "unsafe", "not binary", "unknown value", "not numeric"}

\* An outcome column that is offered is not refused, by the page or by the service.
LEMMA PlainOutcomes ==
    ASSUME NEW t \in Tables, Plain(t), NEW x \in Binary(t), NEW success \in Options(t, x)
    PROVE  x \in Categorical(t) /\ OutcomeRefusal(t, x) = NoAnswer /\ BinaryError(t, x, success) = ""
<1>1. /\ x \in Column /\ ClassifyBinary(t, x) = "eligible"
      /\ Classify(t, x) = "eligible" /\ Levels(t, x) = 2
  BY DEF Binary, ClassifyBinary
<1>2. x \in Categorical(t)
  BY <1>1 DEF Categorical
<1>3. /\ Size(Options(t, x)) = 2
      /\ ~Undisplayable(t, x, ValidRows(t, x)) /\ ~TooWideIn(t, x, ValidRows(t, x))
  BY <1>1, <1>2, PlainCategories
<1> QED
  BY <1>1, <1>2, <1>3 DEF OutcomeRefusal, BinaryError, Options, Size

\* Nor are groups.
LEMMA PlainGroups ==
    ASSUME NEW t \in Tables, Plain(t), NEW g \in Categorical(t), NEW groups \in SUBSET Options(t, g)
    PROVE  Classify(t, g) = "eligible" /\ GroupsRefusal(t, g) = NoAnswer /\ GroupError(t, g, groups) = ""
<1>1. /\ 2 <= Size(Options(t, g)) /\ Size(Options(t, g)) \in Nat
      /\ ~Undisplayable(t, g, ValidRows(t, g)) /\ ~TooWideIn(t, g, ValidRows(t, g))
  BY PlainCategories
<1> QED
  BY <1>1 DEF GroupsRefusal, GroupError, Options, Size, Categorical

\* Each service about categories delivers what the page offered.
LEMMA OneProportionRuns ==
    ASSUME NEW t \in Tables, Plain(t), NEW x \in Binary(t), NEW success \in Options(t, x), NEW null
    PROVE  Delivered(OneProportion(t, x, success, null)) /\ OneProportion(t, x, success, null).reason /= "too few"
<1>1. BinaryError(t, x, success) = ""
  BY PlainOutcomes
<1> QED
  BY <1>1 DEF OneProportion, OneProportionKernel, Delivered, Kernel, Refusal, Answer, Ok

LEMMA TwoProportionsRuns ==
    ASSUME NEW t \in Tables, Plain(t), NEW x \in Binary(t), NEW g \in Categorical(t),
           NEW success \in Options(t, x), NEW a \in Options(t, g), NEW b \in Options(t, g)
    PROVE  Delivered(TwoProportions(t, x, success, g, a, b))
<1>1. BinaryError(t, x, success) = ""
  BY PlainOutcomes
<1>2. GroupError(t, g, {a, b}) = ""
  BY PlainGroups
<1> QED
  BY <1>1, <1>2 DEF TwoProportions, TwoProportionKernel, Delivered, Kernel, Refusal, Answer, Ok

LEMMA GoodnessOfFitRuns ==
    ASSUME NEW t \in Tables, Plain(t), NEW x \in Categorical(t), NEW proportions
    PROVE  LET answer == Building(x, GoodnessOfFit(t, x, proportions))
           IN  Delivered(answer) /\ answer.reason /= "too few"
<1>1. /\ 2 <= Size(Options(t, x)) /\ Size(Options(t, x)) <= MaxLevels /\ Size(Options(t, x)) \in Nat
      /\ ~Undisplayable(t, x, ValidRows(t, x)) /\ ~TooWideIn(t, x, ValidRows(t, x))
  BY PlainCategories
<1>2. AxisError(t, x, ValidRows(t, x)) = ""
  BY <1>1, BoundsAssumption DEF AxisError, Options
<1> QED
  BY <1>2 DEF GoodnessOfFit, GofKernel, Building, Delivered, Kernel, Refusal, Answer, Ok

LEMMA ContingencyRuns ==
    ASSUME NEW t \in Tables, Plain(t), NEW r \in Categorical(t), NEW c \in Categorical(t)
    PROVE  Delivered(Contingency(t, r, c))
<1> DEFINE lines == ValidRows(t, r) \cap ValidRows(t, c)
<1>1. AxisError(t, r, lines) \in {"", "too few"} /\ AxisError(t, c, lines) \in {"", "too few"}
  BY PlainAxes
<1> QED
  BY <1>1 DEF Contingency, TableKernel, Delivered, Kernel, Refusal, Answer, Ok

\* Two values of pandas are at most two texts.
LEMMA PlainTexts ==
    ASSUME NEW t \in Tables, Plain(t), NEW g \in Column, NEW lines \in SUBSET Present(t, g),
           Cardinality({t[i][g].value : i \in Present(t, g)}) = 2
    PROVE  ~(Size(Texts(t, g, lines)) > 2)
<1> DEFINE value == [i \in Present(t, g) |-> t[i][g].value]
           text == [i \in Present(t, g) |-> t[i][g].text]
<1>1. \A i, j \in Present(t, g) : text[i] = text[j] <=> value[i] = value[j]
  BY DEF Plain
<1>2. IsFiniteSet(Present(t, g))
  BY RowsAreFinite DEF Present
<1>3. /\ {value[i] : i \in Present(t, g)} = {t[i][g].value : i \in Present(t, g)}
      /\ {text[i] : i \in lines} = Texts(t, g, lines)
  BY DEF Texts
<1>4. Cardinality({text[i] : i \in Present(t, g)}) = Cardinality({value[i] : i \in Present(t, g)})
  <2> HIDE DEF text, value
  <2> QED
    BY <1>1, <1>2, ToldApartAlike
<1>5. /\ Cardinality({text[i] : i \in lines}) \in Nat
      /\ Cardinality({text[i] : i \in lines}) <= Cardinality({text[i] : i \in Present(t, g)})
  <2> DEFINE all == Present(t, g)
  <2>1. IsFiniteSet(all) /\ lines \in SUBSET all
    BY <1>2
  <2> HIDE DEF text, all
  <2>2. IsFiniteSet(all) /\ lines \in SUBSET all
    BY <2>1
  <2> DEFINE T == {text[i] : i \in all}
             P == {text[i] : i \in lines}
  <2>3. IsFiniteSet(T) /\ P \in SUBSET T
    BY <2>2, ImageIsFinite
  <2> HIDE DEF T, P
  <2>4. Cardinality(P) \in Nat /\ Cardinality(P) <= Cardinality(T)
    BY <2>3, FS_Subset, FS_CardinalityType
  <2> QED
    BY <2>4 DEF all, T, P
<1>6. Cardinality(Texts(t, g, lines)) \in Nat /\ Cardinality(Texts(t, g, lines)) <= 2
  <2> HIDE DEF text, value
  <2> QED
    BY <1>3, <1>4, <1>5
<1> QED
  BY <1>6 DEF Size

\* What a service builds are the categories of the columns it is asked about.
LEMMA BuiltColumns ==
    ASSUME NEW t, NEW x, NEW g, NEW a, NEW b, NEW success, NEW choice
    PROVE  /\ OneProportion(t, x, success, choice).built \subseteq {x}
           /\ TwoProportions(t, x, success, g, a, b).built \subseteq {x, g}
           /\ GoodnessOfFit(t, x, choice).built \subseteq {x}
           /\ Contingency(t, x, g).built \subseteq {x, g}
<1>3. OneProportion(t, x, success, choice).built \subseteq {x}
  BY DEF OneProportion, BuiltIn, Answer, Refusal, Kernel, Ok
<1>4. TwoProportions(t, x, success, g, a, b).built \subseteq {x, g}
  BY DEF TwoProportions, BuiltIn, Answer, Refusal, Kernel, Ok
<1>5. GoodnessOfFit(t, x, choice).built \subseteq {x}
  BY DEF GoodnessOfFit, BuiltIn, Answer, Refusal, Kernel, Ok
<1>6. Contingency(t, x, g).built \subseteq {x, g}
  BY DEF Contingency, BuiltIn, Answer, Refusal, Kernel, Ok
<1> QED
  BY <1>3, <1>4, <1>5, <1>6

\* A column that is not eligible is refused before its categories are built.
LEMMA OutcomesBuilt ==
    ASSUME NEW t, NEW x
    PROVE  /\ Classify(t, x) /= "eligible" => /\ OutcomeRefusal(t, x).built = {}
                                              /\ OutcomeRefusal(t, x) /= NoAnswer
           /\ OutcomeRefusal(t, x).built \subseteq {x}
           /\ GroupsRefusal(t, x).built \subseteq {x}
<1>1. Classify(t, x) /= "eligible" => OutcomeRefusal(t, x) = Refusal("not eligible", ClassifyBinary(t, x))
  BY DEF OutcomeRefusal, ClassifyBinary
<1>2. /\ Refusal("not eligible", ClassifyBinary(t, x)).built = {}
      /\ Refusal("not eligible", ClassifyBinary(t, x)) /= NoAnswer
  BY DEF NoAnswer, Refusal, Answer
<1>3. OutcomeRefusal(t, x).built \subseteq {x}
  BY DEF OutcomeRefusal, NoAnswer, Refusal, Answer
<1>4. GroupsRefusal(t, x).built \subseteq {x}
  BY DEF GroupsRefusal, NoAnswer, Refusal, Answer
<1> QED
  BY <1>1, <1>2, <1>3, <1>4

\* Whatever panel is used, with whatever selection.
LEMMA OfferedStep ==
    ASSUME table \in Tables, LabNext
    PROVE  OfferedIsRun'
<1>1. CASE Rerun
  BY <1>1 DEF Rerun, OfferedIsRun, Nothing, NoAnswer, Refusal, Answer
<1>2. CASE RunOneProportion
  <2>1. PICK x \in Column, success \in AllValues(table), null \in {"inside", "boundary"} :
          Show("one proportion", x \in Binary(table) /\ success \in Options(table, x),
               IF OutcomeRefusal(table, x) = NoAnswer THEN OneProportion(table, x, success, null)
                                                      ELSE OutcomeRefusal(table, x))
    BY <1>2 DEF RunOneProportion
  <2>2. /\ shown'.offered = (x \in Binary(table) /\ success \in Options(table, x))
        /\ shown'.answer = IF OutcomeRefusal(table, x) = NoAnswer
                              THEN OneProportion(table, x, success, null)
                              ELSE OutcomeRefusal(table, x)
        /\ shown'.panel = "one proportion" /\ table' = table
    BY <2>1 DEF Show, ShowBoth
  <2>3. ASSUME shown'.offered, Plain(table)
        PROVE  Delivered(shown'.answer) /\ shown'.answer.reason /= "too few"
    BY <2>2, <2>3, PlainOutcomes, OneProportionRuns
  <2>4. ASSUME NEW y \in shown'.answer.built
        PROVE  y = x /\ Classify(table, x) = "eligible"
    <3>1. /\ OneProportion(table, x, success, null).built \subseteq {x}
          /\ OutcomeRefusal(table, x).built \subseteq {x}
          /\ Classify(table, x) /= "eligible" =>
                 OutcomeRefusal(table, x).built = {} /\ OutcomeRefusal(table, x) /= NoAnswer
      BY BuiltColumns, OutcomesBuilt
    <3>2. CASE OutcomeRefusal(table, x) = NoAnswer
      BY <2>2, <2>4, <3>1, <3>2
    <3>3. CASE OutcomeRefusal(table, x) /= NoAnswer
      BY <2>2, <2>4, <3>1, <3>3
    <3> QED
      BY <3>2, <3>3
  <2> QED
    BY <2>2, <2>3, <2>4 DEF OfferedIsRun, Delivered
<1>3. CASE RunTwoProportions
  <2>1. PICK x \in Column, g \in Column, success \in AllValues(table), a \in AllValues(table),
             b \in AllValues(table) :
          LET refusal == IF OutcomeRefusal(table, x) /= NoAnswer THEN OutcomeRefusal(table, x)
                         ELSE IF Classify(table, g) /= "eligible"
                              THEN Answer("not eligible", Classify(table, g), {x}, 0)
                         ELSE GroupsRefusal(table, g)
          IN  Show("two proportions",
                   /\ x \in Binary(table) /\ g \in Categorical(table) \ {x}
                   /\ success \in Options(table, x)
                   /\ {a, b} \subseteq Options(table, g) /\ a /= b,
                   IF refusal = NoAnswer THEN TwoProportions(table, x, success, g, a, b)
                                         ELSE refusal)
    BY <1>3 DEF RunTwoProportions
  <2> DEFINE refusal == IF OutcomeRefusal(table, x) /= NoAnswer THEN OutcomeRefusal(table, x)
                        ELSE IF Classify(table, g) /= "eligible"
                             THEN Answer("not eligible", Classify(table, g), {x}, 0)
                        ELSE GroupsRefusal(table, g)
  <2>2. /\ shown'.offered <=> /\ x \in Binary(table) /\ g \in Categorical(table) \ {x}
                              /\ success \in Options(table, x)
                              /\ {a, b} \subseteq Options(table, g) /\ a /= b
        /\ shown'.answer = IF refusal = NoAnswer THEN TwoProportions(table, x, success, g, a, b)
                                                 ELSE refusal
        /\ shown'.panel = "two proportions" /\ table' = table
    BY <2>1 DEF Show, ShowBoth
  <2>3. ASSUME shown'.offered, Plain(table) PROVE Delivered(shown'.answer)
    BY <2>2, <2>3, PlainOutcomes, PlainGroups, TwoProportionsRuns
  <2>4. ASSUME NEW y \in shown'.answer.built
        PROVE  Classify(table, y) = "eligible"
    <3>1. \/ refusal /= NoAnswer /\ y \in refusal.built
          \/ refusal = NoAnswer /\ y \in TwoProportions(table, x, success, g, a, b).built
      BY <2>2, <2>4
    <3>2. Classify(table, x) = "eligible"
      BY <3>1, OutcomesBuilt
    <3>3. CASE OutcomeRefusal(table, x) /= NoAnswer
      BY <3>1, <3>2, <3>3, OutcomesBuilt
    <3>4. CASE OutcomeRefusal(table, x) = NoAnswer /\ Classify(table, g) /= "eligible"
      <4>1. refusal = Answer("not eligible", Classify(table, g), {x}, 0) /\ refusal /= NoAnswer
        BY <3>4 DEF Answer, Refusal, NoAnswer
      <4>2. Answer("not eligible", Classify(table, g), {x}, 0).built = {x}
        BY DEF Answer
      <4>3. y \in {x}
        BY <3>1, <4>1, <4>2
      <4> QED
        BY <3>2, <4>3
    <3>5. CASE OutcomeRefusal(table, x) = NoAnswer /\ Classify(table, g) = "eligible"
      <4>1. refusal = GroupsRefusal(table, g)
        BY <3>5
      <4>2. y \in {x, g}
        <5>1. /\ GroupsRefusal(table, g).built \subseteq {g}
              /\ TwoProportions(table, x, success, g, a, b).built \subseteq {x, g}
          BY OutcomesBuilt, BuiltColumns
        <5> HIDE DEF refusal
        <5>2. CASE refusal = NoAnswer
          BY <3>1, <5>1, <5>2
        <5>3. CASE refusal /= NoAnswer
          BY <3>1, <4>1, <5>1, <5>3
        <5> QED
          BY <5>2, <5>3
      <4> QED
        BY <3>2, <3>5, <4>2
    <3> QED
      BY <3>3, <3>4, <3>5
  <2> QED
    BY <2>2, <2>3, <2>4 DEF OfferedIsRun, Delivered
<1>4. CASE RunGoodnessOfFit
  <2>1. PICK x \in Column, wanted \in {"equal", "custom", "not one"} :
          LET custom == Cardinality(Options(table, x)) \in 2..MaxCustom
              proportions == IF custom THEN wanted ELSE "equal"
          IN  Show("goodness of fit", x \in Categorical(table),
                   IF Classify(table, x) /= "eligible" THEN Refusal("not eligible", Classify(table, x))
                   ELSE IF GroupsRefusal(table, x) /= NoAnswer THEN GroupsRefusal(table, x)
                   ELSE Building(x, GoodnessOfFit(table, x, proportions)))
    BY <1>4 DEF RunGoodnessOfFit
  <2> DEFINE proportions == IF Cardinality(Options(table, x)) \in 2..MaxCustom THEN wanted ELSE "equal"
  <2>2. /\ shown'.offered = (x \in Categorical(table))
        /\ shown'.answer = IF Classify(table, x) /= "eligible"
                              THEN Refusal("not eligible", Classify(table, x))
                           ELSE IF GroupsRefusal(table, x) /= NoAnswer THEN GroupsRefusal(table, x)
                           ELSE Building(x, GoodnessOfFit(table, x, proportions))
        /\ shown'.panel = "goodness of fit" /\ table' = table
    BY <2>1 DEF Show, ShowBoth
  <2> HIDE DEF proportions
  <2>3. ASSUME shown'.offered, Plain(table)
        PROVE  Delivered(shown'.answer) /\ shown'.answer.reason /= "too few"
    <3>1. x \in Categorical(table) /\ {} \in SUBSET Options(table, x)
      BY <2>2, <2>3
    <3>2. Classify(table, x) = "eligible" /\ GroupsRefusal(table, x) = NoAnswer
      BY <2>3, <3>1, PlainGroups
    <3> QED
      BY <2>2, <2>3, <3>1, <3>2, GoodnessOfFitRuns
  <2>4. ASSUME NEW y \in shown'.answer.built
        PROVE  y = x /\ Classify(table, x) = "eligible"
    <3>1. Classify(table, x) = "eligible"
      <4>1. Refusal("not eligible", Classify(table, x)).built = {}
        BY DEF Refusal, Answer
      <4> QED
        BY <2>2, <2>4, <4>1
    <3>2. /\ Building(x, GoodnessOfFit(table, x, proportions)).built \subseteq {x}
          /\ GroupsRefusal(table, x).built \subseteq {x}
      <4>1. GoodnessOfFit(table, x, proportions).built \subseteq {x}
        BY BuiltColumns
      <4> QED
        BY <4>1, OutcomesBuilt DEF Building, Answer
    <3>3. CASE GroupsRefusal(table, x) = NoAnswer
      BY <2>2, <2>4, <3>1, <3>2, <3>3
    <3>4. CASE GroupsRefusal(table, x) /= NoAnswer
      BY <2>2, <2>4, <3>1, <3>2, <3>4
    <3> QED
      BY <3>1, <3>3, <3>4
  <2> QED
    BY <2>2, <2>3, <2>4 DEF OfferedIsRun, Delivered
<1>5. ASSUME NEW panel \in {"independence", "homogeneity"}, RunContingency(panel)
      PROVE  OfferedIsRun'
  <2>1. PICK r \in Column, c \in Column :
          Show(panel, r /= c /\ {r, c} \subseteq Categorical(table),
               IF NotEligible(table, {r, c}) /= {} THEN Refusal("not eligible", "")
                                                  ELSE Contingency(table, r, c))
    BY <1>5 DEF RunContingency
  <2>2. /\ shown'.offered = (r /= c /\ {r, c} \subseteq Categorical(table))
        /\ shown'.answer = IF NotEligible(table, {r, c}) /= {} THEN Refusal("not eligible", "")
                                                               ELSE Contingency(table, r, c)
        /\ shown'.panel = panel /\ table' = table
    BY <2>1 DEF Show, ShowBoth
  <2>3. ASSUME shown'.offered, Plain(table) PROVE Delivered(shown'.answer)
    <3>1. r \in Categorical(table) /\ c \in Categorical(table) /\ NotEligible(table, {r, c}) = {}
      BY <2>2, <2>3 DEF NotEligible, Categorical
    <3> QED
      BY <2>2, <2>3, <3>1, ContingencyRuns
  <2>4. ASSUME NEW y \in shown'.answer.built
        PROVE  Classify(table, y) = "eligible"
    <3>1. NotEligible(table, {r, c}) = {} /\ y \in {r, c}
      <4>1. /\ Contingency(table, r, c).built \subseteq {r, c}
            /\ Refusal("not eligible", "").built = {}
        BY BuiltColumns DEF Refusal, Answer
      <4>2. CASE NotEligible(table, {r, c}) = {}
        BY <2>2, <2>4, <4>1, <4>2
      <4>3. CASE NotEligible(table, {r, c}) /= {}
        BY <2>2, <2>4, <4>1, <4>3
      <4> QED
        BY <4>2, <4>3
    <3> QED
      BY <3>1 DEF NotEligible
  <2> QED
    BY <1>5, <2>2, <2>3, <2>4 DEF OfferedIsRun, Delivered
\* The numeric panels build no category and refuse no column of their offer.
<1>6. ASSUME shown'.answer.built = {}, table' = table,
             shown'.panel \notin {"one proportion", "goodness of fit"},
             (shown'.offered /\ Plain(table)) => Delivered(shown'.answer)
      PROVE  OfferedIsRun'
  BY <1>6 DEF OfferedIsRun, Delivered
<1>8. CASE RunOneSample
  <2>1. PICK m \in Column : Show("one sample", m \in NumericColumns(table), OneSampleT(table, m))
    BY <1>8 DEF RunOneSample
  <2>2. /\ shown'.offered = (m \in NumericColumns(table)) /\ shown'.answer = OneSampleT(table, m)
        /\ shown'.panel = "one sample" /\ table' = table
    BY <2>1 DEF Show, ShowBoth
  <2>3. OneSampleT(table, m).built = {}
    BY DEF OneSampleT, OneSampleKernel, NumericKernel, Ok, Refusal, Answer
  <2>4. m \in NumericColumns(table) => Delivered(OneSampleT(table, m))
    BY DEF OneSampleT, OneSampleKernel, NumericKernel, Ok, Refusal, Answer, Delivered, NumericColumns
  <2> QED
    BY <1>6, <2>2, <2>3, <2>4
<1>9. ASSUME NEW m, NEW g, NEW a, NEW b
      PROVE  /\ TwoSampleT(table, m, g, a, b).built = {}
             /\ m \in NumericColumns(table) => Delivered(TwoSampleT(table, m, g, a, b))
  <2>1. TwoSampleT(table, m, g, a, b).built = {}
    BY DEF TwoSampleT, TwoSampleKernel, NumericKernel, Ok, Refusal, Answer
  <2>2. m \in NumericColumns(table) => Delivered(TwoSampleT(table, m, g, a, b))
    BY DEF TwoSampleT, TwoSampleKernel, NumericKernel, Ok, Refusal, Answer, Delivered, NumericColumns
  <2> QED
    BY <2>1, <2>2
<1>10. CASE RunTwoSample
  <2>1. PICK m \in Column, g \in Column, a \in AllTexts(table), b \in AllTexts(table) :
          Show("two samples", GroupsOffered(table, m, g, a, b), TwoSampleT(table, m, g, a, b))
    BY <1>10 DEF RunTwoSample
  <2>2. /\ shown'.offered = GroupsOffered(table, m, g, a, b)
        /\ shown'.answer = TwoSampleT(table, m, g, a, b)
        /\ shown'.panel = "two samples" /\ table' = table
    BY <2>1 DEF Show, ShowBoth
  <2> QED
    BY <1>6, <1>9, <2>2 DEF GroupsOffered
<1>11. CASE RunAB
  <2>1. PICK m \in Column, g \in Column, a \in AllTexts(table), b \in AllTexts(table) :
          Show("A/B", GroupsOffered(table, m, g, a, b), TwoSampleT(table, m, g, a, b))
    BY <1>11 DEF RunAB
  <2>2. /\ shown'.offered = GroupsOffered(table, m, g, a, b)
        /\ shown'.answer = TwoSampleT(table, m, g, a, b)
        /\ shown'.panel = "A/B" /\ table' = table
    BY <2>1 DEF Show, ShowBoth
  <2> QED
    BY <1>6, <1>9, <2>2 DEF GroupsOffered
<1>12. CASE RunPairedT
  <2>1. PICK x \in Column, y \in Column :
          Show("paired t", x /= y /\ {x, y} \subseteq NumericColumns(table), PairedT(table, x, y))
    BY <1>12 DEF RunPairedT
  <2>2. /\ shown'.offered <=> (x /= y /\ {x, y} \subseteq NumericColumns(table))
        /\ shown'.answer = PairedT(table, x, y) /\ shown'.panel = "paired t" /\ table' = table
    BY <2>1 DEF Show, ShowBoth
  <2>3. PairedT(table, x, y).built = {}
    BY DEF PairedT, PairedKernel, OneSampleKernel, NumericKernel, Ok, Refusal, Answer
  <2>4. {x, y} \subseteq NumericColumns(table) => Delivered(PairedT(table, x, y))
    BY DEF PairedT, PairedKernel, OneSampleKernel, NumericKernel, Ok, Refusal, Answer, Delivered,
           NumericColumns
  <2> QED
    BY <1>6, <2>2, <2>3, <2>4
<1>13. CASE RunWilcoxon
  <2>1. PICK x \in Column, y \in Column :
          Show("Wilcoxon", x /= y /\ {x, y} \subseteq NumericColumns(table), Wilcoxon(table, x, y))
    BY <1>13 DEF RunWilcoxon
  <2>2. /\ shown'.offered <=> (x /= y /\ {x, y} \subseteq NumericColumns(table))
        /\ shown'.answer = Wilcoxon(table, x, y) /\ shown'.panel = "Wilcoxon" /\ table' = table
    BY <2>1 DEF Show, ShowBoth
  <2>3. Wilcoxon(table, x, y).built = {}
    BY DEF Wilcoxon, Ok, Refusal, Answer
  <2>4. {x, y} \subseteq NumericColumns(table) => Delivered(Wilcoxon(table, x, y))
    BY DEF Wilcoxon, Ok, Refusal, Answer, Delivered, NumericColumns
  <2> QED
    BY <1>6, <2>2, <2>3, <2>4
<1>14. CASE RunGroupComparison
  <2>1. PICK m \in Column, g \in Column :
          LET levels == Cardinality({table[i][g].value : i \in Present(table, g)})
              wanted == m /= g /\ m \in NumericColumns(table) /\ g \in GroupCandidates(table)
          IN  /\ levels = 2 => ShowBoth("two groups", wanted, CompareTwoGroups(table, m, g),
                                        EffectSizes(table, m, g))
              /\ levels /= 2 => Show("groups", wanted, CompareMultiGroup(table, m, g))
    BY <1>14 DEF RunGroupComparison
  <2> DEFINE levels == Cardinality({table[i][g].value : i \in Present(table, g)})
             wanted == m /= g /\ m \in NumericColumns(table) /\ g \in GroupCandidates(table)
  <2>2. /\ levels = 2 => ShowBoth("two groups", wanted, CompareTwoGroups(table, m, g),
                                  EffectSizes(table, m, g))
        /\ levels /= 2 => Show("groups", wanted, CompareMultiGroup(table, m, g))
    BY <2>1
  <2>3. wanted => m \in NumericColumns(table)
    OBVIOUS
  <2>4. levels = 2 => Cardinality({table[i][g].value : i \in Present(table, g)}) = 2
    OBVIOUS
  <2> HIDE DEF levels, wanted
  <2>5. CASE levels = 2
    <3>1. /\ shown'.offered = wanted
          /\ shown'.answer = CompareTwoGroups(table, m, g)
          /\ shown'.panel = "two groups" /\ table' = table
      <4>1. ShowBoth("two groups", wanted, CompareTwoGroups(table, m, g), EffectSizes(table, m, g))
        BY <2>2, <2>5
      <4> QED
        BY <4>1 DEF ShowBoth
    <3>2. CompareTwoGroups(table, m, g).built = {}
      <4> DEFINE lines == Split(table, m, g)
      <4>1. CompareTwoGroups(table, m, g)
              \in {Refusal("invalid_type", "not numeric"), Refusal("invalid_type", "same choice"),
                   Refusal("too_few_groups", "too few"), Refusal("too_many_groups", "too wide"),
                   Refusal("insufficient_data", "no rows"),
                   Answer("ok", PValue(table, m, lines), {}, Size(lines))}
        BY Zenon DEF CompareTwoGroups
      <4> HIDE DEF lines
      <4>2. /\ Refusal("invalid_type", "not numeric").built = {}
            /\ Refusal("invalid_type", "same choice").built = {}
            /\ Refusal("too_few_groups", "too few").built = {}
            /\ Refusal("too_many_groups", "too wide").built = {}
            /\ Refusal("insufficient_data", "no rows").built = {}
            /\ Answer("ok", PValue(table, m, lines), {}, Size(lines)).built = {}
        BY DEF Refusal, Answer
      <4> QED
        BY <4>1, <4>2
    <3>3. ASSUME m \in NumericColumns(table), Plain(table)
          PROVE  Delivered(CompareTwoGroups(table, m, g))
      <4> DEFINE lines == Split(table, m, g)
      <4>1. IsNumeric(table, m) /\ ~(Size(Texts(table, g, lines)) > 2)
        BY <2>4, <2>5, <3>3, PlainTexts DEF NumericColumns, Split
      <4>2. PValue(table, m, lines) \in {"nan", ""}
        BY DEF PValue
      <4> HIDE DEF lines
      <4>3. CompareTwoGroups(table, m, g)
              \in {Refusal("invalid_type", "same choice"), Refusal("too_few_groups", "too few"),
                   Refusal("insufficient_data", "no rows"),
                   Answer("ok", PValue(table, m, lines), {}, Size(lines))}
        BY <4>1, Zenon DEF CompareTwoGroups, lines
      <4>4. ASSUME NEW status \in {"invalid_type", "too_few_groups", "insufficient_data", "ok"},
                   NEW reason \in {"same choice", "too few", "no rows", "nan", ""}, NEW n
            PROVE  Delivered(Answer(status, reason, {}, n))
        BY DEF Delivered, Answer
      <4> QED
        BY <4>2, <4>3, <4>4 DEF Refusal
    <3> QED
      BY <1>6, <2>3, <3>1, <3>2, <3>3
  <2>6. CASE levels /= 2
    <3>1. /\ shown'.offered = wanted
          /\ shown'.answer = CompareMultiGroup(table, m, g)
          /\ shown'.panel = "groups" /\ table' = table
      <4>1. Show("groups", wanted, CompareMultiGroup(table, m, g))
        BY <2>2, <2>6
      <4> QED
        BY <4>1 DEF Show, ShowBoth
    <3>2. CompareMultiGroup(table, m, g).built = {}
      BY DEF CompareMultiGroup, Refusal, Answer
    <3>3. m \in NumericColumns(table) => Delivered(CompareMultiGroup(table, m, g))
      BY DEF CompareMultiGroup, PValue, Refusal, Answer, NumericColumns, Delivered
    <3> QED
      BY <1>6, <2>3, <3>1, <3>2, <3>3
  <2> QED
    BY <2>5, <2>6
<1>15. CASE CheckAssumptions
  <2>1. PICK m \in Column, g \in Column \cup {""} :
          Show("assumptions",
               m \in NumericColumns(table) /\ (g = "" \/ g \in GroupCandidates(table) \ {m}),
               AssumptionChecks(table, m, g))
    BY <1>15 DEF CheckAssumptions
  <2>2. /\ shown'.offered => m \in NumericColumns(table)
        /\ shown'.answer = AssumptionChecks(table, m, g)
        /\ shown'.panel = "assumptions" /\ table' = table
    BY <2>1 DEF Show, ShowBoth
  <2>3. AssumptionChecks(table, m, g).built = {}
    BY DEF AssumptionChecks, Ok, Refusal, Answer
  <2>4. m \in NumericColumns(table) => Delivered(AssumptionChecks(table, m, g))
    BY DEF AssumptionChecks, Ok, Refusal, Answer, Delivered, NumericColumns
  <2> QED
    BY <1>6, <2>2, <2>3, <2>4
<1>16. CASE RunWizard
  <2>1. PICK variable, group, sigma, equalVariance, alternative :
          LET selected == SelectTest(variable, group, sigma, equalVariance, alternative)
              run == CalculatePValue(selected.key, alternative)
          IN  Show("wizard", TRUE,
                   Answer(run.status, IF run.alternative = selected.alternative THEN ""
                                                                              ELSE "alternative", {}, 0))
    BY <1>16 DEF RunWizard
  <2> DEFINE selected == SelectTest(variable, group, sigma, equalVariance, alternative)
             run == CalculatePValue(selected.key, alternative)
  <2>2. run.status \in {"ok", "unsupported"}
    BY DEF CalculatePValue
  <2>3. /\ shown'.answer.status \in {"ok", "unsupported"} /\ shown'.answer.reason \in {"", "alternative"}
        /\ shown'.answer.built = {} /\ shown'.panel = "wizard" /\ table' = table
    BY <2>1, <2>2 DEF Show, ShowBoth, Answer
  <2> QED
    BY <1>6, <2>3 DEF Delivered
<1> QED
  BY <1>1, <1>2, <1>3, <1>4, <1>5, <1>8, <1>10, <1>11, <1>12, <1>13, <1>14, <1>15, <1>16
     DEF LabNext, RunIndependence, RunHomogeneity

-----------------------------------------------------------------------------
(***************************************************************************)
(* The Statistics Lab: every row is accounted for                          *)
(***************************************************************************)

\* No panel changes the table.
LEMMA TableStays == LabNext => table' = table
  BY DEF LabNext, Rerun, RunOneProportion, RunTwoProportions, RunGoodnessOfFit, RunIndependence,
         RunHomogeneity, RunContingency, RunOneSample, RunTwoSample, RunAB, RunPairedT, RunWilcoxon,
         RunGroupComparison, CheckAssumptions, RunWizard, Show, ShowBoth

\* The observed counts of the categories of some rows add up to the rows.
LEMMA ObservedRows ==
    ASSUME NEW t \in Tables, NEW x, NEW lines \in SUBSET DOMAIN t, NEW part \in SUBSET lines
    PROVE  Observed(t, x, part, Identities(t, x, lines)) = Size(part)
<1> DEFINE ids == Identities(t, x, lines)
           key == [i \in lines |-> Identity(t[i][x])]
           counts == [id \in ids |-> Size(Having(t, x, part, id))]
<1>1. IsFiniteSet(lines) /\ IsFiniteSet(part)
  BY RowsAreFinite
<1>2. IsFiniteSet(ids)
  <2>1. ids = {key[i] : i \in lines}
    BY DEF Identities
  <2> HIDE DEF ids, key
  <2> QED
    BY <1>1, <2>1, ImageIsFinite
<1>3. \A i \in part : key[i] \in ids
  BY DEF Identities
<1>4. DOMAIN counts = ids
  OBVIOUS
<1>5. \A k \in DOMAIN counts : counts[k] = Cardinality({i \in part : key[i] = k})
  <2>1. ASSUME NEW k \in ids PROVE counts[k] = Cardinality({i \in part : key[i] = k})
    <3>1. Having(t, x, part, k) = {i \in part : key[i] = k}
      BY DEF Having
    <3> QED
      BY <3>1 DEF Size
  <2> HIDE DEF ids, key, counts
  <2> QED
    BY <1>4, <2>1
<1>6. SumFunction(counts) = Cardinality(part)
  <2> HIDE DEF ids, key, counts
  <2> QED
    BY <1>1, <1>2, <1>3, <1>4, <1>5, SumOfParts
<1>7. Observed(t, x, part, ids) = SumFunction(counts)
  BY DEF Observed
<1> HIDE DEF counts
<1> QED
  BY <1>6, <1>7 DEF Size

\* The cells of a table of two columns add up to the rows that have both.
LEMMA TableRows ==
    ASSUME NEW t \in Tables, NEW r, NEW c, NEW lines \in SUBSET DOMAIN t
    PROVE  SumFunction(ContingencyTable(t, r, c, lines)) = Size(lines)
<1> DEFINE ids == Identities(t, r, lines)
           key == [i \in lines |-> Identity(t[i][r])]
           cells == ContingencyTable(t, r, c, lines)
<1>1. IsFiniteSet(lines)
  BY RowsAreFinite
<1>2. IsFiniteSet(ids)
  <2>1. ids = {key[i] : i \in lines}
    BY DEF Identities
  <2> HIDE DEF ids, key
  <2> QED
    BY <1>1, <2>1, ImageIsFinite
<1>3. \A i \in lines : key[i] \in ids
  BY DEF Identities
<1>4. DOMAIN cells = ids
  BY DEF ContingencyTable
<1>5. \A k \in DOMAIN cells : cells[k] = Cardinality({i \in lines : key[i] = k})
  <2>1. ASSUME NEW k \in ids PROVE cells[k] = Cardinality({i \in lines : key[i] = k})
    <3>1. Having(t, r, lines, k) = {i \in lines : key[i] = k} /\ Having(t, r, lines, k) \in SUBSET lines
      BY DEF Having
    <3>2. cells[k] = Observed(t, c, Having(t, r, lines, k), Identities(t, c, lines))
      BY <2>1 DEF ContingencyTable
    <3>3. Observed(t, c, Having(t, r, lines, k), Identities(t, c, lines)) = Size(Having(t, r, lines, k))
      <4> DEFINE part == Having(t, r, lines, k)
      <4>1. part \in SUBSET lines
        BY <3>1
      <4> HIDE DEF part
      <4>2. Observed(t, c, part, Identities(t, c, lines)) = Size(part)
        BY <4>1, ObservedRows
      <4> QED
        BY <4>2 DEF part
    <3> QED
      BY <3>1, <3>2, <3>3 DEF Size
  <2> HIDE DEF ids, key, cells
  <2> QED
    BY <1>4, <2>1
<1>6. SumFunction(cells) = Cardinality(lines)
  <2> HIDE DEF ids, key, cells
  <2> QED
    BY <1>1, <1>2, <1>3, <1>4, <1>5, SumOfParts
<1> QED
  BY <1>6 DEF Size

\* Groups by text share out the rows.
LEMMA TextRows ==
    ASSUME NEW t \in Tables, NEW g, NEW lines \in SUBSET DOMAIN t
    PROVE  SumFunction([a \in Texts(t, g, lines) |-> Size(InGroup(t, g, lines, a))]) = Size(lines)
<1> DEFINE texts == Texts(t, g, lines)
           key == [i \in lines |-> t[i][g].text]
           counts == [a \in texts |-> Size(InGroup(t, g, lines, a))]
<1>1. IsFiniteSet(lines)
  BY RowsAreFinite
<1>2. IsFiniteSet(texts)
  <2>1. texts = {key[i] : i \in lines}
    BY DEF Texts
  <2> HIDE DEF texts, key
  <2> QED
    BY <1>1, <2>1, ImageIsFinite
<1>3. \A i \in lines : key[i] \in texts
  BY DEF Texts
<1>4. DOMAIN counts = texts
  OBVIOUS
<1>5. \A k \in DOMAIN counts : counts[k] = Cardinality({i \in lines : key[i] = k})
  <2>1. ASSUME NEW k \in texts PROVE counts[k] = Cardinality({i \in lines : key[i] = k})
    <3>1. InGroup(t, g, lines, k) = {i \in lines : key[i] = k}
      BY DEF InGroup
    <3> QED
      BY <3>1 DEF Size
  <2> HIDE DEF texts, key, counts
  <2> QED
    BY <1>4, <2>1
<1>6. SumFunction(counts) = Cardinality(lines)
  <2> HIDE DEF texts, key, counts
  <2> QED
    BY <1>1, <1>2, <1>3, <1>4, <1>5, SumOfParts
<1> QED
  BY <1>6 DEF Size

\* The two paired tests count the same pairs.
LEMMA PairsAlike ==
    ASSUME NEW t, NEW x, NEW y, x /= y, IsNumeric(t, x), IsNumeric(t, y)
    PROVE  PairedT(t, x, y).counted = Wilcoxon(t, x, y).counted
<1> DEFINE pairs == Size(Finite(t, x, DOMAIN t) \cap Finite(t, y, DOMAIN t))
<1>1. PairedT(t, x, y).counted = pairs
  BY DEF PairedT, NumericKernel, Ok, Answer
<1>2. Wilcoxon(t, x, y).counted = pairs
  BY DEF Wilcoxon, Ok, Answer
<1> QED
  BY <1>1, <1>2

\* The effect sizes of a comparison that succeeds exist, over the same rows: MinGroup is two
\* at least.
LEMMA EffectsOfComparison ==
    ASSUME NEW t \in Tables, NEW m, NEW g, CompareTwoGroups(t, m, g).status = "ok"
    PROVE  /\ EffectSizes(t, m, g).status = "ok"
           /\ EffectSizes(t, m, g).counted = CompareTwoGroups(t, m, g).counted
<1> DEFINE lines == Split(t, m, g)
           texts == Texts(t, g, lines)
           small == \E a \in texts : Size(InGroup(t, g, lines, a)) < MinGroup
           tiny == \E a \in texts : Size(InGroup(t, g, lines, a)) < 2
<1>1. lines \in SUBSET DOMAIN t
  BY DEF Split, Present
<1>2. \A a \in texts : Size(InGroup(t, g, lines, a)) \in Nat
  BY <1>1, RowsAreFinite DEF InGroup, Size
<1>3. ~small => ~tiny
  BY <1>2, BoundsAssumption
<1>4. CompareTwoGroups(t, m, g) =
        IF ~IsNumeric(t, m) THEN Refusal("invalid_type", "not numeric")
        ELSE IF m = g THEN Refusal("invalid_type", "same choice")
        ELSE IF Size(texts) < 2 THEN Refusal("too_few_groups", "too few")
        ELSE IF Size(texts) > 2 THEN Refusal("too_many_groups", "too wide")
        ELSE IF small THEN Refusal("insufficient_data", "no rows")
        ELSE Answer("ok", PValue(t, m, lines), {}, Size(lines))
  BY Zenon DEF CompareTwoGroups
<1>5. EffectSizes(t, m, g) =
        IF ~IsNumeric(t, m) THEN Refusal("invalid_input", "not numeric")
        ELSE IF m = g THEN Refusal("invalid_input", "same choice")
        ELSE IF Size(texts) < 2 THEN Refusal("too_few_groups", "too few")
        ELSE IF Size(texts) > 2 THEN Refusal("too_many_groups", "too wide")
        ELSE IF tiny THEN Refusal("insufficient_data", "no rows")
        ELSE Ok({}, SumFunction([a \in texts |-> Size(InGroup(t, g, lines, a))]))
  BY Zenon DEF EffectSizes
<1>6. SumFunction([a \in texts |-> Size(InGroup(t, g, lines, a))]) = Size(lines)
  <2> HIDE DEF lines
  <2> QED
    BY <1>1, TextRows
<1> DEFINE total == SumFunction([a \in texts |-> Size(InGroup(t, g, lines, a))])
           few == Size(texts) < 2
           many == Size(texts) > 2
           n == Size(lines)
           p == PValue(t, m, lines)
<1>7. /\ CompareTwoGroups(t, m, g) =
           IF ~IsNumeric(t, m) THEN Refusal("invalid_type", "not numeric")
           ELSE IF m = g THEN Refusal("invalid_type", "same choice")
           ELSE IF few THEN Refusal("too_few_groups", "too few")
           ELSE IF many THEN Refusal("too_many_groups", "too wide")
           ELSE IF small THEN Refusal("insufficient_data", "no rows")
           ELSE Answer("ok", p, {}, n)
      /\ EffectSizes(t, m, g) =
           IF ~IsNumeric(t, m) THEN Refusal("invalid_input", "not numeric")
           ELSE IF m = g THEN Refusal("invalid_input", "same choice")
           ELSE IF few THEN Refusal("too_few_groups", "too few")
           ELSE IF many THEN Refusal("too_many_groups", "too wide")
           ELSE IF tiny THEN Refusal("insufficient_data", "no rows")
           ELSE Ok({}, total)
      /\ total = n
  BY <1>4, <1>5, <1>6
<1> HIDE DEF lines, texts, small, tiny, total, few, many, n, p
<1>8. IsNumeric(t, m) /\ m /= g /\ ~few /\ ~many /\ ~small
  <2>1. /\ Refusal("invalid_type", "not numeric").status = "invalid_type"
        /\ Refusal("invalid_type", "same choice").status = "invalid_type"
        /\ Refusal("too_few_groups", "too few").status = "too_few_groups"
        /\ Refusal("too_many_groups", "too wide").status = "too_many_groups"
        /\ Refusal("insufficient_data", "no rows").status = "insufficient_data"
    BY DEF Refusal, Answer
  <2> QED
    BY <1>7, <2>1
<1>9. CompareTwoGroups(t, m, g) = Answer("ok", p, {}, n) /\ EffectSizes(t, m, g) = Ok({}, n)
  BY <1>3, <1>7, <1>8
<1>10. /\ Answer("ok", p, {}, n).counted = n
       /\ Ok({}, n).counted = n /\ Ok({}, n).status = "ok"
  BY DEF Ok, Answer
<1> QED
  BY <1>9, <1>10

\* Each result about categories accounts for the rows of the table.
LEMMA OneProportionAccounts ==
    ASSUME NEW t \in Tables, NEW x, NEW success, NEW null, OneProportion(t, x, success, null).status = "ok"
    PROVE  OneProportion(t, x, success, null).counted = Len(t)
<1> DEFINE lines == ValidRows(t, x)
           hits == Having(t, x, lines, success)
           sum == Size(hits) + Size(lines \ hits) + Excluded(t, lines)
<1>1. OneProportion(t, x, success, null).counted = sum
  BY DEF OneProportion, OneProportionKernel, Kernel, Refusal, Answer, Ok
<1>2. lines \in SUBSET DOMAIN t /\ hits \in SUBSET lines
  BY DEF ValidRows, Having
<1>3. IsFiniteSet(lines) /\ Len(t) \in Nat
  BY <1>2, RowsAreFinite
<1> HIDE DEF lines, hits
<1>4. /\ Cardinality(hits) \in Nat /\ Cardinality(lines) \in Nat
      /\ Cardinality(hits) + Cardinality(lines \ hits) = Cardinality(lines)
  BY <1>2, <1>3, RowsApart
<1>5. Cardinality(lines \ hits) \in Nat
  BY <1>3, FS_Difference, FS_CardinalityType
<1>6. sum = Len(t)
  BY <1>3, <1>4, <1>5 DEF Excluded, Size
<1> QED
  BY <1>1, <1>6

\* The rows that two groups and the rest share out.
LEMMA TwoProportionsAccount ==
    ASSUME NEW t \in Tables, NEW x, NEW success, NEW g, NEW a, NEW b,
           TwoProportions(t, x, success, g, a, b).status = "ok"
    PROVE  TwoProportions(t, x, success, g, a, b).counted = Len(t)
<1> DEFINE lines == ValidRows(t, x) \cap ValidRows(t, g)
           inA == Having(t, g, lines, a)
           inB == Having(t, g, lines, b)
           sum == Excluded(t, lines) + Size(lines \ (inA \cup inB)) + Size(inA) + Size(inB)
<1>1. a /= b /\ TwoProportions(t, x, success, g, a, b).counted = sum
  BY DEF TwoProportions, TwoProportionKernel, Kernel, Refusal, Answer, Ok
<1>2. lines \in SUBSET DOMAIN t /\ inA \in SUBSET lines /\ inB \in SUBSET lines
  BY DEF ValidRows, Having
<1>3. inA \cap inB = {}
  BY <1>1 DEF Having
<1>4. IsFiniteSet(lines) /\ Len(t) \in Nat
  BY <1>2, RowsAreFinite
<1> HIDE DEF lines, inA, inB
<1>5. IsFiniteSet(inA) /\ IsFiniteSet(inB) /\ Cardinality(inA) \in Nat /\ Cardinality(inB) \in Nat
  BY <1>2, <1>4, FS_Subset, FS_CardinalityType
<1>6. Cardinality(inA \cup inB) = Cardinality(inA) + Cardinality(inB)
  <2>1. Cardinality(inA \cup inB) = Cardinality(inA) + Cardinality(inB) - Cardinality(inA \cap inB)
    BY <1>5, FS_Union
  <2>2. Cardinality(inA \cap inB) = 0
    BY <1>3, FS_EmptySet
  <2> QED
    BY <1>5, <2>1, <2>2
<1> DEFINE both == inA \cup inB
<1>7. both \in SUBSET lines
  BY <1>2
<1> HIDE DEF both
<1>8. /\ Cardinality(both) \in Nat /\ Cardinality(lines) \in Nat
      /\ Cardinality(both) + Cardinality(lines \ both) = Cardinality(lines)
  BY <1>4, <1>7, RowsApart
<1>9. Cardinality(lines \ both) \in Nat
  BY <1>4, FS_Difference, FS_CardinalityType
<1>10. Cardinality(both) = Cardinality(inA) + Cardinality(inB)
  BY <1>6 DEF both
<1>11. sum = Len(t) - Cardinality(lines) + Cardinality(lines \ both) + Cardinality(inA) + Cardinality(inB)
  BY DEF Excluded, Size, both
<1>12. sum = Len(t)
  <2> DEFINE all == Len(t)
             valid == Cardinality(lines)
             grouped == Cardinality(both)
             rest == Cardinality(lines \ both)
             m == Cardinality(inA)
             n == Cardinality(inB)
  <2>1. all \in Nat /\ valid \in Nat /\ grouped \in Nat /\ rest \in Nat /\ m \in Nat /\ n \in Nat
    BY <1>4, <1>5, <1>8, <1>9
  <2>2. grouped + rest = valid /\ grouped = m + n /\ sum = all - valid + rest + m + n
    BY <1>8, <1>10, <1>11
  <2>3. sum = all
    <3> HIDE DEF all, valid, grouped, rest, m, n, sum
    <3> QED
      BY <2>1, <2>2
  <2> QED
    BY <2>3
<1> QED
  BY <1>1, <1>12

LEMMA GoodnessOfFitAccounts ==
    ASSUME NEW t \in Tables, NEW x, NEW proportions, GoodnessOfFit(t, x, proportions).status = "ok"
    PROVE  GoodnessOfFit(t, x, proportions).counted = Len(t)
<1> DEFINE lines == ValidRows(t, x)
           sum == Observed(t, x, lines, Identities(t, x, lines)) + Excluded(t, lines)
<1>1. GoodnessOfFit(t, x, proportions).counted = sum
  BY DEF GoodnessOfFit, GofKernel, Kernel, Refusal, Answer, Ok
<1>2. lines \in SUBSET DOMAIN t
  BY DEF ValidRows
<1>3. Cardinality(lines) \in Nat /\ Len(t) \in Nat
  BY <1>2, RowsAreFinite
<1> HIDE DEF lines
<1>4. Observed(t, x, lines, Identities(t, x, lines)) = Size(lines)
  BY <1>2, ObservedRows
<1>5. sum = Len(t)
  BY <1>3, <1>4 DEF Excluded, Size
<1> QED
  BY <1>1, <1>5

LEMMA ContingencyAccounts ==
    ASSUME NEW t \in Tables, NEW r, NEW c, Contingency(t, r, c).status = "ok"
    PROVE  Contingency(t, r, c).counted = Len(t)
<1> DEFINE lines == ValidRows(t, r) \cap ValidRows(t, c)
           sum == SumFunction(ContingencyTable(t, r, c, lines)) + Excluded(t, lines)
<1>1. Contingency(t, r, c).counted = sum
  BY DEF Contingency, TableKernel, Kernel, Refusal, Answer, Ok
<1>2. lines \in SUBSET DOMAIN t
  BY DEF ValidRows
<1>3. Cardinality(lines) \in Nat /\ Len(t) \in Nat
  BY <1>2, RowsAreFinite
<1> HIDE DEF lines
<1>4. SumFunction(ContingencyTable(t, r, c, lines)) = Size(lines)
  BY <1>2, TableRows
<1>5. sum = Len(t)
  BY <1>3, <1>4 DEF Excluded, Size
<1> QED
  BY <1>1, <1>5

\* The refusals of the selectors do not pass for results.
LEMMA RefusalsAreNoResults ==
    ASSUME NEW t, NEW x
    PROVE  /\ NoAnswer.status = ""
           /\ OutcomeRefusal(t, x).status /= "ok" /\ GroupsRefusal(t, x).status /= "ok"
           /\ \A reason : Refusal("not eligible", reason).status /= "ok"
           /\ \A reason : Answer("not eligible", reason, {x}, 0).status /= "ok"
  BY DEF OutcomeRefusal, GroupsRefusal, NoAnswer, Refusal, Answer

\* Whatever panel is used.
LEMMA AgreementStep ==
    ASSUME table \in Tables, LabNext
    PROVE  PanelsAgree'
<1> DEFINE Counts == {"one proportion", "two proportions", "goodness of fit", "independence", "homogeneity"}
<1>1. table' = table
  BY TableStays
<1>2. \A x, y \in NumericColumns(table) : x /= y =>
        PairedT(table, x, y).counted = Wilcoxon(table, x, y).counted
  BY PairsAlike DEF NumericColumns
\* A panel that is none of these three kinds only has to name its answer.
<1>3. ASSUME shown'.panel \in Counts => (shown'.answer.status = "ok" => shown'.answer.counted = Len(table)),
             (shown'.panel = "two groups" /\ shown'.answer.status = "ok") =>
                 /\ shown'.below.status = "ok"
                 /\ shown'.below.counted = shown'.answer.counted,
             shown'.panel = "wizard" => shown'.answer.reason = ""
      PROVE  PanelsAgree'
  BY <1>1, <1>2, <1>3 DEF PanelsAgree, RowsAreAccounted
<1>4. CASE Rerun
  BY <1>3, <1>4 DEF Rerun, Nothing
<1>5. CASE RunOneProportion
  <2> PICK offered, x, success, null :
          Show("one proportion", offered,
               IF OutcomeRefusal(table, x) = NoAnswer THEN OneProportion(table, x, success, null)
                                                      ELSE OutcomeRefusal(table, x))
    BY <1>5 DEF RunOneProportion
  <2>1. /\ shown'.panel = "one proportion"
        /\ shown'.answer = IF OutcomeRefusal(table, x) = NoAnswer
                              THEN OneProportion(table, x, success, null)
                              ELSE OutcomeRefusal(table, x)
    BY DEF Show, ShowBoth
  <2>2. shown'.answer.status = "ok" => shown'.answer.counted = Len(table)
    <3>1. CASE OutcomeRefusal(table, x) = NoAnswer
      BY <2>1, <3>1, OneProportionAccounts
    <3>2. CASE OutcomeRefusal(table, x) /= NoAnswer
      BY <2>1, <3>2, RefusalsAreNoResults
    <3> QED
      BY <3>1, <3>2
  <2> QED
    BY <1>3, <2>1, <2>2
<1>6. CASE RunTwoProportions
  <2> PICK offered, x, g, success, a, b :
          LET refusal == IF OutcomeRefusal(table, x) /= NoAnswer THEN OutcomeRefusal(table, x)
                         ELSE IF Classify(table, g) /= "eligible"
                              THEN Answer("not eligible", Classify(table, g), {x}, 0)
                         ELSE GroupsRefusal(table, g)
          IN  Show("two proportions", offered,
                   IF refusal = NoAnswer THEN TwoProportions(table, x, success, g, a, b)
                                         ELSE refusal)
    BY <1>6 DEF RunTwoProportions
  <2> DEFINE refusal == IF OutcomeRefusal(table, x) /= NoAnswer THEN OutcomeRefusal(table, x)
                        ELSE IF Classify(table, g) /= "eligible"
                             THEN Answer("not eligible", Classify(table, g), {x}, 0)
                        ELSE GroupsRefusal(table, g)
  <2>1. /\ shown'.panel = "two proportions"
        /\ shown'.answer = IF refusal = NoAnswer THEN TwoProportions(table, x, success, g, a, b)
                                                 ELSE refusal
    BY DEF Show, ShowBoth
  <2>2. refusal.status /= "ok"
    <3>1. /\ OutcomeRefusal(table, x).status /= "ok" /\ GroupsRefusal(table, g).status /= "ok"
          /\ Answer("not eligible", Classify(table, g), {x}, 0).status /= "ok"
      BY RefusalsAreNoResults
    <3> QED
      BY <3>1
  <2>3. shown'.answer = (IF refusal = NoAnswer THEN TwoProportions(table, x, success, g, a, b) ELSE refusal)
    BY <2>1
  <2> HIDE DEF refusal
  <2>4. shown'.answer.status = "ok" => shown'.answer.counted = Len(table)
    <3>1. CASE refusal = NoAnswer
      BY <2>3, <3>1, TwoProportionsAccount
    <3>2. CASE refusal /= NoAnswer
      BY <2>2, <2>3, <3>2
    <3> QED
      BY <3>1, <3>2
  <2> QED
    BY <1>3, <2>1, <2>4
<1>7. CASE RunGoodnessOfFit
  <2> PICK offered, x, proportions :
          Show("goodness of fit", offered,
               IF Classify(table, x) /= "eligible" THEN Refusal("not eligible", Classify(table, x))
               ELSE IF GroupsRefusal(table, x) /= NoAnswer THEN GroupsRefusal(table, x)
               ELSE Building(x, GoodnessOfFit(table, x, proportions)))
    BY <1>7 DEF RunGoodnessOfFit
  <2>1. /\ shown'.panel = "goodness of fit"
        /\ shown'.answer = IF Classify(table, x) /= "eligible"
                              THEN Refusal("not eligible", Classify(table, x))
                           ELSE IF GroupsRefusal(table, x) /= NoAnswer THEN GroupsRefusal(table, x)
                           ELSE Building(x, GoodnessOfFit(table, x, proportions))
    BY DEF Show, ShowBoth
  <2>2. /\ Building(x, GoodnessOfFit(table, x, proportions)).status = GoodnessOfFit(table, x, proportions).status
        /\ Building(x, GoodnessOfFit(table, x, proportions)).counted = GoodnessOfFit(table, x, proportions).counted
    BY DEF Building, Answer
  <2>3. shown'.answer.status = "ok" => shown'.answer.counted = Len(table)
    <3>1. CASE Classify(table, x) /= "eligible"
      BY <2>1, <3>1, RefusalsAreNoResults
    <3>2. CASE Classify(table, x) = "eligible" /\ GroupsRefusal(table, x) /= NoAnswer
      BY <2>1, <3>2, RefusalsAreNoResults
    <3>3. CASE Classify(table, x) = "eligible" /\ GroupsRefusal(table, x) = NoAnswer
      <4>1. shown'.answer = Building(x, GoodnessOfFit(table, x, proportions))
        BY <2>1, <3>3
      <4> QED
        BY <2>2, <4>1, GoodnessOfFitAccounts
    <3> QED
      BY <3>1, <3>2, <3>3
  <2> QED
    BY <1>3, <2>1, <2>3
<1>8. ASSUME NEW panel \in {"independence", "homogeneity"}, RunContingency(panel)
      PROVE  PanelsAgree'
  <2> PICK offered, r, c :
          Show(panel, offered, IF NotEligible(table, {r, c}) /= {} THEN Refusal("not eligible", "")
                                                                  ELSE Contingency(table, r, c))
    BY <1>8 DEF RunContingency
  <2>1. /\ shown'.panel = panel
        /\ shown'.answer = IF NotEligible(table, {r, c}) /= {} THEN Refusal("not eligible", "")
                                                              ELSE Contingency(table, r, c)
    BY DEF Show, ShowBoth
  <2>2. shown'.answer.status = "ok" => shown'.answer.counted = Len(table)
    <3>1. CASE NotEligible(table, {r, c}) /= {}
      BY <2>1, <3>1, RefusalsAreNoResults
    <3>2. CASE NotEligible(table, {r, c}) = {}
      BY <2>1, <3>2, ContingencyAccounts
    <3> QED
      BY <3>1, <3>2
  <2> QED
    BY <1>3, <1>8, <2>1, <2>2
<1>9. CASE RunGroupComparison
  <2>1. PICK m, g, offered :
          \/ ShowBoth("two groups", offered, CompareTwoGroups(table, m, g), EffectSizes(table, m, g))
          \/ Show("groups", offered, CompareMultiGroup(table, m, g))
    BY <1>9 DEF RunGroupComparison
  <2>2. CASE ShowBoth("two groups", offered, CompareTwoGroups(table, m, g), EffectSizes(table, m, g))
    <3>1. /\ shown'.panel = "two groups" /\ shown'.answer = CompareTwoGroups(table, m, g)
          /\ shown'.below = EffectSizes(table, m, g)
      BY <2>2 DEF ShowBoth
    <3>2. shown'.answer.status = "ok" =>
            shown'.below.status = "ok" /\ shown'.below.counted = shown'.answer.counted
      BY <3>1, EffectsOfComparison
    <3> QED
      BY <1>3, <3>1, <3>2
  <2>3. CASE Show("groups", offered, CompareMultiGroup(table, m, g))
    <3>1. shown'.panel = "groups"
      BY <2>3 DEF Show, ShowBoth
    <3> QED
      BY <1>3, <3>1
  <2> QED
    BY <2>1, <2>2, <2>3
<1>10. CASE RunWizard
  <2>1. PICK variable, group, sigma, equalVariance, alternative :
          LET selected == SelectTest(variable, group, sigma, equalVariance, alternative)
              run == CalculatePValue(selected.key, alternative)
          IN  Show("wizard", TRUE,
                   Answer(run.status, IF run.alternative = selected.alternative THEN ""
                                                                              ELSE "alternative", {}, 0))
    BY <1>10 DEF RunWizard
  <2> DEFINE selected == SelectTest(variable, group, sigma, equalVariance, alternative)
             run == CalculatePValue(selected.key, alternative)
  <2>2. run.alternative = selected.alternative
    <3> DEFINE key == IF variable = "numeric" THEN SelectNumeric(group, sigma, equalVariance)
                                              ELSE SelectOther(variable, group)
    <3>1. /\ selected.key = key
          /\ selected.alternative = IF key \in SelectedTwoSidedOnly THEN "two-sided" ELSE alternative
      BY DEF SelectTest
    <3> HIDE DEF key, selected
    <3>2. run = IF key = "UNKNOWN" THEN [status |-> "unsupported", alternative |-> alternative]
                ELSE IF key \in TwoSidedOnly THEN [status |-> "ok", alternative |-> "two-sided"]
                ELSE [status |-> "ok", alternative |-> alternative]
      BY <3>1 DEF CalculatePValue
    <3> HIDE DEF run
    <3> QED
      BY <3>1, <3>2 DEF SelectedTwoSidedOnly, TwoSidedOnly
  <2>3. shown'.panel = "wizard" /\ shown'.answer.reason = ""
    <3>1. Show("wizard", TRUE, Answer(run.status, "", {}, 0))
      BY <2>1, <2>2
    <3> QED
      BY <3>1 DEF Show, ShowBoth, Answer
  <2> QED
    BY <1>3, <2>3
<1>11. CASE RunOneSample \/ RunTwoSample \/ RunAB \/ RunPairedT \/ RunWilcoxon \/ CheckAssumptions
  <2> DEFINE Shows(panel) == \E offered, answer : Show(panel, offered, answer)
  <2>1. /\ RunOneSample => Shows("one sample")
        /\ RunTwoSample => Shows("two samples")
        /\ RunAB => Shows("A/B")
        /\ RunPairedT => Shows("paired t")
        /\ RunWilcoxon => Shows("Wilcoxon")
        /\ CheckAssumptions => Shows("assumptions")
    BY Zenon DEF RunOneSample, RunTwoSample, RunAB, RunPairedT, RunWilcoxon, CheckAssumptions
  <2>2. \A panel : Shows(panel) => shown'.panel = panel
    BY DEF Show, ShowBoth
  <2> HIDE DEF Shows
  <2>3. shown'.panel \in {"one sample", "two samples", "A/B", "paired t", "Wilcoxon", "assumptions"}
    BY <1>11, <2>1, <2>2
  <2> QED
    BY <1>3, <2>3
<1> QED
  BY <1>4, <1>5, <1>6, <1>7, <1>8, <1>9, <1>10, <1>11 DEF LabNext, RunIndependence, RunHomogeneity

\* What the page offers is run: over a plain table no panel refuses for what its offer
\* promised, and over any table and for any selection no category is built for a column with
\* too many levels; for any tables and limits (statistics_eligibility.py, statistics.py).
THEOREM OffersAreKept == LabSpec => []OfferedIsRun
<1>1. LabInit => table \in Tables /\ OfferedIsRun
  <2>1. Nothing.offered = FALSE /\ Nothing.answer.built = {}
    BY DEF Nothing, NoAnswer, Refusal, Answer
  <2> QED
    BY <2>1 DEF LabInit, OfferedIsRun
<1>2. (table \in Tables /\ OfferedIsRun) /\ [LabNext]_labVars => (table \in Tables /\ OfferedIsRun)'
  <2> SUFFICES ASSUME table \in Tables, OfferedIsRun, [LabNext]_labVars
               PROVE  (table \in Tables)' /\ OfferedIsRun'
    OBVIOUS
  <2>1. CASE LabNext
    <3>1. table' = table
      BY <2>1, TableStays
    <3> QED
      BY <2>1, <3>1, OfferedStep
  <2>2. CASE UNCHANGED labVars
    BY <2>2 DEF labVars, OfferedIsRun
  <2> QED
    BY <2>1, <2>2
<1> QED
  BY <1>1, <1>2, PTL DEF LabSpec

\* Panels over the same data agree and their counts account for every row, for any tables and
\* limits (run_two_proportion_z_test, _build_contingency, effect sizes, calculate_p_value).
THEOREM PanelsSpeakAlike == LabSpec => []PanelsAgree
<1>1. LabInit => table \in Tables /\ PanelsAgree
  <2>1. Nothing.panel = ""
    BY DEF Nothing
  <2> QED
    BY <2>1, PairsAlike DEF LabInit, PanelsAgree, RowsAreAccounted, NumericColumns
<1>2. (table \in Tables /\ PanelsAgree) /\ [LabNext]_labVars => (table \in Tables /\ PanelsAgree)'
  <2> SUFFICES ASSUME table \in Tables, PanelsAgree, [LabNext]_labVars
               PROVE  (table \in Tables)' /\ PanelsAgree'
    OBVIOUS
  <2>1. CASE LabNext
    <3>1. table' = table
      BY <2>1, TableStays
    <3> QED
      BY <2>1, <3>1, AgreementStep
  <2>2. CASE UNCHANGED labVars
    BY <2>2 DEF labVars, PanelsAgree, RowsAreAccounted
  <2> QED
    BY <2>1, <2>2
<1> QED
  BY <1>1, <1>2, PTL DEF LabSpec
-----------------------------------------------------------------------------
(***************************************************************************)
(* The calendar of the Dim Time page, for any range of days: the date of a *)
(* day is taken apart into the era, the year of the era, the month and the *)
(* day, each a quotient of the rest, and the day after it is followed down *)
(* to where nothing turns, or a month, or a year, or the era.              *)
(***************************************************************************)
\* The first day of a year of the era, which begins with a March.
YearStart(y) == 365 * y + (y \div 4) - (y \div 100)

\* The year of a day of the era.
YearOf(e) == (e - (e \div 1460) + (e \div 36524) - (e \div 146096)) \div 365

\* q is the quotient of n by c.
Quotient(n, c, q) == c * q <= n /\ n < c * q + c

\* e is a day of an era.
InEra(e) == e \in Int /\ 0 <= e /\ e <= 146096

\* Day e of an era is in its year y.
Within(e, y) ==
    /\ y \in Int /\ 0 <= y /\ y <= 399
    /\ YearStart(y) \in Int /\ YearStart(y + 1) \in Int
    /\ YearStart(y) <= e
    /\ IF y = 399 THEN e <= YearStart(y) + 365 ELSE e < YearStart(y + 1)

\* The formula of the civil calendar finds the year of a day.
LEMMA YearOfDay ==
  ASSUME NEW e, InEra(e)
  PROVE  Within(e, YearOf(e))
<1> DEFINE a == e \div 1460  b == e \div 36524  d == e \div 146096
           t == e - a + b - d
           y == t \div 365  q == y \div 4  p == y \div 100
           r == (y + 1) \div 4  s == (y + 1) \div 100
<1>1. e \in Int /\ 0 <= e /\ e <= 146096
  BY DEF InEra
<1>2. a \in Int /\ Quotient(e, 1460, a)
  BY <1>1, SMT DEF Quotient
<1>3. b \in Int /\ Quotient(e, 36524, b)
  BY <1>1, SMT DEF Quotient
<1>4. d \in Int /\ Quotient(e, 146096, d)
  BY <1>1, SMT DEF Quotient
<1>5. y \in Int /\ Quotient(t, 365, y)
  <2> HIDE DEF a, b, d
  <2> QED BY <1>1, <1>2, <1>3, <1>4, SMT DEF Quotient
<1>6. /\ q \in Int /\ Quotient(y, 4, q)
      /\ p \in Int /\ Quotient(y, 100, p)
      /\ r \in Int /\ Quotient(y + 1, 4, r)
      /\ s \in Int /\ Quotient(y + 1, 100, s)
  <2> HIDE DEF y
  <2> QED BY <1>5, SMT DEF Quotient
<1>7. YearOf(e) = y /\ YearStart(y) = 365 * y + q - p /\ YearStart(y + 1) = 365 * (y + 1) + r - s
  BY SMT DEF YearOf, YearStart
<1>8. t = e - a + b - d
  OBVIOUS
<1> HIDE DEF a, b, d, t, y, q, p, r, s
<1>9. 0 <= y /\ y <= 399
  BY <1>1, <1>2, <1>3, <1>4, <1>5, <1>8, SMT DEF Quotient
<1>10. p = b - d
  BY <1>1, <1>2, <1>3, <1>4, <1>5, <1>6, <1>8, <1>9, SMT DEF Quotient
<1>11. 365 * y + q - p <= e
  BY <1>1, <1>2, <1>3, <1>4, <1>5, <1>6, <1>8, <1>9, <1>10, SMT DEF Quotient
<1>12. IF y = 399 THEN e <= 365 * y + q - p + 365 ELSE e < 365 * (y + 1) + r - s
  BY <1>1, <1>2, <1>3, <1>4, <1>5, <1>6, <1>8, <1>9, <1>10, SMT DEF Quotient
<1>13. YearStart(y) \in Int /\ YearStart(y + 1) \in Int
  BY <1>5, <1>6, <1>7, SMT
<1> QED
  BY <1>5, <1>7, <1>9, <1>11, <1>12, <1>13, SMT DEF Within

\* A year has 365 or 366 days.
LEMMA YearsAreLong ==
  ASSUME NEW y \in Int, NEW z \in Int, y < z
  PROVE  YearStart(z) >= YearStart(y) + 365 /\ (z = y + 1 => YearStart(z) <= YearStart(y) + 366)
BY SMT DEF YearStart

\* The day after another of its era continues its year or begins the next one.
LEMMA NextDayOfEra ==
  ASSUME NEW e, InEra(e), InEra(e + 1)
  PROVE  \/ YearOf(e + 1) = YearOf(e)
         \/ /\ YearOf(e + 1) = YearOf(e) + 1
            /\ e + 1 = YearStart(YearOf(e + 1))
            /\ e >= YearStart(YearOf(e)) + 364
<1> DEFINE y == YearOf(e)  z == YearOf(e + 1)
<1>1. Within(e, y) /\ Within(e + 1, z)
  BY YearOfDay
<1> HIDE DEF y, z
<1>2. e \in Int /\ y \in Int /\ z \in Int
  BY <1>1, SMT DEF Within, InEra
<1>3. z >= y
  <2>1. SUFFICES ASSUME z < y PROVE FALSE
    BY <1>2, SMT
  <2>2. z + 1 = y \/ YearStart(y) >= YearStart(z + 1) + 365
    BY <1>2, <2>1, YearsAreLong, SMT
  <2> QED BY <1>1, <1>2, <2>1, <2>2, SMT DEF Within
<1>4. z <= y + 1
  <2>1. SUFFICES ASSUME z > y + 1 PROVE FALSE
    BY <1>2, SMT
  <2>2. YearStart(z) >= YearStart(y + 1) + 365
    BY <1>2, <2>1, YearsAreLong, SMT
  <2> QED BY <1>1, <1>2, <2>1, <2>2, SMT DEF Within
<1>5. z = y \/ z = y + 1
  BY <1>2, <1>3, <1>4, SMT
<1>6. z = y + 1 => e + 1 = YearStart(z)
  BY <1>1, <1>2, SMT DEF Within
<1>7. z = y + 1 => YearStart(z) >= YearStart(y) + 365
  BY <1>2, YearsAreLong, SMT
<1>8. z = y + 1 => e >= YearStart(y) + 364
  BY <1>1, <1>2, <1>6, <1>7, SMT DEF Within
<1> QED
  BY <1>5, <1>6, <1>8 DEF y, z

\* The first and the last day of an era.
LEMMA EraEnds ==
  YearOf(0) = 0 /\ YearStart(0) = 0 /\ YearOf(146096) = 399 /\ 146096 = YearStart(399) + 365
BY SMT DEF YearOf, YearStart

\* Months count from March.
MonthOf(x) == (5 * x + 2) \div 153

DayOf(x) == x - ((153 * MonthOf(x) + 2) \div 5) + 1

\* The next day of a year is the next of its month or the first of the next month.
LEMMA NextDayOfYear ==
  ASSUME NEW x \in Int, 0 <= x, x <= 364
  PROVE  \/ MonthOf(x + 1) = MonthOf(x) /\ DayOf(x + 1) = DayOf(x) + 1
         \/ MonthOf(x + 1) = MonthOf(x) + 1 /\ DayOf(x + 1) = 1
<1> DEFINE m == MonthOf(x)  k == MonthOf(x + 1)  f == (153 * m + 2) \div 5  g == (153 * k + 2) \div 5
<1>1. m \in Int /\ Quotient(5 * x + 2, 153, m) /\ k \in Int /\ Quotient(5 * (x + 1) + 2, 153, k)
  BY SMT DEF MonthOf, Quotient
<1>2. f \in Int /\ Quotient(153 * m + 2, 5, f) /\ g \in Int /\ Quotient(153 * k + 2, 5, g)
  <2> HIDE DEF m, k
  <2> QED BY <1>1, SMT DEF Quotient
<1>3. DayOf(x) = x - f + 1 /\ DayOf(x + 1) = (x + 1) - g + 1
  BY Zenon DEF DayOf
<1> HIDE DEF m, k, f, g
<1>4. k = m \/ k = m + 1
  BY <1>1, SMT DEF Quotient
<1>5. k = m => g = f
  BY <1>1, <1>2, SMT DEF Quotient
<1>6. k = m + 1 => g = x + 1
  BY <1>1, <1>2, SMT DEF Quotient
<1>7. (k = m /\ DayOf(x + 1) = DayOf(x) + 1) \/ (k = m + 1 /\ DayOf(x + 1) = 1)
  BY <1>1, <1>2, <1>3, <1>4, <1>5, <1>6, SMT
<1> QED BY <1>7 DEF m, k

\* Every year begins with the first day of its first month and ends in its last.
LEMMA MonthsAndDays ==
  ASSUME NEW x \in Int, 0 <= x, x <= 365
  PROVE  /\ MonthOf(x) \in 0 .. 11 /\ DayOf(x) \in 1 .. 31
         /\ x = 0 => MonthOf(x) = 0 /\ DayOf(x) = 1
         /\ x >= 364 => MonthOf(x) = 11
<1> DEFINE m == MonthOf(x)  f == (153 * m + 2) \div 5
<1>1. m \in Int /\ Quotient(5 * x + 2, 153, m)
  BY SMT DEF MonthOf, Quotient
<1>2. f \in Int /\ Quotient(153 * m + 2, 5, f)
  <2> HIDE DEF m
  <2> QED BY <1>1, SMT DEF Quotient
<1>3. DayOf(x) = x - f + 1
  BY DEF DayOf
<1> HIDE DEF m, f
<1>4. m \in 0 .. 11 /\ x - f + 1 \in 1 .. 31 /\ (x = 0 => m = 0 /\ f = 0) /\ (x >= 364 => m = 11)
  BY <1>1, <1>2, SMT DEF Quotient
<1>5. x = 0 => x - f + 1 = 1
  BY <1>2, <1>4, SMT
<1> QED BY <1>3, <1>4, <1>5 DEF m

\* The era of a day, the day of the era and of the year, and a month counted from January.
EraOf(n) == (n + 719468) \div 146097

DayOfEra(n) == (n + 719468) % 146097

DayOfYear(n) == DayOfEra(n) - YearStart(YearOf(DayOfEra(n)))

Turned(m) == IF m < 10 THEN m + 3 ELSE m - 9

\* The model's civil date in these terms.
LEMMA DateInEra ==
  ASSUME NEW n \in Int
  PROVE  /\ CivilDate(n).month = Turned(MonthOf(DayOfYear(n)))
         /\ CivilDate(n).day = DayOf(DayOfYear(n))
         /\ CivilDate(n).year = YearOf(DayOfEra(n)) + EraOf(n) * 400
                + (IF Turned(MonthOf(DayOfYear(n))) <= 2 THEN 1 ELSE 0)
BY SMT DEF CivilDate, Turned, MonthOf, DayOf, DayOfYear, DayOfEra, EraOf, YearOf, YearStart

\* A day is followed by the next one of its era or by the first of the next era.
LEMMA NextDayInEra ==
  ASSUME NEW n \in Int
  PROVE  /\ InEra(DayOfEra(n)) /\ EraOf(n) \in Int
         /\ \/ DayOfEra(n + 1) = DayOfEra(n) + 1 /\ EraOf(n + 1) = EraOf(n)
            \/ DayOfEra(n) = 146096 /\ DayOfEra(n + 1) = 0 /\ EraOf(n + 1) = EraOf(n) + 1
BY SMT DEF InEra, DayOfEra, EraOf

\* The day after another is the next of its month or the first of the next one.
LEMMA NextDay ==
  ASSUME NEW n \in Int
  PROVE  LET a == CivilDate(n)
             b == CivilDate(n + 1)
         IN  /\ a.year \in Int /\ a.month \in 1 .. 12 /\ a.day \in 1 .. 31
             /\ \/ b.year = a.year /\ b.month = a.month /\ b.day = a.day + 1
                \/ b.year = a.year /\ a.month < 12 /\ b.month = a.month + 1 /\ b.day = 1
                \/ b.year = a.year + 1 /\ a.month = 12 /\ b.month = 1 /\ b.day = 1
<1> DEFINE e == DayOfEra(n)  f == DayOfEra(n + 1)  x == DayOfYear(n)  z == DayOfYear(n + 1)
           y == YearOf(e)  w == YearOf(f)
<1>1. InEra(e) /\ InEra(f) /\ EraOf(n) \in Int
  BY NextDayInEra, SMT
<1>2. Within(e, y) /\ Within(f, w)
  BY <1>1, YearOfDay
<1>3. x = e - YearStart(y) /\ z = f - YearStart(w)
  BY DEF DayOfYear
<1> HIDE DEF e, f, x, z, y, w
<1>4. /\ x \in Int /\ 0 <= x /\ x <= 365 /\ z \in Int /\ 0 <= z /\ z <= 365
      /\ y \in Int /\ w \in Int /\ e \in Int /\ f \in Int
  <2>1. YearStart(y + 1) <= YearStart(y) + 366 /\ YearStart(w + 1) <= YearStart(w) + 366
    BY <1>2, YearsAreLong, SMT DEF Within
  <2> QED BY <1>1, <1>2, <1>3, <2>1, SMT DEF Within, InEra
<1>5. \/ z = x + 1 /\ w + EraOf(n + 1) * 400 = y + EraOf(n) * 400
      \/ z = 0 /\ x >= 364 /\ w + EraOf(n + 1) * 400 = y + EraOf(n) * 400 + 1
  <2>1. CASE f = e + 1 /\ EraOf(n + 1) = EraOf(n)
    <3>1. w = y \/ (w = y + 1 /\ f = YearStart(w) /\ e >= YearStart(y) + 364)
      BY <1>1, <2>1, NextDayOfEra DEF y, w
    <3> QED BY <1>1, <1>2, <1>3, <1>4, <2>1, <3>1, SMT DEF Within
  <2>2. CASE e = 146096 /\ f = 0 /\ EraOf(n + 1) = EraOf(n) + 1
    <3>1. y = 399 /\ w = 0 /\ YearStart(w) = 0 /\ YearStart(y) = 145731
      BY <1>2, <2>2, EraEnds, SMT DEF y, w, Within
    <3> QED BY <1>1, <1>3, <2>2, <3>1, SMT
  <2> QED BY <2>1, <2>2, NextDayInEra, SMT DEF e, f
<1> DEFINE m == MonthOf(x)  k == MonthOf(z)  g == y + EraOf(n) * 400  h == w + EraOf(n + 1) * 400
<1>6. /\ m \in 0 .. 11 /\ DayOf(x) \in 1 .. 31 /\ g \in Int
      /\ \/ h = g /\ k = m /\ DayOf(z) = DayOf(x) + 1
         \/ h = g /\ m < 11 /\ k = m + 1 /\ DayOf(z) = 1
         \/ h = g + 1 /\ m = 11 /\ k = 0 /\ DayOf(z) = 1
  <2>1. m \in 0 .. 11 /\ DayOf(x) \in 1 .. 31 /\ (x >= 364 => m = 11)
    BY <1>4, MonthsAndDays
  <2>2. g \in Int
    BY <1>1, <1>4, SMT
  <2>3. CASE z = x + 1 /\ h = g
    <3>1. x <= 364 /\ k \in 0 .. 11
      BY <1>4, <2>3, MonthsAndDays, SMT
    <3>2. (k = m /\ DayOf(z) = DayOf(x) + 1) \/ (k = m + 1 /\ DayOf(z) = 1)
      BY <1>4, <2>3, <3>1, NextDayOfYear
    <3>3. k = m + 1 => m < 11
      BY <2>1, <3>1, SMT
    <3> QED BY <2>1, <2>2, <2>3, <3>2, <3>3, Zenon
  <2>4. CASE z = 0 /\ x >= 364 /\ h = g + 1
    <3>1. k = 0 /\ DayOf(z) = 1
      BY <2>4, MonthsAndDays, SMT
    <3> QED BY <2>1, <2>2, <2>4, <3>1
  <2> QED BY <1>5, <2>3, <2>4
<1>7. /\ CivilDate(n).month = Turned(m) /\ CivilDate(n).day = DayOf(x)
      /\ CivilDate(n).year = g + (IF Turned(m) <= 2 THEN 1 ELSE 0)
  BY DateInEra DEF e, x, y
<1>8. /\ CivilDate(n + 1).month = Turned(k) /\ CivilDate(n + 1).day = DayOf(z)
      /\ CivilDate(n + 1).year = h + (IF Turned(k) <= 2 THEN 1 ELSE 0)
  BY DateInEra DEF f, z, w
<1> HIDE DEF m, k, g, h
<1> QED BY <1>6, <1>7, <1>8, SMT DEF Turned

\* The day of the week counts from the first day asked for, and every day names
\* the start of its week.
LEMMA WeekOfDay ==
  ASSUME NEW n \in Int, NEW week \in 1 .. 7
  PROVE  /\ CustomDow(n, week) \in 1 .. 7
         /\ n - WeekStartDate(n, week) = CustomDow(n, week) - 1
         /\ WeekStartDate(n, week) \in Int
         /\ CustomDow(n + 1, week) = IF CustomDow(n, week) = 7 THEN 1 ELSE CustomDow(n, week) + 1
BY SMT DEF CustomDow, WeekStartDate, DayOfWeek

\* How far a month is from another, in a year that begins with that one.
LEMMA MonthsFrom ==
  ASSUME NEW m \in 1 .. 12, NEW s \in 1 .. 12
  PROVE  (m - s) % 12 = IF m >= s THEN m - s ELSE m - s + 12
BY SMT

\* The quarter a month is in.
LEMMA QuarterOf ==
  ASSUME NEW u \in 0 .. 11
  PROVE  u \div 3 \in 0 .. 3 /\ 3 * (u \div 3) <= u /\ u <= 3 * (u \div 3) + 2
BY SMT

\* The quarters of two dates of which the second is the next day of the first.
LEMMA NextFiscalQuarter ==
  ASSUME NEW a, NEW b, NEW s \in 1 .. 12,
         a.year \in Int, a.month \in 1 .. 12, a.day \in 1 .. 31,
         \/ b.year = a.year /\ b.month = a.month /\ b.day = a.day + 1
         \/ b.year = a.year /\ a.month < 12 /\ b.month = a.month + 1 /\ b.day = 1
         \/ b.year = a.year + 1 /\ a.month = 12 /\ b.month = 1 /\ b.day = 1
  PROVE  /\ 4 * (FiscalYear(b, s) - FiscalYear(a, s)) + FiscalQuarter(b, s) - FiscalQuarter(a, s) \in
                (IF b.day = 1 THEN {0, 1} ELSE {0})
         /\ (FiscalYear(b, s) > FiscalYear(a, s)) <=> (b.day = 1 /\ b.month = s)
<1> DEFINE y == a.year  m == a.month  z == b.year  k == b.month  d == b.day
           u == (m - s) % 12  v == (k - s) % 12  q == u \div 3  r == v \div 3
           f == IF m >= s THEN y ELSE y - 1  g == IF k >= s THEN z ELSE z - 1
<1>1. /\ y \in Int /\ m \in 1 .. 12
      /\ \/ z = y /\ k = m /\ d # 1
         \/ z = y /\ m < 12 /\ k = m + 1 /\ d = 1
         \/ z = y + 1 /\ m = 12 /\ k = 1 /\ d = 1
  BY SMT
<1>2. /\ FiscalYear(a, s) = f /\ FiscalYear(b, s) = g
      /\ FiscalQuarter(a, s) = q + 1 /\ FiscalQuarter(b, s) = r + 1
  BY SMT DEF FiscalYear, FiscalQuarter
<1> HIDE DEF y, m, z, k, d
<1>3. /\ u \in 0 .. 11 /\ u = (IF m >= s THEN m - s ELSE m - s + 12)
      /\ v \in 0 .. 11 /\ v = (IF k >= s THEN k - s ELSE k - s + 12)
  <2>1. m \in 1 .. 12 /\ k \in 1 .. 12
    BY <1>1, SMT
  <2>2. u = (IF m >= s THEN m - s ELSE m - s + 12) /\ v = (IF k >= s THEN k - s ELSE k - s + 12)
    BY <2>1, MonthsFrom
  <2> HIDE DEF u, v
  <2> QED BY <2>1, <2>2, SMT
<1> HIDE DEF u, v
<1>4. q \in Int /\ 3 * q <= u /\ u <= 3 * q + 2 /\ r \in Int /\ 3 * r <= v /\ v <= 3 * r + 2
  <2>1. /\ q \in 0 .. 3 /\ 3 * q <= u /\ u <= 3 * q + 2
        /\ r \in 0 .. 3 /\ 3 * r <= v /\ v <= 3 * r + 2
    BY <1>3, QuarterOf
  <2> HIDE DEF q, r
  <2> QED BY <2>1, SMT
<1> HIDE DEF q, r
<1>5. CASE z = y /\ k = m /\ d # 1
  BY <1>1, <1>2, <1>3, <1>4, <1>5, SMT DEF d, k
<1>6. CASE d = 1 /\ ((z = y /\ m < 12 /\ k = m + 1) \/ (z = y + 1 /\ m = 12 /\ k = 1))
  <2>1. IF k = s THEN u = 11 /\ v = 0 /\ g = f + 1 ELSE v = u + 1 /\ g = f
    BY <1>1, <1>3, <1>6, SMT
  <2>2. f \in Int /\ g \in Int
    BY <1>1, <1>6, SMT
  <2> HIDE DEF f, g
  <2>3. 4 * (g - f) + r - q \in {0, 1} /\ (g > f <=> k = s)
    BY <1>3, <1>4, <2>1, <2>2, SMT
  <2>4. b.day = 1 /\ b.month = k
    BY <1>6, SMT DEF d, k
  <2>5. 4 * (g - f) + (r + 1) - (q + 1) \in {0, 1}
    BY <1>4, <2>2, <2>3, SMT
  <2> QED BY <1>2, <2>3, <2>4, <2>5, SMT
<1> QED BY <1>1, <1>5, <1>6

\* Numbers made of a year, a month and a day grow with the days.
LEMMA NextTimeId ==
  ASSUME NEW n \in Int
  PROVE  TimeId(n + 1) > TimeId(n)
<1> DEFINE a == CivilDate(n)  b == CivilDate(n + 1)
           y == a.year  m == a.month  d == a.day  z == b.year  k == b.month  f == b.day
<1>1. /\ y \in Int /\ m \in 1 .. 12 /\ d \in 1 .. 31
      /\ \/ z = y /\ k = m /\ f = d + 1
         \/ z = y /\ m < 12 /\ k = m + 1 /\ f = 1
         \/ z = y + 1 /\ m = 12 /\ k = 1 /\ f = 1
  BY NextDay, SMT
<1>2. /\ TimeId(n) = y * 10000 + m * 100 + d
      /\ TimeId(n + 1) = z * 10000 + k * 100 + f
  BY SMT DEF TimeId
<1> HIDE DEF y, m, d, z, k, f
<1> QED BY <1>1, <1>2, SMT

\* What the property reads of a row is what is computed for its day.
RowOfDay(row, n, p) ==
    /\ row.date = n /\ row.time_id = TimeId(n)
    /\ row.dow = CustomDow(n, p.week) /\ row.week_start_date = WeekStartDate(n, p.week)
    /\ row.month = CivilDate(n).month /\ row.day = CivilDate(n).day
    /\ row.fiscal_year = IF p.fiscal = NoFiscal THEN 0 ELSE FiscalYear(CivilDate(n), p.fiscal)
    /\ row.fiscal_quarter = IF p.fiscal = NoFiscal THEN 0 ELSE FiscalQuarter(CivilDate(n), p.fiscal)

LEMMA RowsOfDays ==
  ASSUME NEW n, NEW p
  PROVE  RowOfDay(DimTimeRow(n, p), n, p)
BY SMT DEF RowOfDay, DimTimeRow

\* Two rows of consecutive days.
LEMMA RowsFollow ==
  ASSUME NEW n \in Int, NEW p, p.week \in 1 .. 7, p.fiscal = NoFiscal \/ p.fiscal \in 1 .. 12,
         NEW a, RowOfDay(a, n, p), NEW b, RowOfDay(b, n + 1, p)
  PROVE  /\ b.date = a.date + 1 /\ b.time_id > a.time_id
         /\ b.week_start_date = IF b.dow = 1 THEN b.date ELSE a.week_start_date
         /\ 4 * (b.fiscal_year - a.fiscal_year) + b.fiscal_quarter - a.fiscal_quarter \in
                (IF b.day = 1 THEN {0, 1} ELSE {0})
         /\ (b.fiscal_year > a.fiscal_year) <=> (b.day = 1 /\ b.month = p.fiscal)
<1>1. b.date = a.date + 1 /\ b.time_id > a.time_id
  BY NextTimeId, SMT DEF RowOfDay
<1>2. b.week_start_date = IF b.dow = 1 THEN b.date ELSE a.week_start_date
  <2>1. n + 1 \in Int
    BY SMT
  <2>2. /\ n - WeekStartDate(n, p.week) = CustomDow(n, p.week) - 1
        /\ (n + 1) - WeekStartDate(n + 1, p.week) = CustomDow(n + 1, p.week) - 1
        /\ WeekStartDate(n, p.week) \in Int /\ WeekStartDate(n + 1, p.week) \in Int
        /\ CustomDow(n, p.week) \in 1 .. 7
        /\ CustomDow(n + 1, p.week) = IF CustomDow(n, p.week) = 7 THEN 1 ELSE CustomDow(n, p.week) + 1
    BY <2>1, WeekOfDay
  <2> QED BY <2>2, SMT DEF RowOfDay
<1>3. /\ 4 * (b.fiscal_year - a.fiscal_year) + b.fiscal_quarter - a.fiscal_quarter \in
              (IF b.day = 1 THEN {0, 1} ELSE {0})
      /\ (b.fiscal_year > a.fiscal_year) <=> (b.day = 1 /\ b.month = p.fiscal)
  <2> DEFINE c == CivilDate(n)  d == CivilDate(n + 1)
  <2>1. /\ c.year \in Int /\ c.month \in 1 .. 12 /\ c.day \in 1 .. 31
        /\ \/ d.year = c.year /\ d.month = c.month /\ d.day = c.day + 1
           \/ d.year = c.year /\ c.month < 12 /\ d.month = c.month + 1 /\ d.day = 1
           \/ d.year = c.year + 1 /\ c.month = 12 /\ d.month = 1 /\ d.day = 1
    BY NextDay
  <2> HIDE DEF c, d
  <2>2. CASE p.fiscal = NoFiscal
    <3>1. b.fiscal_year = 0 /\ a.fiscal_year = 0 /\ b.fiscal_quarter = 0 /\ a.fiscal_quarter = 0
      BY <2>2, SMT DEF RowOfDay
    <3>2. b.month = d.month /\ b.day = d.day
      BY SMT DEF RowOfDay, d
    <3>3. b.month # p.fiscal
      BY <2>1, <2>2, <3>2, SMT DEF NoFiscal
    <3> QED BY <3>1, <3>3, SMT
  <2>3. CASE p.fiscal \in 1 .. 12
    <3>1. /\ 4 * (FiscalYear(d, p.fiscal) - FiscalYear(c, p.fiscal)) + FiscalQuarter(d, p.fiscal) - FiscalQuarter(c, p.fiscal) \in
                  (IF d.day = 1 THEN {0, 1} ELSE {0})
          /\ (FiscalYear(d, p.fiscal) > FiscalYear(c, p.fiscal)) <=> (d.day = 1 /\ d.month = p.fiscal)
      BY <2>1, <2>3, NextFiscalQuarter
    <3>2. p.fiscal # NoFiscal
      BY <2>3, SMT DEF NoFiscal
    <3>3. /\ b.month = d.month /\ b.day = d.day
          /\ b.fiscal_year = FiscalYear(d, p.fiscal) /\ a.fiscal_year = FiscalYear(c, p.fiscal)
          /\ b.fiscal_quarter = FiscalQuarter(d, p.fiscal) /\ a.fiscal_quarter = FiscalQuarter(c, p.fiscal)
      BY <3>2, SMT DEF RowOfDay, c, d
    <3> QED BY <3>1, <3>3
  <2> QED BY <2>2, <2>3
<1> QED BY <1>1, <1>2, <1>3

\* The rows of a range are those of its days, in their order.
LEMMA RowsAreDays ==
  ASSUME NEW p \in PageInputs, ValidParams(p),
         NEW days, days = GenerateDimTime(p)
  PROVE  /\ Len(days) \in Nat /\ DOMAIN days = 1 .. Len(days)
         /\ \A i \in DOMAIN days : RowOfDay(days[i], p.from + i - 1, p) /\ p.from + i - 1 \in Int
<1>1. p.from \in Int /\ p.to \in Int /\ p.from <= p.to
  BY TimeAssumption, SMT DEF TimeAssumption, ValidParams
<1>2. p.to - p.from + 1 \in Nat
  BY <1>1, SMT
<1>3. DOMAIN days = 1 .. p.to - p.from + 1
  BY DEF GenerateDimTime
<1>4. Len(days) = p.to - p.from + 1
  <2>1. days = [i \in 1 .. p.to - p.from + 1 |-> DimTimeRow(p.from + i - 1, p)]
    BY DEF GenerateDimTime
  <2> QED BY <1>2, <2>1, <1>3, SMT
<1>5. ASSUME NEW i \in DOMAIN days PROVE RowOfDay(days[i], p.from + i - 1, p) /\ p.from + i - 1 \in Int
  <2>1. i \in Int
    BY <1>3, SMT
  <2>2. days[i] = DimTimeRow(p.from + i - 1, p)
    BY <1>3 DEF GenerateDimTime
  <2>3. p.from + i - 1 \in Int
    BY <1>1, <2>1, SMT
  <2> QED BY <2>2, <2>3, RowsOfDays
<1> QED BY <1>2, <1>3, <1>4, <1>5

\* What a run of the page shows.
LEMMA ShownIsAligned ==
  ASSUME NEW p \in PageInputs, shownTime' = GenerateDimTimeCsv(p)
  PROVE  CalendarIsAligned'
<1>1. CASE ValidParams(p)
  <2>1. shownTime'.rows = GenerateDimTime(p) /\ shownTime'.asked = p
    BY <1>1, Zenon DEF GenerateDimTimeCsv
  <2> DEFINE days == shownTime'.rows
  <2>2. /\ Len(days) \in Nat /\ DOMAIN days = 1 .. Len(days)
        /\ \A i \in DOMAIN days : RowOfDay(days[i], p.from + i - 1, p) /\ p.from + i - 1 \in Int
    BY <1>1, <2>1, RowsAreDays
  <2>3. p.week \in 1 .. 7 /\ (p.fiscal = NoFiscal \/ p.fiscal \in 1 .. 12)
    BY <1>1 DEF ValidParams
  <2> HIDE DEF days
  <2>4. ASSUME NEW i \in DOMAIN days
        PROVE  /\ (days[i].dow = 1) <=> (days[i].week_start_date = days[i].date)
               /\ days[i].date - days[i].week_start_date = days[i].dow - 1
    <3> DEFINE n == p.from + i - 1
    <3>1. RowOfDay(days[i], n, p) /\ n \in Int
      BY <2>2
    <3> HIDE DEF n
    <3>2. /\ CustomDow(n, p.week) \in 1 .. 7 /\ WeekStartDate(n, p.week) \in Int
          /\ n - WeekStartDate(n, p.week) = CustomDow(n, p.week) - 1
      BY <2>3, <3>1, WeekOfDay
    <3> QED BY <3>1, <3>2, SMT DEF RowOfDay
  <2>5. ASSUME NEW i \in 1 .. Len(days) - 1, NEW a, a = days[i], NEW b, b = days[i + 1]
        PROVE  /\ b.date = a.date + 1 /\ b.time_id > a.time_id
               /\ b.week_start_date = IF b.dow = 1 THEN b.date ELSE a.week_start_date
               /\ 4 * (b.fiscal_year - a.fiscal_year) + b.fiscal_quarter - a.fiscal_quarter \in
                      (IF b.day = 1 THEN {0, 1} ELSE {0})
               /\ (b.fiscal_year > a.fiscal_year) <=> (b.day = 1 /\ b.month = p.fiscal)
    <3> DEFINE n == p.from + i - 1
    <3>1. i \in DOMAIN days /\ i + 1 \in DOMAIN days
      BY <2>2, SMT
    <3>2. p.from \in Int
      BY TimeAssumption DEF TimeAssumption
    <3>3. p.from + (i + 1) - 1 = n + 1 /\ n \in Int
      BY <3>2, SMT
    <3>4. RowOfDay(a, n, p) /\ RowOfDay(b, n + 1, p)
      BY <2>2, <2>5, <3>1, <3>3
    <3> HIDE DEF n
    <3> QED BY <2>3, <3>3, <3>4, RowsFollow
  <2> QED BY <2>1, <2>4, <2>5 DEF CalendarIsAligned, days
<1>2. CASE ~ValidParams(p)
  <2>1. shownTime'.rows = <<>>
    BY <1>2 DEF GenerateDimTimeCsv, NotShown
  <2> QED BY <2>1, SMT DEF CalendarIsAligned
<1> QED BY <1>1, <1>2

\* For any range of days, any week and any fiscal year the page is asked for, no day is missing or
\* twice, the week numbers name their own starts and fiscal years turn where the first quarter
\* begins (generate_dim_time, the Dim Time page).
THEOREM CalendarsAlign == TimeSpec => []CalendarIsAligned
<1>1. TimeInit => CalendarIsAligned
  BY SMT DEF TimeInit, CalendarIsAligned, NotShown
<1>2. CalendarIsAligned /\ [TimeNext]_timeVars => CalendarIsAligned'
  <2>1. SUFFICES ASSUME CalendarIsAligned, [TimeNext]_timeVars PROVE CalendarIsAligned'
    OBVIOUS
  <2>2. ASSUME NEW p \in PageInputs, RenderDimTime(p) PROVE CalendarIsAligned'
    BY <2>2, ShownIsAligned DEF RenderDimTime
  <2>3. CASE UNCHANGED timeVars
    BY <2>1, <2>3 DEF timeVars, CalendarIsAligned
  <2> QED BY <2>1, <2>2, <2>3 DEF TimeNext
<1> QED BY <1>1, <1>2, PTL DEF TimeSpec

-----------------------------------------------------------------------------
(***************************************************************************)
(* The package for Power BI                                                *)
(***************************************************************************)
\* The parts of a package.
IsFolder(p) ==
    p = [made |-> p.made, model |-> p.model, params |-> p.params, star |-> p.star, time |-> p.time, rels |-> p.rels]

\* The shape of what the steps change in part.
PackageShape ==
    /\ IsFolder(package)
    /\ building = [at |-> building.at, by |-> building.by, from |-> building.from, dim |-> building.dim,
                   left |-> building.left, hasTime |-> building.hasTime, whole |-> building.whole]
    /\ building.at /= "idle" => building.dim \in {"none", "own", "package"}
    /\ building.hasTime \in BOOLEAN

\* A calendar, or none, as both writers of dim_time.csv leave it.
IsCalendar(f) == f = <<>> \/ \E p : f = [t \in {"dim_time"} |-> DimTimeFile(p)]

CalendarsAreWhole == IsCalendar(timeCsv) /\ IsCalendar(package.time)

\* The tables of the package, but for those that are still to be copied, are those of the run.
IsCopied(run, left) ==
    \A t \in RequiredTables \ left : t \in DOMAIN package.star /\ package.star[t] = StarOf(run)[t]

\* How far a build has come.
BuildIsOnItsWay ==
    /\ building.at /= "idle" => reply = NoReply
    /\ building.at \in {"time", "relate", "validate"} => building.left = {}
    /\ building.by = "command" => building.dim = "package" /\ package.time /= <<>>
    /\ building.whole =>
           \E run \in ProfiledRuns : /\ building.left /= {} => star = StarOf(run)
                                     /\ IsCopied(run, building.left)
    /\ building.at \in {"relate", "validate"} =>
           /\ building.hasTime => package.time /= <<>>
           /\ building.by = "command" => building.hasTime
    /\ building.at = "validate" /\ building.whole =>
           package.rels.issues /\ package.rels.time = building.hasTime

\* What a valid reply about a whole build leaves in the folder, until the next build.
IsWhole ==
    /\ \E run \in ProfiledRuns : IsCopied(run, {})
    /\ package.rels.issues /\ package.rels.time = reply.hasTime
    /\ reply.hasTime => package.time /= <<>>
    /\ reply.by = "command" => reply.hasTime
    /\ CheckRequired(package) = {}

ReplyIsOfWhole ==
    (reply.by \in {"command", "page"} /\ reply.outcome = "valid" /\ reply.whole) => IsWhole

PackageInv == PackageShape /\ CalendarsAreWhole /\ BuildIsOnItsWay /\ ReplyIsOfWhole

-----------------------------------------------------------------------------
\* A build has died or ended, or goes on; nothing of the package changes and no reply is made.
LEMMA OthersKeepPackage ==
    ASSUME PackageInv, UNCHANGED <<package, reply>>, IsCalendar(timeCsv'),
           \/ UNCHANGED <<star, building>>
           \/ building' = NoBuild
    PROVE  PackageInv'
<1>1. PackageShape'
  <2>1. CASE UNCHANGED <<star, building>>
    BY <2>1 DEF PackageInv, PackageShape
  <2>2. CASE building' = NoBuild
    BY <2>2 DEF PackageInv, PackageShape, NoBuild
  <2> QED BY <2>1, <2>2
<1>2. CalendarsAreWhole'
  BY DEF PackageInv, CalendarsAreWhole, IsCalendar
<1>3. BuildIsOnItsWay'
  <2>1. CASE UNCHANGED <<star, building>>
    BY <2>1 DEF PackageInv, BuildIsOnItsWay, IsCopied
  <2>2. CASE building' = NoBuild
    BY <2>2 DEF BuildIsOnItsWay, NoBuild
  <2> QED BY <2>1, <2>2
<1>4. ReplyIsOfWhole'
  BY DEF PackageInv, ReplyIsOfWhole, IsWhole, IsCopied
<1> QED BY <1>1, <1>2, <1>3, <1>4 DEF PackageInv

LEMMA ExportKeepsPackage ==
    ASSUME PackageInv, NEW run, NEW n, ExportStar(run, n)
    PROVE  PackageInv'
<1>1. /\ UNCHANGED <<package, reply, timeVars>>
      /\ building' = [building EXCEPT !.whole = @ /\ (building.left = {} \/ star' = star)]
  BY DEF ExportStar
<1>2. PackageShape'
  BY <1>1 DEF PackageInv, PackageShape
<1>3. CalendarsAreWhole'
  BY <1>1 DEF PackageInv, CalendarsAreWhole, IsCalendar, timeVars
<1>4. /\ building'.at = building.at /\ building'.by = building.by /\ building'.dim = building.dim
      /\ building'.left = building.left /\ building'.hasTime = building.hasTime
      /\ building'.whole => building.whole /\ (building.left = {} \/ star' = star)
  BY <1>1 DEF PackageInv, PackageShape
<1>5. BuildIsOnItsWay'
  BY <1>1, <1>4 DEF PackageInv, BuildIsOnItsWay, IsCopied
<1>6. ReplyIsOfWhole'
  BY <1>1 DEF PackageInv, ReplyIsOfWhole, IsWhole, IsCopied
<1> QED BY <1>2, <1>3, <1>5, <1>6 DEF PackageInv

\* No reply yet, or a failure.
LEMMA NothingIsReplied ==
    ASSUME reply' = NoReply \/ \E by : reply' = Failed(by)
    PROVE  ReplyIsOfWhole'
<1>1. reply'.outcome \in {"none", "failed"}
  <2>1. NoReply.outcome = "none"
    BY DEF NoReply
  <2>2. \A by : Failed(by).outcome = "failed"
    BY DEF Failed, CmdBuildPbi, NoReply
  <2> QED BY <2>1, <2>2
<1> QED BY <1>1 DEF ReplyIsOfWhole

LEMMA TimeIsSet ==
    ASSUME NEW p, IsFolder(p), NEW v
    PROVE  LET q == [p EXCEPT !.time = v]
           IN  IsFolder(q) /\ q.star = p.star /\ q.time = v /\ q.rels = p.rels
  BY DEF IsFolder

LEMMA ScaffoldKeeps ==
    ASSUME NEW p, IsFolder(p)
    PROVE  LET q == Scaffold(p)
           IN  IsFolder(q) /\ q.star = p.star /\ q.time = p.time /\ q.rels = p.rels
<1>1. ASSUME NEW q, IsFolder(q), NEW v
      PROVE  /\ LET n == [q EXCEPT !.made = v]
                IN  IsFolder(n) /\ n.star = q.star /\ n.time = q.time /\ n.rels = q.rels
             /\ LET n == [q EXCEPT !.model = v]
                IN  IsFolder(n) /\ n.star = q.star /\ n.time = q.time /\ n.rels = q.rels
             /\ LET n == [q EXCEPT !.params = v]
                IN  IsFolder(n) /\ n.star = q.star /\ n.time = q.time /\ n.rels = q.rels
  BY <1>1 DEF IsFolder
<1> DEFINE a == [p EXCEPT !.made = TRUE]
           b == [a EXCEPT !.model = TRUE]
           c == [b EXCEPT !.params = TRUE]
<1>2. IsFolder(a) /\ a.star = p.star /\ a.time = p.time /\ a.rels = p.rels
  BY <1>1
<1> HIDE DEF a
<1>3. IsFolder(b) /\ b.star = p.star /\ b.time = p.time /\ b.rels = p.rels
  BY <1>1, <1>2
<1> HIDE DEF b
<1>4. IsFolder(c) /\ c.star = p.star /\ c.time = p.time /\ c.rels = p.rels
  BY <1>1, <1>3
<1> QED BY <1>4 DEF Scaffold, WriteParameters, CopyModel, a, b

LEMMA BeginKeepsPackage ==
    ASSUME PackageInv, NEW by \in {"command", "page"}, NEW from, NEW dim \in {"none", "own", "package"},
           BeginBuild(by, from, dim), UNCHANGED timeVars,
           \/ by = "page" /\ package' = Scaffold(package)
           \/ /\ by = "command" /\ dim = "package"
              /\ \E p : package' = [Scaffold(package) EXCEPT !.time = [t \in {"dim_time"} |-> DimTimeFile(p)]]
    PROVE  PackageInv'
<1>1. /\ building' = [at |-> "list", by |-> by, from |-> from, dim |-> dim, left |-> {}, hasTime |-> FALSE,
                      whole |-> FALSE]
      /\ reply' = NoReply
  BY DEF BeginBuild, NoBuild
<1>2. LET p == Scaffold(package)
      IN  IsFolder(p) /\ p.star = package.star /\ p.time = package.time /\ p.rels = package.rels
  BY ScaffoldKeeps DEF PackageInv, PackageShape
<1>3. /\ IsFolder(package')
      /\ \/ by = "page" /\ package'.time = package.time
         \/ by = "command" /\ dim = "package" /\ \E p : package'.time = [t \in {"dim_time"} |-> DimTimeFile(p)]
  <2>1. CASE by = "page" /\ package' = Scaffold(package)
    BY <1>2, <2>1
  <2>2. CASE /\ by = "command" /\ dim = "package"
             /\ \E p : package' = [Scaffold(package) EXCEPT !.time = [t \in {"dim_time"} |-> DimTimeFile(p)]]
    <3>1. PICK p : package' = [Scaffold(package) EXCEPT !.time = [t \in {"dim_time"} |-> DimTimeFile(p)]]
      BY <2>2
    <3> DEFINE csv == [t \in {"dim_time"} |-> DimTimeFile(p)]
    <3>2. IsFolder(package') /\ package'.time = csv
      <4> HIDE DEF csv
      <4> QED BY <1>2, <3>1, TimeIsSet DEF csv
    <3> QED BY <2>2, <3>2
  <2> QED BY <2>1, <2>2
<1>4. PackageShape'
  BY <1>1, <1>3 DEF PackageShape
<1>5. CalendarsAreWhole'
  BY <1>3 DEF PackageInv, CalendarsAreWhole, IsCalendar, timeVars
<1>6. \A p : [t \in {"dim_time"} |-> DimTimeFile(p)] /= <<>>
  <2>1. TAKE p
  <2>2. DOMAIN [t \in {"dim_time"} |-> DimTimeFile(p)] = {"dim_time"} /\ DOMAIN <<>> = {}
    BY SMT
  <2> QED BY <2>2
<1>7. by = "command" => dim = "package" /\ package'.time /= <<>>
  BY <1>3, <1>6
<1>8. BuildIsOnItsWay'
  BY <1>1, <1>7 DEF BuildIsOnItsWay
<1>9. ReplyIsOfWhole'
  BY <1>1, NothingIsReplied
<1> QED BY <1>4, <1>5, <1>8, <1>9 DEF PackageInv

LEMMA ListKeepsPackage ==
    ASSUME PackageInv, ListStarCsvs
    PROVE  PackageInv'
<1>1. UNCHANGED <<star, package, timeVars>> /\ building.at = "list"
  BY DEF ListStarCsvs
<1> DEFINE names == IF building.from = "package" THEN {} ELSE DOMAIN star
           complete == \E run \in ProfiledRuns : names /= {} /\ star = StarOf(run)
<1>2. CASE building' = NoBuild /\ reply' = Failed(building.by)
  <2>1. PackageShape' /\ CalendarsAreWhole'
    BY <1>1, <1>2 DEF PackageInv, PackageShape, CalendarsAreWhole, IsCalendar, timeVars, NoBuild
  <2>2. BuildIsOnItsWay'
    BY <1>1, <1>2 DEF PackageInv, BuildIsOnItsWay, NoBuild
  <2>3. ReplyIsOfWhole'
    BY <1>2, NothingIsReplied
  <2> QED BY <2>1, <2>2, <2>3 DEF PackageInv
<1>3. CASE UNCHANGED reply /\ building' = [building EXCEPT !.at = IF names = {} THEN "time" ELSE "copy",
                                                          !.left = names, !.whole = complete]
  <2>2. /\ building'.at = IF names = {} THEN "time" ELSE "copy"
        /\ building'.left = names /\ building'.whole = complete
        /\ building'.by = building.by /\ building'.dim = building.dim
    BY <1>3 DEF PackageInv, PackageShape
  <2>3. PackageShape'
    BY <1>1, <1>3 DEF PackageInv, PackageShape
  <2>4. CalendarsAreWhole'
    BY <1>1 DEF PackageInv, CalendarsAreWhole, IsCalendar, timeVars
  <2>5. \A run : names /= {} /\ star = StarOf(run) => RequiredTables \subseteq names
    BY DEF StarOf, Over, BuildStar, RequiredTables
  <2>6. complete => \E run \in ProfiledRuns : star = StarOf(run) /\ IsCopied(run, names)
    BY <2>5 DEF IsCopied
  <2>7. BuildIsOnItsWay'
    <3> HIDE DEF names, complete
    <3>1. building'.whole =>
              \E run \in ProfiledRuns : (building'.left /= {} => star' = StarOf(run)) /\ IsCopied(run, building.left)'
      BY <1>1, <2>2, <2>6 DEF IsCopied
    <3>2. building'.at \in {"time", "copy"} /\ (building'.at = "time" => building'.left = {})
      BY <2>2
    <3>3. reply' = NoReply /\ (building'.by = "command" => building'.dim = "package" /\ package'.time /= <<>>)
      BY <1>1, <1>3, <2>2 DEF PackageInv, BuildIsOnItsWay
    <3> QED BY <3>1, <3>2, <3>3 DEF BuildIsOnItsWay
  <2>8. ReplyIsOfWhole'
    BY <1>1, <1>3, NothingIsReplied DEF PackageInv, BuildIsOnItsWay
  <2> QED BY <2>3, <2>4, <2>7, <2>8 DEF PackageInv
<1> QED BY <1>2, <1>3 DEF ListStarCsvs

LEMMA CopyKeepsPackage ==
    ASSUME PackageInv, NEW t \in building.left, CopyStarCsv(t)
    PROVE  PackageInv'
<1>1. /\ UNCHANGED <<star, reply, timeVars>> /\ building.at = "copy"
      /\ package' = [package EXCEPT !.star = CopiedOver([n \in {t} |-> star[n]], @)]
      /\ building' = [building EXCEPT !.left = @ \ {t}, !.at = IF building.left = {t} THEN "time" ELSE "copy"]
  BY DEF CopyStarCsv
<1>2. /\ IsFolder(package') /\ package'.time = package.time /\ package'.rels = package.rels
      /\ package'.star = CopiedOver([n \in {t} |-> star[n]], package.star)
  BY <1>1 DEF PackageInv, PackageShape, IsFolder
<1>3. /\ building'.at = IF building.left = {t} THEN "time" ELSE "copy"
      /\ building'.left = building.left \ {t}
      /\ building'.by = building.by /\ building'.dim = building.dim /\ building'.whole = building.whole
  BY <1>1 DEF PackageInv, PackageShape
<1>4. PackageShape'
  BY <1>1, <1>2 DEF PackageInv, PackageShape
<1>5. CalendarsAreWhole'
  BY <1>1, <1>2 DEF PackageInv, CalendarsAreWhole, IsCalendar, timeVars
<1>6. ASSUME NEW run \in ProfiledRuns, star = StarOf(run), IsCopied(run, building.left)
      PROVE  IsCopied(run, building.left \ {t})'
  <2>1. /\ t \in DOMAIN package'.star /\ package'.star[t] = star[t]
        /\ \A n \in DOMAIN package.star : n \in DOMAIN package'.star
        /\ \A n \in DOMAIN package.star \ {t} : package'.star[n] = package.star[n]
    BY <1>2 DEF CopiedOver, Over
  <2> QED BY <1>3, <1>6, <2>1 DEF IsCopied
<1>7. building'.whole =>
          \E run \in ProfiledRuns : /\ building'.left /= {} => star' = StarOf(run)
                                    /\ IsCopied(run, building.left)'
  BY <1>1, <1>3, <1>6 DEF PackageInv, BuildIsOnItsWay
<1>8. reply' = NoReply /\ (building'.by = "command" => building'.dim = "package" /\ package'.time /= <<>>)
  BY <1>1, <1>2, <1>3 DEF PackageInv, BuildIsOnItsWay
<1>9. BuildIsOnItsWay'
  BY <1>3, <1>7, <1>8 DEF BuildIsOnItsWay
<1>10. ReplyIsOfWhole'
  BY <1>8, NothingIsReplied
<1> QED BY <1>4, <1>5, <1>9, <1>10 DEF PackageInv

\* A calendar is there or not.
LEMMA CalendarsCopied ==
    ASSUME NEW f, NEW g, IsCalendar(f), IsCalendar(g)
    PROVE  IsCalendar(CopiedOver(f, g)) /\ (f /= <<>> => CopiedOver(f, g) /= <<>>)
                                        /\ (g /= <<>> => CopiedOver(f, g) /= <<>>)
<1>1. \A p : LET h == [t \in {"dim_time"} |-> DimTimeFile(p)]
            IN  DOMAIN h = {"dim_time"} /\ h["dim_time"] = DimTimeFile(p)
  OBVIOUS
<1>2. DOMAIN <<>> = {}
  BY SMT
<1>3. CASE f = <<>>
  <2>1. CASE g = <<>>
    <3>1. DOMAIN CopiedOver(f, g) = {}
      BY <1>2, <1>3, <2>1 DEF CopiedOver, Over
    <3>2. CopiedOver(f, g) = [t \in {} |-> 0]
      BY <3>1 DEF CopiedOver, Over
    <3>3. <<>> = [t \in {} |-> 0]
      BY SMT
    <3> QED BY <1>3, <2>1, <3>2, <3>3 DEF IsCalendar
  <2>2. ASSUME NEW p, g = [t \in {"dim_time"} |-> DimTimeFile(p)] PROVE CopiedOver(f, g) = g
    BY <1>2, <1>3, <2>2 DEF CopiedOver, Over
  <2> QED BY <1>1, <1>2, <1>3, <2>1, <2>2 DEF IsCalendar
<1>4. ASSUME NEW p, f = [t \in {"dim_time"} |-> DimTimeFile(p)] PROVE CopiedOver(f, g) = f
  <2>1. DOMAIN g \subseteq {"dim_time"}
    BY <1>1, <1>2 DEF IsCalendar
  <2> QED BY <1>1, <1>4, <2>1 DEF CopiedOver, Over
<1> QED BY <1>1, <1>2, <1>3, <1>4 DEF IsCalendar

LEMMA CopyTimeKeepsPackage ==
    ASSUME PackageInv, CopyDimTime
    PROVE  PackageInv'
<1> DEFINE given == CASE building.dim = "none"    -> <<>>
                      [] building.dim = "own"     -> timeCsv
                      [] building.dim = "package" -> package.time
<1>1. /\ UNCHANGED <<star, reply, timeVars>> /\ building.at = "time"
      /\ package' = [package EXCEPT !.time = CopiedOver(given, @)]
      /\ building' = [building EXCEPT !.at = "relate", !.hasTime = given /= <<>>]
  BY DEF CopyDimTime
<1>2. building.left = {} /\ reply = NoReply
  BY <1>1 DEF PackageInv, BuildIsOnItsWay
<1>3. (building.dim = "package" => given = package.time) /\ IsCalendar(given)
  <2>1. building.dim \in {"none", "own", "package"}
    BY <1>1 DEF PackageInv, PackageShape
  <2>2. CASE building.dim = "none"
    BY <2>2 DEF IsCalendar
  <2>3. CASE building.dim = "own"
    BY <2>3 DEF PackageInv, CalendarsAreWhole
  <2>4. CASE building.dim = "package"
    BY <2>4 DEF PackageInv, CalendarsAreWhole
  <2> QED BY <2>1, <2>2, <2>3, <2>4
<1> HIDE DEF given
<1>4. /\ IsFolder(package') /\ package'.star = package.star
      /\ package'.time = CopiedOver(given, package.time)
  BY <1>1 DEF PackageInv, PackageShape, IsFolder
<1>5. /\ building'.at = "relate" /\ building'.hasTime = (given /= <<>>) /\ building'.left = building.left
      /\ building'.by = building.by /\ building'.dim = building.dim /\ building'.whole = building.whole
  BY <1>1 DEF PackageInv, PackageShape
<1>6. PackageShape'
  BY <1>1, <1>4 DEF PackageInv, PackageShape
<1>7. IsCalendar(package.time)
  BY DEF PackageInv, CalendarsAreWhole
<1>8. /\ IsCalendar(package'.time)
      /\ given /= <<>> => package'.time /= <<>>
      /\ package.time /= <<>> => package'.time /= <<>>
  BY <1>3, <1>4, <1>7, CalendarsCopied
<1>9. CalendarsAreWhole'
  BY <1>1, <1>8 DEF PackageInv, CalendarsAreWhole, IsCalendar, timeVars
<1>10. building'.by = "command" => building'.dim = "package" /\ package'.time /= <<>> /\ building'.hasTime
  BY <1>3, <1>5, <1>8 DEF PackageInv, BuildIsOnItsWay
<1>11. building'.whole => \E run \in ProfiledRuns : IsCopied(run, building.left)'
  BY <1>4, <1>5 DEF PackageInv, BuildIsOnItsWay, IsCopied
<1>12. BuildIsOnItsWay'
  <2>1. building'.left = {} /\ (building'.hasTime => package'.time /= <<>>) /\ reply' = NoReply
    BY <1>1, <1>2, <1>5, <1>8
  <2> QED BY <1>5, <1>10, <1>11, <2>1 DEF BuildIsOnItsWay
<1>13. ReplyIsOfWhole'
  BY <1>1, <1>2, NothingIsReplied
<1> QED BY <1>6, <1>9, <1>12, <1>13 DEF PackageInv

LEMMA TheTables == RequiredTables = {"dim_dataset", "dim_column", "fact_profile_runs", "fact_quality_metrics", "fact_issues"}
<1>1. DOMAIN StarTables = 1 .. 4
  BY DEF StarTables
<1>2. ToSet(StarTables) = {StarTables[1], StarTables[2], StarTables[3], StarTables[4]}
  BY <1>1, SMT DEF ToSet
<1> QED BY <1>2 DEF RequiredTables, StarTables

\* What the tables of a run hold.
LEMMA TablesOfRun ==
    ASSUME NEW run
    PROVE  LET f == StarOf(run)
               ids == {MakeColumnId(run.data, c) : c \in run.columns}
           IN  /\ f["dim_dataset"] = FileOf({"dataset_id", "source_path"}, [dataset_id |-> {run.data}])
               /\ f["dim_column"] =
                      FileOf({"column_id", "dataset_id", "column_name", "dtype"},
                             [column_id |-> ids, dataset_id |-> IF ids = {} THEN {} ELSE {run.data}])
               /\ f["fact_profile_runs"] =
                      FileOf({"run_id", "dataset_id", "ts", "time_id", "rows", "cols", "memory_mb"},
                             [dataset_id |-> {run.data}, ts |-> {run.day}, time_id |-> {TimeId(run.day)}])
               /\ f["fact_quality_metrics"] =
                      FileOf({"run_id", "column_id", "null_pct", "distinct_count", "completeness"},
                             [column_id |-> ids])
               /\ f["fact_issues"] = BuildFactIssues(run)
<1> DEFINE first == [t \in {"fact_issues"} |-> BuildFactIssues(run)]  b == BuildStar(run)
<1>1. /\ "dim_dataset" \in ToSet(StarTables) /\ "dim_column" \in ToSet(StarTables)
      /\ "fact_profile_runs" \in ToSet(StarTables) /\ "fact_quality_metrics" \in ToSet(StarTables)
  BY TheTables DEF RequiredTables
<1>2. DOMAIN b = ToSet(StarTables)
  BY DEF BuildStar
<1>3. \A t \in ToSet(StarTables) \ {"fact_issues"} : StarOf(run)[t] = b[t]
  <2> HIDE DEF b
  <2> QED BY <1>2 DEF StarOf, Over, b
<1>4. StarOf(run)["fact_issues"] = BuildFactIssues(run)
  BY DEF StarOf, Over
<1>5. b["dim_dataset"] = FileOf({"dataset_id", "source_path"}, [dataset_id |-> {run.data}])
  BY <1>1 DEF BuildStar
<1>6. b["dim_column"] =
          LET ids == {MakeColumnId(run.data, c) : c \in run.columns}
          IN  FileOf({"column_id", "dataset_id", "column_name", "dtype"},
                     [column_id |-> ids, dataset_id |-> IF ids = {} THEN {} ELSE {run.data}])
  BY <1>1 DEF BuildStar
<1>7. b["fact_profile_runs"] =
          FileOf({"run_id", "dataset_id", "ts", "time_id", "rows", "cols", "memory_mb"},
                 [dataset_id |-> {run.data}, ts |-> {run.day}, time_id |-> {TimeId(run.day)}])
  BY <1>1 DEF BuildStar
<1>8. b["fact_quality_metrics"] =
          FileOf({"run_id", "column_id", "null_pct", "distinct_count", "completeness"},
                 [column_id |-> {MakeColumnId(run.data, c) : c \in run.columns}])
  BY <1>1 DEF BuildStar
<1> HIDE DEF b
<1> QED BY <1>1, <1>3, <1>4, <1>5, <1>6, <1>7, <1>8

\* The headers of a whole package.
LEMMA WholeHeaders ==
    ASSUME NEW run, IsCopied(run, {})
    PROVE  /\ RequiredTables \subseteq DOMAIN package.star
           /\ CsvHeaders(package, "dim_dataset") = {"dataset_id", "source_path"}
           /\ CsvHeaders(package, "dim_column") = {"column_id", "dataset_id", "column_name", "dtype"}
           /\ CsvHeaders(package, "fact_profile_runs") =
                  {"run_id", "dataset_id", "ts", "time_id", "rows", "cols", "memory_mb"}
           /\ CsvHeaders(package, "fact_quality_metrics") =
                  {"run_id", "column_id", "null_pct", "distinct_count", "completeness"}
           /\ CsvHeaders(package, "fact_issues") = FactIssuesColumns
<1>1. \A t \in RequiredTables :
          /\ t \in DOMAIN package.star /\ package.star[t] = StarOf(run)[t]
          /\ CsvHeaders(package, t) = DOMAIN StarOf(run)[t]
  BY TheTables DEF IsCopied, CsvHeaders, FolderOf
<1>2. \A columns, keys : DOMAIN FileOf(columns, keys) = columns
  BY DEF FileOf
<1>3. DOMAIN BuildFactIssues(run) = FactIssuesColumns
  BY <1>2 DEF BuildFactIssues
<1>4. /\ DOMAIN StarOf(run)["dim_dataset"] = {"dataset_id", "source_path"}
      /\ DOMAIN StarOf(run)["dim_column"] = {"column_id", "dataset_id", "column_name", "dtype"}
      /\ DOMAIN StarOf(run)["fact_profile_runs"] =
            {"run_id", "dataset_id", "ts", "time_id", "rows", "cols", "memory_mb"}
      /\ DOMAIN StarOf(run)["fact_quality_metrics"] =
            {"run_id", "column_id", "null_pct", "distinct_count", "completeness"}
      /\ DOMAIN StarOf(run)["fact_issues"] = FactIssuesColumns
  <2> DEFINE ids == {MakeColumnId(run.data, c) : c \in run.columns}
             a == [dataset_id |-> {run.data}]
             b == [column_id |-> ids, dataset_id |-> IF ids = {} THEN {} ELSE {run.data}]
             d == [dataset_id |-> {run.data}, ts |-> {run.day}, time_id |-> {TimeId(run.day)}]
             e == [column_id |-> ids]
  <2>1. /\ StarOf(run)["dim_dataset"] = FileOf({"dataset_id", "source_path"}, a)
        /\ StarOf(run)["dim_column"] = FileOf({"column_id", "dataset_id", "column_name", "dtype"}, b)
        /\ StarOf(run)["fact_profile_runs"] =
              FileOf({"run_id", "dataset_id", "ts", "time_id", "rows", "cols", "memory_mb"}, d)
        /\ StarOf(run)["fact_quality_metrics"] =
              FileOf({"run_id", "column_id", "null_pct", "distinct_count", "completeness"}, e)
        /\ StarOf(run)["fact_issues"] = BuildFactIssues(run)
    BY TablesOfRun
  <2> HIDE DEF a, b, d, e
  <2> QED BY <1>2, <1>3, <2>1
<1> QED BY <1>1, <1>4, TheTables

\* Where the built-in measures look.
LEMMA SourcesOfMeasures ==
    \A i \in DOMAIN BuiltinQuality :
        /\ BuiltinQuality[i].table \in RequiredTables \cup {""}
        /\ BuiltinQuality[i].columns \subseteq
               {<<"fact_quality_metrics", "completeness">>, <<"fact_quality_metrics", "null_pct">>,
                <<"fact_quality_metrics", "distinct_count">>, <<"fact_profile_runs", "run_id">>,
                <<"fact_profile_runs", "rows">>, <<"fact_issues", "severity">>}
<1>1. DOMAIN BuiltinQuality = 1 .. 11
  BY DEF BuiltinQuality
<1> DEFINE Known == {<<"fact_quality_metrics", "completeness">>, <<"fact_quality_metrics", "null_pct">>,
                     <<"fact_quality_metrics", "distinct_count">>, <<"fact_profile_runs", "run_id">>,
                     <<"fact_profile_runs", "rows">>, <<"fact_issues", "severity">>}
           Looks(m) == m.table \in RequiredTables \cup {""} /\ m.columns \subseteq Known
<1>2. \A id, unit :
          /\ \A c \in {"completeness", "null_pct", "distinct_count"} :
                 Looks(Measure(id, unit, "fact_quality_metrics", {c}))
          /\ \A c \in {"run_id", "rows"} : Looks(Measure(id, unit, "fact_profile_runs", {c}))
          /\ Looks(Measure(id, unit, "fact_issues", {"severity"}))
          /\ \A t \in RequiredTables : Looks(Measure(id, unit, t, {}))
  <2>1. \A id, unit, source, columns :
            LET m == Measure(id, unit, source, columns)
            IN  m.table = source /\ m.columns = {<<source, c>> : c \in columns}
    BY DEF Measure
  <2>2. \A id, unit, source, columns :
            source \in RequiredTables /\ (\A c \in columns : <<source, c>> \in Known) =>
                Looks(Measure(id, unit, source, columns))
    <3> SUFFICES ASSUME NEW id, NEW unit, NEW source \in RequiredTables, NEW columns,
                        \A c \in columns : <<source, c>> \in Known
                 PROVE  Looks(Measure(id, unit, source, columns))
      OBVIOUS
    <3> DEFINE m == Measure(id, unit, source, columns)
    <3>1. m.table = source /\ m.columns = {<<source, c>> : c \in columns}
      BY <2>1
    <3> HIDE DEF m
    <3>2. m.columns \subseteq Known
      <4> HIDE DEF Known
      <4> QED BY <3>1
    <3>3. Looks(m)
      <4> HIDE DEF Known
      <4> QED BY <3>1, <3>2
    <3> QED BY <3>3 DEF m
  <2> HIDE DEF Looks
  <2>3. TAKE id, unit
  <2>4. \A c \in {"completeness", "null_pct", "distinct_count"} : <<"fact_quality_metrics", c>> \in Known
    OBVIOUS
  <2>5. (\A c \in {"run_id", "rows"} : <<"fact_profile_runs", c>> \in Known) /\ <<"fact_issues", "severity">> \in Known
    OBVIOUS
  <2> HIDE DEF Known
  <2> QED BY <2>2, <2>4, <2>5, TheTables
<1>3. \A i \in 1 .. 10 :
          LET m == BuiltinQuality[i]
          IN  \E id, unit :
                  \/ \E c \in {"completeness", "null_pct", "distinct_count"} :
                         m = Measure(id, unit, "fact_quality_metrics", {c})
                  \/ \E c \in {"run_id", "rows"} : m = Measure(id, unit, "fact_profile_runs", {c})
                  \/ m = Measure(id, unit, "fact_issues", {"severity"})
                  \/ \E t \in RequiredTables : m = Measure(id, unit, t, {})
  BY TheTables, SMTT(30) DEF BuiltinQuality
<1>4. \A i \in 1 .. 10 : Looks(BuiltinQuality[i])
  <2> HIDE DEF Looks
  <2> QED BY <1>2, <1>3
<1>5. Looks(BuiltinQuality[11])
  BY TheTables DEF BuiltinQuality, Measure
<1> HIDE DEF Looks
<1>6. \A i \in DOMAIN BuiltinQuality : Looks(BuiltinQuality[i])
  BY <1>1, <1>4, <1>5, SMT
<1> QED BY <1>6 DEF Looks

LEMMA MeasuresAreFound ==
    ASSUME NEW run, IsCopied(run, {}), NEW i \in DOMAIN BuiltinQuality
    PROVE  MeasureErrors(package, BuiltinQuality[i]) = {}
<1> DEFINE m == BuiltinQuality[i]
<1>1. \A c \in m.columns : c[1] \in RequiredTables /\ CsvHasColumn(package, c[1], c[2])
  <2>1. TAKE c \in m.columns
  <2>2. c \in {<<"fact_quality_metrics", "completeness">>, <<"fact_quality_metrics", "null_pct">>,
               <<"fact_quality_metrics", "distinct_count">>, <<"fact_profile_runs", "run_id">>,
               <<"fact_profile_runs", "rows">>, <<"fact_issues", "severity">>}
    BY SourcesOfMeasures
  <2> HIDE DEF m
  <2>3. c[1] \in RequiredTables
    BY <2>2, TheTables
  <2>4. c[2] \in CsvHeaders(package, c[1])
    BY <2>2, WholeHeaders DEF FactIssuesColumns
  <2> QED BY <2>3, <2>4 DEF CsvHasColumn
<1>2. m.table = "" \/ m.table \in RequiredTables
  BY SourcesOfMeasures
<1> HIDE DEF m
<1>3. RequiredTables \subseteq DOMAIN package.star
  BY WholeHeaders
<1>4. MeasureErrors(package, m) = {}
  BY <1>1, <1>2, <1>3 DEF MeasureErrors, NotFound
<1> QED BY <1>4 DEF m

-----------------------------------------------------------------------------
\* What a column of a table holds, and which columns it has.
LEMMA CellsOfFile ==
    ASSUME NEW columns, NEW keys, NEW c \in columns
    PROVE  /\ c \in DOMAIN keys => FileOf(columns, keys)[c] = keys[c]
           /\ c \notin DOMAIN keys => FileOf(columns, keys)[c] = {}
  BY DEF FileOf

LEMMA KeysOfRun ==
    ASSUME NEW run, IsCopied(run, {})
    PROVE  LET ids == {MakeColumnId(run.data, c) : c \in run.columns}
           IN  /\ Cells(package, "dim_dataset", "dataset_id") = {run.data}
               /\ Cells(package, "dim_column", "column_id") = ids
               /\ Cells(package, "dim_column", "dataset_id") \subseteq {run.data}
               /\ Cells(package, "fact_profile_runs", "dataset_id") = {run.data}
               /\ Cells(package, "fact_profile_runs", "ts") = {run.day}
               /\ Cells(package, "fact_profile_runs", "time_id") = {TimeId(run.day)}
               /\ Cells(package, "fact_quality_metrics", "column_id") = ids
               /\ Cells(package, "fact_issues", "dataset_id") \subseteq {run.data}
               /\ Cells(package, "fact_issues", "column_id") \ {NoKey} \subseteq ids
<1> DEFINE ids == {MakeColumnId(run.data, c) : c \in run.columns}
           a == [dataset_id |-> {run.data}]
           b == [column_id |-> ids, dataset_id |-> IF ids = {} THEN {} ELSE {run.data}]
           d == [dataset_id |-> {run.data}, ts |-> {run.day}, time_id |-> {TimeId(run.day)}]
           e == [column_id |-> ids]
           f == [dataset_id |-> IF run.issues = {} THEN {} ELSE {run.data},
                 column_id |-> {IF c \in run.columns THEN MakeColumnId(run.data, c) ELSE NoKey : c \in run.issues}]
<1>1. \A t \in RequiredTables : \A c : Cells(package, t, c) = StarOf(run)[t][c]
  BY TheTables DEF IsCopied, Cells, FolderOf
<1>2. /\ StarOf(run)["dim_dataset"] = FileOf({"dataset_id", "source_path"}, a)
      /\ StarOf(run)["dim_column"] = FileOf({"column_id", "dataset_id", "column_name", "dtype"}, b)
      /\ StarOf(run)["fact_profile_runs"] =
            FileOf({"run_id", "dataset_id", "ts", "time_id", "rows", "cols", "memory_mb"}, d)
      /\ StarOf(run)["fact_quality_metrics"] =
            FileOf({"run_id", "column_id", "null_pct", "distinct_count", "completeness"}, e)
      /\ StarOf(run)["fact_issues"] = FileOf(FactIssuesColumns, f)
  BY TablesOfRun DEF BuildFactIssues
<1>3. /\ DOMAIN a = {"dataset_id"} /\ DOMAIN b = {"column_id", "dataset_id"}
      /\ DOMAIN d = {"dataset_id", "ts", "time_id"} /\ DOMAIN e = {"column_id"}
      /\ DOMAIN f = {"dataset_id", "column_id"}
  OBVIOUS
<1>4. /\ a["dataset_id"] = {run.data} /\ b["column_id"] = ids /\ b["dataset_id"] \subseteq {run.data}
      /\ d["dataset_id"] = {run.data} /\ d["ts"] = {run.day} /\ d["time_id"] = {TimeId(run.day)}
      /\ e["column_id"] = ids /\ f["dataset_id"] \subseteq {run.data}
  OBVIOUS
<1>5. f["column_id"] \ {NoKey} \subseteq ids
  OBVIOUS
<1> HIDE DEF a, b, d, e, f, ids
<1>6. /\ Cells(package, "dim_dataset", "dataset_id") = a["dataset_id"]
      /\ Cells(package, "dim_column", "column_id") = b["column_id"]
      /\ Cells(package, "dim_column", "dataset_id") = b["dataset_id"]
  BY <1>1, <1>2, <1>3, CellsOfFile, TheTables
<1>7. /\ Cells(package, "fact_profile_runs", "dataset_id") = d["dataset_id"]
      /\ Cells(package, "fact_profile_runs", "ts") = d["ts"]
      /\ Cells(package, "fact_profile_runs", "time_id") = d["time_id"]
  BY <1>1, <1>2, <1>3, CellsOfFile, TheTables
<1>8. /\ Cells(package, "fact_quality_metrics", "column_id") = e["column_id"]
      /\ Cells(package, "fact_issues", "dataset_id") = f["dataset_id"]
      /\ Cells(package, "fact_issues", "column_id") = f["column_id"]
  BY <1>1, <1>2, <1>3, CellsOfFile, TheTables DEF FactIssuesColumns
<1> QED BY <1>4, <1>5, <1>6, <1>7, <1>8 DEF ids

\* A day of the calendar has the time_id of the day.
LEMMA DaysHaveIds ==
    ASSUME NEW p, NEW day, day \in DimTimeFile(p)["date"]
    PROVE  TimeId(day) \in DimTimeFile(p)["time_id"]
<1> DEFINE days == GenerateDimTime(p)
<1>1. \A i \in DOMAIN days : days[i].time_id = TimeId(days[i].date)
  BY DEF GenerateDimTime, DimTimeRow
<1> HIDE DEF days
<1>2. /\ DimTimeFile(p)["date"] = {days[i].date : i \in DOMAIN days}
      /\ DimTimeFile(p)["time_id"] = {days[i].time_id : i \in DOMAIN days}
  BY DEF DimTimeFile, days
<1> QED BY <1>1, <1>2

LEMMA WholeIsConnected ==
    ASSUME CalendarsAreWhole, ReplyIsOfWhole
    PROVE  PackageIsConnected
<1> SUFFICES ASSUME reply.by \in {"command", "page"}, reply.outcome = "valid", reply.whole
             PROVE  /\ \A r \in RelationshipsOf(package.rels) : Resolves(r)
                    /\ ValidateSemanticContract(package, "package") = {}
                    /\ package.rels.issues
                    /\ package.rels.time = reply.hasTime
                    /\ reply.by = "command" => reply.hasTime
  BY DEF PackageIsConnected
<1>1. IsWhole
  BY DEF ReplyIsOfWhole
<1>2. PICK run \in ProfiledRuns : IsCopied(run, {})
  BY <1>1 DEF IsWhole
<1>3. ValidateSemanticContract(package, "package") = {}
  <2>1. CheckRequiredStarColumns(package) = {}
    BY <1>2, WholeHeaders DEF CheckRequiredStarColumns
  <2>2. UNION {MeasureErrors(package, BuiltinQuality[i]) : i \in DOMAIN BuiltinQuality} = {}
    BY <1>2, MeasuresAreFound
  <2> QED BY <1>1, <2>1, <2>2 DEF IsWhole, ValidateSemanticContract
<1>4. ASSUME package.rels.time PROVE Resolves(Relates("fact_profile_runs", "time_id", "dim_time"))
  <2>1. PICK p : package.time = [t \in {"dim_time"} |-> DimTimeFile(p)]
    BY <1>1, <1>4 DEF IsWhole, CalendarsAreWhole, IsCalendar
  <2>2. \A c : Cells(package, "dim_time", c) = DimTimeFile(p)[c]
    BY <2>1 DEF Cells, FolderOf
  <2>3. /\ Cells(package, "fact_profile_runs", "ts") = {run.day}
        /\ Cells(package, "fact_profile_runs", "time_id") = {TimeId(run.day)}
    BY <1>2, KeysOfRun
  <2> QED BY <2>2, <2>3, DaysHaveIds DEF Resolves, Relates
<1>5. ASSUME NEW r \in RelationshipsOf(package.rels), r /= Relates("fact_profile_runs", "time_id", "dim_time")
      PROVE  Resolves(r)
  <2>1. r \in {Relates("dim_column", "dataset_id", "dim_dataset"),
               Relates("fact_profile_runs", "dataset_id", "dim_dataset"),
               Relates("fact_quality_metrics", "column_id", "dim_column"),
               Relates("fact_issues", "dataset_id", "dim_dataset"),
               Relates("fact_issues", "column_id", "dim_column")}
    BY <1>5 DEF RelationshipsOf, FactIssuesRelationships
  <2>2. \A from, column, to :
            to /= "dim_time" /\ Cells(package, from, column) \ {NoKey} \subseteq Cells(package, to, column) =>
                Resolves(Relates(from, column, to))
    BY DEF Resolves, Relates
  <2>3. /\ Resolves(Relates("dim_column", "dataset_id", "dim_dataset"))
        /\ Resolves(Relates("fact_profile_runs", "dataset_id", "dim_dataset"))
        /\ Resolves(Relates("fact_quality_metrics", "column_id", "dim_column"))
        /\ Resolves(Relates("fact_issues", "dataset_id", "dim_dataset"))
        /\ Resolves(Relates("fact_issues", "column_id", "dim_column"))
    BY <1>2, <2>2, KeysOfRun
  <2> QED BY <2>1, <2>3
<1>6. ASSUME Relates("fact_profile_runs", "time_id", "dim_time") \in RelationshipsOf(package.rels)
      PROVE  package.rels.time
  BY <1>6 DEF RelationshipsOf, FactIssuesRelationships, Relates
<1> QED BY <1>1, <1>3, <1>4, <1>5, <1>6 DEF IsWhole

LEMMA RelateKeepsPackage ==
    ASSUME PackageInv, WriteRelationships
    PROVE  PackageInv'
<1> DEFINE rels == [there |-> TRUE,
                    time |-> building.hasTime /\ CsvHasColumn(package, "fact_profile_runs", "time_id"),
                    issues |-> HasFactIssuesColumns(package)]
<1>1. /\ UNCHANGED <<star, reply, timeVars>> /\ building.at = "relate"
      /\ package' = [package EXCEPT !.rels = rels]
      /\ building' = [building EXCEPT !.at = "validate"]
  BY DEF WriteRelationships
<1>2. /\ rels.time = (building.hasTime /\ CsvHasColumn(package, "fact_profile_runs", "time_id"))
      /\ rels.issues = HasFactIssuesColumns(package)
  OBVIOUS
<1> HIDE DEF rels
<1>3. IsFolder(package') /\ package'.star = package.star /\ package'.time = package.time /\ package'.rels = rels
  BY <1>1 DEF PackageInv, PackageShape, IsFolder
<1>4. /\ building'.at = "validate" /\ building'.hasTime = building.hasTime /\ building'.left = building.left
      /\ building'.by = building.by /\ building'.dim = building.dim /\ building'.whole = building.whole
  BY <1>1 DEF PackageInv, PackageShape
<1>5. PackageShape'
  BY <1>1, <1>3 DEF PackageInv, PackageShape
<1>6. CalendarsAreWhole'
  BY <1>1, <1>3 DEF PackageInv, CalendarsAreWhole, IsCalendar, timeVars
<1>7. building.left = {} /\ reply = NoReply
  BY <1>1 DEF PackageInv, BuildIsOnItsWay
<1>8. building.whole => rels.issues /\ rels.time = building.hasTime
  <2> SUFFICES ASSUME building.whole PROVE rels.issues /\ rels.time = building.hasTime
    OBVIOUS
  <2>1. PICK run \in ProfiledRuns : IsCopied(run, {})
    BY <1>7 DEF PackageInv, BuildIsOnItsWay
  <2>2. CsvHasColumn(package, "fact_profile_runs", "time_id") /\ HasFactIssuesColumns(package)
    BY <2>1, WholeHeaders DEF CsvHasColumn, HasFactIssuesColumns, FactIssuesColumns
  <2> QED BY <1>2, <2>2 DEF PackageInv, PackageShape
<1>9. building'.whole => \E run \in ProfiledRuns : IsCopied(run, building.left)'
  BY <1>3, <1>4 DEF PackageInv, BuildIsOnItsWay, IsCopied
<1>10. BuildIsOnItsWay'
  <2>1. /\ building'.left = {} /\ reply' = NoReply
        /\ building'.hasTime => package'.time /= <<>>
        /\ building'.by = "command" => building'.dim = "package" /\ package'.time /= <<>> /\ building'.hasTime
    BY <1>1, <1>3, <1>4, <1>7 DEF PackageInv, BuildIsOnItsWay
  <2>2. building'.whole => package'.rels.issues /\ package'.rels.time = building'.hasTime
    BY <1>3, <1>4, <1>8
  <2> QED BY <1>4, <1>9, <2>1, <2>2 DEF BuildIsOnItsWay
<1>11. ReplyIsOfWhole'
  BY <1>1, <1>7, NothingIsReplied
<1> QED BY <1>5, <1>6, <1>10, <1>11 DEF PackageInv

LEMMA ValidateKeepsPackage ==
    ASSUME PackageInv, ValidateBuilt
    PROVE  PackageInv'
<1> DEFINE found == ValidatePackage(package)
           base == IF building.by = "command" THEN CmdBuildPbi(IF found.valid THEN "valid" ELSE "failed")
                                              ELSE RenderPbiResult(found)
<1>1. /\ UNCHANGED <<star, package, timeVars>> /\ building.at = "validate" /\ building' = NoBuild
      /\ reply' = [base EXCEPT !.whole = building.whole, !.hasTime = building.hasTime, !.warnings = found.warnings]
  BY DEF ValidateBuilt
<1>2. found.valid => CheckRequired(package) = {}
  BY DEF ValidatePackage
<1>3. /\ base.by = "command" <=> building.by = "command"
      /\ base.outcome = "valid" => found.valid
      /\ DOMAIN base = DOMAIN NoReply
  BY DEF CmdBuildPbi, RenderPbiResult, NoReply
<1> HIDE DEF base, found
<1>4. /\ reply'.by = base.by /\ reply'.outcome = base.outcome
      /\ reply'.whole = building.whole /\ reply'.hasTime = building.hasTime
  BY <1>1, <1>3 DEF NoReply
<1>5. PackageShape' /\ CalendarsAreWhole' /\ BuildIsOnItsWay'
  BY <1>1 DEF PackageInv, PackageShape, CalendarsAreWhole, IsCalendar, BuildIsOnItsWay, NoBuild, timeVars
<1>6. ReplyIsOfWhole'
  <2> SUFFICES ASSUME reply'.outcome = "valid", reply'.whole PROVE IsWhole'
    BY DEF ReplyIsOfWhole
  <2>1. building.whole /\ found.valid
    BY <1>3, <1>4
  <2>2. \E run \in ProfiledRuns : IsCopied(run, {})'
    BY <1>1, <2>1 DEF PackageInv, BuildIsOnItsWay, IsCopied
  <2>3. /\ package.rels.issues /\ package.rels.time = building.hasTime
        /\ building.hasTime => package.time /= <<>>
        /\ building.by = "command" => building.hasTime
    BY <1>1, <2>1 DEF PackageInv, BuildIsOnItsWay
  <2>4. CheckRequired(package)' = {}
    BY <1>1, <1>2, <2>1 DEF CheckRequired, MissingTables
  <2> QED BY <1>1, <1>3, <1>4, <2>2, <2>3, <2>4 DEF IsWhole
<1> QED BY <1>5, <1>6 DEF PackageInv

\* What a build or a check of the measures that is refused answers.
LEMMA AnswersKeepPackage ==
    ASSUME PackageInv, building.at = "idle", UNCHANGED <<star, package, building, timeVars>>,
           (\E by : reply' = Failed(by)) \/ (\E valid \in BOOLEAN : reply' = CmdValidateContract(valid))
    PROVE  PackageInv'
<1>1. PackageShape' /\ CalendarsAreWhole'
  BY DEF PackageInv, PackageShape, CalendarsAreWhole, IsCalendar, timeVars
<1>2. BuildIsOnItsWay'
  BY DEF PackageInv, BuildIsOnItsWay, IsCopied
<1>3. ReplyIsOfWhole'
  <2>1. CASE \E by : reply' = Failed(by)
    BY <2>1, NothingIsReplied
  <2>2. CASE \E valid \in BOOLEAN : reply' = CmdValidateContract(valid)
    <3>1. reply'.by = "contract"
      BY <2>2 DEF CmdValidateContract, NoReply
    <3> QED BY <3>1 DEF ReplyIsOfWhole
  <2> QED BY <2>1, <2>2
<1> QED BY <1>1, <1>2, <1>3 DEF PackageInv

LEMMA PackageStep ==
    ASSUME PackageInv, [PackageNext]_packageVars
    PROVE  PackageInv'
<1>1. ASSUME NEW run, NEW n, ExportStar(run, n) PROVE PackageInv'
  BY <1>1, ExportKeepsPackage
<1>2. ASSUME NEW from, NEW p, ExportPowerbiPackage(from, p) PROVE PackageInv'
  <2>1. CASE BeginBuild("command", from, "package")
             /\ package' = [Scaffold(package) EXCEPT !.time = [t \in {"dim_time"} |-> DimTimeFile(p)]]
    BY <1>2, <2>1, BeginKeepsPackage DEF ExportPowerbiPackage
  <2>2. CASE reply' = Failed("command") /\ UNCHANGED <<building, package>>
    BY <1>2, <2>2, AnswersKeepPackage DEF ExportPowerbiPackage
  <2> QED BY <1>2, <2>1, <2>2 DEF ExportPowerbiPackage
<1>3. ASSUME NEW from, NEW dim \in {"none", "own", "package"}, NEW confirmed,
             RenderPowerbiPackage(from, dim, confirmed)
      PROVE  PackageInv'
  <2>1. CASE BeginBuild("page", from, dim) /\ package' = Scaffold(package)
    BY <1>3, <2>1, BeginKeepsPackage DEF RenderPowerbiPackage
  <2>2. CASE reply' = Failed("page") /\ UNCHANGED <<building, package>>
    BY <1>3, <2>2, AnswersKeepPackage DEF RenderPowerbiPackage
  <2> QED BY <1>3, <2>1, <2>2 DEF RenderPowerbiPackage, GeneratePackage
<1>4. ASSUME NEW path, NEW mode, ValidateBuiltinContract(path, mode) PROVE PackageInv'
  <2>1. \E valid \in BOOLEAN : reply' = CmdValidateContract(valid)
    BY <1>4 DEF ValidateBuiltinContract
  <2> QED BY <1>4, <2>1, AnswersKeepPackage DEF ValidateBuiltinContract
<1>5. CASE BuildDies
  BY <1>5, OthersKeepPackage DEF BuildDies, PackageInv, CalendarsAreWhole, IsCalendar, timeVars
<1>6. ASSUME NEW p, CmdGenDimTime(p), UNCHANGED <<star, package, building, reply, exports, builds>> PROVE PackageInv'
  <2>1. IsCalendar(timeCsv')
    BY <1>6 DEF CmdGenDimTime, GenerateDimTimeWorkflow, IsCalendar
  <2> QED BY <1>6, <2>1, OthersKeepPackage
<1>7. CASE UNCHANGED packageVars
  BY <1>7, OthersKeepPackage DEF packageVars, timeVars, PackageInv, CalendarsAreWhole, IsCalendar
<1> QED BY <1>1, <1>2, <1>3, <1>4, <1>5, <1>6, <1>7, ListKeepsPackage, CopyKeepsPackage, CopyTimeKeepsPackage,
           RelateKeepsPackage, ValidateKeepsPackage DEF PackageNext

\* For any exports into any star folder, any builds over any older package, and deaths between any
\* two of their steps: a package that is called valid and was built from one finished export is
\* connected, and the built-in measures find their sources in it (generate_powerbi_package,
\* validate_package, _validate_semantic_contract).
THEOREM PackagesConnect == PackageSpec => []PackageIsConnected
<1>1. PackageInit => PackageInv
  <2> SUFFICES ASSUME PackageInit PROVE PackageInv
    OBVIOUS
  <2>1. PackageShape
    BY DEF PackageInit, PackageShape, NoPackage, NoBuild, IsFolder
  <2>2. CalendarsAreWhole
    BY DEF PackageInit, TimeInit, CalendarsAreWhole, IsCalendar, NoPackage
  <2>3. BuildIsOnItsWay
    BY DEF PackageInit, BuildIsOnItsWay, NoBuild
  <2>4. ReplyIsOfWhole
    BY DEF PackageInit, ReplyIsOfWhole, NoReply
  <2> QED BY <2>1, <2>2, <2>3, <2>4 DEF PackageInv
<1>2. PackageInv /\ [PackageNext]_packageVars => PackageInv'
  BY PackageStep
<1>3. PackageInv => PackageIsConnected
  BY WholeIsConnected DEF PackageInv
<1> QED BY <1>1, <1>2, <1>3, PTL DEF PackageSpec

-----------------------------------------------------------------------------
(***************************************************************************)
(* Recursions over a number                                                *)
(***************************************************************************)

\* What a step, told its number, makes of each state.
StaysIn(step, S, size) == step \in [S \X (1 .. size) -> S]

Repeats(run, step, S, start, size) ==
    /\ run \in [0 .. size -> S]
    /\ run[0] = start
    /\ \A n \in 1 .. size : run[n] = step[<<run[n - 1], n>>]

\* A step that stays in a set can be repeated.
LEMMA StepsCanBeTaken ==
    ASSUME NEW S, NEW start \in S, NEW size \in Nat, NEW step, StaysIn(step, S, size)
    PROVE  \E run : Repeats(run, step, S, start, size)
<1>0. step \in [S \X (1 .. size) -> S]
  BY DEF StaysIn
<1> DEFINE IsRunTo(run, m) == /\ run \in [0 .. m -> S] /\ run[0] = start
                              /\ \A n \in 1 .. m : run[n] = step[<<run[n - 1], n>>]
           T == {m \in Nat : m <= size => \E run : IsRunTo(run, m)}
<1>1. 0 \in T
  <2>1. IsRunTo([n \in 0 .. 0 |-> start], 0)
    OBVIOUS
  <2> QED
    BY <2>1
<1>2. ASSUME NEW m \in Nat, m \in T PROVE m + 1 \in T
  <2>1. SUFFICES ASSUME m + 1 <= size PROVE \E next : IsRunTo(next, m + 1)
    OBVIOUS
  <2>2. PICK run : IsRunTo(run, m)
    BY <1>2, <2>1
  <2>3. run[m] \in S /\ m + 1 \in 1 .. size
    BY <2>1, <2>2
  <2> DEFINE next == [n \in 0 .. m + 1 |-> IF n = m + 1 THEN step[<<run[m], m + 1>>] ELSE run[n]]
  <2>4. step[<<run[m], m + 1>>] \in S
    BY <1>0, <2>3
  <2>5. next \in [0 .. m + 1 -> S] /\ next[0] = start /\ next[m + 1] = step[<<run[m], m + 1>>]
    BY <2>2, <2>4
  <2>6. \A n \in 0 .. m : next[n] = run[n]
    OBVIOUS
  <2> HIDE DEF next
  <2>7. ASSUME NEW n \in 1 .. m + 1 PROVE next[n] = step[<<next[n - 1], n>>]
    <3>1. next[n - 1] = run[n - 1]
      BY <2>6
    <3>2. CASE n = m + 1
      BY <2>5, <3>1, <3>2
    <3>3. CASE n # m + 1
      <4>1. n \in 1 .. m /\ next[n] = run[n]
        BY <2>6, <3>3
      <4> QED
        BY <2>2, <3>1, <4>1
    <3> QED
      BY <3>2, <3>3
  <2> QED
    BY <2>5, <2>7
<1>3. size \in T
  <2> HIDE DEF T
  <2> QED
    BY <1>1, <1>2, Induction
<1> QED
  BY <1>3 DEF Repeats

\* A sequence without its last element.
LEMMA FrontOfSequence ==
    ASSUME NEW S, NEW s \in Seq(S), s # <<>>
    PROVE  /\ Front(s) \in Seq(S) /\ Len(Front(s)) = Len(s) - 1 /\ Len(s) \in Nat \ {0}
           /\ \A i \in 1 .. Len(s) - 1 : Front(s)[i] = s[i]
           /\ Last(s) = s[Len(s)] /\ Last(s) \in S
<1>1. Len(s) \in Nat /\ Len(s) # 0
  BY EmptySeq, LenProperties
<1>2. s \in [1 .. Len(s) -> S]
  BY LenProperties
<1>3. Front(s) = [i \in 1 .. Len(s) - 1 |-> s[i]]
  BY <1>1, <1>2 DEF Front
<1>4. Front(s) \in [1 .. Len(s) - 1 -> S]
  BY <1>1, <1>2, <1>3
<1>5. Front(s) \in Seq(S)
  BY <1>1, <1>4
<1> QED
  BY <1>1, <1>2, <1>3, <1>4, <1>5 DEF Last

\* The elements of a sequence that grows.
LEMMA ElementsOfAppended ==
    ASSUME NEW S, NEW s \in Seq(S), NEW e \in S
    PROVE  /\ Append(s, e) \in Seq(S) /\ Len(Append(s, e)) = Len(s) + 1 /\ Len(s) \in Nat
           /\ DOMAIN Append(s, e) = 1 .. Len(s) + 1 /\ DOMAIN s = 1 .. Len(s)
           /\ \A i \in 1 .. Len(s) : Append(s, e)[i] = s[i]
           /\ Append(s, e)[Len(s) + 1] = e
           /\ ToSet(Append(s, e)) = ToSet(s) \cup {e}
BY AppendProperties, LenProperties DEF ToSet

-----------------------------------------------------------------------------
(***************************************************************************)
(* The walk over the graph of a catalog                                    *)
(***************************************************************************)

Nodes(g) == ToSet(g.nodes)

\* What is needed is known, and None is no KPI.
IsGraph(g) ==
    /\ g.nodes \in Seq(Nodes(g))
    /\ NoKpi \notin Nodes(g)
    /\ g.needs \in [Nodes(g) -> Seq(Nodes(g))]

\* Each is needed by the next one, and the last by the first.
IsCycle(g, cycle) ==
    /\ cycle \in Seq(Nodes(g)) /\ cycle # <<>> /\ IsInjective(cycle)
    /\ \A j \in DOMAIN cycle : cycle[j] \in ToSet(g.needs[cycle[IF j = Len(cycle) THEN 1 ELSE j + 1]])

WalkStates(g) ==
    [color : [Nodes(g) -> 0 .. 2], parent : [Nodes(g) -> Nodes(g) \cup {NoKpi}], path : Seq(Nodes(g)),
     passed : [Nodes(g) \cup {NoKpi} -> Nat], cycles : Seq(Seq(Nodes(g))), order : Seq(Nodes(g))]

\* Nothing is passed that is not followed, and nothing before a KPI is visited.
PassedInRange(g, s) ==
    /\ \A u \in Nodes(g) \cup {NoKpi} : s.passed[u] <= Len(Follows(g, u))
    /\ \A u \in Nodes(g) : s.color[u] = 0 => s.passed[u] = 0

\* The KPIs being visited are the path, each the parent of the next, which it needs.
PathIsVisited(g, s) ==
    /\ IsInjective(s.path)
    /\ \A u \in Nodes(g) : s.color[u] = 1 <=> u \in ToSet(s.path)
    /\ \A i \in 2 .. Len(s.path) : /\ s.parent[s.path[i]] = s.path[i - 1]
                                   /\ s.path[i] \in ToSet(g.needs[s.path[i - 1]])

\* What was noted is a cycle.
CyclesAreReal(g, s) == \A i \in DOMAIN s.cycles : IsCycle(g, s.cycles[i])

\* The order has the KPIs that are done, once each.
OrderIsDone(g, s) ==
    /\ IsInjective(s.order)
    /\ \A u \in Nodes(g) : s.color[u] = 2 <=> u \in ToSet(s.order)

\* What a KPI needs stands before it.
NeedsBefore(g, order) ==
    \A b \in DOMAIN order : \A k \in 1 .. Len(g.needs[order[b]]) :
        \E a \in 1 .. b - 1 : order[a] = g.needs[order[b]][k]

\* What was passed is done, or is the KPI that is visited next on the path.
PassedIsDone(g, s) ==
    /\ \A i \in 1 .. Len(s.path) : \A k \in 1 .. s.passed[s.path[i]] :
           \/ g.needs[s.path[i]][k] \in ToSet(s.order)
           \/ i < Len(s.path) /\ g.needs[s.path[i]][k] = s.path[i + 1]
    /\ \A k \in 1 .. s.passed[NoKpi] :
           \/ g.nodes[k] \in ToSet(s.order)
           \/ 0 < Len(s.path) /\ g.nodes[k] = s.path[1]

\* The invariant of the walk; of the order it speaks until a cycle is found.
WalkInv(g, s) ==
    /\ s \in WalkStates(g)
    /\ PassedInRange(g, s)
    /\ PathIsVisited(g, s)
    /\ CyclesAreReal(g, s)
    /\ OrderIsDone(g, s)
    /\ s.cycles = <<>> => NeedsBefore(g, s.order) /\ PassedIsDone(g, s)

\* Who is visited and what is followed.
LEMMA WhoIsVisited ==
    ASSUME NEW g, IsGraph(g), NEW s, WalkInv(g, s), NEW u, u = Visited(s)
    PROVE  /\ u \in Nodes(g) \cup {NoKpi} /\ s.passed[u] \in Nat
           /\ (u = NoKpi <=> Len(s.path) = 0) /\ (u = NoKpi <=> s.path = <<>>) /\ Len(s.path) \in Nat
           /\ u # NoKpi => /\ Len(s.path) \in Nat \ {0} /\ u = s.path[Len(s.path)] /\ u \in Nodes(g)
                           /\ s.color[u] = 1
           /\ Follows(g, u) \in Seq(Nodes(g)) /\ Len(Follows(g, u)) \in Nat
<1>1. s.path \in Seq(Nodes(g)) /\ s.passed \in [Nodes(g) \cup {NoKpi} -> Nat] /\ PathIsVisited(g, s)
  BY DEF WalkInv, WalkStates
<1>2. CASE s.path = <<>>
  BY <1>1, <1>2, LenProperties DEF Visited, Follows, IsGraph
<1>3. CASE s.path # <<>>
  <2>1. Len(s.path) \in Nat \ {0} /\ u = s.path[Len(s.path)] /\ u \in Nodes(g)
    BY <1>1, <1>3, FrontOfSequence DEF Visited
  <2>2. u \in ToSet(s.path)
    BY <1>1, <2>1, LenProperties DEF ToSet
  <2>3. u # NoKpi /\ Follows(g, u) \in Seq(Nodes(g))
    BY <2>1 DEF IsGraph, Follows
  <2> QED
    BY <1>1, <1>3, <2>1, <2>2, <2>3, LenProperties DEF PathIsVisited
<1> QED
  BY <1>2, <1>3

\* One element more.
Grows(s, e, t) ==
    /\ Len(s) \in Nat /\ DOMAIN s = 1 .. Len(s)
    /\ Len(t) = Len(s) + 1 /\ DOMAIN t = 1 .. Len(s) + 1
    /\ \A i \in 1 .. Len(s) : t[i] = s[i]
    /\ t[Len(s) + 1] = e
    /\ ToSet(t) = ToSet(s) \cup {e}

\* A KPI that was not visited is.
LEMMA EnterKeeps ==
    ASSUME NEW g, IsGraph(g), NEW s, WalkInv(g, s), NEW u, u = Visited(s), NEW n, n = s.passed[u] + 1,
           n <= Len(Follows(g, u)), NEW v, v = Follows(g, u)[n], s.color[v] = 0,
           NEW t \in WalkStates(g), t.color = [s.color EXCEPT ![v] = 1], t.parent = [s.parent EXCEPT ![v] = u],
           Grows(s.path, v, t.path), t.passed = [s.passed EXCEPT ![u] = n],
           t.cycles = s.cycles, t.order = s.order
    PROVE  WalkInv(g, t)
<1> DEFINE N == Nodes(g)
<1>1. /\ u \in N \cup {NoKpi} /\ s.passed[u] \in Nat
      /\ (u = NoKpi <=> Len(s.path) = 0) /\ (u = NoKpi <=> s.path = <<>>) /\ Len(s.path) \in Nat
      /\ u # NoKpi => /\ Len(s.path) \in Nat \ {0} /\ u = s.path[Len(s.path)] /\ u \in N /\ s.color[u] = 1
      /\ Follows(g, u) \in Seq(N) /\ Len(Follows(g, u)) \in Nat
  BY WhoIsVisited
<1>2. /\ s \in WalkStates(g) /\ PassedInRange(g, s) /\ PathIsVisited(g, s) /\ CyclesAreReal(g, s)
      /\ OrderIsDone(g, s) /\ (s.cycles = <<>> => NeedsBefore(g, s.order) /\ PassedIsDone(g, s))
  BY DEF WalkInv
<1>3. /\ s.color \in [N -> 0 .. 2] /\ s.parent \in [N -> N \cup {NoKpi}] /\ s.path \in Seq(N)
      /\ s.passed \in [N \cup {NoKpi} -> Nat] /\ s.cycles \in Seq(Seq(N)) /\ s.order \in Seq(N)
  BY <1>2 DEF WalkStates
<1>4. n \in 1 .. Len(Follows(g, u)) /\ n \in Nat /\ v \in N /\ v # u
  BY <1>1, ElementOfSeq DEF IsGraph
<1>5. /\ t \in WalkStates(g)
      /\ t.color = [s.color EXCEPT ![v] = 1] /\ t.parent = [s.parent EXCEPT ![v] = u]
      /\ t.passed = [s.passed EXCEPT ![u] = n]
      /\ t.cycles = s.cycles /\ t.order = s.order
  OBVIOUS
<1> DEFINE p == s.path  m == Len(s.path)
<1>7. /\ m \in Nat /\ Len(t.path) = m + 1 /\ DOMAIN t.path = 1 .. m + 1 /\ DOMAIN p = 1 .. m
      /\ \A i \in 1 .. m : t.path[i] = p[i] /\ p[i] \in N /\ p[i] # v
      /\ t.path[m + 1] = v /\ ToSet(t.path) = ToSet(p) \cup {v} /\ v \notin ToSet(p)
  <2>1. v \notin ToSet(p)
    BY <1>2, <1>4 DEF PathIsVisited
  <2>2. \A i \in 1 .. m : p[i] \in N
    BY <1>3, ElementOfSeq
  <2>3. /\ Len(t.path) = m + 1 /\ m \in Nat /\ DOMAIN t.path = 1 .. m + 1 /\ DOMAIN p = 1 .. m
        /\ \A i \in 1 .. m : t.path[i] = p[i]
        /\ t.path[m + 1] = v /\ ToSet(t.path) = ToSet(p) \cup {v}
    BY DEF Grows
  <2>4. \A i \in 1 .. m : p[i] \in ToSet(p)
    BY <2>3 DEF ToSet
  <2> QED
    BY <2>1, <2>2, <2>3, <2>4
<1>6. /\ NoKpi \notin N /\ (u = NoKpi => m = 0 /\ t.path[1] = v)
      /\ u # NoKpi => m \in 1 .. m /\ m # 0 /\ u = p[m] /\ t.path[m] = u
  <2>1. NoKpi \notin N
    BY DEF IsGraph
  <2>2. ASSUME u = NoKpi PROVE m = 0 /\ t.path[1] = v
    <3>1. m = 0
      BY <1>1, <2>2
    <3> QED
      BY <1>7, <3>1
  <2>3. ASSUME u # NoKpi PROVE m \in 1 .. m /\ m # 0 /\ u = p[m]
    BY <1>1, <2>3
  <2> QED
    BY <1>7, <2>1, <2>2, <2>3
<1>8. PassedInRange(g, t)
  <2>1. ASSUME NEW w \in N \cup {NoKpi} PROVE t.passed[w] <= Len(Follows(g, w))
    BY <1>2, <1>3, <1>4, <1>5 DEF PassedInRange
  <2>2. ASSUME NEW w \in N, t.color[w] = 0 PROVE t.passed[w] = 0
    <3>1. w # v /\ s.color[w] = 0
      BY <1>3, <1>5, <2>2
    <3>2. w # u
      BY <1>1, <3>1 DEF IsGraph
    <3> QED
      BY <1>2, <1>3, <1>5, <3>1, <3>2 DEF PassedInRange
  <2> QED
    BY <2>1, <2>2 DEF PassedInRange
<1>9. PathIsVisited(g, t)
  <2>1. IsInjective(t.path)
    <3>1. \A a, b \in 1 .. m : p[a] = p[b] => a = b
      BY <1>2, <1>7 DEF PathIsVisited, IsInjective
    <3>2. ASSUME NEW a \in 1 .. m + 1, NEW b \in 1 .. m + 1, t.path[a] = t.path[b] PROVE a = b
      <4>1. CASE a \in 1 .. m /\ b \in 1 .. m
        BY <1>7, <3>1, <3>2, <4>1
      <4>2. CASE a = m + 1 /\ b \in 1 .. m
        BY <1>7, <3>2, <4>2
      <4>3. CASE a \in 1 .. m /\ b = m + 1
        BY <1>7, <3>2, <4>3
      <4>4. CASE a = m + 1 /\ b = m + 1
        BY <4>4
      <4> QED
        BY <1>7, <3>2, <4>1, <4>2, <4>3, <4>4
    <3> QED
      BY <1>7, <3>2 DEF IsInjective
  <2>2. ASSUME NEW w \in N PROVE t.color[w] = 1 <=> w \in ToSet(t.path)
    BY <1>2, <1>3, <1>5, <1>7 DEF PathIsVisited
  <2>3. ASSUME NEW i \in 2 .. m + 1
        PROVE  t.parent[t.path[i]] = t.path[i - 1] /\ t.path[i] \in ToSet(g.needs[t.path[i - 1]])
    <3>1. i - 1 \in 1 .. m /\ t.path[i - 1] = p[i - 1]
      BY <1>7
    <3>2. CASE i = m + 1
      <4>1. m # 0 /\ u # NoKpi /\ u = p[m]
        BY <1>1, <3>1, <3>2
      <4>2. v \in ToSet(g.needs[u])
        <5>1. g.needs[u] = Follows(g, u)
          BY <4>1 DEF Follows
        <5>2. DOMAIN g.needs[u] = 1 .. Len(Follows(g, u))
          BY <1>1, <5>1, LenProperties
        <5> QED
          BY <1>4, <5>1, <5>2 DEF ToSet
      <4> QED
        <5>1. t.path[i] = v /\ t.path[i - 1] = u
          <6>1. t.path[i] = v
            BY <1>7, <3>2
          <6>2. i - 1 = m
            BY <1>7, <3>2
          <6> QED
            BY <3>1, <4>1, <6>1, <6>2
        <5>2. t.parent[v] = u
          BY <1>3, <1>4, <1>5
        <5> QED
          BY <4>2, <5>1, <5>2
    <3>3. CASE i # m + 1
      <4>1. i \in 2 .. m /\ t.path[i] = p[i] /\ p[i] # v /\ p[i] \in N
        BY <1>7, <3>3
      <4>2. s.parent[p[i]] = p[i - 1] /\ p[i] \in ToSet(g.needs[p[i - 1]])
        BY <1>2, <4>1 DEF PathIsVisited
      <4>3. t.parent[p[i]] = s.parent[p[i]]
        BY <1>3, <1>4, <1>5, <4>1
      <4> QED
        BY <3>1, <4>1, <4>2, <4>3
    <3> QED
      BY <3>2, <3>3
  <2> QED
    BY <1>7, <2>1, <2>2, <2>3 DEF PathIsVisited
<1>10. CyclesAreReal(g, t)
  BY <1>2, <1>5 DEF CyclesAreReal
<1>11. OrderIsDone(g, t)
  BY <1>2, <1>3, <1>5 DEF OrderIsDone
<1>12. ASSUME t.cycles = <<>> PROVE PassedIsDone(g, t) /\ NeedsBefore(g, t.order)
  <2>1. NeedsBefore(g, s.order) /\ PassedIsDone(g, s)
    BY <1>2, <1>5, <1>12
  <2>2. ASSUME NEW i \in 1 .. m + 1, NEW k \in 1 .. t.passed[t.path[i]]
        PROVE  \/ g.needs[t.path[i]][k] \in ToSet(t.order)
               \/ i < m + 1 /\ g.needs[t.path[i]][k] = t.path[i + 1]
    <3>1. CASE i = m + 1
      <4>1. s.passed[v] = 0
        BY <1>2, <1>4 DEF PassedInRange
      <4>2. t.passed[v] = 0 /\ t.path[i] = v
        BY <1>3, <1>4, <1>5, <1>7, <3>1, <4>1
      <4> QED
        BY <2>2, <4>2
    <3>2. CASE i = m /\ k = n
      <4>1. m # 0 /\ m + 1 # m
        BY <1>7, <2>2, <3>2
      <4>2. u # NoKpi /\ u = p[m] /\ t.path[i] = u /\ t.path[i + 1] = v
        <5>1. u # NoKpi /\ u = p[m] /\ t.path[m] = u
          BY <1>6, <4>1
        <5>2. t.path[m + 1] = v
          BY <1>7
        <5> QED
          BY <3>2, <5>1, <5>2
      <4>3. g.needs[u][n] = v
        BY <4>2 DEF Follows
      <4>4. i < m + 1
        BY <1>7, <3>2
      <4> QED
        BY <3>2, <4>2, <4>3, <4>4
    <3>3. CASE i \in 1 .. m /\ ~ (i = m /\ k = n)
      <4>1. t.path[i] = p[i] /\ p[i] \in N
        BY <1>7, <3>3
      <4>2. k \in 1 .. s.passed[p[i]]
        <5>1. CASE p[i] = u
          <6>1. i = m
            <7>1. u # NoKpi /\ m \in 1 .. m /\ u = p[m]
              BY <1>6, <4>1, <5>1
            <7>2. \A a, b \in 1 .. m : p[a] = p[b] => a = b
              BY <1>2, <1>7 DEF PathIsVisited, IsInjective
            <7> QED
              BY <3>3, <5>1, <7>1, <7>2
          <6>2. t.passed[p[i]] = n
            BY <1>1, <1>3, <1>5, <5>1
          <6> QED
            BY <1>1, <2>2, <3>3, <4>1, <5>1, <6>1, <6>2
        <5>2. CASE p[i] # u
          <6>1. t.passed[p[i]] = s.passed[p[i]]
            BY <1>3, <1>5, <4>1, <5>2
          <6> QED
            BY <2>2, <4>1, <6>1
        <5> QED
          BY <5>1, <5>2
      <4>3. \/ g.needs[p[i]][k] \in ToSet(s.order)
            \/ i < m /\ g.needs[p[i]][k] = p[i + 1]
        BY <2>1, <3>3, <4>2 DEF PassedIsDone
      <4> QED
        BY <1>5, <1>7, <3>3, <4>1, <4>3
    <3> QED
      BY <1>7, <2>2, <3>1, <3>2, <3>3
  <2>3. ASSUME NEW k \in 1 .. t.passed[NoKpi]
        PROVE  \/ g.nodes[k] \in ToSet(t.order)
               \/ 0 < m + 1 /\ g.nodes[k] = t.path[1]
    <3>1. CASE u = NoKpi /\ k = n
      <4>1. m = 0 /\ t.path[1] = v
        BY <1>6, <3>1
      <4>2. Follows(g, u) = g.nodes
        BY <3>1 DEF Follows
      <4>3. v = g.nodes[k]
        BY <3>1, <4>2
      <4>4. 0 < m + 1
        BY <4>1
      <4> QED
        BY <4>1, <4>3, <4>4
    <3>2. CASE ~ (u = NoKpi /\ k = n)
      <4>1. k \in 1 .. s.passed[NoKpi]
        <5>1. CASE u = NoKpi
          <6>1. t.passed[NoKpi] = n
            BY <1>3, <1>5, <5>1
          <6> QED
            BY <1>1, <2>3, <3>2, <5>1, <6>1
        <5>2. CASE u # NoKpi
          <6>1. t.passed[NoKpi] = s.passed[NoKpi]
            BY <1>3, <1>5, <5>2
          <6> QED
            BY <2>3, <6>1
        <5> QED
          BY <5>1, <5>2
      <4>2. \/ g.nodes[k] \in ToSet(s.order)
            \/ 0 < m /\ g.nodes[k] = p[1]
        BY <2>1, <4>1 DEF PassedIsDone
      <4> QED
        BY <1>5, <1>7, <4>2
    <3> QED
      BY <3>1, <3>2
  <2> QED
    BY <1>5, <1>7, <2>1, <2>2, <2>3 DEF PassedIsDone
<1> QED
  BY <1>5, <1>8, <1>9, <1>10, <1>11, <1>12 DEF WalkInv

\* A KPI that is needed was visited before: at most a cycle is noted.
LEMMA PassKeeps ==
    ASSUME NEW g, IsGraph(g), NEW s, WalkInv(g, s), NEW u, u = Visited(s), NEW n, n = s.passed[u] + 1,
           n <= Len(Follows(g, u)), NEW v, v = Follows(g, u)[n],
           NEW t \in WalkStates(g), t.color = s.color, t.parent = s.parent, t.path = s.path,
           t.passed = [s.passed EXCEPT ![u] = n], t.order = s.order,
           \/ s.color[v] = 2 /\ t.cycles = s.cycles
           \/ t.cycles # <<>> /\ CyclesAreReal(g, t)
    PROVE  WalkInv(g, t)
<1> DEFINE N == Nodes(g)  p == s.path  m == Len(s.path)
<1>1. /\ u \in N \cup {NoKpi} /\ s.passed[u] \in Nat
      /\ (u = NoKpi <=> m = 0) /\ m \in Nat
      /\ u # NoKpi => u = p[m] /\ u \in N /\ s.color[u] = 1
      /\ Follows(g, u) \in Seq(N) /\ Len(Follows(g, u)) \in Nat
  BY WhoIsVisited
<1>2. /\ s \in WalkStates(g) /\ PassedInRange(g, s) /\ PathIsVisited(g, s) /\ CyclesAreReal(g, s)
      /\ OrderIsDone(g, s) /\ (s.cycles = <<>> => NeedsBefore(g, s.order) /\ PassedIsDone(g, s))
  BY DEF WalkInv
<1>3. /\ s.color \in [N -> 0 .. 2] /\ s.path \in Seq(N) /\ s.passed \in [N \cup {NoKpi} -> Nat]
  BY <1>2 DEF WalkStates
<1>4. n \in 1 .. Len(Follows(g, u)) /\ n \in Nat /\ v \in N /\ NoKpi \notin N
  BY <1>1, ElementOfSeq DEF IsGraph
<1>5. t.passed[u] = n /\ \A w \in N \cup {NoKpi} : w # u => t.passed[w] = s.passed[w]
  BY <1>1, <1>3
<1>6. PassedInRange(g, t)
  <2>1. ASSUME NEW w \in N \cup {NoKpi} PROVE t.passed[w] <= Len(Follows(g, w))
    <3>1. CASE w = u
      BY <1>5, <3>1
    <3>2. CASE w # u
      <4>1. t.passed[w] = s.passed[w]
        BY <1>5, <3>2
      <4> QED
        BY <1>2, <4>1 DEF PassedInRange
    <3> QED
      BY <3>1, <3>2
  <2>2. ASSUME NEW w \in N, t.color[w] = 0 PROVE t.passed[w] = 0
    <3>1. w # u
      BY <1>1, <1>4, <2>2
    <3>2. s.passed[w] = 0
      BY <1>2, <2>2 DEF PassedInRange
    <3> QED
      BY <1>5, <3>1, <3>2
  <2> QED
    BY <2>1, <2>2 DEF PassedInRange
<1>7. PathIsVisited(g, t)
  BY <1>2 DEF PathIsVisited
<1>8. OrderIsDone(g, t)
  BY <1>2 DEF OrderIsDone
<1>9. CyclesAreReal(g, t)
  BY <1>2 DEF CyclesAreReal
<1>10. ASSUME t.cycles = <<>> PROVE NeedsBefore(g, t.order) /\ PassedIsDone(g, t)
  <2>1. s.color[v] = 2 /\ NeedsBefore(g, s.order) /\ PassedIsDone(g, s)
    BY <1>2, <1>10
  <2>2. v \in ToSet(s.order)
    BY <1>2, <1>4, <2>1 DEF OrderIsDone
  <2>3. ASSUME NEW i \in 1 .. m, NEW k \in 1 .. t.passed[p[i]]
        PROVE  \/ g.needs[p[i]][k] \in ToSet(s.order)
               \/ i < m /\ g.needs[p[i]][k] = p[i + 1]
    <3>1. p[i] \in N
      BY <1>3, ElementOfSeq
    <3>2. CASE p[i] = u /\ k = n
      <4>1. g.needs[u] = Follows(g, u)
        BY <1>4, <3>1, <3>2 DEF Follows
      <4> QED
        BY <2>2, <3>2, <4>1
    <3>3. CASE ~ (p[i] = u /\ k = n)
      <4>1. k \in 1 .. s.passed[p[i]]
        <5>1. CASE p[i] = u
          BY <1>1, <1>4, <1>5, <2>3, <3>3, <5>1
        <5>2. CASE p[i] # u
          BY <1>5, <2>3, <3>1, <5>2
        <5> QED
          BY <5>1, <5>2
      <4> QED
        BY <2>1, <4>1 DEF PassedIsDone
    <3> QED
      BY <3>2, <3>3
  <2>4. ASSUME NEW k \in 1 .. t.passed[NoKpi]
        PROVE  \/ g.nodes[k] \in ToSet(s.order)
               \/ 0 < m /\ g.nodes[k] = p[1]
    <3>1. CASE u = NoKpi /\ k = n
      <4>1. g.nodes = Follows(g, u)
        BY <3>1 DEF Follows
      <4> QED
        BY <2>2, <3>1, <4>1
    <3>2. CASE ~ (u = NoKpi /\ k = n)
      <4>1. k \in 1 .. s.passed[NoKpi]
        <5>1. CASE u = NoKpi
          BY <1>1, <1>4, <1>5, <2>4, <3>2, <5>1
        <5>2. CASE u # NoKpi
          BY <1>5, <2>4, <5>2
        <5> QED
          BY <5>1, <5>2
      <4> QED
        BY <2>1, <4>1 DEF PassedIsDone
    <3> QED
      BY <3>1, <3>2
  <2> QED
    BY <2>1, <2>3, <2>4 DEF PassedIsDone
<1> QED
  BY <1>6, <1>7, <1>8, <1>9, <1>10 DEF WalkInv

\* A KPI whose needs were all passed is done.
LEMMA LeaveKeeps ==
    ASSUME NEW g, IsGraph(g), NEW s, WalkInv(g, s), NEW u, u = Visited(s), u # NoKpi,
           s.passed[u] + 1 > Len(Follows(g, u)),
           NEW t \in WalkStates(g), t.color = [s.color EXCEPT ![u] = 2], t.parent = s.parent,
           Grows(t.path, u, s.path), t.passed = s.passed, t.cycles = s.cycles, Grows(s.order, u, t.order)
    PROVE  WalkInv(g, t)
<1> DEFINE N == Nodes(g)  p == s.path  m == Len(s.path)  q == t.path  o == Len(s.order)
<1>1. /\ u \in N /\ s.passed[u] \in Nat /\ m \in Nat /\ u = p[m] /\ s.color[u] = 1
      /\ Follows(g, u) = g.needs[u] /\ Len(g.needs[u]) \in Nat
  BY WhoIsVisited DEF Follows
<1>2. /\ s \in WalkStates(g) /\ PassedInRange(g, s) /\ PathIsVisited(g, s) /\ CyclesAreReal(g, s)
      /\ OrderIsDone(g, s) /\ (s.cycles = <<>> => NeedsBefore(g, s.order) /\ PassedIsDone(g, s))
  BY DEF WalkInv
<1>3. /\ s.color \in [N -> 0 .. 2] /\ p \in Seq(N) /\ s.passed \in [N \cup {NoKpi} -> Nat]
  BY <1>2 DEF WalkStates
<1>4. /\ m \in 1 .. m /\ Len(q) = m - 1 /\ DOMAIN q = 1 .. m - 1 /\ DOMAIN p = 1 .. m
      /\ \A i \in 1 .. m - 1 : q[i] = p[i]
      /\ ToSet(p) = ToSet(q) \cup {u}
  BY <1>1 DEF Grows
<1>5. /\ o \in Nat /\ Len(t.order) = o + 1 /\ DOMAIN s.order = 1 .. o /\ DOMAIN t.order = 1 .. o + 1
      /\ \A i \in 1 .. o : t.order[i] = s.order[i]
      /\ t.order[o + 1] = u /\ ToSet(t.order) = ToSet(s.order) \cup {u}
  BY DEF Grows
<1>6. \A a, b \in 1 .. m : p[a] = p[b] => a = b
  BY <1>2, <1>4 DEF PathIsVisited, IsInjective
<1>7. u \notin ToSet(q)
  <2>1. ASSUME NEW i \in 1 .. m - 1 PROVE q[i] # u
    BY <1>1, <1>4, <1>6
  <2> QED
    BY <1>4, <2>1 DEF ToSet
<1>8. u \notin ToSet(s.order)
  BY <1>1, <1>2 DEF OrderIsDone
<1>9. PassedInRange(g, t)
  <2>1. ASSUME NEW w \in N, t.color[w] = 0 PROVE s.color[w] = 0
    BY <1>1, <1>3, <2>1
  <2> QED
    BY <1>2, <2>1 DEF PassedInRange
<1>10. PathIsVisited(g, t)
  <2>1. IsInjective(q)
    BY <1>4, <1>6 DEF IsInjective
  <2>2. ASSUME NEW w \in N PROVE t.color[w] = 1 <=> w \in ToSet(q)
    <3>1. s.color[w] = 1 <=> w \in ToSet(p)
      BY <1>2 DEF PathIsVisited
    <3>2. CASE w = u
      BY <1>1, <1>3, <1>7, <3>2
    <3>3. CASE w # u
      BY <1>3, <1>4, <3>1, <3>3
    <3> QED
      BY <3>2, <3>3
  <2>3. ASSUME NEW i \in 2 .. m - 1
        PROVE  t.parent[q[i]] = q[i - 1] /\ q[i] \in ToSet(g.needs[q[i - 1]])
    <3>1. i \in 1 .. m - 1 /\ i - 1 \in 1 .. m - 1 /\ i \in 2 .. m
      BY <1>1
    <3>2. q[i] = p[i] /\ q[i - 1] = p[i - 1]
      BY <1>4, <3>1
    <3> QED
      BY <1>2, <3>1, <3>2 DEF PathIsVisited
  <2> QED
    BY <1>4, <2>1, <2>2, <2>3 DEF PathIsVisited
<1>11. CyclesAreReal(g, t)
  BY <1>2 DEF CyclesAreReal
<1>12. OrderIsDone(g, t)
  <2>1. \A a, b \in 1 .. o : s.order[a] = s.order[b] => a = b
    BY <1>2, <1>5 DEF OrderIsDone, IsInjective
  <2>2. \A a \in 1 .. o : s.order[a] # u
    BY <1>5, <1>8 DEF ToSet
  <2>3. ASSUME NEW a \in 1 .. o + 1, NEW b \in 1 .. o + 1, t.order[a] = t.order[b] PROVE a = b
    <3>1. CASE a \in 1 .. o /\ b \in 1 .. o
      BY <1>5, <2>1, <2>3, <3>1
    <3>2. CASE a = o + 1 /\ b \in 1 .. o
      BY <1>5, <2>2, <2>3, <3>2
    <3>3. CASE a \in 1 .. o /\ b = o + 1
      BY <1>5, <2>2, <2>3, <3>3
    <3>4. CASE a = o + 1 /\ b = o + 1
      BY <3>4
    <3> QED
      BY <1>5, <2>3, <3>1, <3>2, <3>3, <3>4
  <2>4. IsInjective(t.order)
    BY <1>5, <2>3 DEF IsInjective
  <2>5. ASSUME NEW w \in N PROVE t.color[w] = 2 <=> w \in ToSet(t.order)
    <3>1. s.color[w] = 2 <=> w \in ToSet(s.order)
      BY <1>2 DEF OrderIsDone
    <3> QED
      BY <1>1, <1>3, <1>5, <3>1
  <2> QED
    BY <2>4, <2>5 DEF OrderIsDone
<1>13. ASSUME t.cycles = <<>> PROVE NeedsBefore(g, t.order) /\ PassedIsDone(g, t)
  <2>1. NeedsBefore(g, s.order) /\ PassedIsDone(g, s)
    BY <1>2, <1>13
  <2>2. ASSUME NEW b \in 1 .. o + 1, NEW k \in 1 .. Len(g.needs[t.order[b]])
        PROVE  \E a \in 1 .. b - 1 : t.order[a] = g.needs[t.order[b]][k]
    <3>1. CASE b = o + 1
      <4>1. t.order[b] = u
        BY <1>5, <3>1
      <4>2. k \in 1 .. s.passed[u]
        BY <1>1, <2>2, <4>1
      <4>3. g.needs[p[m]][k] \in ToSet(s.order) \/ m < m
        <5>1. k \in 1 .. s.passed[p[m]] /\ m \in 1 .. m
          BY <1>1, <1>4, <4>2
        <5> QED
          BY <2>1, <5>1 DEF PassedIsDone
      <4>4. g.needs[u][k] \in ToSet(s.order)
        <5>1. ~ (m < m)
          BY <1>1
        <5> QED
          BY <1>1, <4>3, <5>1
      <4>5. PICK a \in 1 .. o : s.order[a] = g.needs[u][k]
        BY <1>5, <4>4 DEF ToSet
      <4>6. a \in 1 .. b - 1 /\ t.order[a] = s.order[a]
        BY <1>5, <3>1
      <4> QED
        BY <4>1, <4>5, <4>6
    <3>2. CASE b # o + 1
      <4>1. b \in 1 .. o /\ t.order[b] = s.order[b]
        BY <1>5, <3>2
      <4>2. k \in 1 .. Len(g.needs[s.order[b]])
        BY <2>2, <4>1
      <4>3. PICK a \in 1 .. b - 1 : s.order[a] = g.needs[s.order[b]][k]
        BY <1>5, <2>1, <4>1, <4>2 DEF NeedsBefore
      <4>4. t.order[a] = s.order[a]
        BY <1>5, <4>1, <4>3
      <4> QED
        BY <4>1, <4>3, <4>4
    <3> QED
      BY <3>1, <3>2
  <2>3. ASSUME NEW i \in 1 .. m - 1, NEW k \in 1 .. s.passed[q[i]]
        PROVE  \/ g.needs[q[i]][k] \in ToSet(t.order)
               \/ i < m - 1 /\ g.needs[q[i]][k] = q[i + 1]
    <3>1. q[i] = p[i] /\ i \in 1 .. m
      BY <1>1, <1>4
    <3>2. \/ g.needs[p[i]][k] \in ToSet(s.order)
          \/ i < m /\ g.needs[p[i]][k] = p[i + 1]
      BY <2>1, <2>3, <3>1 DEF PassedIsDone
    <3>3. CASE g.needs[p[i]][k] \in ToSet(s.order)
      BY <1>5, <3>1, <3>3
    <3>4. CASE g.needs[p[i]][k] = p[i + 1] /\ i + 1 = m
      BY <1>1, <1>5, <3>1, <3>4
    <3>5. CASE g.needs[p[i]][k] = p[i + 1] /\ i + 1 # m
      <4>1. i + 1 \in 1 .. m - 1 /\ i < m - 1
        BY <1>1, <3>5
      <4>2. q[i + 1] = p[i + 1]
        BY <1>4, <4>1
      <4> QED
        BY <3>1, <3>5, <4>1, <4>2
    <3> QED
      BY <3>2, <3>3, <3>4, <3>5
  <2>4. ASSUME NEW k \in 1 .. s.passed[NoKpi]
        PROVE  \/ g.nodes[k] \in ToSet(t.order)
               \/ 0 < m - 1 /\ g.nodes[k] = q[1]
    <3>1. \/ g.nodes[k] \in ToSet(s.order)
          \/ 0 < m /\ g.nodes[k] = p[1]
      BY <2>1, <2>4 DEF PassedIsDone
    <3>2. CASE g.nodes[k] \in ToSet(s.order)
      BY <1>5, <3>2
    <3>3. CASE g.nodes[k] = p[1] /\ m = 1
      BY <1>1, <1>5, <3>3
    <3>4. CASE g.nodes[k] = p[1] /\ m # 1
      <4>1. 1 \in 1 .. m - 1 /\ 0 < m - 1
        <5>1. m \in Nat /\ 1 <= m
          BY <1>1, <1>4
        <5>2. m # 1
          BY <3>4
        <5>3. \A j \in Nat : 1 <= j /\ j # 1 => 1 \in 1 .. j - 1 /\ 0 < j - 1
          OBVIOUS
        <5> QED
          BY <5>1, <5>2, <5>3
      <4>2. q[1] = p[1]
        BY <1>4, <4>1
      <4> QED
        BY <3>4, <4>1, <4>2
    <3> QED
      BY <3>1, <3>2, <3>3, <3>4
  <2> QED
    BY <1>4, <1>5, <2>2, <2>3, <2>4 DEF NeedsBefore, PassedIsDone
<1> QED
  BY <1>9, <1>10, <1>11, <1>12, <1>13 DEF WalkInv

\* The KPIs of a graph are finitely many.
LEMMA NodesAreFinite ==
    ASSUME NEW g, IsGraph(g)
    PROVE  IsFiniteSet(Nodes(g)) /\ Cardinality(Nodes(g)) \in Nat
<1> DEFINE onto == [i \in 1 .. Len(g.nodes) |-> g.nodes[i]]
<1>1. Len(g.nodes) \in Nat /\ DOMAIN g.nodes = 1 .. Len(g.nodes)
  BY LenProperties DEF IsGraph
<1>2. onto \in Surjection(1 .. Len(g.nodes), Nodes(g))
  <2>1. Nodes(g) = {g.nodes[i] : i \in 1 .. Len(g.nodes)}
    BY <1>1 DEF Nodes, ToSet
  <2>2. onto \in [1 .. Len(g.nodes) -> Nodes(g)]
    BY <2>1
  <2>3. \A x \in Nodes(g) : \E i \in 1 .. Len(g.nodes) : onto[i] = x
    BY <2>1
  <2> HIDE DEF onto
  <2> QED
    BY <2>2, <2>3, Zenon DEF Surjection
<1>3. IsFiniteSet(1 .. Len(g.nodes))
  <2>1. 1 \in Int /\ Len(g.nodes) \in Int
    BY <1>1
  <2> QED
    BY <2>1, FS_Interval
<1> HIDE DEF onto
<1> QED
  BY <1>2, <1>3, FS_Surjection, FS_CardinalityType

\* A sequence without repetitions is no longer than there are elements.
LEMMA NoLongerThanSet ==
    ASSUME NEW S, IsFiniteSet(S), NEW s \in Seq(S), IsInjective(s)
    PROVE  Len(s) \in Nat /\ Len(s) <= Cardinality(S)
<1>1. Len(s) \in Nat /\ s \in [1 .. Len(s) -> S] /\ DOMAIN s = 1 .. Len(s)
  BY LenProperties
<1>2. s \in Injection(1 .. Len(s), S)
  BY <1>1 DEF Injection, IsInjective
<1>3. Cardinality(1 .. Len(s)) = Len(s)
  BY <1>1, FS_Interval
<1> QED
  BY <1>1, <1>2, <1>3, FS_Injection

\* The j-th KPI of a path of m, and up from the last to the one after it.
CycleOf(p, m, j) == [i \in 1 .. m - j + 1 |-> IF i = 1 THEN p[j] ELSE p[m + 2 - i]]

\* The way up from the end of the path to one of its KPIs.
LEMMA WayUpThePath ==
    ASSUME NEW N, NoKpi \notin N, NEW p \in Seq(N), IsInjective(p), NEW m, m = Len(p),
           NEW j \in 1 .. m, NEW parent, \A i \in 2 .. m : parent[p[i]] = p[i - 1],
           Cardinality(DOMAIN parent) \in Nat, m <= Cardinality(DOMAIN parent)
    PROVE  BacktrackCycle(parent, p[m], p[j]) = CycleOf(p, m, j)
<1> DEFINE size == Cardinality(DOMAIN parent)
           v == p[j]
           at(h) == [path |-> [i \in 1 .. h + 1 |-> IF i = 1 THEN v ELSE p[m + 2 - i]], cur |-> p[m - h]]
           start == [path |-> <<v>>, cur |-> p[m]]
           up == [n \in 0 .. size |-> at(IF n <= m - j THEN n ELSE m - j)]
<1>1. m \in Nat /\ j \in Nat /\ m - j \in Nat /\ m - j < size /\ size \in Nat /\ p \in [1 .. m -> N]
  <2>1. m \in Nat /\ p \in [1 .. m -> N]
    BY LenProperties
  <2> QED
    BY <2>1
<1>2. \A a, b \in 1 .. m : p[a] = p[b] => a = b
  BY <1>1 DEF IsInjective
<1>3. at(0) = start
  <2>1. [i \in 1 .. 0 + 1 |-> IF i = 1 THEN v ELSE p[m + 2 - i]] = <<v>>
    OBVIOUS
  <2> QED
    BY <1>1, <2>1
<1>4. ASSUME NEW h \in Nat, h < m - j PROVE PathUp(parent, v, at(h)) = at(h + 1)
  <2> DEFINE way == [i \in 1 .. h + 1 |-> IF i = 1 THEN v ELSE p[m + 2 - i]]
             next == [i \in 1 .. h + 2 |-> IF i = 1 THEN v ELSE p[m + 2 - i]]
             e == p[m - h]
  <2>1. m - h \in 2 .. m /\ m - h # j /\ (m - h) - 1 = m - (h + 1) /\ m + 2 - (h + 2) = m - h /\ h + 2 # 1
    BY <1>1, <1>4
  <2>2. e # v /\ e # NoKpi /\ e \in N /\ v \in N
    BY <1>1, <1>2, <2>1
  <2>3. parent[e] = p[m - (h + 1)]
    BY <2>1
  <2>4. way \in Seq(N) /\ Len(way) = h + 1
    <3>1. ASSUME NEW i \in 1 .. h + 1, i # 1 PROVE m + 2 - i \in 1 .. m
      BY <1>1, <1>4, <3>1
    <3>2. way \in [1 .. h + 1 -> N]
      BY <1>1, <2>2, <3>1
    <3> HIDE DEF way
    <3> QED
      BY <3>2
  <2>5. Append(way, e) = next
    <3>1. /\ Append(way, e) \in Seq(N) /\ DOMAIN Append(way, e) = 1 .. h + 2
          /\ \A i \in 1 .. h + 1 : Append(way, e)[i] = way[i]
          /\ Append(way, e)[h + 2] = e
      <4> HIDE DEF way, e
      <4>1. (h + 1) + 1 = h + 2
        OBVIOUS
      <4> QED
        BY <2>2, <2>4, <4>1, ElementsOfAppended
    <3>2. Append(way, e) = [i \in 1 .. h + 2 |-> Append(way, e)[i]]
      <4> HIDE DEF way, e
      <4> QED
        BY <3>1, LenProperties
    <3>3. ASSUME NEW i \in 1 .. h + 2 PROVE Append(way, e)[i] = next[i]
      <4>1. CASE i = h + 2
        <5>1. next[i] = p[m + 2 - (h + 2)]
          BY <2>1, <4>1
        <5> QED
          BY <2>1, <3>1, <4>1, <5>1
      <4>2. CASE i # h + 2
        <5>1. i \in 1 .. h + 1
          BY <4>2
        <5>2. way[i] = next[i]
          BY <5>1
        <5> QED
          BY <3>1, <5>1, <5>2
      <4> QED
        BY <4>1, <4>2
    <3> HIDE DEF way, e
    <3> QED
      BY <3>2, <3>3
  <2>6. at(h).path = way /\ at(h).cur = e
    OBVIOUS
  <2>7. at(h + 1) = [path |-> next, cur |-> p[m - (h + 1)]]
    <3>1. (h + 1) + 1 = h + 2
      OBVIOUS
    <3> QED
      BY <3>1
  <2> HIDE DEF at, way, next, e, v
  <2> QED
    BY <2>2, <2>3, <2>5, <2>6, <2>7 DEF PathUp
<1>5. PathUp(parent, v, at(m - j)) = at(m - j)
  <2>1. at(m - j).cur = v
    BY <1>1
  <2> HIDE DEF at, v
  <2> QED
    BY <2>1 DEF PathUp
<1>6. up[0] = start /\ \A n \in 1 .. size : up[n] = PathUp(parent, v, up[n - 1])
  <2>1. up[0] = start
    <3> HIDE DEF at, start
    <3> QED
      BY <1>1, <1>3
  <2>2. ASSUME NEW n \in 1 .. size PROVE up[n] = PathUp(parent, v, up[n - 1])
    <3>1. CASE n <= m - j
      <4>1. n - 1 \in Nat /\ n - 1 < m - j /\ (n - 1) + 1 = n /\ n - 1 \in 0 .. size
        BY <1>1, <3>1
      <4>2. PathUp(parent, v, at(n - 1)) = at(n)
        <5> HIDE DEF at, v
        <5> QED
          BY <1>4, <4>1
      <4>3. up[n] = at(n) /\ up[n - 1] = at(n - 1)
        <5> HIDE DEF at, v
        <5> QED
          BY <1>1, <3>1, <4>1
      <4> HIDE DEF at, v, up
      <4> QED
        BY <4>2, <4>3
    <3>2. CASE ~ (n <= m - j)
      <4>1. n - 1 \in 0 .. size /\ m - j <= n - 1
        BY <1>1, <3>2
      <4>2. up[n] = at(m - j) /\ up[n - 1] = at(m - j)
        <5> HIDE DEF at, v
        <5>1. CASE n - 1 <= m - j
          <6>1. n - 1 = m - j
            <7>1. \A a, b \in Int : a <= b /\ b <= a => a = b
              OBVIOUS
            <7>2. n - 1 \in Int /\ m - j \in Int
              BY <1>1
            <7> QED
              BY <4>1, <5>1, <7>1, <7>2
          <6>2. up[n - 1] = at(n - 1)
            BY <4>1, <5>1
          <6>3. up[n] = at(m - j)
            BY <3>2
          <6> HIDE DEF up
          <6> QED
            BY <6>1, <6>2, <6>3, Zenon
        <5>2. CASE ~ (n - 1 <= m - j)
          BY <1>1, <3>2, <4>1, <5>2
        <5> QED
          BY <5>1, <5>2
      <4> HIDE DEF at, v, up
      <4> QED
        BY <1>5, <4>2
    <3> QED
      BY <3>1, <3>2
  <2> HIDE DEF up, start, v
  <2> QED
    BY <2>1, <2>2
<1> DEFINE Solves(f) == f = [n \in 0 .. size |-> IF n = 0 THEN start ELSE PathUp(parent, v, f[n - 1])]
           chosen == CHOOSE f : Solves(f)
<1>7. Solves(up)
  <2>1. up = [n \in 0 .. size |-> up[n]]
    OBVIOUS
  <2>2. ASSUME NEW n \in 0 .. size PROVE up[n] = IF n = 0 THEN start ELSE PathUp(parent, v, up[n - 1])
    <3> HIDE DEF up, start, v
    <3> QED
      BY <1>1, <1>6
  <2> HIDE DEF up, start, v
  <2> QED
    BY <2>1, <2>2
<1>8. Solves(chosen)
  <2> HIDE DEF Solves
  <2> QED
    BY <1>7
<1>9. BacktrackCycle(parent, p[m], v) = chosen[size].path
  BY DEF BacktrackCycle
<1>10. \A n \in 0 .. size : chosen[n] = up[n]
  <2> DEFINE T == {n \in Nat : n <= size => chosen[n] = up[n]}
  <2> HIDE DEF chosen, up, start, v
  <2>1. 0 \in T
    BY <1>1, <1>6, <1>8
  <2>2. ASSUME NEW n \in Nat, n \in T PROVE n + 1 \in T
    <3>1. SUFFICES ASSUME n + 1 <= size PROVE chosen[n + 1] = up[n + 1]
      OBVIOUS
    <3>2. chosen[n] = up[n] /\ n + 1 \in 1 .. size /\ n + 1 \in 0 .. size /\ n + 1 # 0 /\ (n + 1) - 1 = n
      BY <1>1, <2>2, <3>1
    <3>3. up[n + 1] = PathUp(parent, v, up[n])
      BY <1>6, <3>2
    <3>4. chosen[n + 1] = PathUp(parent, v, chosen[n])
      BY <1>8, <3>2
    <3> QED
      BY <3>2, <3>3, <3>4
  <2>3. Nat \subseteq T
    <3> HIDE DEF T
    <3> QED
      BY <2>1, <2>2, Induction
  <2> QED
    BY <1>1, <2>3
<1>11. up[size] = at(m - j)
  <2> HIDE DEF at, v
  <2> QED
    BY <1>1
<1>12. chosen[size] = at(m - j)
  <2> HIDE DEF at, v, up, chosen
  <2> QED
    BY <1>1, <1>10, <1>11
<1> HIDE DEF chosen
<1> QED
  BY <1>9, <1>12 DEF CycleOf

\* A need that is being visited closes a cycle: from it down the path.
LEMMA CycleIsReal ==
    ASSUME NEW g, IsGraph(g), NEW s, WalkInv(g, s), NEW u, u = Visited(s),
           NEW v \in Nodes(g), s.color[v] = 1, v \in ToSet(Follows(g, u))
    PROVE  IsCycle(g, BacktrackCycle(s.parent, u, v))
<1> DEFINE N == Nodes(g)  p == s.path  m == Len(s.path)
<1>1. /\ (u = NoKpi <=> p = <<>>) /\ m \in Nat /\ (u # NoKpi => m # 0 /\ u = p[m])
  BY WhoIsVisited
<1>2. s \in WalkStates(g) /\ PathIsVisited(g, s)
  BY DEF WalkInv
<1>3. s.parent \in [N -> N \cup {NoKpi}] /\ p \in Seq(N) /\ NoKpi \notin N
  BY <1>2 DEF WalkStates, IsGraph
<1>4. p \in [1 .. m -> N] /\ DOMAIN p = 1 .. m
  BY <1>3, LenProperties
<1>5. IsInjective(p) /\ v \in ToSet(p)
  BY <1>2 DEF PathIsVisited
<1>6. PICK j \in 1 .. m : p[j] = v
  BY <1>4, <1>5 DEF ToSet
<1>7. u # NoKpi /\ u = p[m] /\ j \in Nat /\ m - j + 1 \in Nat \ {0}
  <2>1. p # <<>>
    BY <1>6
  <2> QED
    BY <1>1, <1>6, <2>1
<1>8. \A a, b \in 1 .. m : p[a] = p[b] => a = b
  BY <1>4, <1>5 DEF IsInjective
<1>9. \A i \in 2 .. m : s.parent[p[i]] = p[i - 1] /\ p[i] \in ToSet(g.needs[p[i - 1]])
  BY <1>2 DEF PathIsVisited
<1>10. DOMAIN s.parent = N /\ Cardinality(DOMAIN s.parent) \in Nat /\ m <= Cardinality(DOMAIN s.parent)
  <2>1. DOMAIN s.parent = N /\ IsFiniteSet(N) /\ Cardinality(N) \in Nat
    BY <1>3, NodesAreFinite
  <2>2. m <= Cardinality(N)
    BY <1>3, <1>5, <2>1, NoLongerThanSet
  <2> QED
    BY <2>1, <2>2
<1> DEFINE cycle == [i \in 1 .. m - j + 1 |-> IF i = 1 THEN p[j] ELSE p[m + 2 - i]]
<1>11. BacktrackCycle(s.parent, u, v) = cycle
  <2>1. \A i \in 2 .. m : s.parent[p[i]] = p[i - 1]
    BY <1>9
  <2> DEFINE parent == s.parent
  <2>2. BacktrackCycle(parent, p[m], p[j]) = cycle
    <3>1. p \in Seq(N) /\ NoKpi \notin N /\ IsInjective(p) /\ Cardinality(DOMAIN parent) \in Nat
      BY <1>3, <1>5, <1>10
    <3>2. m <= Cardinality(DOMAIN parent) /\ j \in 1 .. m /\ m = Len(p)
      BY <1>6, <1>10
    <3>3. \A i \in 2 .. m : parent[p[i]] = p[i - 1]
      BY <2>1
    <3>4. cycle = CycleOf(p, m, j)
      BY DEF CycleOf
    <3> HIDE DEF p, parent, N, m, cycle
    <3> QED
      BY <3>1, <3>2, <3>3, <3>4, WayUpThePath
  <2> QED
    BY <1>6, <1>7, <2>2
\* The places on the path.
<1> DEFINE place(i) == IF i = 1 THEN j ELSE m + 2 - i
           size == m - j + 1
<1>12. ASSUME NEW i \in 1 .. size
       PROVE  /\ place(i) \in j .. m /\ place(i) \in 1 .. m /\ cycle[i] = p[place(i)]
              /\ i # 1 => place(i) # j
  BY <1>1, <1>6, <1>7
<1>13. ASSUME NEW a \in 1 .. size, NEW b \in 1 .. size, cycle[a] = cycle[b] PROVE a = b
  <2>1. place(a) = place(b)
    <3> HIDE DEF place, cycle
    <3> QED
      BY <1>8, <1>12, <1>13
  <2> QED
    BY <1>1, <1>7, <2>1
<1>14. cycle \in Seq(N) /\ cycle # <<>> /\ Len(cycle) = size /\ DOMAIN cycle = 1 .. size
  <2>1. cycle \in [1 .. size -> N]
    <3>1. cycle = [i \in 1 .. size |-> cycle[i]]
      OBVIOUS
    <3> HIDE DEF place, cycle
    <3> QED
      BY <1>4, <1>12, <3>1
  <2>2. cycle \in Seq(N) /\ Len(cycle) = size
    <3> HIDE DEF cycle
    <3> QED
      BY <1>7, <2>1
  <2>3. 1 \in 1 .. size
    BY <1>7
  <2> HIDE DEF cycle
  <2> QED
    BY <2>1, <2>2, <2>3
<1>15. ASSUME NEW i \in 1 .. size, NEW next, next = IF i = size THEN 1 ELSE i + 1
       PROVE  cycle[i] \in ToSet(g.needs[cycle[next]])
  <2>1. next \in 1 .. size
    BY <1>7, <1>15
  <2>2. CASE i = 1
    <3>1. cycle[i] = v
      BY <1>6, <1>12, <2>2
    <3>2. place(next) = m
      <4>1. CASE size = 1
        <5>1. j = m /\ next = 1
          BY <1>1, <1>7, <1>15, <2>2, <4>1
        <5> QED
          BY <5>1
      <4>2. CASE size # 1
        <5>1. next = 2
          BY <1>15, <2>2, <4>2
        <5>2. m + 2 - 2 = m
          BY <1>1
        <5> QED
          BY <5>1, <5>2
      <4> QED
        BY <4>1, <4>2
    <3>3. cycle[next] = u
      <4> HIDE DEF cycle
      <4> QED
        BY <1>7, <1>12, <2>1, <3>2
    <3>4. Follows(g, u) = g.needs[u]
      BY <1>7 DEF Follows
    <3> HIDE DEF cycle
    <3> QED
      BY <3>1, <3>3, <3>4
  <2>3. CASE i # 1
    <3>1. place(next) = place(i) - 1 /\ place(i) \in 2 .. m
      <4>1. CASE i = size
        <5>1. next = 1 /\ place(next) = j
          BY <1>15, <4>1
        <5>2. place(i) = m + 2 - (m - j + 1) /\ m - j + 1 # 1
          BY <2>3, <4>1
        <5>3. m + 2 - (m - j + 1) = j + 1 /\ (j + 1) - 1 = j /\ (m - j + 1 # 1 => j + 1 \in 2 .. m)
          <6>1. \A x, y \in Int : x + 2 - (x - y + 1) = y + 1 /\ (y + 1) - 1 = y
            OBVIOUS
          <6>2. \A x, y \in Int : 1 <= y /\ y <= x /\ x - y + 1 # 1 => y + 1 \in 2 .. x
            OBVIOUS
          <6>3. m \in Int /\ j \in Int /\ 1 <= j /\ j <= m
            BY <1>1, <1>6, <1>7
          <6> HIDE DEF m
          <6> QED
            BY <6>1, <6>2, <6>3
        <5> HIDE DEF place
        <5> QED
          BY <5>1, <5>2, <5>3
      <4>2. CASE i # size
        <5>1. next = i + 1 /\ i + 1 # 1 /\ i \in 2 .. m - j
          BY <1>1, <1>7, <1>15, <2>3, <4>2
        <5>2. place(next) = m + 2 - (i + 1) /\ place(i) = m + 2 - i
          BY <2>3, <5>1
        <5>3. m + 2 - (i + 1) = (m + 2 - i) - 1 /\ m + 2 - i \in 2 .. m
          BY <1>1, <1>6, <1>7, <5>1
        <5> HIDE DEF place
        <5> QED
          BY <5>2, <5>3
      <4> QED
        BY <4>1, <4>2
    <3>2. cycle[i] = p[place(i)] /\ cycle[next] = p[place(next)]
      <4> HIDE DEF cycle, place
      <4> QED
        BY <1>12, <2>1
    <3> HIDE DEF cycle, place
    <3> QED
      BY <1>9, <3>1, <3>2
  <2> QED
    BY <2>2, <2>3
<1> HIDE DEF cycle
<1>16. IsInjective(cycle)
  BY <1>13, <1>14 DEF IsInjective
<1> QED
  BY <1>11, <1>14, <1>15, <1>16 DEF IsCycle

\* What was passed, counted from 1, and the KPIs that are done, counted 0.
IsDone(g, s, u, n) ==
    \/ n \in 1 .. s.passed[u]
    \/ n = 0 /\ u \in Nodes(g) /\ s.color[u] = 2

Done(g, s) == {x \in (Nodes(g) \cup {NoKpi}) \X Nat : IsDone(g, s, x[1], x[2])}

\* Outside of any call, with nothing left to pass.
IsOver(g, s) == s.path = <<>> /\ s.passed[NoKpi] = Len(g.nodes)

\* One more is done.
IsOneMore(g, s, t, u, n) ==
    \A w \in Nodes(g) \cup {NoKpi} : \A k \in Nat : IsDone(g, t, w, k) <=> IsDone(g, s, w, k) \/ (w = u /\ k = n)

\* The pass goes from s to t and does this one.
IsPassed(g, u, n) == u \in Nodes(g) \cup {NoKpi} /\ n \in Nat
DoesThis(g, s, t, x) == x \notin Done(g, s) /\ Done(g, t) = Done(g, s) \cup {x}

LEMMA OneIsDone ==
    ASSUME NEW g, NEW s, NEW t, NEW u, NEW n, IsPassed(g, u, n),
           ~ IsDone(g, s, u, n), IsOneMore(g, s, t, u, n)
    PROVE  DoesThis(g, s, t, <<u, n>>)
<1>0. u \in Nodes(g) \cup {NoKpi} /\ n \in Nat
  BY DEF IsPassed
<1> DEFINE P == (Nodes(g) \cup {NoKpi}) \X Nat
<1>1. <<u, n>> \notin Done(g, s)
  BY <1>0 DEF Done
<1>2. ASSUME NEW x \in P PROVE x \in Done(g, t) <=> x \in Done(g, s) \/ x = <<u, n>>
  <2>1. PICK w \in Nodes(g) \cup {NoKpi}, k \in Nat : x = <<w, k>>
    BY <1>2
  <2>2. x[1] = w /\ x[2] = k /\ (x = <<u, n>> <=> w = u /\ k = n)
    BY <2>1
  <2>3. IsDone(g, t, w, k) <=> IsDone(g, s, w, k) \/ (w = u /\ k = n)
    BY <2>1 DEF IsOneMore
  <2> QED
    BY <2>1, <2>2, <2>3 DEF Done
<1>3. Done(g, t) \subseteq P /\ Done(g, s) \subseteq P /\ <<u, n>> \in P
  BY <1>0 DEF Done
<1>4. Done(g, t) = Done(g, s) \cup {<<u, n>>}
  BY <1>2, <1>3
<1> QED
  BY <1>1, <1>4 DEF DoesThis

\* The walk keeps what holds of it, and one more is done until it is over.
LEMMA WalkGoesOn ==
    ASSUME NEW g, IsGraph(g), NEW s, WalkInv(g, s), NEW t, t = WalkStep(g, s)
    PROVE  /\ WalkInv(g, t)
           /\ \/ IsOver(g, s) /\ t = s
              \/ \E x : x \notin Done(g, s) /\ Done(g, t) = Done(g, s) \cup {x}
<1> DEFINE N == Nodes(g)
           u == Visited(s)
           n == s.passed[u] + 1
           v == Follows(g, u)[n]
           size == Len(Follows(g, u))
           on == [s.passed EXCEPT ![u] = n]
<1>1. /\ u \in N \cup {NoKpi} /\ s.passed[u] \in Nat
      /\ (u = NoKpi <=> s.path = <<>>)
      /\ u # NoKpi => u \in N /\ s.color[u] = 1 /\ u = s.path[Len(s.path)]
      /\ Follows(g, u) \in Seq(N) /\ size \in Nat
  BY WhoIsVisited
<1>2. s \in WalkStates(g) /\ PassedInRange(g, s) /\ CyclesAreReal(g, s)
  BY DEF WalkInv
<1>3. /\ s.color \in [N -> 0 .. 2] /\ s.parent \in [N -> N \cup {NoKpi}] /\ s.path \in Seq(N)
      /\ s.passed \in [N \cup {NoKpi} -> Nat] /\ s.cycles \in Seq(Seq(N)) /\ s.order \in Seq(N)
      /\ NoKpi \notin N
  BY <1>2 DEF WalkStates, IsGraph
<1>31. s = [color |-> s.color, parent |-> s.parent, path |-> s.path, passed |-> s.passed,
            cycles |-> s.cycles, order |-> s.order]
  BY <1>2 DEF WalkStates
<1>4. /\ n > size /\ u = NoKpi => t = s
      /\ n > size /\ u # NoKpi => t = Leave(s, u)
      /\ n <= size /\ s.color[v] = 0 => t = Enter([s EXCEPT !.passed[u] = n], u, v)
      /\ n <= size /\ s.color[v] = 1 =>
           t = [[s EXCEPT !.passed[u] = n] EXCEPT !.cycles = Append(@, BacktrackCycle(s.parent, u, v))]
      /\ n <= size /\ s.color[v] = 2 => t = [s EXCEPT !.passed[u] = n]
  <2> DEFINE moved == [s EXCEPT !.passed[u] = n]
             noted == [moved EXCEPT !.cycles = Append(@, BacktrackCycle(s.parent, u, v))]
             long == n > size
  <2>1. t = IF n > size THEN IF u = NoKpi THEN s ELSE Leave(s, u)
            ELSE CASE s.color[v] = 0 -> Enter(moved, u, v)
                   [] s.color[v] = 1 -> noted
                   [] s.color[v] = 2 -> moved
    BY DEF WalkStep
  <2>2. n <= size <=> ~ long
    BY <1>1
  <2> HIDE DEF moved, noted, long, u, n, v, size
  <2>3. long /\ u = NoKpi => t = s
    BY <2>1 DEF long
  <2>4. long /\ u # NoKpi => t = Leave(s, u)
    BY <2>1 DEF long
  <2>5. ~ long /\ s.color[v] = 0 => t = Enter(moved, u, v)
    BY <2>1 DEF long
  <2>6. ~ long /\ s.color[v] = 1 => t = noted
    BY <2>1 DEF long
  <2>7. ~ long /\ s.color[v] = 2 => t = moved
    BY <2>1 DEF long
  <2> QED
    BY <2>2, <2>3, <2>4, <2>5, <2>6, <2>7 DEF moved, noted, long
<1>5. n \in Nat /\ s.passed[u] <= size
  BY <1>1, <1>2 DEF PassedInRange
<1> HIDE DEF u
<1>6. CASE n > size /\ u = NoKpi
  <2>1. Follows(g, u) = g.nodes
    BY <1>6 DEF Follows
  <2>2. s.passed[u] = size
    BY <1>1, <1>5, <1>6
  <2>3. t = s /\ s.path = <<>>
    BY <1>1, <1>4, <1>6
  <2> QED
    BY <1>6, <2>1, <2>2, <2>3 DEF IsOver
<1>7. CASE n > size /\ u # NoKpi
  <2> DEFINE color == [s.color EXCEPT ![u] = 2]  path == Front(s.path)  order == Append(s.order, u)
  <2>1. t = [color |-> color, parent |-> s.parent, path |-> path, passed |-> s.passed,
             cycles |-> s.cycles, order |-> order]
    BY <1>31, <1>4, <1>7 DEF Leave
  <2>2. s.path # <<>> /\ u \in N
    BY <1>1, <1>7
  <2>3. path \in Seq(N) /\ Grows(path, u, s.path)
    <3>1. /\ path \in Seq(N) /\ Len(path) = Len(s.path) - 1 /\ Len(s.path) \in Nat \ {0}
          /\ \A i \in 1 .. Len(s.path) - 1 : path[i] = s.path[i]
      BY <1>3, <2>2, FrontOfSequence
    <3>2. DOMAIN path = 1 .. Len(path) /\ DOMAIN s.path = 1 .. Len(s.path) /\ Len(path) \in Nat
      BY <1>3, <3>1, LenProperties
    <3>3. Len(s.path) = Len(path) + 1 /\ s.path[Len(path) + 1] = u
      BY <1>1, <1>7, <3>1
    <3>4. \A i \in 1 .. Len(path) : s.path[i] = path[i]
      BY <3>1
    <3> HIDE DEF path
    <3>5. ToSet(s.path) = ToSet(path) \cup {u}
      <4>1. ToSet(s.path) = {s.path[i] : i \in 1 .. Len(path) + 1} /\ ToSet(path) = {path[i] : i \in 1 .. Len(path)}
        BY <3>2, <3>3 DEF ToSet
      <4>2. 1 .. Len(path) + 1 = (1 .. Len(path)) \cup {Len(path) + 1}
        BY <3>2
      <4> QED
        BY <3>3, <3>4, <4>1, <4>2
    <3> QED
      BY <3>1, <3>2, <3>3, <3>4, <3>5 DEF Grows
  <2>4. order \in Seq(N) /\ Grows(s.order, u, order)
    BY <1>3, <2>2, ElementsOfAppended DEF Grows
  <2>5. color \in [N -> 0 .. 2]
    BY <1>3, <2>2
  <2>6. /\ t \in WalkStates(g) /\ t.color = color /\ t.parent = s.parent /\ t.path = path
        /\ t.passed = s.passed /\ t.cycles = s.cycles /\ t.order = order
    <3> HIDE DEF color, path, order
    <3> QED
      <4>1. t.color = color /\ t.parent = s.parent /\ t.path = path /\ t.passed = s.passed
            /\ t.cycles = s.cycles /\ t.order = order
        BY <2>1
      <4>2. t \in WalkStates(g)
        BY <1>3, <2>1, <2>3, <2>4, <2>5 DEF WalkStates
      <4> QED
        BY <4>1, <4>2
  <2>7. WalkInv(g, t)
    <3>1. Grows(t.path, u, s.path) /\ Grows(s.order, u, t.order)
      BY <2>3, <2>4, <2>6
    <3>2. t \in WalkStates(g) /\ t.color = [s.color EXCEPT ![u] = 2] /\ t.parent = s.parent
          /\ t.passed = s.passed /\ t.cycles = s.cycles
      BY <2>6
    <3>3. s.passed[u] + 1 > Len(Follows(g, u)) /\ u # NoKpi /\ u = Visited(s)
      BY <1>7 DEF u
    <3> HIDE DEF path, order, n, size
    <3> QED
      BY <3>1, <3>2, <3>3, LeaveKeeps
  <2>8. ~ IsDone(g, s, u, 0)
    BY <1>1, <1>7 DEF IsDone
  <2>9. ASSUME NEW w \in N \cup {NoKpi}, NEW k \in Nat
        PROVE  IsDone(g, t, w, k) <=> IsDone(g, s, w, k) \/ (w = u /\ k = 0)
    <3>1. w \in N => t.color[w] = IF w = u THEN 2 ELSE s.color[w]
      BY <1>3, <2>6
    <3>2. t.passed[w] = s.passed[w]
      BY <2>6
    <3> QED
      BY <2>2, <3>1, <3>2 DEF IsDone
  <2>10. DoesThis(g, s, t, <<u, 0>>)
    <3>1. IsPassed(g, u, 0)
      BY <1>1 DEF IsPassed
    <3>2. IsOneMore(g, s, t, u, 0)
      BY <2>9 DEF IsOneMore
    <3> HIDE DEF N, u, n, v, size, on, color, path, order
    <3> QED
      BY <2>8, <3>1, <3>2, OneIsDone
  <2> QED
    BY <2>7, <2>10 DEF DoesThis
<1>8. CASE n <= size
  <2>1. v \in N /\ n \in 1 .. size
    BY <1>1, <1>5, <1>8, ElementOfSeq
  <2>2. s.color[v] \in 0 .. 2
    BY <1>3, <2>1
  <2>3. on \in [N \cup {NoKpi} -> Nat]
    BY <1>1, <1>3, <1>5
  <2>4. ~ IsDone(g, s, u, n)
    BY <1>1 DEF IsDone
  <2>5. ASSUME t.passed = on, NEW w \in N \cup {NoKpi}, NEW k \in Nat, w \in N => (t.color[w] = 2 <=> s.color[w] = 2)
        PROVE  IsDone(g, t, w, k) <=> IsDone(g, s, w, k) \/ (w = u /\ k = n)
    <3>1. CASE w = u
      <4>1. t.passed[w] = n
        BY <1>1, <1>3, <2>5, <3>1
      <4>2. k \in 1 .. n <=> k \in 1 .. s.passed[u] \/ k = n
        BY <1>1
      <4>3. n # 0
        BY <1>1
      <4> QED
        BY <2>5, <3>1, <4>1, <4>2, <4>3 DEF IsDone
    <3>2. CASE w # u
      <4>1. t.passed[w] = s.passed[w]
        BY <1>3, <2>5, <3>2
      <4> QED
        BY <2>5, <3>2, <4>1 DEF IsDone
    <3> QED
      BY <3>1, <3>2
  <2>6. ASSUME WalkInv(g, t), t.passed = on, \A w \in N : t.color[w] = 2 <=> s.color[w] = 2
        PROVE  \E x : x \notin Done(g, s) /\ Done(g, t) = Done(g, s) \cup {x}
    <3>1. DoesThis(g, s, t, <<u, n>>)
      <4>1. \A w \in N \cup {NoKpi} : \A k \in Nat : IsDone(g, t, w, k) <=> IsDone(g, s, w, k) \/ (w = u /\ k = n)
        BY <2>5, <2>6
      <4> HIDE DEF n
      <4> QED
        <5>1. IsPassed(g, u, n)
          BY <1>1, <1>5 DEF IsPassed
        <5>2. IsOneMore(g, s, t, u, n)
          BY <4>1 DEF IsOneMore
        <5> HIDE DEF N, u, v, size, on
        <5> QED
          BY <2>4, <5>1, <5>2, OneIsDone
    <3> QED
      BY <3>1 DEF DoesThis
  <2>7. CASE s.color[v] = 0
    <3> DEFINE color == [s.color EXCEPT ![v] = 1]  parent == [s.parent EXCEPT ![v] = u]
               path == Append(s.path, v)
    <3>1. t = [color |-> color, parent |-> parent, path |-> path, passed |-> on,
               cycles |-> s.cycles, order |-> s.order]
      BY <1>31, <1>4, <1>8, <2>7 DEF Enter
    <3>2. color \in [N -> 0 .. 2] /\ parent \in [N -> N \cup {NoKpi}]
      BY <1>1, <1>3, <2>1
    <3>3. path \in Seq(N) /\ Grows(s.path, v, path)
      <4> HIDE DEF v
      <4> QED
        BY <1>3, <2>1, ElementsOfAppended DEF Grows
    <3>4. /\ t \in WalkStates(g) /\ t.color = color /\ t.parent = parent /\ t.path = path
          /\ t.passed = on /\ t.cycles = s.cycles /\ t.order = s.order
      <4> HIDE DEF color, path, parent, on
      <4> QED
        <5>1. /\ t.color = color /\ t.parent = parent /\ t.path = path
              /\ t.passed = on /\ t.cycles = s.cycles /\ t.order = s.order
          BY <3>1
        <5>2. t \in WalkStates(g)
          BY <1>3, <2>3, <3>1, <3>2, <3>3 DEF WalkStates
        <5> QED
          BY <5>1, <5>2
    <3>5. WalkInv(g, t)
      <4>1. Grows(s.path, v, t.path)
        BY <3>3, <3>4
      <4>2. t \in WalkStates(g) /\ t.color = [s.color EXCEPT ![v] = 1] /\ t.parent = [s.parent EXCEPT ![v] = u]
            /\ t.passed = [s.passed EXCEPT ![u] = n] /\ t.cycles = s.cycles /\ t.order = s.order
        BY <3>4
      <4>3. n = s.passed[u] + 1 /\ n <= Len(Follows(g, u)) /\ v = Follows(g, u)[n] /\ u = Visited(s)
        BY <1>8 DEF u
      <4> HIDE DEF path, n, size, v
      <4> QED
        BY <2>7, <4>1, <4>2, <4>3, EnterKeeps
    <3>6. \A w \in N : t.color[w] = 2 <=> s.color[w] = 2
      <4> HIDE DEF v
      <4> QED
        BY <1>3, <2>1, <2>7, <3>4
    <3> HIDE DEF n, v, color, path, parent
    <3> QED
      BY <2>6, <3>4, <3>5, <3>6
  <2>8. CASE s.color[v] = 1
    <3> DEFINE cycle == BacktrackCycle(s.parent, u, v)
               cycles == Append(s.cycles, cycle)
    <3>1. t = [color |-> s.color, parent |-> s.parent, path |-> s.path, passed |-> on,
               cycles |-> cycles, order |-> s.order]
      <4>1. t = [[s EXCEPT !.passed[u] = n] EXCEPT !.cycles = Append(@, cycle)]
        BY <1>4, <1>8, <2>8
      <4> HIDE DEF cycle, n
      <4> QED
        BY <1>31, <4>1
    <3>2. IsCycle(g, cycle)
      <4>1. v \in ToSet(Follows(g, u))
        BY <1>1, <2>1, LenProperties DEF ToSet
      <4>2. u = Visited(s)
        BY DEF u
      <4> HIDE DEF v
      <4> QED
        BY <2>1, <2>8, <4>1, <4>2, CycleIsReal
    <3>3. cycle \in Seq(N)
      BY <3>2 DEF IsCycle
    <3>4. cycles \in Seq(Seq(N)) /\ Grows(s.cycles, cycle, cycles)
      <4> HIDE DEF cycle
      <4> QED
        BY <1>3, <3>3, ElementsOfAppended DEF Grows
    <3>5. /\ t \in WalkStates(g) /\ t.color = s.color /\ t.parent = s.parent /\ t.path = s.path
          /\ t.passed = on /\ t.cycles = cycles /\ t.order = s.order
      <4> HIDE DEF cycles, on
      <4> QED
        <5>1. /\ t.color = s.color /\ t.parent = s.parent /\ t.path = s.path
              /\ t.passed = on /\ t.cycles = cycles /\ t.order = s.order
          BY <3>1
        <5>2. t \in WalkStates(g)
          BY <1>3, <2>3, <3>1, <3>4 DEF WalkStates
        <5> QED
          BY <5>1, <5>2
    <3>6. t.cycles # <<>> /\ CyclesAreReal(g, t)
      <4>1. /\ Len(s.cycles) \in Nat /\ DOMAIN s.cycles = 1 .. Len(s.cycles)
            /\ DOMAIN t.cycles = 1 .. Len(s.cycles) + 1
            /\ \A i \in 1 .. Len(s.cycles) : t.cycles[i] = s.cycles[i]
            /\ t.cycles[Len(s.cycles) + 1] = cycle
        BY <3>4, <3>5 DEF Grows
      <4>2. t.cycles # <<>>
        <5>1. Len(s.cycles) + 1 \in DOMAIN t.cycles
          BY <4>1
        <5> QED
          BY <5>1
      <4>3. ASSUME NEW i \in DOMAIN t.cycles PROVE IsCycle(g, t.cycles[i])
        <5>1. CASE i = Len(s.cycles) + 1
          BY <3>2, <4>1, <5>1
        <5>2. CASE i # Len(s.cycles) + 1
          <6>1. i \in DOMAIN s.cycles /\ t.cycles[i] = s.cycles[i]
            BY <4>1, <5>2
          <6> QED
            BY <1>2, <6>1 DEF CyclesAreReal
        <5> QED
          BY <5>1, <5>2
      <4> QED
        BY <4>2, <4>3 DEF CyclesAreReal
    <3>7. WalkInv(g, t)
      <4>1. n = s.passed[u] + 1 /\ n <= Len(Follows(g, u)) /\ v = Follows(g, u)[n] /\ u = Visited(s)
        BY <1>8 DEF u
      <4>2. /\ t \in WalkStates(g) /\ t.color = s.color /\ t.parent = s.parent /\ t.path = s.path
            /\ t.passed = [s.passed EXCEPT ![u] = n] /\ t.order = s.order
        BY <3>5
      <4> HIDE DEF cycles, n, size, v
      <4> QED
        BY <3>6, <4>1, <4>2, PassKeeps
    <3> HIDE DEF n, v, cycles
    <3> QED
      BY <2>6, <3>5, <3>7
  <2>9. CASE s.color[v] = 2
    <3>1. t = [color |-> s.color, parent |-> s.parent, path |-> s.path, passed |-> on,
               cycles |-> s.cycles, order |-> s.order]
      BY <1>31, <1>4, <1>8, <2>9
    <3>2. /\ t \in WalkStates(g) /\ t.color = s.color /\ t.parent = s.parent /\ t.path = s.path
          /\ t.passed = on /\ t.cycles = s.cycles /\ t.order = s.order
      <4> HIDE DEF on
      <4> QED
        <5>1. /\ t.color = s.color /\ t.parent = s.parent /\ t.path = s.path
              /\ t.passed = on /\ t.cycles = s.cycles /\ t.order = s.order
          BY <3>1
        <5>2. t \in WalkStates(g)
          BY <1>3, <2>3, <3>1 DEF WalkStates
        <5> QED
          BY <5>1, <5>2
    <3>3. WalkInv(g, t)
      <4>1. n = s.passed[u] + 1 /\ n <= Len(Follows(g, u)) /\ v = Follows(g, u)[n] /\ u = Visited(s)
        BY <1>8 DEF u
      <4>2. /\ t \in WalkStates(g) /\ t.color = s.color /\ t.parent = s.parent /\ t.path = s.path
            /\ t.passed = [s.passed EXCEPT ![u] = n] /\ t.order = s.order
            /\ t.cycles = s.cycles
        BY <3>2
      <4> HIDE DEF n, size, v
      <4> QED
        BY <2>9, <4>1, <4>2, PassKeeps
    <3> HIDE DEF n, v
    <3> QED
      BY <2>6, <3>2, <3>3
  <2> QED
    BY <2>2, <2>6, <2>7, <2>8, <2>9
<1> QED
  BY <1>1, <1>5, <1>6, <1>7, <1>8

\* There are so many steps to take, and never all can have been taken.
LEMMA StepsAreFinite ==
    ASSUME NEW g, IsGraph(g)
    PROVE  /\ IsFiniteSet(WalkSteps(g)) /\ Cardinality(WalkSteps(g)) \in Nat
           /\ \A s \in WalkStates(g) : PassedInRange(g, s) =>
                Done(g, s) \subseteq WalkSteps(g) /\ <<NoKpi, 0>> \in WalkSteps(g) \ Done(g, s)
<1> DEFINE M == Nodes(g) \cup {NoKpi}
           stage == [u \in M |-> {u} \X (0 .. Len(Follows(g, u)))]
           stages == {stage[u] : u \in M}
<1>1. \A u \in M : Len(Follows(g, u)) \in Nat
  BY LenProperties DEF Follows, IsGraph
<1>2. IsFiniteSet(M)
  BY NodesAreFinite, FS_AddElement
<1>3. ASSUME NEW u \in M PROVE IsFiniteSet(stage[u])
  <2>1. Len(Follows(g, u)) \in Nat
    BY <1>1
  <2>2. IsFiniteSet(0 .. Len(Follows(g, u)))
    BY <2>1, FS_Interval
  <2>3. IsFiniteSet({u})
    BY FS_Singleton
  <2>4. IsFiniteSet({u} \X (0 .. Len(Follows(g, u))))
    BY <2>2, <2>3, FS_Product
  <2> QED
    BY <2>4
<1>4. WalkSteps(g) = UNION stages
  BY DEF WalkSteps, Nodes
<1>5. IsFiniteSet(UNION stages)
  <2>1. IsFiniteSet(stages)
    <3> HIDE DEF stage, M
    <3> QED
      BY <1>2, ImageIsFinite
  <2>2. \A part \in stages : IsFiniteSet(part)
    BY <1>3
  <2> HIDE DEF stages
  <2> QED
    BY <2>1, <2>2, FS_UNION
<1>6. IsFiniteSet(WalkSteps(g)) /\ Cardinality(WalkSteps(g)) \in Nat
  BY <1>4, <1>5, FS_CardinalityType
<1>7. \A u \in M : \A k \in 0 .. Len(Follows(g, u)) : <<u, k>> \in WalkSteps(g)
  BY DEF WalkSteps, Nodes
<1>8. ASSUME NEW s \in WalkStates(g), PassedInRange(g, s)
      PROVE  Done(g, s) \subseteq WalkSteps(g) /\ <<NoKpi, 0>> \in WalkSteps(g) \ Done(g, s)
  <2>1. NoKpi \in M /\ 0 \in 0 .. Len(Follows(g, NoKpi)) /\ NoKpi \notin Nodes(g)
    BY <1>1 DEF IsGraph
  <2>2. <<NoKpi, 0>> \in WalkSteps(g)
    BY <1>7, <2>1
  <2>3. ASSUME <<NoKpi, 0>> \in Done(g, s) PROVE FALSE
    <3>1. IsDone(g, s, NoKpi, 0)
      BY <2>3 DEF Done
    <3> QED
      BY <2>1, <3>1 DEF IsDone
  <2>4. ASSUME NEW x \in Done(g, s) PROVE x \in WalkSteps(g)
    <3>1. PICK w \in M, k \in Nat : x = <<w, k>>
      BY <2>4 DEF Done
    <3>2. IsDone(g, s, w, k)
      BY <2>4, <3>1 DEF Done
    <3>3. s.passed[w] <= Len(Follows(g, w)) /\ s.passed[w] \in Nat
      BY <1>8 DEF PassedInRange, WalkStates
    <3>4. k \in 0 .. Len(Follows(g, w))
      BY <1>1, <3>2, <3>3 DEF IsDone
    <3> QED
      BY <1>7, <3>1, <3>4
  <2> QED
    BY <2>2, <2>3, <2>4
<1> QED
  BY <1>6, <1>8

\* Nothing is done at first.
LEMMA WalkStarts ==
    ASSUME NEW g, IsGraph(g)
    PROVE  WalkInv(g, WalkStart(g)) /\ Done(g, WalkStart(g)) = {}
<1> DEFINE s == WalkStart(g)  N == Nodes(g)
<1>1. /\ s.color = [u \in N |-> 0] /\ s.parent = [u \in N |-> NoKpi] /\ s.path = <<>>
      /\ s.passed = [u \in N \cup {NoKpi} |-> 0] /\ s.cycles = <<>> /\ s.order = <<>>
  BY DEF WalkStart, Nodes
<1>2. s \in WalkStates(g)
  <2>1. s = [color |-> s.color, parent |-> s.parent, path |-> s.path, passed |-> s.passed,
             cycles |-> s.cycles, order |-> s.order]
    BY DEF WalkStart
  <2>2. <<>> \in Seq(N) /\ <<>> \in Seq(Seq(N))
    OBVIOUS
  <2>3. s.color \in [N -> 0 .. 2] /\ s.parent \in [N -> N \cup {NoKpi}]
    BY <1>1
  <2>4. s.passed \in [N \cup {NoKpi} -> Nat]
    BY <1>1
  <2>5. s.path \in Seq(N) /\ s.cycles \in Seq(Seq(N)) /\ s.order \in Seq(N)
    BY <1>1, <2>2
  <2> HIDE DEF s
  <2> QED
    BY <2>1, <2>3, <2>4, <2>5 DEF WalkStates
<1> HIDE DEF s
<1>3. /\ Len(s.path) = 0 /\ DOMAIN s.path = {} /\ ToSet(s.path) = {}
      /\ DOMAIN s.order = {} /\ ToSet(s.order) = {} /\ DOMAIN s.cycles = {}
  BY <1>1 DEF ToSet
<1>4. \A u \in N : s.color[u] = 0
  BY <1>1
<1>5. \A u \in N \cup {NoKpi} : s.passed[u] = 0
  BY <1>1
<1>6. PassedInRange(g, s)
  <2>1. \A u \in N \cup {NoKpi} : Len(Follows(g, u)) \in Nat
    BY LenProperties DEF Follows, IsGraph
  <2> QED
    BY <1>5, <2>1 DEF PassedInRange
<1>7. PathIsVisited(g, s)
  BY <1>3, <1>4 DEF PathIsVisited, IsInjective
<1>8. CyclesAreReal(g, s)
  BY <1>3 DEF CyclesAreReal
<1>9. OrderIsDone(g, s)
  BY <1>3, <1>4 DEF OrderIsDone, IsInjective
<1>10. NeedsBefore(g, s.order) /\ PassedIsDone(g, s)
  BY <1>3, <1>5 DEF NeedsBefore, PassedIsDone
<1>11. WalkInv(g, s)
  BY <1>2, <1>6, <1>7, <1>8, <1>9, <1>10 DEF WalkInv
<1>12. Done(g, s) = {}
  BY <1>4, <1>5 DEF Done, IsDone
<1> QED
  BY <1>11, <1>12 DEF s

\* The walk comes to its end.
LEMMA WalkIsOver ==
    ASSUME NEW g, IsGraph(g)
    PROVE  WalkInv(g, Walk(g)) /\ IsOver(g, Walk(g))
<1> DEFINE size == Cardinality(WalkSteps(g))
           S == {s \in WalkStates(g) : WalkInv(g, s)}
           step == [x \in S \X (1 .. size) |-> WalkStep(g, x[1])]
           Solves(f) == f = [n \in 0 .. size |-> IF n = 0 THEN WalkStart(g) ELSE WalkStep(g, f[n - 1])]
           walk == CHOOSE f : Solves(f)
<1>1. size \in Nat /\ IsFiniteSet(WalkSteps(g))
  BY StepsAreFinite
<1>2. ASSUME NEW s, WalkInv(g, s) PROVE s \in S
  BY <1>2 DEF WalkInv
<1>3. ASSUME NEW s \in S PROVE WalkStep(g, s) \in S
  <2>1. WalkInv(g, s)
    OBVIOUS
  <2>2. WalkInv(g, WalkStep(g, s))
    BY <2>1, WalkGoesOn
  <2> QED
    BY <1>2, <2>2
<1>4. WalkStart(g) \in S
  BY <1>2, WalkStarts
<1>5. step \in [S \X (1 .. size) -> S]
  BY <1>3
<1>6. \A s \in S : \A n \in 1 .. size : step[<<s, n>>] = WalkStep(g, s)
  OBVIOUS
<1>7. \E f : Solves(f)
  <2> HIDE DEF size, S, step
  <2>1. PICK run \in [0 .. size -> S] : /\ run[0] = WalkStart(g)
                                        /\ \A n \in 1 .. size : run[n] = step[<<run[n - 1], n>>]
    <3>1. StaysIn(step, S, size)
      BY <1>5 DEF StaysIn
    <3>2. \E run : Repeats(run, step, S, WalkStart(g), size)
      BY <1>1, <1>4, <3>1, StepsCanBeTaken
    <3> QED
      BY <3>2 DEF Repeats
  <2>2. ASSUME NEW n \in 1 .. size PROVE run[n] = WalkStep(g, run[n - 1])
    <3>1. run[n - 1] \in S
      BY <1>1, <2>1
    <3> QED
      BY <1>6, <2>1, <3>1
  <2>3. Solves(run)
    BY <1>1, <2>1, <2>2
  <2> QED
    BY <2>3
<1>8. Solves(walk)
  <2> HIDE DEF Solves
  <2> QED
    BY <1>7
<1>9. Walk(g) = walk[size]
  BY DEF Walk
<1> HIDE DEF walk, S, step
<1>10. walk[0] = WalkStart(g) /\ \A n \in 1 .. size : walk[n] = WalkStep(g, walk[n - 1])
  <2> HIDE DEF size
  <2> QED
    BY <1>1, <1>8
<1> HIDE DEF Solves, size
<1> DEFINE Counts(n) == /\ WalkInv(g, walk[n])
                        /\ \/ IsOver(g, walk[n])
                           \/ IsFiniteSet(Done(g, walk[n])) /\ Cardinality(Done(g, walk[n])) = n
           T == {n \in Nat : n <= size => Counts(n)}
<1>11. 0 \in T
  BY <1>10, WalkStarts, FS_EmptySet
<1>12. ASSUME NEW n \in Nat, n \in T PROVE n + 1 \in T
  <2>1. SUFFICES ASSUME n + 1 <= size PROVE Counts(n + 1)
    OBVIOUS
  <2> DEFINE s == walk[n]  t == walk[n + 1]
  <2>2. Counts(n) /\ t = WalkStep(g, s)
    <3>1. n + 1 \in 1 .. size /\ (n + 1) - 1 = n /\ n <= size
      BY <1>1, <2>1
    <3> QED
      BY <1>10, <1>12, <3>1
  <2>3. WalkInv(g, s)
    BY <2>2
  <2> HIDE DEF s, t
  <2>4. /\ WalkInv(g, t)
        /\ \/ IsOver(g, s) /\ t = s
           \/ \E x : x \notin Done(g, s) /\ Done(g, t) = Done(g, s) \cup {x}
    BY <2>2, <2>3, WalkGoesOn
  <2>5. IsOver(g, s) => IsOver(g, t)
    <3>1. ASSUME IsOver(g, s), NEW x, x \notin Done(g, s), Done(g, t) = Done(g, s) \cup {x} PROVE FALSE
      <4>1. Visited(s) = NoKpi /\ WalkStep(g, s) = s
        BY <2>3, <3>1, WhoIsVisited DEF Visited, IsOver, WalkStep, Follows
      <4> QED
        BY <2>2, <3>1, <4>1
    <3> QED
      BY <2>4, <3>1
  <2>6. ASSUME ~ IsOver(g, s) PROVE IsFiniteSet(Done(g, t)) /\ Cardinality(Done(g, t)) = n + 1
    <3>1. IsFiniteSet(Done(g, s)) /\ Cardinality(Done(g, s)) = n
      BY <2>2, <2>6 DEF s
    <3>2. PICK x : x \notin Done(g, s) /\ Done(g, t) = Done(g, s) \cup {x}
      BY <2>4, <2>6
    <3> QED
      BY <3>1, <3>2, FS_AddElement
  <2> QED
    BY <2>4, <2>5, <2>6 DEF t
<1>13. Counts(size)
  <2>1. size \in T
    <3> HIDE DEF T
    <3> QED
      BY <1>1, <1>11, <1>12, Induction
  <2> QED
    BY <1>1, <2>1
<1> DEFINE last == walk[size]
<1>14. /\ WalkInv(g, last)
       /\ \/ IsOver(g, last)
          \/ IsFiniteSet(Done(g, last)) /\ Cardinality(Done(g, last)) = size
  BY <1>13
<1> HIDE DEF last
<1>15. Cardinality(Done(g, last)) < size
  <2>1. last \in WalkStates(g) /\ PassedInRange(g, last)
    BY <1>14 DEF WalkInv
  <2>2. Done(g, last) \subseteq WalkSteps(g) /\ <<NoKpi, 0>> \in WalkSteps(g) \ Done(g, last)
    BY <2>1, StepsAreFinite
  <2>3. Done(g, last) \in SUBSET (WalkSteps(g) \ {<<NoKpi, 0>>})
    BY <2>2
  <2>4. IsFiniteSet(WalkSteps(g) \ {<<NoKpi, 0>>}) /\ Cardinality(WalkSteps(g) \ {<<NoKpi, 0>>}) = size - 1
    BY <1>1, <2>2, FS_RemoveElement DEF size
  <2>5. Cardinality(Done(g, last)) <= size - 1
    BY <2>3, <2>4, FS_Subset
  <2>6. Cardinality(Done(g, last)) \in Nat
    BY <2>3, <2>4, FS_Subset, FS_CardinalityType
  <2> QED
    BY <1>1, <2>5, <2>6
<1>16. IsOver(g, last)
  BY <1>1, <1>14, <1>15
<1> QED
  BY <1>9, <1>14, <1>16 DEF last

\* What is reported as a cycle is one.
LEMMA ReportedCyclesAreReal ==
    ASSUME NEW g, IsGraph(g), NEW i \in DOMAIN DetectCycles(g)
    PROVE  IsCycle(g, DetectCycles(g)[i])
BY WalkIsOver DEF WalkInv, CyclesAreReal, DetectCycles

\* Both answers are lists.
LEMMA ReportedAreListed ==
    ASSUME NEW g, IsGraph(g)
    PROVE  DetectCycles(g) \in Seq(Seq(Nodes(g))) /\ TopoSort(g) \in Seq(Nodes(g))
BY WalkIsOver DEF WalkInv, WalkStates, DetectCycles, TopoSort

\* Without cycles the order has every KPI once, after what it needs.
LEMMA SortedIsComplete ==
    ASSUME NEW g, IsGraph(g), DetectCycles(g) = <<>>
    PROVE  /\ TopoSort(g) \in Seq(Nodes(g)) /\ IsInjective(TopoSort(g))
           /\ ToSet(TopoSort(g)) = Nodes(g)
           /\ NeedsBefore(g, TopoSort(g))
<1> DEFINE s == Walk(g)
<1>1. WalkInv(g, s) /\ IsOver(g, s) /\ s.cycles = <<>> /\ TopoSort(g) = s.order
  BY WalkIsOver DEF DetectCycles, TopoSort
<1> HIDE DEF s
<1>2. s.order \in Seq(Nodes(g)) /\ IsInjective(s.order) /\ NeedsBefore(g, s.order) /\ PassedIsDone(g, s)
  BY <1>1 DEF WalkInv, WalkStates, OrderIsDone
<1>3. s.path = <<>> /\ s.passed[NoKpi] = Len(g.nodes)
  BY <1>1 DEF IsOver
<1>4. \A k \in 1 .. Len(g.nodes) : g.nodes[k] \in ToSet(s.order)
  BY <1>2, <1>3 DEF PassedIsDone
<1>5. DOMAIN g.nodes = 1 .. Len(g.nodes)
  BY LenProperties DEF IsGraph
<1>6. Nodes(g) \subseteq ToSet(s.order)
  BY <1>4, <1>5 DEF Nodes, ToSet
<1>7. ToSet(s.order) \subseteq Nodes(g)
  BY <1>2, LenProperties DEF ToSet
<1> QED
  BY <1>1, <1>2, <1>6, <1>7

-----------------------------------------------------------------------------
(***************************************************************************)
(* The catalog                                                             *)
(***************************************************************************)

\* Of the places with a property the last one can be named.
LEMMA LastPlaceExists ==
    ASSUME NEW size \in Nat, NEW P, NEW i \in 1 .. size, i \in P
    PROVE  \E k \in 1 .. size : k \in P /\ \A j \in k + 1 .. size : j \notin P
<1> DEFINE T == {n \in Nat : \A m \in 1 .. n : m \in P => \E k \in 1 .. n : k \in P /\ \A j \in k + 1 .. n : j \notin P}
<1>1. 0 \in T
  OBVIOUS
<1>2. ASSUME NEW n \in Nat, n \in T PROVE n + 1 \in T
  <2>1. SUFFICES ASSUME NEW m \in 1 .. n + 1, m \in P
                 PROVE  \E k \in 1 .. n + 1 : k \in P /\ \A j \in k + 1 .. n + 1 : j \notin P
    OBVIOUS
  <2>2. CASE n + 1 \in P
    BY <2>2
  <2>3. CASE n + 1 \notin P
    <3>1. m \in 1 .. n
      BY <2>1, <2>3
    <3>2. PICK k \in 1 .. n : k \in P /\ \A j \in k + 1 .. n : j \notin P
      BY <1>2, <2>1, <3>1
    <3>3. \A j \in k + 1 .. n + 1 : j \notin P
      BY <2>3, <3>2
    <3> QED
      BY <3>2, <3>3
  <2> QED
    BY <2>2, <2>3
<1>3. size \in T
  <2> HIDE DEF T
  <2> QED
    BY <1>1, <1>2, Induction
<1> QED
  BY <1>3

\* A catalog lists records with names, and a name stands for one of them.
LEMMA CatalogLists ==
    ASSUME NEW c, IsCatalog(c)
    PROVE  /\ Len(c) \in Nat /\ DOMAIN c = 1 .. Len(c)
           /\ KpiIds(c) = {c[i].id : i \in 1 .. Len(c)} /\ NoKpi \notin KpiIds(c)
           /\ \A id \in KpiIds(c) :
                /\ KpiNamed(c, id) \in ToSet(c) /\ KpiNamed(c, id).id = id /\ KpiNamed(c, id).needs \in Seq(STRING)
                /\ ~ NeedsUnknown(c) => KpiNamed(c, id).needs \in Seq(KpiIds(c))
<1>1. Len(c) \in Nat /\ DOMAIN c = 1 .. Len(c)
  BY LenProperties DEF IsCatalog
<1>2. \A i \in DOMAIN c : c[i] \in ToSet(c)
  BY DEF ToSet
<1>3. KpiIds(c) = {c[i].id : i \in 1 .. Len(c)}
  BY <1>1 DEF KpiIds
<1>4. NoKpi \notin KpiIds(c)
  BY <1>2 DEF KpiIds, IsCatalog
<1>5. ASSUME NEW id \in KpiIds(c)
      PROVE  /\ KpiNamed(c, id) \in ToSet(c) /\ KpiNamed(c, id).id = id /\ KpiNamed(c, id).needs \in Seq(STRING)
             /\ ~ NeedsUnknown(c) => KpiNamed(c, id).needs \in Seq(KpiIds(c))
  <2> DEFINE P == {i \in DOMAIN c : c[i].id = id}
             Is(i) == c[i].id = id /\ \A j \in i + 1 .. Len(c) : c[j].id /= id
             k == CHOOSE i \in DOMAIN c : Is(i)
  <2>1. PICK i \in 1 .. Len(c) : c[i].id = id
    BY <1>3
  <2>2. \E i0 \in 1 .. Len(c) : i0 \in P /\ \A j \in i0 + 1 .. Len(c) : j \notin P
    <3>1. i \in P
      BY <1>1, <2>1
    <3> HIDE DEF P
    <3> QED
      BY <1>1, <3>1, LastPlaceExists
  <2>3. \E i0 \in DOMAIN c : Is(i0)
    BY <1>1, <2>2
  <2>4. k \in DOMAIN c /\ Is(k)
    <3> HIDE DEF Is
    <3> QED
      BY <2>3
  <2>5. KpiNamed(c, id) = c[k]
    BY DEF KpiNamed
  <2> HIDE DEF k
  <2>6. c[k] \in ToSet(c) /\ c[k].id = id
    BY <1>2, <2>4
  <2>7. c[k].needs \in Seq(STRING)
    BY <2>6 DEF IsCatalog
  <2>8. ASSUME ~ NeedsUnknown(c) PROVE c[k].needs \in Seq(KpiIds(c))
    <3>1. ToSet(c[k].needs) \subseteq KpiIds(c)
      BY <2>4, <2>8 DEF NeedsUnknown
    <3> DEFINE needs == c[k].needs
    <3>2. needs \in Seq(STRING) /\ ToSet(needs) \subseteq KpiIds(c)
      BY <2>7, <3>1
    <3> HIDE DEF needs
    <3>3. Len(needs) \in Nat /\ DOMAIN needs = 1 .. Len(needs) /\ needs = [j \in 1 .. Len(needs) |-> needs[j]]
      BY <3>2, LenProperties
    <3>4. \A j \in 1 .. Len(needs) : needs[j] \in KpiIds(c)
      BY <3>2, <3>3 DEF ToSet
    <3>5. needs \in Seq(KpiIds(c))
      BY <3>3, <3>4
    <3> QED
      BY <3>5 DEF needs
  <2> QED
    BY <2>5, <2>6, <2>7, <2>8
<1> QED
  BY <1>1, <1>3, <1>4, <1>5

\* There are no more names than KPIs, and as many only if none is there twice.
LEMMA NamesOfCatalog ==
    ASSUME NEW c, IsCatalog(c)
    PROVE  /\ IsFiniteSet(KpiIds(c)) /\ Cardinality(KpiIds(c)) \in Nat
           /\ Cardinality(KpiIds(c)) <= Len(c) /\ Len(c) \in Nat
           /\ ~ HasDuplicates(c) => \A i, j \in 1 .. Len(c) : c[i].id = c[j].id => i = j
<1> DEFINE onto == [i \in 1 .. Len(c) |-> c[i].id]
<1>1. Len(c) \in Nat /\ KpiIds(c) = {c[i].id : i \in 1 .. Len(c)}
  BY CatalogLists
<1>2. onto \in Surjection(1 .. Len(c), KpiIds(c)) /\ \A i \in 1 .. Len(c) : onto[i] = c[i].id
  BY <1>1 DEF Surjection
<1>3. IsFiniteSet(1 .. Len(c)) /\ Cardinality(1 .. Len(c)) = Len(c)
  BY <1>1, FS_Interval
<1> HIDE DEF onto
<1>4. /\ IsFiniteSet(KpiIds(c)) /\ Cardinality(KpiIds(c)) <= Cardinality(1 .. Len(c))
      /\ Cardinality(KpiIds(c)) = Cardinality(1 .. Len(c)) => onto \in Injection(1 .. Len(c), KpiIds(c))
  BY <1>2, <1>3, FS_Surjection
<1>5. Cardinality(KpiIds(c)) \in Nat
  BY <1>4, FS_CardinalityType
<1>6. ASSUME ~ HasDuplicates(c), NEW i \in 1 .. Len(c), NEW j \in 1 .. Len(c), c[i].id = c[j].id PROVE i = j
  <2>1. onto \in Injection(1 .. Len(c), KpiIds(c))
    BY <1>3, <1>4, <1>6 DEF HasDuplicates
  <2>2. onto[i] = onto[j]
    BY <1>2, <1>6
  <2> QED
    BY <2>1, <2>2 DEF Injection, IsInjective
<1> QED
  BY <1>1, <1>3, <1>4, <1>5, <1>6

\* The graph of a catalog without unknown KPIs.
LEMMA GraphOfCatalog ==
    ASSUME NEW c, IsCatalog(c), ~ NeedsUnknown(c), NEW g, g = BuildGraph(c)
    PROVE  /\ IsGraph(g) /\ Nodes(g) = KpiIds(c)
           /\ \A a, b : <<a, b>> \in DirectNeeds(c) <=> a \in KpiIds(c) /\ b \in ToSet(g.needs[a])
<1>1. g.nodes = [i \in DOMAIN c |-> c[i].id] /\ g.needs = [id \in KpiIds(c) |-> KpiNamed(c, id).needs]
  BY DEF BuildGraph
<1>2. /\ Len(c) \in Nat /\ DOMAIN c = 1 .. Len(c) /\ NoKpi \notin KpiIds(c)
      /\ KpiIds(c) = {c[i].id : i \in 1 .. Len(c)}
      /\ \A id \in KpiIds(c) : KpiNamed(c, id).needs \in Seq(KpiIds(c))
  BY CatalogLists
<1>3. Nodes(g) = KpiIds(c)
  BY <1>1, <1>2 DEF Nodes, ToSet
<1>4. g.nodes \in Seq(KpiIds(c))
  BY <1>1, <1>2
<1>5. g.needs \in [KpiIds(c) -> Seq(KpiIds(c))]
  BY <1>1, <1>2
<1>6. IsGraph(g)
  BY <1>2, <1>3, <1>4, <1>5 DEF IsGraph
<1>7. ASSUME NEW a, NEW b PROVE <<a, b>> \in DirectNeeds(c) <=> a \in KpiIds(c) /\ b \in ToSet(g.needs[a])
  <2>1. <<a, b>> \in DirectNeeds(c) <=> a \in KpiIds(c) /\ b \in KpiIds(c) /\ b \in ToSet(KpiNamed(c, a).needs)
    BY DEF DirectNeeds
  <2>2. a \in KpiIds(c) => ToSet(KpiNamed(c, a).needs) \subseteq KpiIds(c) /\ g.needs[a] = KpiNamed(c, a).needs
    <3>1. ASSUME a \in KpiIds(c) PROVE g.needs[a] = KpiNamed(c, a).needs
      BY <1>1, <3>1
    <3>2. ASSUME a \in KpiIds(c) PROVE ToSet(KpiNamed(c, a).needs) \subseteq KpiIds(c)
      <4> DEFINE needs == KpiNamed(c, a).needs
      <4>1. needs \in Seq(KpiIds(c))
        BY <1>2, <3>2
      <4> HIDE DEF needs
      <4>2. ToSet(needs) \subseteq KpiIds(c)
        BY <4>1, LenProperties DEF ToSet
      <4> QED
        BY <4>2 DEF needs
    <3> QED
      BY <3>1, <3>2
  <2> QED
    BY <2>1, <2>2
<1> QED
  BY <1>3, <1>6, <1>7

\* Two steps of a relation, or one.
LEMMA JoinedIs ==
    ASSUME NEW S, NEW r \in SUBSET (S \X S)
    PROVE  /\ Joined(r) \in SUBSET (S \X S) /\ r \subseteq Joined(r)
           /\ \A a, m, b : <<a, m>> \in r /\ <<m, b>> \in r => <<a, b>> \in Joined(r)
           /\ \A x \in Joined(r) \ r : \E a, m, b \in S : x = <<a, b>> /\ <<a, m>> \in r /\ <<m, b>> \in r
<1>1. ASSUME NEW a, NEW m, NEW b, <<a, m>> \in r, <<m, b>> \in r PROVE <<a, b>> \in Joined(r)
  <2>1. <<<<a, m>>, <<m, b>>>> \in {q \in r \X r : q[1][2] = q[2][1]}
    BY <1>1
  <2> QED
    BY <2>1 DEF Joined
<1>2. ASSUME NEW x \in Joined(r) \ r
      PROVE  \E a, m, b \in S : x = <<a, b>> /\ <<a, m>> \in r /\ <<m, b>> \in r
  <2>1. PICK p \in r \X r : p[1][2] = p[2][1] /\ x = <<p[1][1], p[2][2]>>
    BY DEF Joined
  <2>2. PICK a \in S, m \in S : p[1] = <<a, m>>
    BY <2>1
  <2>3. PICK k \in S, b \in S : p[2] = <<k, b>>
    BY <2>1
  <2>4. m = k /\ x = <<a, b>> /\ <<a, m>> \in r /\ <<k, b>> \in r
    BY <2>1, <2>2, <2>3
  <2> QED
    BY <2>4
<1>3. ASSUME NEW x \in Joined(r) PROVE x \in S \X S
  <2>1. CASE x \in r
    BY <2>1
  <2>2. CASE x \notin r
    <3>1. x \in Joined(r) \ r
      BY <2>2
    <3>2. \E a, m, b \in S : x = <<a, b>> /\ <<a, m>> \in r /\ <<m, b>> \in r
      BY <1>2, <3>1
    <3> QED
      BY <3>2
  <2> QED
    BY <2>1, <2>2
<1>4. r \subseteq Joined(r)
  BY DEF Joined
<1>5. Joined(r) \in SUBSET (S \X S)
  BY <1>3
<1> QED
  BY <1>1, <1>2, <1>4, <1>5

\* What is needed over any number of steps, number by number.
LEMMA AllNeedsIs ==
    ASSUME NEW c, IsCatalog(c)
    PROVE  \E within : /\ within[0] = DirectNeeds(c) /\ AllNeeds(c) = within[Len(c)]
                       /\ \A n \in 1 .. Len(c) : within[n] = Joined(within[n - 1])
                       /\ \A n \in 0 .. Len(c) : within[n] \in SUBSET (KpiIds(c) \X KpiIds(c))
<1> DEFINE size == Len(c)
           S == SUBSET (KpiIds(c) \X KpiIds(c))
           step == [x \in S \X (1 .. size) |-> Joined(x[1])]
           Solves(f) == f = [n \in 0 .. size |-> IF n = 0 THEN DirectNeeds(c) ELSE Joined(f[n - 1])]
           within == CHOOSE f : Solves(f)
<1>1. size \in Nat
  BY CatalogLists
<1>2. DirectNeeds(c) \in S
  BY DEF DirectNeeds
<1>3. \A r \in S : Joined(r) \in S
  BY JoinedIs
<1>4. StaysIn(step, S, size)
  BY <1>3 DEF StaysIn
<1>5. \A r \in S : \A n \in 1 .. size : step[<<r, n>>] = Joined(r)
  OBVIOUS
<1>6. \E f : Solves(f)
  <2> HIDE DEF size, S, step
  <2>1. \E run : Repeats(run, step, S, DirectNeeds(c), size)
    BY <1>1, <1>2, <1>4, StepsCanBeTaken
  <2>2. PICK run : Repeats(run, step, S, DirectNeeds(c), size)
    BY <2>1
  <2>3. run \in [0 .. size -> S] /\ run[0] = DirectNeeds(c) /\ \A n \in 1 .. size : run[n] = step[<<run[n - 1], n>>]
    BY <2>2 DEF Repeats
  <2>4. ASSUME NEW n \in 1 .. size PROVE run[n] = Joined(run[n - 1])
    <3>1. run[n - 1] \in S
      BY <1>1, <2>3
    <3> QED
      BY <1>5, <2>3, <3>1
  <2>5. Solves(run)
    BY <1>1, <2>3, <2>4
  <2> QED
    BY <2>5
<1>7. Solves(within)
  <2> HIDE DEF Solves
  <2> QED
    BY <1>6
<1>8. AllNeeds(c) = within[size]
  BY DEF AllNeeds
<1> HIDE DEF within, S, step
<1>9. within[0] = DirectNeeds(c) /\ \A n \in 1 .. size : within[n] = Joined(within[n - 1])
  <2> HIDE DEF size
  <2> QED
    BY <1>1, <1>7
<1> HIDE DEF Solves, size
<1> DEFINE T == {n \in Nat : n <= size => within[n] \in S}
<1>10. 0 \in T
  BY <1>2, <1>9
<1>11. ASSUME NEW n \in Nat, n \in T PROVE n + 1 \in T
  <2>1. SUFFICES ASSUME n + 1 <= size PROVE within[n + 1] \in S
    OBVIOUS
  <2>2. n + 1 \in 1 .. size /\ (n + 1) - 1 = n /\ n <= size
    BY <1>1, <2>1
  <2>3. within[n + 1] = Joined(within[n])
    BY <1>9, <2>2
  <2> QED
    BY <1>3, <1>11, <2>2, <2>3
<1>12. \A n \in 0 .. size : within[n] \in S
  <2>1. Nat \subseteq T
    <3> HIDE DEF T
    <3> QED
      BY <1>10, <1>11, Induction
  <2> QED
    BY <1>1, <2>1
<1> QED
  BY <1>8, <1>9, <1>12 DEF S, size

\* Each pair is of one that stands later and of one that stands before it.
GoesBack(order, r) == \A x \in r : \E i, j \in DOMAIN order : j < i /\ x = <<order[i], order[j]>>

\* In an order where needs stand before, they do at whatever distance.
LEMMA AllNeedsGoBack ==
    ASSUME NEW c, IsCatalog(c), NEW order, IsInjective(order), DOMAIN order \subseteq Nat,
           GoesBack(order, DirectNeeds(c))
    PROVE  GoesBack(order, AllNeeds(c))
<1>1. PICK within : /\ within[0] = DirectNeeds(c) /\ AllNeeds(c) = within[Len(c)]
                    /\ \A n \in 1 .. Len(c) : within[n] = Joined(within[n - 1])
                    /\ \A n \in 0 .. Len(c) : within[n] \in SUBSET (KpiIds(c) \X KpiIds(c))
  BY AllNeedsIs
<1>2. Len(c) \in Nat
  BY CatalogLists
<1> DEFINE T == {n \in Nat : n <= Len(c) => GoesBack(order, within[n])}
<1>3. 0 \in T
  BY <1>1
<1>4. ASSUME NEW n \in Nat, n \in T PROVE n + 1 \in T
  <2>1. SUFFICES ASSUME n + 1 <= Len(c) PROVE GoesBack(order, within[n + 1])
    OBVIOUS
  <2>2. n + 1 \in 1 .. Len(c) /\ (n + 1) - 1 = n /\ n <= Len(c) /\ n \in 0 .. Len(c)
    BY <1>2, <2>1
  <2> DEFINE r == within[n]  S == KpiIds(c)
  <2>3. r \in SUBSET (S \X S) /\ within[n + 1] = Joined(r) /\ GoesBack(order, r)
    BY <1>1, <1>4, <2>2
  <2> HIDE DEF r, S
  <2>4. ASSUME NEW x \in Joined(r) PROVE \E i, j \in DOMAIN order : j < i /\ x = <<order[i], order[j]>>
    <3>1. CASE x \in r
      BY <2>3, <3>1 DEF GoesBack
    <3>2. CASE x \notin r
      <4>1. PICK a, m, b \in S : x = <<a, b>> /\ <<a, m>> \in r /\ <<m, b>> \in r
        BY <2>3, <3>2, JoinedIs
      <4>2. PICK i \in DOMAIN order, j \in DOMAIN order : j < i /\ <<a, m>> = <<order[i], order[j]>>
        BY <2>3, <4>1 DEF GoesBack
      <4>3. PICK k \in DOMAIN order, l \in DOMAIN order : l < k /\ <<m, b>> = <<order[k], order[l]>>
        BY <2>3, <4>1 DEF GoesBack
      <4>4. j = k
        BY <4>2, <4>3 DEF IsInjective
      <4>5. l < i
        BY <4>2, <4>3, <4>4
      <4>6. x = <<order[i], order[l]>>
        BY <4>1, <4>2, <4>3
      <4> QED
        BY <4>5, <4>6
    <3> QED
      BY <3>1, <3>2
  <2> QED
    BY <2>3, <2>4 DEF GoesBack
<1>5. Len(c) \in T
  <2> HIDE DEF T
  <2> QED
    BY <1>2, <1>3, <1>4, Induction
<1> QED
  BY <1>1, <1>2, <1>5

\* Around a cycle, each needs itself.
LEMMA CycleNeedsItself ==
    ASSUME NEW c, IsCatalog(c), ~ NeedsUnknown(c), NEW cycle, IsCycle(BuildGraph(c), cycle)
    PROVE  \E p \in AllNeeds(c) : p[1] = p[2]
<1> DEFINE g == BuildGraph(c)  m == Len(cycle)  S == KpiIds(c)
<1>1. /\ IsGraph(g) /\ Nodes(g) = S
      /\ \A a, b : <<a, b>> \in DirectNeeds(c) <=> a \in S /\ b \in ToSet(g.needs[a])
  BY GraphOfCatalog
<1>2. /\ cycle \in Seq(S) /\ cycle # <<>> /\ IsInjective(cycle)
      /\ \A j \in DOMAIN cycle : cycle[j] \in ToSet(g.needs[cycle[IF j = m THEN 1 ELSE j + 1]])
  BY <1>1 DEF IsCycle
<1> HIDE DEF g
<1>3. m \in Nat \ {0} /\ DOMAIN cycle = 1 .. m /\ \A i \in 1 .. m : cycle[i] \in S
  BY <1>2, EmptySeq, LenProperties
<1>4. \A j \in 1 .. m : <<cycle[IF j = m THEN 1 ELSE j + 1], cycle[j]>> \in DirectNeeds(c)
  <2> TAKE j \in 1 .. m
  <2> DEFINE k == IF j = m THEN 1 ELSE j + 1
  <2>1. k \in 1 .. m
    <3>1. m \in Nat /\ m # 0 /\ j \in 1 .. m
      BY <1>3
    <3> HIDE DEF m
    <3>2. j = m => k = 1 /\ 1 \in 1 .. m
      BY <3>1
    <3>3. j # m => k = j + 1 /\ j + 1 \in 1 .. m
      BY <3>1
    <3> HIDE DEF k
    <3> QED
      BY <3>2, <3>3
  <2>2. cycle[j] \in ToSet(g.needs[cycle[k]])
    BY <1>2, <1>3
  <2> HIDE DEF k
  <2>3. <<cycle[k], cycle[j]>> \in DirectNeeds(c)
    BY <1>1, <1>3, <2>1, <2>2
  <2> QED
    BY <2>3 DEF k
<1>5. m <= Len(c) /\ Len(c) \in Nat
  <2>1. IsFiniteSet(S) /\ Cardinality(S) <= Len(c) /\ Cardinality(S) \in Nat /\ Len(c) \in Nat
    BY NamesOfCatalog
  <2>2. m <= Cardinality(S)
    BY <1>2, <2>1, NoLongerThanSet
  <2> QED
    BY <1>3, <2>1, <2>2
<1>6. PICK within : /\ within[0] = DirectNeeds(c) /\ AllNeeds(c) = within[Len(c)]
                    /\ \A n \in 1 .. Len(c) : within[n] = Joined(within[n - 1])
                    /\ \A n \in 0 .. Len(c) : within[n] \in SUBSET (S \X S)
  BY AllNeedsIs
<1> DEFINE Goes(n) == /\ DirectNeeds(c) \subseteq within[n]
                      /\ \A i, j \in 1 .. m : j < i /\ i - j <= n + 1 => <<cycle[i], cycle[j]>> \in within[n]
           T == {n \in Nat : n <= Len(c) => Goes(n)}
<1> HIDE DEF S, m
<1>7. 0 \in T
  <2>1. ASSUME NEW i \in 1 .. m, NEW j \in 1 .. m, j < i, i - j <= 0 + 1
        PROVE  <<cycle[i], cycle[j]>> \in within[0]
    <3>1. j # m /\ i = j + 1
      BY <1>3, <2>1
    <3> QED
      BY <1>4, <1>6, <3>1
  <2> QED
    BY <1>6, <2>1
<1>8. ASSUME NEW n \in Nat, n \in T PROVE n + 1 \in T
  <2>1. SUFFICES ASSUME n + 1 <= Len(c) PROVE Goes(n + 1)
    OBVIOUS
  <2>2. n + 1 \in 1 .. Len(c) /\ (n + 1) - 1 = n /\ n <= Len(c) /\ n \in 0 .. Len(c)
    BY <1>5, <2>1
  <2> DEFINE r == within[n]
  <2>3. r \in SUBSET (S \X S) /\ within[n + 1] = Joined(r) /\ Goes(n)
    BY <1>6, <1>8, <2>2
  <2>4. /\ r \subseteq Joined(r)
        /\ \A a, k, b : <<a, k>> \in r /\ <<k, b>> \in r => <<a, b>> \in Joined(r)
    <3>1. r \in SUBSET (S \X S)
      BY <2>3
    <3> HIDE DEF r
    <3> QED
      BY <3>1, JoinedIs
  <2>5. ASSUME NEW i \in 1 .. m, NEW j \in 1 .. m, j < i, i - j <= (n + 1) + 1
        PROVE  <<cycle[i], cycle[j]>> \in Joined(r)
    <3>1. CASE i - j <= n + 1
      BY <2>3, <2>4, <2>5, <3>1
    <3>2. CASE ~ (i - j <= n + 1)
      <4>1. j + 1 \in 1 .. m /\ j + 1 < i /\ i - (j + 1) <= n + 1 /\ j # m
        BY <1>3, <2>5, <3>2
      <4>2. <<cycle[i], cycle[j + 1]>> \in r
        BY <2>3, <4>1
      <4>3. <<cycle[j + 1], cycle[j]>> \in r
        BY <1>4, <2>3, <4>1
      <4> QED
        BY <2>4, <4>2, <4>3
    <3> QED
      BY <3>1, <3>2
  <2> QED
    BY <2>3, <2>4, <2>5
<1>9. Nat \subseteq T
  <2> HIDE DEF T
  <2> QED
    BY <1>7, <1>8, Induction
<1> DEFINE k == Len(c) - 1
<1>10. k \in Nat /\ k <= Len(c) /\ k + 1 = Len(c) /\ m - 1 <= k + 1 /\ 1 \in 1 .. m /\ m \in 1 .. m
  BY <1>3, <1>5
<1>11. Goes(k)
  BY <1>9, <1>10
<1> HIDE DEF k
<1>12. <<cycle[1], cycle[m]>> \in within[k]
  BY <1>4, <1>10, <1>11
<1>13. <<cycle[m], cycle[1]>> \in within[k]
  <2>1. CASE m = 1
    BY <1>12, <2>1
  <2>2. CASE m # 1
    <3>1. 1 < m
      BY <1>3, <2>2
    <3> QED
      BY <1>10, <1>11, <3>1
  <2> QED
    BY <2>1, <2>2
<1>14. AllNeeds(c) = Joined(within[k]) /\ within[k] \in SUBSET (S \X S)
  <2>1. Len(c) \in 1 .. Len(c) /\ Len(c) - 1 = k /\ k \in 0 .. Len(c)
    BY <1>5, <1>10
  <2> QED
    BY <1>6, <2>1
<1>15. <<cycle[1], cycle[1]>> \in AllNeeds(c)
  <2> DEFINE r == within[k]
  <2>1. r \in SUBSET (S \X S) /\ <<cycle[1], cycle[m]>> \in r /\ <<cycle[m], cycle[1]>> \in r
    BY <1>12, <1>13, <1>14
  <2> HIDE DEF r
  <2>2. <<cycle[1], cycle[1]>> \in Joined(r)
    BY <2>1, JoinedIs
  <2> QED
    BY <1>14, <2>2 DEF r
<1> QED
  BY <1>15

\* The order of a catalog without cycles has every KPI once, after all it needs.
LEMMA OrderOfCatalog ==
    ASSUME NEW c, IsCatalog(c), ~ NeedsUnknown(c), DetectCycles(BuildGraph(c)) = <<>>,
           NEW order, order = TopoSort(BuildGraph(c))
    PROVE  /\ order \in Seq(KpiIds(c)) /\ IsInjective(order) /\ ToSet(order) = KpiIds(c)
           /\ GoesBack(order, AllNeeds(c))
           /\ ExecutionOrder(c).order = order
<1> DEFINE g == BuildGraph(c)  S == KpiIds(c)
<1>1. /\ IsGraph(g) /\ Nodes(g) = S
      /\ \A a, b : <<a, b>> \in DirectNeeds(c) <=> a \in S /\ b \in ToSet(g.needs[a])
  BY GraphOfCatalog
<1>2. DetectCycles(g) = <<>> /\ order = TopoSort(g)
  OBVIOUS
<1> HIDE DEF g
<1>3. order \in Seq(S) /\ IsInjective(order) /\ ToSet(order) = S /\ NeedsBefore(g, order)
  BY <1>1, <1>2, SortedIsComplete
<1>4. DOMAIN order = 1 .. Len(order) /\ Len(order) \in Nat
  BY <1>3, LenProperties
<1>5. g.needs \in [S -> Seq(S)]
  BY <1>1 DEF IsGraph
<1>6. ASSUME NEW x \in DirectNeeds(c)
      PROVE  \E i, j \in DOMAIN order : j < i /\ x = <<order[i], order[j]>>
  <2>1. PICK a \in S, b \in S : x = <<a, b>>
    BY DEF DirectNeeds
  <2>2. b \in ToSet(g.needs[a])
    BY <1>1, <2>1
  <2>3. PICK i \in DOMAIN order : order[i] = a
    BY <1>3, <2>1 DEF ToSet
  <2>4. PICK k \in 1 .. Len(g.needs[a]) : g.needs[a][k] = b
    <3> DEFINE needs == g.needs[a]
    <3>1. needs \in Seq(S) /\ b \in ToSet(needs)
      BY <1>5, <2>1, <2>2
    <3> HIDE DEF needs
    <3>2. \E k \in 1 .. Len(needs) : needs[k] = b
      BY <3>1, LenProperties DEF ToSet
    <3> QED
      BY <3>2 DEF needs
  <2>5. PICK j \in 1 .. i - 1 : order[j] = b
    BY <1>3, <2>3, <2>4 DEF NeedsBefore
  <2>6. j \in DOMAIN order /\ j < i
    BY <1>4, <2>3, <2>5
  <2> QED
    BY <2>1, <2>3, <2>5, <2>6
<1>7. GoesBack(order, DirectNeeds(c))
  BY <1>6 DEF GoesBack
<1>8. DOMAIN order \subseteq Nat
  BY <1>4
<1>9. GoesBack(order, AllNeeds(c))
  BY <1>3, <1>7, <1>8, AllNeedsGoBack
<1>10. ExecutionOrder(c).order = order
  BY <1>2 DEF ExecutionOrder, g
<1> QED
  BY <1>3, <1>9, <1>10

\* A cycle is reported exactly when there is one, and only such.
LEMMA CyclesOfCatalog ==
    ASSUME NEW c, IsCatalog(c), ~ NeedsUnknown(c)
    PROVE  CyclesAreFound(c)
<1> DEFINE g == BuildGraph(c)  found == DetectCycles(g)
<1>1. /\ IsGraph(g) /\ Nodes(g) = KpiIds(c)
      /\ \A a, b : <<a, b>> \in DirectNeeds(c) <=> a \in KpiIds(c) /\ b \in ToSet(g.needs[a])
  BY GraphOfCatalog
<1>2. \A i \in DOMAIN found : IsCycle(g, found[i])
  <2> HIDE DEF g
  <2> QED
    BY <1>1, ReportedCyclesAreReal
<1>3. found \in Seq(Seq(Nodes(g)))
  <2> HIDE DEF g
  <2> QED
    BY <1>1, ReportedAreListed
<1>4. ASSUME found # <<>> PROVE \E p \in AllNeeds(c) : p[1] = p[2]
  <2>1. 1 \in DOMAIN found
    <3> HIDE DEF found
    <3> QED
      BY <1>3, <1>4, EmptySeq, LenProperties
  <2>2. IsCycle(BuildGraph(c), found[1])
    BY <1>2, <2>1
  <2> HIDE DEF found
  <2> QED
    BY <2>2, CycleNeedsItself
<1>5. ASSUME found = <<>>, NEW p \in AllNeeds(c) PROVE p[1] # p[2]
  <2> DEFINE order == TopoSort(BuildGraph(c))
  <2>1. order \in Seq(KpiIds(c)) /\ IsInjective(order) /\ GoesBack(order, AllNeeds(c))
    BY <1>5, OrderOfCatalog
  <2> HIDE DEF order
  <2>2. PICK i \in DOMAIN order, j \in DOMAIN order : j < i /\ p = <<order[i], order[j]>>
    BY <2>1 DEF GoesBack
  <2>3. i # j
    BY <2>1, <2>2, LenProperties
  <2> QED
    BY <2>1, <2>2, <2>3 DEF IsInjective
<1>6. ASSUME NEW i \in DOMAIN found
      PROVE  /\ \A j \in DOMAIN found[i] :
                   <<found[i][IF j = Len(found[i]) THEN 1 ELSE j + 1], found[i][j]>> \in DirectNeeds(c)
             /\ IsInjective(found[i])
  <2> DEFINE cycle == found[i]  m == Len(cycle)
  <2>1. IsCycle(g, cycle)
    BY <1>2
  <2> HIDE DEF cycle, g
  <2>2. /\ cycle \in Seq(KpiIds(c)) /\ cycle # <<>> /\ IsInjective(cycle)
        /\ \A j \in DOMAIN cycle : cycle[j] \in ToSet(g.needs[cycle[IF j = m THEN 1 ELSE j + 1]])
    BY <1>1, <2>1 DEF IsCycle
  <2>3. m \in Nat /\ m # 0 /\ DOMAIN cycle = 1 .. m /\ \A j \in 1 .. m : cycle[j] \in KpiIds(c)
    BY <2>2, EmptySeq, LenProperties
  <2>4. ASSUME NEW j \in DOMAIN cycle
        PROVE  <<cycle[IF j = m THEN 1 ELSE j + 1], cycle[j]>> \in DirectNeeds(c)
    <3> DEFINE k == IF j = m THEN 1 ELSE j + 1
    <3>1. k \in 1 .. m
      <4>1. m \in Nat /\ m # 0 /\ j \in 1 .. m
        BY <2>3
      <4> HIDE DEF m
      <4>2. j = m => k = 1 /\ 1 \in 1 .. m
        BY <4>1
      <4>3. j # m => k = j + 1 /\ j + 1 \in 1 .. m
        BY <4>1
      <4> HIDE DEF k
      <4> QED
        BY <4>2, <4>3
    <3>2. cycle[j] \in ToSet(g.needs[cycle[k]])
      BY <2>2
    <3> HIDE DEF k
    <3>3. <<cycle[k], cycle[j]>> \in DirectNeeds(c)
      BY <1>1, <2>3, <3>1, <3>2
    <3> QED
      BY <3>3 DEF k
  <2> QED
    BY <2>2, <2>4 DEF cycle
<1> HIDE DEF found
<1>7. found # <<>> <=> \E p \in AllNeeds(c) : p[1] = p[2]
  BY <1>4, <1>5
<1> QED
  BY <1>6, <1>7 DEF CyclesAreFound, found, g

\* What is written of a KPI, and of a list of them.
MeasureOf(c, id) == [name |-> KpiNamed(c, id).title, of |-> id, scaled |-> KpiNamed(c, id).scaled]

MeasuresOf(c, ids) == [i \in DOMAIN ids |-> MeasureOf(c, ids[i])]

\* The visible of the first n KPIs, in their order.
IsShown(c, order, n, ids) ==
    /\ ids \in Seq(KpiIds(c))
    /\ \A a \in DOMAIN ids : /\ ~ KpiNamed(c, ids[a]).hidden
                             /\ \E i \in 1 .. n : order[i] = ids[a]
    /\ \A i \in 1 .. n : ~ KpiNamed(c, order[i]).hidden => order[i] \in ToSet(ids)
    /\ \A a, b \in DOMAIN ids : a < b => \E i, j \in 1 .. n : i < j /\ order[i] = ids[a] /\ order[j] = ids[b]

\* One more KPI.
LEMMA OneMoreIsShown ==
    ASSUME NEW c, NEW order, NEW n \in Nat, NEW e \in KpiIds(c), order[n + 1] = e,
           NEW ids, IsShown(c, order, n, ids)
    PROVE  /\ KpiNamed(c, e).hidden => IsShown(c, order, n + 1, ids)
           /\ ~ KpiNamed(c, e).hidden => /\ IsShown(c, order, n + 1, Append(ids, e))
                                         /\ MeasuresOf(c, Append(ids, e)) = Append(MeasuresOf(c, ids), MeasureOf(c, e))
<1>1. /\ ids \in Seq(KpiIds(c))
      /\ \A a \in DOMAIN ids : ~ KpiNamed(c, ids[a]).hidden
      /\ \A a \in DOMAIN ids : \E i \in 1 .. n : order[i] = ids[a]
      /\ \A i \in 1 .. n : ~ KpiNamed(c, order[i]).hidden => order[i] \in ToSet(ids)
      /\ \A a, b \in DOMAIN ids : a < b => \E i, j \in 1 .. n : i < j /\ order[i] = ids[a] /\ order[j] = ids[b]
  BY DEF IsShown
<1>2. \A i \in 1 .. n + 1 : i \in 1 .. n \/ i = n + 1
  OBVIOUS
<1>3. \A i \in 1 .. n : i \in 1 .. n + 1 /\ i < n + 1
  OBVIOUS
<1>4. n + 1 \in 1 .. n + 1
  OBVIOUS
<1>5. ASSUME KpiNamed(c, e).hidden PROVE IsShown(c, order, n + 1, ids)
  <2>1. \A a \in DOMAIN ids : \E i \in 1 .. n + 1 : order[i] = ids[a]
    BY <1>1, <1>3
  <2>2. \A i \in 1 .. n + 1 : ~ KpiNamed(c, order[i]).hidden => order[i] \in ToSet(ids)
    BY <1>1, <1>2, <1>5
  <2>3. \A a, b \in DOMAIN ids : a < b => \E i, j \in 1 .. n + 1 : i < j /\ order[i] = ids[a] /\ order[j] = ids[b]
    BY <1>1, <1>3
  <2> QED
    BY <1>1, <2>1, <2>2, <2>3 DEF IsShown
<1>6. ASSUME ~ KpiNamed(c, e).hidden
      PROVE  /\ IsShown(c, order, n + 1, Append(ids, e))
             /\ MeasuresOf(c, Append(ids, e)) = Append(MeasuresOf(c, ids), MeasureOf(c, e))
  <2> DEFINE m == Len(ids)  more == Append(ids, e)
  <2>1. /\ more \in Seq(KpiIds(c)) /\ m \in Nat /\ DOMAIN more = 1 .. m + 1 /\ DOMAIN ids = 1 .. m
        /\ \A i \in 1 .. m : more[i] = ids[i]
        /\ more[m + 1] = e /\ ToSet(more) = ToSet(ids) \cup {e} /\ Len(more) = m + 1
    BY <1>1, ElementsOfAppended
  <2>2. MeasuresOf(c, more) = Append(MeasuresOf(c, ids), MeasureOf(c, e))
    <3> DEFINE old == MeasuresOf(c, ids)  x == MeasureOf(c, e)
    <3>1. /\ old = [i \in 1 .. m |-> MeasureOf(c, ids[i])]
          /\ MeasuresOf(c, more) = [i \in 1 .. m + 1 |-> MeasureOf(c, more[i])]
      BY <2>1 DEF MeasuresOf
    <3> HIDE DEF m, more
    <3>2. old \in Seq({old[i] : i \in 1 .. m} \cup {x}) /\ Len(old) = m
      <4> DEFINE P == {old[i] : i \in 1 .. m} \cup {x}
      <4>1. old \in [1 .. m -> P]
        BY <3>1
      <4> HIDE DEF old, P
      <4> QED
        BY <2>1, <4>1
    <3> HIDE DEF old, x
    <3>3. Append(old, x) = [i \in 1 .. m + 1 |-> IF i = m + 1 THEN x ELSE old[i]]
      <4> DEFINE P == {old[i] : i \in 1 .. m} \cup {x}  longer == Append(old, x)
      <4>1. old \in Seq(P) /\ x \in P
        BY <3>2
      <4> HIDE DEF P
      <4>2. /\ longer \in Seq(P) /\ DOMAIN longer = 1 .. m + 1 /\ longer[m + 1] = x
            /\ \A i \in 1 .. m : longer[i] = old[i]
        BY <3>2, <4>1, ElementsOfAppended
      <4> HIDE DEF longer
      <4>3. longer = [i \in 1 .. m + 1 |-> longer[i]]
        BY <4>2
      <4>4. ASSUME NEW i \in 1 .. m + 1 PROVE longer[i] = IF i = m + 1 THEN x ELSE old[i]
        <5>1. i # m + 1 => i \in 1 .. m
          BY <2>1
        <5> QED
          BY <4>2, <5>1
      <4> QED
        BY <4>3, <4>4 DEF longer
    <3>4. \A i \in 1 .. m + 1 : MeasureOf(c, more[i]) = IF i = m + 1 THEN x ELSE old[i]
      <4> TAKE i \in 1 .. m + 1
      <4>1. CASE i = m + 1
        BY <2>1, <4>1 DEF x
      <4>2. CASE i # m + 1
        <5>1. i \in 1 .. m
          BY <2>1, <4>2
        <5> QED
          BY <2>1, <3>1, <4>2, <5>1
      <4> QED
        BY <4>1, <4>2
    <3>5. [i \in 1 .. m + 1 |-> MeasureOf(c, more[i])] = [i \in 1 .. m + 1 |-> IF i = m + 1 THEN x ELSE old[i]]
      BY <3>4
    <3>6. MeasuresOf(c, more) = Append(old, x)
      BY <3>1, <3>3, <3>5
    <3> QED
      BY <3>6 DEF old, x
  <2> HIDE DEF m, more
  <2>3. \A a \in 1 .. m + 1 : a \in 1 .. m \/ a = m + 1
    BY <2>1
  <2>4. \A a \in DOMAIN more : ~ KpiNamed(c, more[a]).hidden
    BY <1>1, <1>6, <2>1, <2>3
  <2>5. \A a \in DOMAIN more : \E i \in 1 .. n + 1 : order[i] = more[a]
    BY <1>1, <1>3, <1>4, <2>1, <2>3
  <2>6. \A i \in 1 .. n + 1 : ~ KpiNamed(c, order[i]).hidden => order[i] \in ToSet(more)
    BY <1>1, <1>2, <2>1
  <2>7. ASSUME NEW a \in DOMAIN more, NEW b \in DOMAIN more, a < b
        PROVE  \E i, j \in 1 .. n + 1 : i < j /\ order[i] = more[a] /\ order[j] = more[b]
    <3>1. a \in 1 .. m /\ more[a] = ids[a]
      BY <2>1, <2>7
    <3>2. CASE b = m + 1
      <4>1. PICK i \in 1 .. n : order[i] = ids[a]
        BY <1>1, <2>1, <3>1
      <4>2. i \in 1 .. n + 1 /\ n + 1 \in 1 .. n + 1 /\ i < n + 1 /\ order[n + 1] = more[b]
        BY <1>3, <1>4, <2>1, <3>2
      <4> QED
        BY <3>1, <4>1, <4>2
    <3>3. CASE b # m + 1
      <4>1. b \in 1 .. m /\ more[b] = ids[b]
        BY <2>1, <3>3
      <4>2. PICK i \in 1 .. n, j \in 1 .. n : i < j /\ order[i] = ids[a] /\ order[j] = ids[b]
        BY <1>1, <2>1, <2>7, <3>1, <4>1
      <4> QED
        BY <1>3, <3>1, <4>1, <4>2
    <3> QED
      BY <3>2, <3>3
  <2> QED
    BY <2>1, <2>2, <2>4, <2>5, <2>6, <2>7 DEF IsShown, more
<1> QED
  BY <1>5, <1>6

\* Both files have the visible KPIs in the order.
LEMMA WhatIsShown ==
    ASSUME NEW c, NEW order, order = ExecutionOrder(c).order, order \in Seq(KpiIds(c))
    PROVE  \E ids : /\ IsShown(c, order, Len(order), ids)
                    /\ EmitDax(c) = MeasuresOf(c, ids) /\ BuildTmslMeasures(c) = MeasuresOf(c, ids)
<1> DEFINE size == Len(order)
           hides(n) == KpiNamed(c, order[n]).hidden
           S == Seq(KpiIds(c))
           R == Seq({MeasureOf(c, id) : id \in KpiIds(c)})
           Take(ids, n) == IF hides(n) THEN ids ELSE Append(ids, order[n])
           Note(made, n) == IF hides(n) THEN made ELSE Append(made, MeasureOf(c, order[n]))
           takes == [x \in S \X (1 .. size) |-> Take(x[1], x[2])]
           notes == [x \in R \X (1 .. size) |-> Note(x[1], x[2])]
           Shows(f) == f = [n \in 0 .. size |-> IF n = 0 THEN <<>> ELSE Take(f[n - 1], n)]
           Notes(f) == f = [n \in 0 .. size |-> IF n = 0 THEN <<>> ELSE Note(f[n - 1], n)]
           visible == CHOOSE f : Shows(f)
           measures == CHOOSE f : Notes(f)
<1>1. size \in Nat /\ \A n \in 1 .. size : order[n] \in KpiIds(c)
  BY LenProperties
<1>2. StaysIn(takes, S, size)
  <2>1. \A s \in S : \A n \in 1 .. size : Append(s, order[n]) \in S
    BY <1>1
  <2>2. \A s \in S : \A n \in 1 .. size : Take(s, n) \in S
    <3> HIDE DEF hides, S, size
    <3> QED
      BY <2>1
  <2>3. takes \in [S \X (1 .. size) -> S]
    <3> HIDE DEF Take, S, size
    <3> QED
      BY <2>2
  <2> QED
    BY <2>3 DEF StaysIn
<1>3. StaysIn(notes, R, size)
  <2>1. \A s \in R : \A n \in 1 .. size : Append(s, MeasureOf(c, order[n])) \in R
    BY <1>1
  <2>2. \A s \in R : \A n \in 1 .. size : Note(s, n) \in R
    <3> HIDE DEF hides, R, size
    <3> QED
      BY <2>1
  <2>3. notes \in [R \X (1 .. size) -> R]
    <3> HIDE DEF Note, R, size
    <3> QED
      BY <2>2
  <2> QED
    BY <2>3 DEF StaysIn
<1>4. <<>> \in S /\ <<>> \in R
  OBVIOUS
<1>5. \E f : Shows(f)
  <2>1. \A s \in S : \A n \in 1 .. size : takes[<<s, n>>] = Take(s, n)
    <3> HIDE DEF Take, S, size
    <3> QED
      OBVIOUS
  <2> HIDE DEF size, S, takes, Take
  <2>2. PICK run : Repeats(run, takes, S, <<>>, size)
    BY <1>1, <1>2, <1>4, StepsCanBeTaken
  <2>3. run \in [0 .. size -> S] /\ run[0] = <<>> /\ \A n \in 1 .. size : run[n] = takes[<<run[n - 1], n>>]
    BY <2>2 DEF Repeats
  <2>4. ASSUME NEW n \in 1 .. size
        PROVE  run[n] = Take(run[n - 1], n)
    <3>1. run[n - 1] \in S
      BY <1>1, <2>3
    <3> QED
      BY <2>1, <2>3, <3>1
  <2>5. Shows(run)
    BY <1>1, <2>3, <2>4
  <2> QED
    BY <2>5
<1>6. \E f : Notes(f)
  <2>1. \A s \in R : \A n \in 1 .. size : notes[<<s, n>>] = Note(s, n)
    <3> HIDE DEF Note, R, size
    <3> QED
      OBVIOUS
  <2> HIDE DEF size, R, notes, Note
  <2>2. PICK run : Repeats(run, notes, R, <<>>, size)
    BY <1>1, <1>3, <1>4, StepsCanBeTaken
  <2>3. run \in [0 .. size -> R] /\ run[0] = <<>> /\ \A n \in 1 .. size : run[n] = notes[<<run[n - 1], n>>]
    BY <2>2 DEF Repeats
  <2>4. ASSUME NEW n \in 1 .. size
        PROVE  run[n] = Note(run[n - 1], n)
    <3>1. run[n - 1] \in R
      BY <1>1, <2>3
    <3> QED
      BY <2>1, <2>3, <3>1
  <2>5. Notes(run)
    BY <1>1, <2>3, <2>4
  <2> QED
    BY <2>5
<1>7. Shows(visible)
  <2> HIDE DEF Shows
  <2> QED
    BY <1>5
<1>8. Notes(measures)
  <2> HIDE DEF Notes
  <2> QED
    BY <1>6
<1> DEFINE ids == visible[size]
<1>9. EmitDax(c) = MeasuresOf(c, ids)
  BY DEF EmitDax, MeasuresOf, MeasureOf
<1>10. BuildTmslMeasures(c) = measures[size]
  BY DEF BuildTmslMeasures, MeasureOf
<1> HIDE DEF visible, measures, S, R, takes, notes
<1>110. /\ visible[0] = <<>> /\ \A n \in 1 .. size : visible[n] = Take(visible[n - 1], n)
        /\ measures[0] = <<>> /\ \A n \in 1 .. size : measures[n] = Note(measures[n - 1], n)
  <2> HIDE DEF size, Take, Note
  <2> QED
    BY <1>1, <1>7, <1>8
<1>11. /\ visible[0] = <<>> /\ measures[0] = <<>>
       /\ \A n \in 1 .. size : hides(n) => visible[n] = visible[n - 1] /\ measures[n] = measures[n - 1]
       /\ \A n \in 1 .. size : ~ hides(n) => /\ visible[n] = Append(visible[n - 1], order[n])
                                             /\ measures[n] = Append(measures[n - 1], MeasureOf(c, order[n]))
  <2> HIDE DEF size, hides
  <2> QED
    BY <1>110
<1> HIDE DEF Shows, Notes
<1> DEFINE T == {n \in Nat : n <= size => IsShown(c, order, n, visible[n]) /\ measures[n] = MeasuresOf(c, visible[n])}
<1>12. 0 \in T
  <2>1. IsShown(c, order, 0, <<>>)
    BY DEF IsShown
  <2>2. MeasuresOf(c, <<>>) = <<>>
    BY DEF MeasuresOf
  <2> QED
    BY <1>11, <2>1, <2>2
<1>13. ASSUME NEW n \in Nat, n \in T PROVE n + 1 \in T
  <2>1. SUFFICES ASSUME n + 1 <= size
                 PROVE  IsShown(c, order, n + 1, visible[n + 1]) /\ measures[n + 1] = MeasuresOf(c, visible[n + 1])
    OBVIOUS
  <2>2. n + 1 \in 1 .. size /\ (n + 1) - 1 = n /\ n <= size
    BY <1>1, <2>1
  <2> DEFINE e == order[n + 1]  old == visible[n]  noted == measures[n]
  <2>3. e \in KpiIds(c) /\ IsShown(c, order, n, old) /\ noted = MeasuresOf(c, old)
    BY <1>1, <1>13, <2>2
  <2>4. /\ hides(n + 1) => visible[n + 1] = old /\ measures[n + 1] = noted
        /\ ~ hides(n + 1) => visible[n + 1] = Append(old, e) /\ measures[n + 1] = Append(noted, MeasureOf(c, e))
    BY <1>11, <2>2
  <2>5. /\ hides(n + 1) => IsShown(c, order, n + 1, old)
        /\ ~ hides(n + 1) => /\ IsShown(c, order, n + 1, Append(old, e))
                             /\ MeasuresOf(c, Append(old, e)) = Append(MeasuresOf(c, old), MeasureOf(c, e))
    <3> HIDE DEF old
    <3> QED
      BY <2>3, OneMoreIsShown
  <2> HIDE DEF old, noted, e, hides
  <2>6. CASE hides(n + 1)
    BY <2>3, <2>4, <2>5, <2>6
  <2>7. CASE ~ hides(n + 1)
    BY <2>3, <2>4, <2>5, <2>7
  <2> QED
    BY <2>6, <2>7
<1>14. size \in T
  <2> HIDE DEF T
  <2> QED
    BY <1>1, <1>12, <1>13, Induction
<1>15. IsShown(c, order, size, ids) /\ measures[size] = MeasuresOf(c, ids)
  BY <1>1, <1>14
<1> HIDE DEF ids
<1> QED
  BY <1>9, <1>10, <1>15

\* The measures of a catalog that meets the rules.
LEMMA MeasuresOfCatalog ==
    ASSUME NEW c, IsCatalog(c), SemanticsHold(c)
    PROVE  /\ MeasuresAreOrdered(c, EmitDax(c)) /\ BuildTmslMeasures(c) = EmitDax(c)
           /\ Len(EmitDax(c)) \in Nat /\ Len(EmitDax(c)) <= Len(c) /\ Len(c) \in Nat
<1> DEFINE order == TopoSort(BuildGraph(c))  S == KpiIds(c)
<1>1. ~ HasDuplicates(c) /\ ~ NeedsUnknown(c) /\ DetectCycles(BuildGraph(c)) = <<>>
  BY DEF SemanticsHold
<1>2. /\ order \in Seq(S) /\ IsInjective(order) /\ ToSet(order) = S
      /\ GoesBack(order, AllNeeds(c)) /\ ExecutionOrder(c).order = order
  BY <1>1, OrderOfCatalog
<1> HIDE DEF order
<1>3. PICK ids : /\ IsShown(c, order, Len(order), ids)
                 /\ EmitDax(c) = MeasuresOf(c, ids) /\ BuildTmslMeasures(c) = MeasuresOf(c, ids)
  BY <1>2, WhatIsShown
<1>4. /\ ids \in Seq(S)
      /\ \A a \in DOMAIN ids : ~ KpiNamed(c, ids[a]).hidden
      /\ \A i \in 1 .. Len(order) : ~ KpiNamed(c, order[i]).hidden => order[i] \in ToSet(ids)
      /\ \A a, b \in DOMAIN ids : a < b =>
            \E i, j \in 1 .. Len(order) : i < j /\ order[i] = ids[a] /\ order[j] = ids[b]
  BY <1>3 DEF IsShown
<1>5. Len(order) \in Nat /\ DOMAIN order = 1 .. Len(order)
  BY <1>2, LenProperties
<1>6. Len(ids) \in Nat /\ DOMAIN ids = 1 .. Len(ids) /\ ids = [i \in 1 .. Len(ids) |-> ids[i]]
      /\ \A a \in DOMAIN ids : ids[a] \in S
  BY <1>4, LenProperties
<1>7. \A a, b \in DOMAIN ids : a < b => ids[a] # ids[b]
  <2> SUFFICES ASSUME NEW a \in DOMAIN ids, NEW b \in DOMAIN ids, a < b, ids[a] = ids[b] PROVE FALSE
    OBVIOUS
  <2>1. PICK i \in 1 .. Len(order), j \in 1 .. Len(order) : i < j /\ order[i] = ids[a] /\ order[j] = ids[b]
    BY <1>4
  <2>2. i = j
    BY <1>2, <1>5, <2>1 DEF IsInjective
  <2> QED
    BY <2>1, <2>2
<1>8. IsInjective(ids)
  <2>1. \A a, b \in 1 .. Len(ids) : a = b \/ a < b \/ b < a
    BY <1>6
  <2> QED
    BY <1>6, <1>7, <2>1 DEF IsInjective
<1>9. \A k \in ToSet(c) : k.id \in S /\ KpiNamed(c, k.id) = k
  <2> TAKE k \in ToSet(c)
  <2>1. Len(c) \in Nat /\ DOMAIN c = 1 .. Len(c) /\ S = {c[i].id : i \in 1 .. Len(c)}
        /\ \A id \in S : KpiNamed(c, id) \in ToSet(c) /\ KpiNamed(c, id).id = id
    BY CatalogLists
  <2> HIDE DEF S
  <2>2. PICK i \in 1 .. Len(c) : k = c[i]
    BY <2>1 DEF ToSet
  <2>3. k.id \in S
    BY <2>1, <2>2
  <2> DEFINE named == KpiNamed(c, k.id)
  <2>4. named \in ToSet(c) /\ named.id = k.id
    BY <2>1, <2>3
  <2> HIDE DEF named
  <2>5. PICK j \in 1 .. Len(c) : named = c[j]
    BY <2>1, <2>4 DEF ToSet
  <2>6. i = j
    BY <1>1, <2>2, <2>4, <2>5, NamesOfCatalog
  <2>7. named = k
    BY <2>2, <2>5, <2>6
  <2> QED
    BY <2>3, <2>7 DEF named
<1>10. ToSet(ids) = {k.id : k \in {k \in ToSet(c) : ~ k.hidden}}
  <2>1. ASSUME NEW x \in ToSet(ids) PROVE \E k \in ToSet(c) : ~ k.hidden /\ x = k.id
    <3>1. PICK a \in DOMAIN ids : x = ids[a]
      BY <2>1 DEF ToSet
    <3>2. x \in S /\ ~ KpiNamed(c, x).hidden
      BY <1>4, <1>6, <3>1
    <3>3. KpiNamed(c, x) \in ToSet(c) /\ KpiNamed(c, x).id = x
      BY <3>2, CatalogLists
    <3> QED
      BY <3>2, <3>3
  <2>2. ASSUME NEW k \in ToSet(c), ~ k.hidden PROVE k.id \in ToSet(ids)
    <3>1. k.id \in ToSet(order) /\ ~ KpiNamed(c, k.id).hidden
      BY <1>2, <1>9, <2>2
    <3>2. PICK i \in 1 .. Len(order) : order[i] = k.id
      BY <1>5, <3>1 DEF ToSet
    <3> QED
      BY <1>4, <3>1, <3>2
  <2> QED
    BY <2>1, <2>2
<1>11. \A p \in AllNeeds(c) : {p[1], p[2]} \subseteq ToSet(ids) =>
           \E i, j \in DOMAIN ids : j < i /\ ids[i] = p[1] /\ ids[j] = p[2]
  <2> SUFFICES ASSUME NEW p \in AllNeeds(c), p[1] \in ToSet(ids), p[2] \in ToSet(ids)
               PROVE  \E i, j \in DOMAIN ids : j < i /\ ids[i] = p[1] /\ ids[j] = p[2]
    OBVIOUS
  <2>1. PICK a \in DOMAIN ids, b \in DOMAIN ids : ids[a] = p[1] /\ ids[b] = p[2]
    BY DEF ToSet
  <2>2. PICK i \in DOMAIN order, j \in DOMAIN order : j < i /\ p = <<order[i], order[j]>>
    BY <1>2 DEF GoesBack
  <2>3. order[i] = ids[a] /\ order[j] = ids[b]
    BY <2>1, <2>2
  <2>4. a # b
    <3>1. i # j
      BY <1>5, <2>2
    <3> QED
      BY <1>2, <2>2, <2>3, <3>1 DEF IsInjective
  <2>5. ASSUME a < b PROVE FALSE
    <3>1. PICK k \in 1 .. Len(order), l \in 1 .. Len(order) : k < l /\ order[k] = ids[a] /\ order[l] = ids[b]
      BY <1>4, <2>5
    <3>2. k = i /\ l = j
      BY <1>2, <1>5, <2>2, <2>3, <3>1 DEF IsInjective
    <3> QED
      BY <1>5, <2>2, <3>1, <3>2
  <2>6. b < a
    BY <1>6, <2>4, <2>5
  <2> QED
    BY <2>1, <2>6
<1> DEFINE dax == EmitDax(c)
<1>12. DOMAIN dax = DOMAIN ids /\ \A i \in DOMAIN ids : dax[i].of = ids[i]
  <2>1. dax = [i \in DOMAIN ids |-> MeasureOf(c, ids[i])]
    BY <1>3 DEF MeasuresOf
  <2> HIDE DEF dax
  <2>2. \A i \in DOMAIN ids : MeasureOf(c, ids[i]).of = ids[i]
    BY DEF MeasureOf
  <2> QED
    BY <2>1, <2>2
<1>13. BuildTmslMeasures(c) = dax
  BY <1>3
<1> HIDE DEF dax
<1>14. [i \in DOMAIN dax |-> dax[i].of] = ids
  BY <1>6, <1>12
<1>15. MeasuresAreOrdered(c, dax)
  BY <1>8, <1>10, <1>11, <1>14 DEF MeasuresAreOrdered
<1>16. Len(dax) = Len(ids)
  <2>1. dax = MeasuresOf(c, ids)
    BY <1>3 DEF dax
  <2>2. dax = [i \in 1 .. Len(ids) |-> MeasureOf(c, ids[i])]
    BY <1>6, <2>1 DEF MeasuresOf
  <2> QED
    BY <1>6, <2>2
<1>17. Len(ids) <= Len(c) /\ Len(c) \in Nat
  <2>1. /\ IsFiniteSet(S) /\ Cardinality(S) \in Nat /\ Cardinality(S) <= Len(c) /\ Len(c) \in Nat
    BY NamesOfCatalog
  <2> HIDE DEF S
  <2>2. Len(ids) <= Cardinality(S)
    BY <1>4, <1>8, <2>1, NoLongerThanSet
  <2> QED
    BY <1>6, <2>1, <2>2
<1> QED
  BY <1>6, <1>13, <1>15, <1>16, <1>17 DEF dax

-----------------------------------------------------------------------------
(***************************************************************************)
(* The page and the commands                                               *)
(***************************************************************************)

\* What the page and a command ask before they emit.
IsValidCatalog(f) == ValidateKpiCatalog(f).status = "valid"

\* What was emitted and drawn of one and the same file.
AllOf(artifacts, graph) == artifacts.ok /\ graph.ok /\ graph.nodes >= Len(artifacts.dax)

\* The parts of the page.
IsKpiPage(page) ==
    page = [at |-> page.at, padded |-> page.padded, read |-> page.read, verdict |-> page.verdict,
            artifacts |-> page.artifacts, graph |-> page.graph, preview |-> page.preview]

\* Every read came before some edits of now: if the first of a page came after all
\* of them, the file is still what was validated and emitted.
PageIsCurrent ==
    /\ kpiPage.read \in Seq(0 .. catalogChanges)
    /\ kpiPage.at = "emit" =>
         Len(kpiPage.read) = 1 /\ (kpiPage.read[1] = catalogChanges => IsValidCatalog(catalogFile))
    /\ kpiPage.at = "graph" =>
         /\ Len(kpiPage.read) = 2
         /\ kpiPage.read[1] = catalogChanges /\ ~ kpiPage.padded =>
              IsValidCatalog(catalogFile) /\ kpiPage.artifacts = EmitKpiArtifacts(catalogFile)
    /\ Len(kpiPage.read) = 3 /\ kpiPage.read[1] = kpiPage.read[3] /\ ~ kpiPage.padded =>
         AllOf(kpiPage.artifacts, kpiPage.graph)

\* Every edit forgets the last command.
CommandIsCurrent == command.name = "kpi-validate" => (command.exit = 0 <=> IsValidCatalog(catalogFile))

\* The inductive invariant.
CatalogInv ==
    /\ IsCatalog(catalogFile.kpis)
    /\ catalogChanges \in Nat
    /\ IsKpiPage(kpiPage)
    /\ PageIsCurrent
    /\ CommandIsCurrent

\* A file is valid when its measures are emitted, and then its graph has them all.
LEMMA ValidIsEmitted ==
    ASSUME NEW f, IsCatalog(f.kpis)
    PROVE  /\ IsValidCatalog(f) <=> EmitKpiArtifacts(f).ok
           /\ EmitKpiArtifacts(f).ok =>
                /\ SemanticsHold(f.kpis)
                /\ EmitKpiArtifacts(f).dax = EmitDax(f.kpis) /\ EmitKpiArtifacts(f).tmsl = BuildTmslMeasures(f.kpis)
                /\ \A format, suffix : AllOf(EmitKpiArtifacts(f), ExportKpiGraph(f, format, suffix))
<1> DEFINE c == f.kpis  emits == CatalogLoads(f) /\ SemanticsHold(c)
<1>1. IsValidCatalog(f) <=> emits
  <2>1. SemanticsHold(c) => ~ NeedsUnknown(c) /\ DetectCycles(BuildGraph(c)) = <<>>
    BY DEF SemanticsHold
  <2> QED
    BY <2>1 DEF IsValidCatalog, ValidateKpiCatalog
<1>2. /\ emits => EmitKpiArtifacts(f) = [ok |-> TRUE, dax |-> EmitDax(c), tmsl |-> BuildTmslMeasures(c)]
      /\ ~ emits => EmitKpiArtifacts(f).ok = FALSE
  BY DEF EmitKpiArtifacts, NoArtifacts
<1>3. emits <=> EmitKpiArtifacts(f).ok
  BY <1>2
<1>4. ASSUME emits, NEW format, NEW suffix
      PROVE  AllOf(EmitKpiArtifacts(f), ExportKpiGraph(f, format, suffix))
  <2>1. ~ NeedsUnknown(c) /\ CatalogLoads(f)
    BY <1>4 DEF SemanticsHold
  <2>2. ExportKpiGraph(f, format, suffix).ok = TRUE /\ ExportKpiGraph(f, format, suffix).nodes = Len(c)
    BY <2>1 DEF ExportKpiGraph
  <2>3. Len(EmitDax(c)) \in Nat /\ Len(EmitDax(c)) <= Len(c) /\ Len(c) \in Nat
    BY <1>4, MeasuresOfCatalog
  <2>4. EmitKpiArtifacts(f).ok = TRUE /\ EmitKpiArtifacts(f).dax = EmitDax(c)
    BY <1>2, <1>4
  <2> QED
    BY <2>2, <2>3, <2>4 DEF AllOf
<1> QED
  BY <1>1, <1>2, <1>3, <1>4

\* Nothing was read or run yet.
LEMMA CatalogStarts == CatalogInit => CatalogInv
<1> SUFFICES ASSUME CatalogInit PROVE CatalogInv
  OBVIOUS
<1>1. IsCatalog(catalogFile.kpis) /\ catalogChanges \in Nat
  BY CatalogAssumption DEF CatalogInit
<1>2. kpiPage.at = "idle" /\ kpiPage.read \in Seq(0 .. catalogChanges) /\ Len(kpiPage.read) = 0 /\ IsKpiPage(kpiPage)
  BY DEF CatalogInit, NoKpiPage, IsKpiPage
<1>3. PageIsCurrent
  BY <1>2 DEF PageIsCurrent
<1>4. CommandIsCurrent
  BY DEF CatalogInit, NoCommand, CommandIsCurrent
<1> QED
  BY <1>1, <1>2, <1>3, <1>4 DEF CatalogInv

\* Whatever is read, emitted, drawn, edited or run keeps it.
LEMMA CatalogKeeps == CatalogInv /\ [CatalogNext]_catalogVars => CatalogInv'
<1> SUFFICES ASSUME CatalogInv, [CatalogNext]_catalogVars PROVE CatalogInv'
  OBVIOUS
<1>1. IsCatalog(catalogFile.kpis) /\ catalogChanges \in Nat /\ PageIsCurrent /\ CommandIsCurrent /\ IsKpiPage(kpiPage)
  BY DEF CatalogInv
<1>2. ASSUME NEW padded \in BOOLEAN, RenderValidation(padded) PROVE CatalogInv'
  <2> DEFINE verdict == ValidateKpiCatalog(catalogFile)
             at == IF verdict.status = "valid" THEN "emit" ELSE "idle"
  <2>1. FileAt([NoKpiPage EXCEPT !.padded = padded], TRUE) = catalogFile
    BY DEF FileAt
  <2>2. /\ kpiPage' = [[NoKpiPage EXCEPT !.padded = padded] EXCEPT
                          !.at = at, !.read = <<catalogChanges>>, !.verdict = verdict]
        /\ command' = NoCommand /\ catalogFile' = catalogFile /\ catalogChanges' = catalogChanges
    BY <1>2, <2>1 DEF RenderValidation
  <2>3. at = "emit" => IsValidCatalog(catalogFile)
    BY DEF IsValidCatalog
  <2>4. at # "graph"
    OBVIOUS
  <2> HIDE DEF verdict, at
  <2>5. kpiPage'.at = at /\ kpiPage'.read = <<catalogChanges>> /\ IsKpiPage(kpiPage')
    BY <2>2 DEF NoKpiPage, IsKpiPage
  <2>6. Len(kpiPage'.read) = 1 /\ kpiPage'.read \in Seq(0 .. catalogChanges)
    BY <1>1, <2>5
  <2>7. PageIsCurrent'
    BY <2>2, <2>3, <2>4, <2>5, <2>6 DEF PageIsCurrent, IsValidCatalog
  <2>8. CommandIsCurrent'
    BY <2>2 DEF CommandIsCurrent, NoCommand
  <2> QED
    BY <1>1, <2>2, <2>5, <2>7, <2>8 DEF CatalogInv
<1>3. ASSUME KpiEmitToBytes PROVE CatalogInv'
  <2> DEFINE made == EmitKpiArtifacts(FileAt(kpiPage, FALSE))
  <2>1. /\ kpiPage.at = "emit"
        /\ kpiPage' = [kpiPage EXCEPT !.at = "graph", !.read = Append(@, catalogChanges), !.artifacts = made]
        /\ catalogFile' = catalogFile /\ catalogChanges' = catalogChanges /\ command' = command
    BY <1>3 DEF KpiEmitToBytes
  <2>2. ~ kpiPage.padded => made = EmitKpiArtifacts(catalogFile)
    BY DEF FileAt
  <2> HIDE DEF made
  <2>3. /\ kpiPage'.at = "graph" /\ kpiPage'.read = Append(kpiPage.read, catalogChanges) /\ kpiPage'.artifacts = made
        /\ kpiPage'.padded = kpiPage.padded /\ IsKpiPage(kpiPage')
    BY <1>1, <2>1 DEF IsKpiPage
  <2>4. /\ Len(kpiPage.read) = 1 /\ kpiPage.read \in Seq(0 .. catalogChanges)
        /\ (kpiPage.read[1] = catalogChanges => IsValidCatalog(catalogFile))
    BY <1>1, <2>1 DEF PageIsCurrent
  <2>5. Len(kpiPage'.read) = 2 /\ kpiPage'.read \in Seq(0 .. catalogChanges) /\ kpiPage'.read[1] = kpiPage.read[1]
    <3>1. catalogChanges \in 0 .. catalogChanges
      BY <1>1
    <3> QED
      BY <2>3, <2>4, <3>1, ElementsOfAppended
  <2>6. PageIsCurrent'
    <3>1. (kpiPage'.read[1] = catalogChanges /\ ~ kpiPage'.padded) =>
             IsValidCatalog(catalogFile) /\ kpiPage'.artifacts = EmitKpiArtifacts(catalogFile)
      BY <2>2, <2>3, <2>4, <2>5
    <3> QED
      BY <2>1, <2>3, <2>5, <3>1 DEF PageIsCurrent, IsValidCatalog
  <2>7. CommandIsCurrent'
    BY <1>1, <2>1 DEF CommandIsCurrent, IsValidCatalog
  <2> QED
    BY <1>1, <2>1, <2>3, <2>6, <2>7 DEF CatalogInv
<1>4. ASSUME RenderKpiGraph PROVE CatalogInv'
  <2> DEFINE drawn == ExportKpiGraph(FileAt(kpiPage, FALSE), "mermaid", ".mmd")
             preview == drawn.ok /\ kpiPage.verdict.kpis <= 20
  <2>1. /\ kpiPage.at = "graph"
        /\ kpiPage' = [kpiPage EXCEPT !.at = "idle", !.read = Append(@, catalogChanges),
                                      !.graph = drawn, !.preview = preview]
        /\ catalogFile' = catalogFile /\ catalogChanges' = catalogChanges /\ command' = command
    BY <1>4 DEF RenderKpiGraph
  <2>2. ~ kpiPage.padded => drawn = ExportKpiGraph(catalogFile, "mermaid", ".mmd")
    BY DEF FileAt
  <2> HIDE DEF drawn, preview
  <2>3. /\ kpiPage'.at = "idle" /\ kpiPage'.read = Append(kpiPage.read, catalogChanges)
        /\ kpiPage'.artifacts = kpiPage.artifacts /\ kpiPage'.graph = drawn
        /\ kpiPage'.padded = kpiPage.padded /\ IsKpiPage(kpiPage')
    BY <1>1, <2>1 DEF IsKpiPage
  <2>4. /\ Len(kpiPage.read) = 2 /\ kpiPage.read \in Seq(0 .. catalogChanges)
        /\ kpiPage.read[1] = catalogChanges /\ ~ kpiPage.padded => /\ IsValidCatalog(catalogFile)
                                                          /\ kpiPage.artifacts = EmitKpiArtifacts(catalogFile)
    BY <1>1, <2>1 DEF PageIsCurrent
  <2>5. /\ kpiPage'.read \in Seq(0 .. catalogChanges)
        /\ kpiPage'.read[1] = kpiPage.read[1] /\ kpiPage'.read[3] = catalogChanges
    <3> DEFINE read == kpiPage.read  more == Append(read, catalogChanges)
    <3> DEFINE S == 0 .. catalogChanges
    <3>0. Len(read) = 2
      BY <2>4
    <3>1. catalogChanges \in S /\ read \in Seq(S)
      BY <1>1, <2>4
    <3> HIDE DEF read, S
    <3>2. more \in Seq(S) /\ (\A i \in 1 .. Len(read) : more[i] = read[i]) /\ more[Len(read) + 1] = catalogChanges
      BY <3>1, ElementsOfAppended
    <3> HIDE DEF more
    <3>3. more[1] = read[1] /\ more[3] = catalogChanges
      BY <3>0, <3>2
    <3> QED
      BY <2>3, <3>2, <3>3 DEF read, more, S
  <2>6. ASSUME kpiPage.read[1] = catalogChanges, ~ kpiPage.padded PROVE AllOf(kpiPage'.artifacts, kpiPage'.graph)
    <3>1. IsValidCatalog(catalogFile) /\ kpiPage.artifacts = EmitKpiArtifacts(catalogFile)
      BY <2>4, <2>6
    <3>2. AllOf(EmitKpiArtifacts(catalogFile), ExportKpiGraph(catalogFile, "mermaid", ".mmd"))
      BY <1>1, <3>1, ValidIsEmitted
    <3> QED
      BY <2>2, <2>3, <2>6, <3>1, <3>2
  <2>7. PageIsCurrent'
    BY <2>1, <2>3, <2>5, <2>6 DEF PageIsCurrent
  <2>8. CommandIsCurrent'
    BY <1>1, <2>1 DEF CommandIsCurrent, IsValidCatalog
  <2> QED
    BY <1>1, <2>1, <2>3, <2>7, <2>8 DEF CatalogInv
<1>5. ASSUME EditCatalog PROVE CatalogInv'
  <2>1. /\ catalogChanges' = catalogChanges + 1 /\ catalogFile' \in CatalogEdits
        /\ command' = NoCommand /\ kpiPage' = kpiPage
    BY <1>5 DEF EditCatalog
  <2>2. IsCatalog(catalogFile'.kpis) /\ catalogChanges' \in Nat
    BY <1>1, <2>1, CatalogAssumption
  <2>3. kpiPage.read \in Seq(0 .. catalogChanges') /\ (kpiPage.read # <<>> => kpiPage.read[1] # catalogChanges')
    <3> DEFINE read == kpiPage.read
    <3>1. read \in Seq(0 .. catalogChanges)
      BY <1>1 DEF PageIsCurrent
    <3> HIDE DEF read
    <3>2. Len(read) \in Nat /\ read \in [1 .. Len(read) -> 0 .. catalogChanges]
      BY <3>1, LenProperties
    <3>3. \A k \in 0 .. catalogChanges : k \in 0 .. catalogChanges + 1 /\ k # catalogChanges + 1
      BY <1>1
    <3>4. read \in Seq(0 .. catalogChanges + 1)
      <4> DEFINE S == 0 .. catalogChanges + 1
      <4>1. read \in [1 .. Len(read) -> S]
        BY <3>2, <3>3
      <4> HIDE DEF S
      <4>2. \A n \in Nat : \A s \in [1 .. n -> S] : s \in Seq(S)
        OBVIOUS
      <4> QED
        BY <3>2, <4>1, <4>2 DEF S
    <3>5. ASSUME read # <<>> PROVE read[1] # catalogChanges + 1
      <4>1. Len(read) # 0
        BY <3>1, <3>5, EmptySeq
      <4>2. read[1] \in 0 .. catalogChanges
        BY <3>2, <4>1
      <4> QED
        BY <3>3, <4>2
    <3> QED
      BY <2>1, <3>4, <3>5 DEF read
  <2>4. PageIsCurrent'
    <3>1. Len(kpiPage.read) = 1 \/ Len(kpiPage.read) = 2 => kpiPage.read # <<>>
      OBVIOUS
    <3> QED
      BY <1>1, <2>1, <2>3, <3>1 DEF PageIsCurrent
  <2>5. CommandIsCurrent'
    BY <2>1 DEF CommandIsCurrent, NoCommand
  <2> QED
    BY <1>1, <2>1, <2>2, <2>4, <2>5 DEF CatalogInv
<1>6. ASSUME NEW name, NEW ok, NEW written, Ran(name, ok, written),
             name = "kpi-validate" => (ok <=> IsValidCatalog(catalogFile))
      PROVE  CatalogInv'
  <2>1. /\ command' = [name |-> name, exit |-> IF ok THEN 0 ELSE 1, written |-> IF ok THEN written ELSE {}]
        /\ kpiPage' = NoKpiPage /\ catalogFile' = catalogFile /\ catalogChanges' = catalogChanges
    BY <1>6 DEF Ran
  <2>2. command'.name = name /\ command'.exit = IF ok THEN 0 ELSE 1
    BY <2>1
  <2>3. /\ kpiPage'.at = "idle" /\ Len(kpiPage'.read) = 0
        /\ kpiPage'.read \in Seq(0 .. catalogChanges) /\ IsKpiPage(kpiPage')
    BY <2>1 DEF NoKpiPage, IsKpiPage
  <2>4. PageIsCurrent'
    BY <2>1, <2>3 DEF PageIsCurrent
  <2>5. CommandIsCurrent'
    <3>1. ASSUME name = "kpi-validate" PROVE command'.exit = 0 <=> IsValidCatalog(catalogFile)
      BY <1>6, <2>2, <3>1
    <3> QED
      BY <2>1, <2>2, <3>1 DEF CommandIsCurrent, IsValidCatalog
  <2> QED
    BY <1>1, <2>1, <2>3, <2>4, <2>5 DEF CatalogInv
<1>7. ASSUME CmdKpiValidate PROVE CatalogInv'
  BY <1>6, <1>7 DEF CmdKpiValidate, IsValidCatalog
<1>8. ASSUME CmdKpiEmit PROVE CatalogInv'
  BY <1>6, <1>8 DEF CmdKpiEmit
<1>9. ASSUME NEW format \in {"mermaid", "graphviz"}, CmdKpiGraph(format) PROVE CatalogInv'
  BY <1>6, <1>9 DEF CmdKpiGraph
<1>10. ASSUME UNCHANGED catalogVars PROVE CatalogInv'
  BY <1>1, <1>10 DEF CatalogInv, PageIsCurrent, CommandIsCurrent, IsValidCatalog, catalogVars
<1> QED
  BY <1>2, <1>3, <1>4, <1>5, <1>7, <1>8, <1>9, <1>10 DEF CatalogNext

\* It says enough: the rest is what holds of every catalog.
LEMMA CatalogInvOrders == CatalogInv => CatalogIsOrdered
<1> SUFFICES ASSUME CatalogInv PROVE CatalogIsOrdered
  OBVIOUS
<1> DEFINE c == catalogFile.kpis  artifacts == EmitKpiArtifacts(catalogFile)
<1>1. IsCatalog(c) /\ PageIsCurrent /\ CommandIsCurrent
  BY DEF CatalogInv
<1>2. /\ IsValidCatalog(catalogFile) <=> artifacts.ok
      /\ artifacts.ok => /\ SemanticsHold(c)
                         /\ artifacts.dax = EmitDax(c) /\ artifacts.tmsl = BuildTmslMeasures(c)
  BY <1>1, ValidIsEmitted
<1>3. ~ NeedsUnknown(c) => CyclesAreFound(c)
  BY <1>1, CyclesOfCatalog
<1>4. artifacts.ok => MeasuresAreOrdered(c, artifacts.dax) /\ artifacts.tmsl = artifacts.dax
  BY <1>1, <1>2, MeasuresOfCatalog
<1>5. command.name = "kpi-validate" => (command.exit = 0 <=> artifacts.ok)
  BY <1>1, <1>2 DEF CommandIsCurrent
<1>6. Len(kpiPage.read) = 3 /\ kpiPage.read[1] = kpiPage.read[3] /\ ~ kpiPage.padded =>
        /\ kpiPage.artifacts.ok /\ kpiPage.graph.ok
        /\ kpiPage.graph.nodes >= Len(kpiPage.artifacts.dax)
  BY <1>1 DEF PageIsCurrent, AllOf
<1> HIDE DEF c, artifacts
<1> QED
  BY <1>3, <1>4, <1>5, <1>6 DEF CatalogIsOrdered, c, artifacts

\* For any catalogs and any edits of them, a catalog is called valid exactly when its
\* measures are emitted, cycles are reported exactly when a KPI depends on itself and
\* only such, and the measures are the visible KPIs, once each and after all visible
\* KPIs they depend on at whatever distance.
THEOREM MeasuresAreAlwaysOrdered == CatalogSpec => []CatalogIsOrdered
<1>1. CatalogInit => CatalogInv
  BY CatalogStarts
<1>2. CatalogInv /\ [CatalogNext]_catalogVars => CatalogInv'
  BY CatalogKeeps
<1>3. CatalogInv => CatalogIsOrdered
  BY CatalogInvOrders
<1> QED
  BY <1>1, <1>2, <1>3, PTL DEF CatalogSpec
=============================================================================
