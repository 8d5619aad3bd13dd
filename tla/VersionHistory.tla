--------------------------- MODULE VersionHistory ---------------------------
(***************************************************************************)
(* The version history of the Start page and the lineage of one version:   *)
(* what is listed, what a click on a row reopens after the workspace has   *)
(* changed, and which root, parent and children are shown of a version.    *)
(*                                                                         *)
(* A scan is one step here: Discovery takes it apart.  A row carries a     *)
(* short reference instead of the version's id, the first eight digits, or *)
(* twelve when another listed version begins with the same eight; that two *)
(* versions share twelve digits is left out.  Contents are abstract.       *)
(* Sidecars may be copied, deleted or edited by a user.                    *)
(***************************************************************************)
EXTENDS Naturals, FiniteSets

CONSTANTS
    Id,          \* version ids, which are family ids, too
    ShortOf,     \* ShortOf[v]: the first eight digits of the id
    Content,     \* contents of files, by their hash
    NoId,        \* no version
    MaxNodes,    \* MAX_LINEAGE_NODES
    MaxEdits     \* bound: how often a user edits, copies or deletes

ASSUME IdAssumption == NoId \notin Id
ASSUME ShortAssumption == DOMAIN ShortOf = Id

VARIABLES
    record,   \* record[v]: the record of the sidecar, or NoRecord
    bytes,    \* bytes[v]: how the CSV of a version compares with its record
    copied,   \* versions whose sidecar exists twice
    edits,    \* how often a user has done something
    edited,   \* history: whether a record was edited
    rows,     \* what the page shows: references with their versions
    clicked,  \* history: the version of the row that was clicked
    pending,  \* the version a reopen has resolved and not yet checked
    active    \* the version that was reopened last

recordVars == <<record, bytes, copied, edits, edited>>
pageVars == <<rows, clicked, pending, active>>
historyVars == <<recordVars, pageVars>>

NoRecord == [family |-> NoId]

Registered == {v \in Id : record[v] # NoRecord}

\* DiscoveryResult.versions: duplicates are quarantined, files are probed.
Listed == {v \in Registered \ copied : bytes[v] # "gone"}

HistoryInit ==
    /\ record = [v \in Id |-> NoRecord]
    /\ bytes = [v \in Id |-> "gone"]
    /\ copied = {} /\ edits = 0 /\ edited = FALSE
    /\ rows = {}
    /\ clicked = NoId /\ pending = NoId /\ active = NoId

\* _resolve_short_ids.
Reference(v) ==
    IF \E w \in Listed \ {v} : ShortOf[w] = ShortOf[v] THEN <<"twelve", v>>
                                                       ELSE <<"eight", ShortOf[v]>>

-----------------------------------------------------------------------------
\* Seeded faults, not used below.

\* A reference is matched by its first eight digits.
MatchesByPrefix(reference) ==
    {v \in Listed : ShortOf[v] = IF reference[1] = "eight" THEN reference[2]
                                                           ELSE ShortOf[reference[2]]}

\* Parents are taken as they are recorded.
NoCycle(v) == FALSE

-----------------------------------------------------------------------------
(***************************************************************************)
(* Lineage of one listed version                                           *)
(***************************************************************************)

Parent(v) == record[v].parent

\* _reaches_cycle: the way from v along the parents, as long as they are listed, has
\* more versions than are listed: one comes twice.
ReachesCycle(v) ==
    LET size == Cardinality(Listed)
    IN  \E way \in [0 .. size -> Listed] :
            /\ way[0] = v
            /\ \A i \in 1 .. size : way[i] = Parent(way[i - 1])

\* _resolve_parent.
ParentState(v) ==
    LET p == Parent(v)
    IN  IF p = NoId THEN "unavailable"
        ELSE IF p = v THEN "corrupt"
        ELSE IF p \notin Listed THEN "unavailable"
        ELSE IF \/ record[p].family # record[v].family
                \/ record[p].content # record[v].parentContent
                \/ ReachesCycle(v) THEN "corrupt"
        ELSE "node"

\* _resolve_root: by content, within the family.
RootCandidates(v) ==
    {w \in Listed : record[w].family = record[v].family
                      /\ record[w].content = record[v].root}

RootState(v) ==
    IF Cardinality(RootCandidates(v)) = 1 THEN <<"node", RootCandidates(v)>> ELSE <<"unavailable">>

\* _resolve_children; more than MaxNodes are cut.
Children(v) ==
    {w \in Listed \ {v} : Parent(w) = v /\ record[w].family = record[v].family}

Truncated(v) == Cardinality(Children(v)) > MaxNodes

LineageState(v) ==
    IF ParentState(v) = "corrupt" THEN "corrupt_relation"
    ELSE IF Truncated(v) THEN "truncated" ELSE "ready"

-----------------------------------------------------------------------------
(***************************************************************************)
(* Confirmations and users                                                 *)
(***************************************************************************)

Register(v, r) ==
    /\ record[v] = NoRecord
    /\ record' = [record EXCEPT ![v] = r]
    /\ bytes' = [bytes EXCEPT ![v] = "own"]
    /\ UNCHANGED <<copied, edits, edited, pageVars>>

\* A file that is no version starts a family; its content is the root's.
ConfirmFromFile(v, source, content) ==
    Register(v, [family |-> v, root |-> source, content |-> content,
                 parent |-> NoId, parentContent |-> source])

\* The version that governs the session passes its family on.
ConfirmFromVersion(v, content) ==
    /\ active # NoId
    /\ record[active] # NoRecord
    /\ Register(v, [family |-> record[active].family, root |-> record[active].root,
                    content |-> content, parent |-> active,
                    parentContent |-> record[active].content])

UserActs ==
    /\ edits < MaxEdits
    /\ edits' = edits + 1

CopyVersion(v) ==
    /\ UserActs
    /\ v \in Registered \ copied
    /\ copied' = copied \cup {v}
    /\ UNCHANGED <<record, bytes, edited, pageVars>>

ChangeFile(v, state) ==
    /\ UserActs
    /\ v \in Registered /\ bytes[v] # state
    /\ bytes' = [bytes EXCEPT ![v] = state]
    /\ UNCHANGED <<record, copied, edited, pageVars>>

\* The parent and the family of a sidecar are edited by hand.
EditRecord(v, parent, family) ==
    /\ UserActs
    /\ v \in Registered
    /\ record' = [record EXCEPT ![v].parent = parent, ![v].family = family]
    /\ edited' = TRUE
    /\ UNCHANGED <<bytes, copied, pageVars>>

-----------------------------------------------------------------------------
(***************************************************************************)
(* The page                                                                *)
(***************************************************************************)

\* project_history: one row for every listed version.
ShowHistory ==
    /\ pending = NoId
    /\ rows' = {<<Reference(v), v>> : v \in Listed}
    /\ clicked' = NoId
    /\ UNCHANGED <<recordVars, pending, active>>

\* A quarantined group is known by eight digits.
Quarantined(reference) == \E v \in copied : reference = <<"eight", ShortOf[v]>>

Matches(reference) == {v \in Listed : Reference(v) = reference}

\* reopen_managed_version scans again and looks for the reference.
ClickRow(row) ==
    /\ pending = NoId
    /\ row \in rows
    /\ clicked' = row[2]
    /\ LET found == IF Quarantined(row[1]) THEN {} ELSE Matches(row[1])
       IN  IF Cardinality(found) = 1 THEN pending' \in found ELSE pending' = NoId
    /\ UNCHANGED <<recordVars, rows, active>>

\* _revalidate_for_activation: the file is there and has its size, which a
\* changed one may have; no confirmation records a modification time.
Reopen ==
    /\ pending # NoId
    /\ \/ bytes[pending] \in {"own", "changed"} /\ active' = pending
       \/ bytes[pending] \in {"gone", "changed"} /\ active' = active
    /\ pending' = NoId
    /\ UNCHANGED <<recordVars, rows, clicked>>

HistoryNext ==
    \/ \E v \in Id, content \in Content :
         \/ \E source \in Content : ConfirmFromFile(v, source, content)
         \/ ConfirmFromVersion(v, content)
    \/ \E v \in Id :
         \/ CopyVersion(v)
         \/ \E state \in {"gone", "changed"} : ChangeFile(v, state)
         \/ \E parent \in Id \cup {NoId}, family \in Id : EditRecord(v, parent, family)
    \/ ShowHistory
    \/ \E row \in rows : ClickRow(row)
    \/ Reopen

HistorySpec == HistoryInit /\ [][HistoryNext]_historyVars

-----------------------------------------------------------------------------
(***************************************************************************)
(* Properties                                                              *)
(***************************************************************************)

\* A click reopens the version of its row or none, however the listed versions,
\* and with them the references, have changed since the page was drawn; only a
\* reference of eight digits may pass to another version, and only when the
\* version of the row is not listed any more (_resolve_reference over a scan of
\* its own, _resolve_short_ids).
ClickReopensItsRow ==
    [][pending' \notin {pending, NoId} =>
         \/ pending' = clicked'
         \/ clicked' \notin Listed
              /\ <<<<"eight", ShortOf[pending']>>, clicked'>> \in rows]_historyVars

\* Both ends of a relation tell the same story: whoever shows a parent is among
\* the children of that parent, a listed child shows that parent or calls the
\* relation unverified, no version is shown below itself, and without a
\* hand-made record both show the same root and no relation is called corrupt, whatever
\* was deleted or copied (_resolve_parent, _resolve_root, _resolve_children,
\* _reaches_cycle).
LineageIsMutual ==
    /\ \A v \in Listed :
         /\ ParentState(v) = "node" => v \in Children(Parent(v))
         /\ \A w \in Children(v) : ParentState(w) \in {"node", "corrupt"}
         /\ ~edited => /\ LineageState(v) # "corrupt_relation"
                       /\ ParentState(v) = "node" => RootState(v) = RootState(Parent(v))
    /\ \A circle \in (SUBSET Listed) \ {{}} :
         \E v \in circle : ParentState(v) # "node" \/ Parent(v) \notin circle
=============================================================================
