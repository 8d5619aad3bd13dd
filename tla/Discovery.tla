------------------------------ MODULE Discovery ------------------------------
(***************************************************************************)
(* discover_managed_versions: one read-only scan of preprocessed/ while    *)
(* other sessions confirm versions and save files into it, and a user      *)
(* copies and deletes sidecars or swaps the directory for another one, and *)
(* back.                                                                   *)
(*                                                                         *)
(* The scan takes no lock.  It lists the names first, reads every sidecar  *)
(* after that and looks at the files a sidecar names last, each with a     *)
(* system call of its own.  What it reports of a sidecar is the name it    *)
(* was found under: in listed, in issue with a reason, or in duplicate.    *)
(***************************************************************************)
EXTENDS WorkspaceSave, FiniteSets

CONSTANTS
    MaxEntries,     \* DiscoveryBounds.max_entries
    MaxCandidates,  \* DiscoveryBounds.max_sidecar_candidates
    ForeignRecord   \* what the sidecars of other programs may hold, by name

VARIABLES
    payload,     \* what each sidecar that no attempt wrote holds
    copyOf,      \* the version a copied sidecar claims to be
    generation,  \* which directory preprocessed/ is
    scan,        \* where the scan is
    identity,    \* the directory the scan has captured
    opened,      \* history: the directory that os.scandir opened
    broughtBack, \* history: the captured directory came back since that opening
    present,     \* history: sidecars there since the scan of names began
    candidates,  \* names enumerated, whose sidecars are still to be read
    parsed,      \* parsed[n]: the version the sidecar at n claims to be
    readable,    \* parsed sidecars whose CSV has been opened
    listed, issue, duplicate,
    rootStatus

worldVars == <<payload, copyOf, generation>>
resultVars == <<listed, issue, duplicate>>
scanVars == <<scan, identity, opened, broughtBack, present, candidates, parsed,
              readable, resultVars, rootStatus>>
dvars == <<svars, worldVars, scanVars>>

Record == {"ok", "rootless", "corrupt", "unsupported"}

ASSUME BoundsAssumption == MaxEntries \in Nat \ {0} /\ MaxCandidates \in Nat \ {0}
ASSUME RecordAssumption == ForeignRecord \subseteq [Name -> Record]
ASSUME NameAssumption == NoOne \notin Name

Sidecars == {n \in Name : Occupied("sidecar", n)}

\* The names in preprocessed/: staging files have the suffix .tmp.
Entries == {e \in {"csv", "sidecar"} \X Name : Occupied(e[1], e[2])}
             \cup {e \in {"csv", "sidecar"} \X Attempt : e[1] \in temp[e[2]]}

\* The version a sidecar claims to be; an attempt's record is always good.
Claim(n) == IF final["sidecar"][n] = Foreign THEN copyOf[n] ELSE n
RecordAt(n) == IF final["sidecar"][n] = Foreign THEN payload[Claim(n)] ELSE "ok"

\* A file that a save has opened and not yet written may be empty.
Full(k, n) ==
    /\ Occupied(k, n)
    /\ ~\E s \in Saver : phase[s] = "write" /\ folder[s] = k /\ Place(s) = n

DiscoveryInit ==
    /\ SaveInit
    /\ payload \in ForeignRecord
    /\ copyOf = [n \in Name |-> n]
    /\ generation = 0
    /\ scan = "idle"
    /\ identity = 0 /\ opened = 0 /\ broughtBack = FALSE
    /\ present = {} /\ candidates = {}
    /\ parsed = [n \in Name |-> NoOne]
    /\ readable = {}
    /\ listed = {} /\ duplicate = {}
    /\ issue = [n \in Name |-> "none"]
    /\ rootStatus = "none"

Stop(reason) == scan' = "done" /\ rootStatus' = reason

TooMany(names) == Cardinality(names) > MaxCandidates

-----------------------------------------------------------------------------
\* Seeded faults, not used below.

\* The bound on entries cuts the list instead of failing the scan.
EnumerateCut(names) ==
    /\ scan = "enumerate"
    /\ names \subseteq Sidecars
    /\ Cardinality(Entries) > MaxEntries \/ present \subseteq names
    /\ ~TooMany(names)
    /\ candidates' = names
    /\ scan' = "postcheck"
    /\ UNCHANGED <<svars, worldVars, identity, opened, broughtBack, present, parsed,
                   readable, resultVars, rootStatus>>

\* Of the sidecars of one version the one under the version's own name counts.
OriginalIsAlone(n) == parsed[n] = n \/ \A m \in Name \ {n} : parsed[m] # parsed[n]

-----------------------------------------------------------------------------
\* _resolve_root, _prepare_discovery_dir: the directory is there or it is not.

Prepare ==
    /\ scan = "idle"
    /\ scan' = "precheck"
    /\ identity' = generation
    /\ UNCHANGED <<svars, worldVars, opened, broughtBack, present, candidates, parsed,
                   readable, resultVars, rootStatus>>

\* No preprocessed/: an empty result that is complete.
DirectoryAbsent ==
    /\ scan = "idle"
    /\ Entries = {}
    /\ Stop("ok")
    /\ opened' = identity
    /\ UNCHANGED <<svars, worldVars, identity, broughtBack, present, candidates, parsed,
                   readable, resultVars>>

\* Any OSError at the root or the directory, before the names are known.
DirectoryFails ==
    /\ scan \in {"idle", "precheck", "enumerate", "postcheck"}
    /\ Stop("unresolvable")
    /\ UNCHANGED <<svars, worldVars, identity, opened, broughtBack, present, candidates,
                   parsed, readable, resultVars>>

\* _recheck_dir, before and after the names are read.
Recheck ==
    /\ \/ scan = "precheck" /\ scan' = "open"
       \/ scan = "postcheck" /\ scan' = "parse"
    /\ generation = identity
    /\ UNCHANGED <<svars, worldVars, identity, opened, broughtBack, present, candidates,
                   parsed, readable, resultVars, rootStatus>>

DirectoryChanged ==
    /\ scan \in {"precheck", "postcheck"}
    /\ generation # identity
    /\ Stop("directory_changed")
    /\ candidates' = {}
    /\ UNCHANGED <<svars, worldVars, identity, opened, broughtBack, present, parsed,
                   readable, resultVars>>

-----------------------------------------------------------------------------
\* _enumerate.  A name that is there from the opening of the directory to its
\* last entry is returned; one that comes or goes may be returned or not.  The
\* entries are counted as they stand at the end.

OpenDirectory ==
    /\ scan = "open"
    /\ scan' = "enumerate"
    /\ opened' = generation
    /\ present' = Sidecars
    /\ UNCHANGED <<svars, worldVars, identity, broughtBack, candidates, parsed,
                   readable, resultVars, rootStatus>>

Enumerate(names) ==
    /\ scan = "enumerate"
    /\ present \subseteq names
    /\ names \subseteq Sidecars
    /\ Cardinality(Entries) <= MaxEntries
    /\ ~TooMany(names)
    /\ candidates' = names
    /\ scan' = "postcheck"
    /\ UNCHANGED <<svars, worldVars, identity, opened, broughtBack, present, parsed,
                   readable, resultVars, rootStatus>>

\* One entry or one sidecar more than the bound: nothing is returned at all.
LimitExceeded ==
    /\ scan = "enumerate"
    /\ Cardinality(Entries) > MaxEntries \/ TooMany(Sidecars)
    /\ Stop("limit_exceeded")
    /\ UNCHANGED <<svars, worldVars, identity, opened, broughtBack, present, candidates,
                   parsed, readable, resultVars>>

-----------------------------------------------------------------------------
\* _process_sidecar, one sidecar after the other.

Blame(n, reason) == issue' = [issue EXCEPT ![n] = reason]

SidecarIsRead(n) ==
    /\ scan = "parse" /\ n \in candidates
    /\ n \in Sidecars /\ RecordAt(n) \in {"ok", "rootless"}
    /\ parsed' = [parsed EXCEPT ![n] = Claim(n)]
    /\ candidates' = candidates \ {n}
    /\ UNCHANGED <<svars, worldVars, scan, identity, opened, broughtBack, present,
                   readable, resultVars, rootStatus>>

SidecarIsRefused(n) ==
    /\ scan = "parse" /\ n \in candidates
    /\ \/ n \notin Sidecars /\ Blame(n, "vanished")
       \/ n \in Sidecars /\ Blame(n, "os_error")
       \/ n \in Sidecars /\ RecordAt(n) \in {"corrupt", "unsupported"}
            /\ Blame(n, RecordAt(n))
    /\ candidates' = candidates \ {n}
    /\ UNCHANGED <<svars, worldVars, scan, identity, opened, broughtBack, present,
                   parsed, readable, listed, duplicate, rootStatus>>

-----------------------------------------------------------------------------
\* _classify: the groups are built when every sidecar has been read.

Grouped == scan = "parse" /\ candidates = {}

Unclassified ==
    {n \in Name : parsed[n] # NoOne /\ issue[n] = "none"} \ (listed \cup duplicate)

Alone(n) == \A m \in Name \ {n} : parsed[m] # parsed[n]

\* _build_duplicate: no member is looked at, none is listed.
Quarantine(n) ==
    /\ Grouped /\ n \in Unclassified /\ ~Alone(n)
    /\ duplicate' = duplicate \cup {n}
    /\ UNCHANGED <<svars, worldVars, scan, identity, opened, broughtBack, present,
                   candidates, parsed, readable, listed, issue, rootStatus>>

\* _finalize_singleton: the CSV, then the recipe.
CsvIsReadable(n) ==
    /\ Grouped /\ n \in Unclassified \ readable /\ Alone(n)
    /\ Full("csv", parsed[n])
    /\ readable' = readable \cup {n}
    /\ UNCHANGED <<svars, worldVars, scan, identity, opened, broughtBack, present,
                   candidates, parsed, resultVars, rootStatus>>

RecipeIsReadable(n) ==
    /\ Grouped /\ n \in Unclassified \cap readable
    /\ RecordAt(n) = "rootless" \/ Full("recipe", parsed[n])
    /\ listed' = listed \cup {n}
    /\ UNCHANGED <<svars, worldVars, scan, identity, opened, broughtBack, present,
                   candidates, parsed, readable, issue, duplicate, rootStatus>>

\* _probe_artifact: the file is gone, cannot be read or is empty.
ArtifactUnavailable(n) ==
    /\ Grouped /\ n \in Unclassified /\ Alone(n)
    /\ LET kind == IF n \in readable THEN "recipe" ELSE "csv"
       IN  \/ ~Full(kind, parsed[n]) /\ Blame(n, kind)
           \/ Blame(n, "os_error")
    /\ UNCHANGED <<svars, worldVars, scan, identity, opened, broughtBack, present,
                   candidates, parsed, readable, listed, duplicate, rootStatus>>

\* _finalize.
Finalize ==
    /\ Grouped /\ Unclassified = {}
    /\ Stop("ok")
    /\ UNCHANGED <<svars, worldVars, identity, opened, broughtBack, present, candidates,
                   parsed, readable, resultVars>>

-----------------------------------------------------------------------------
\* A user, outside the program.

CopySidecar(n, m) ==
    /\ \A o \in Name : copyOf[o] = o
    /\ Occupied("sidecar", n) /\ ~Occupied("sidecar", m)
    /\ final' = [final EXCEPT !["sidecar"][m] = Foreign]
    /\ copyOf' = [copyOf EXCEPT ![m] = n]
    /\ UNCHANGED <<temp, linkable, callVars, saveVars, payload, generation, scanVars>>

DeleteSidecar(n) ==
    /\ Occupied("sidecar", n)
    /\ final' = [final EXCEPT !["sidecar"][n] = NoOne]
    /\ present' = present \ {n}
    /\ UNCHANGED <<temp, linkable, callVars, saveVars, worldVars, scan, identity,
                   opened, broughtBack, candidates, parsed, readable, resultVars,
                   rootStatus>>

\* Other files stand in another directory, be they copies: none has stood there
\* since the names were begun, and the scan may find any of them or not.
ReplaceDirectory ==
    /\ generation' = 1 - generation
    /\ broughtBack' = \/ broughtBack
                      \/ scan \in {"enumerate", "postcheck"} /\ generation' = identity
    /\ present' = {}
    /\ UNCHANGED <<svars, payload, copyOf, scan, identity, opened, candidates, parsed,
                   readable, resultVars, rootStatus>>

-----------------------------------------------------------------------------
DiscoveryNext ==
    \/ SaveNext /\ UNCHANGED <<worldVars, scanVars>>
    \/ Prepare
    \/ DirectoryAbsent
    \/ DirectoryFails
    \/ Recheck
    \/ DirectoryChanged
    \/ OpenDirectory
    \/ \E names \in SUBSET Name : Enumerate(names)
    \/ LimitExceeded
    \/ \E n \in Name :
         \/ SidecarIsRead(n)
         \/ SidecarIsRefused(n)
         \/ Quarantine(n)
         \/ CsvIsReadable(n)
         \/ RecipeIsReadable(n)
         \/ ArtifactUnavailable(n)
         \/ DeleteSidecar(n)
         \/ \E m \in Name : CopySidecar(n, m)
    \/ Finalize
    \/ ReplaceDirectory

DiscoverySpec == DiscoveryInit /\ [][DiscoveryNext]_dvars

-----------------------------------------------------------------------------
(***************************************************************************)
(* Properties                                                              *)
(***************************************************************************)

Complete == scan = "done" /\ rootStatus = "ok"

\* A result that calls itself complete is: every sidecar that stood there from
\* beginning to end is reported, once (enumeration_complete, the limits).  The
\* names come from the directory that was checked, unless that one was away when they
\* were begun and came back before the postcheck: both checks compare what is there
\* at their moment (_recheck_dir), and see nothing of what happened in between.
ScanIsComplete ==
    Complete =>
        /\ opened = identity \/ broughtBack
        /\ \A n \in present :
             Cardinality({r \in {"listed", "issue", "duplicate"} :
                            \/ r = "listed" /\ n \in listed
                            \/ r = "issue" /\ issue[n] # "none"
                            \/ r = "duplicate" /\ n \in duplicate}) = 1

\* A version that is listed is claimed by no other sidecar that stood there all
\* along and could be read, whatever was copied (_classify: all members of a
\* duplicate are quarantined, no canonical one is chosen).
ListedIsUnambiguous ==
    Complete =>
        \A n \in listed : \A m \in present \ {n} :
            parsed[n] # Claim(m) \/ issue[m] # "none"
=============================================================================
