---------------------------- MODULE MCWorkbench ----------------------------
(***************************************************************************)
(* Instances for TLC of what a user does with the datasets of a workspace: *)
(* to govern a session (ManagedSession), with the sources it shares among  *)
(* its pages (SessionSources), to export (ManagedExport), and to detect    *)
(* drift, import it and read it (DriftReaders).  The parts share no state, *)
(* but for sources, which work on a session: the others stand still while  *)
(* one of them runs.                                                       *)
(***************************************************************************)
EXTENDS SessionSources, ManagedExport, MCDrift

VARIABLE part  \* which of the parts this behaviour runs

MCSymmetry ==
    Permutations(Version) \cup Permutations(Manual) \cup Permutations(Call)

MCNoDatabase == <<>>

WorkbenchInit ==
    /\ Init /\ SourcesInit /\ ExportInit /\ ReadersInit
    /\ \/ part = "session" /\ ComparisonOff
       \/ part = "sources" /\ ComparisonOff /\ Cardinality(known) = 2
       \/ part \in {"export", "importing", "reading"} /\ ComparisonOff /\ known = {}
       \/ part = "comparison" /\ ComparisonInit /\ known = {}

\* Only versions that a call exports change; the others play no part.
Concerned ==
    \A v \in Version : content'[v] # content[v] => \E c \in Call : job[c] # None /\ job[c].source = v

WorkbenchNext ==
    /\ UNCHANGED part
    /\ \/ part = "session" /\ Next /\ UNCHANGED <<sourceHubVars, exportVars, mcDriftVars>>
       \/ part = "sources" /\ SourcesNext /\ UNCHANGED <<exportVars, mcDriftVars>>
       \/ part = "export" /\ ExportNext /\ Concerned /\ UNCHANGED <<vars, sourceHubVars, mcDriftVars>>
       \/ part = "importing" /\ ImportingNext /\ UNCHANGED <<vars, sourceHubVars, exportVars>>
       \/ part = "reading" /\ ReadingNext /\ UNCHANGED <<vars, sourceHubVars, exportVars>>

WorkbenchSpec ==
    WorkbenchInit /\ [][WorkbenchNext]_<<part, vars, sourceHubVars, exportVars, mcDriftVars>>
=============================================================================
