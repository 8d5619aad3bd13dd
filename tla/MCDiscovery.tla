----------------------------- MODULE MCDiscovery -----------------------------
(***************************************************************************)
(* Instances for TLC of what is kept on disk and found again: one stem and *)
(* its two candidates (Discovery), the version history that is listed and  *)
(* reopened from (VersionHistory) and the run history that exports keep    *)
(* (RunHistory).  The parts share no state: the others stand still while   *)
(* one of them runs.                                                       *)
(***************************************************************************)
EXTENDS Discovery, VersionHistory, RunHistory, TLC

CONSTANTS s1, n1, n2, r1, r2, r3, d1, d2, i1, i2, i3, p1, q1, c1, c2

VARIABLE part  \* which of the parts this behaviour runs

-----------------------------------------------------------------------------
\* The scan.

MCStem == {s1}
MCName == {n1, n2}

MCCandidate == [s \in Stem |-> (0 :> n1) @@ (1 :> n2)]

\* An empty workspace, a version of an earlier run, and a sidecar without files.
MCPreexisting == {{}, Kind \X {n1}, {<<"sidecar", n1>>}}

\* Only n1 can hold a sidecar that was there before; an unsupported one is refused
\* like a corrupt one.
MCForeignRecord == {[n \in Name |-> IF n = n1 THEN r ELSE "ok"] : r \in Record \ {"unsupported"}}

\* A workspace whose file system has hard links (what becomes of the others is
\* checked with the confirmations alone), and one of: the save, a directory that
\* is replaced and may come back, a sidecar that is copied.  The directory that a
\* scan finds is the first one, and what follows the end of a scan is what happens
\* without one.
MCOneDisturbance ==
    /\ linkable
    /\ scan # "done"
    /\ scan = "idle" => generation = 0
    /\ payload[n1] # "ok" => final["sidecar"][n1] = Foreign
    /\ Cardinality({s \in Saver : phase[s] # "idle"} \cup {n \in Name : copyOf[n] # n})
         + (IF generation = 1 \/ broughtBack THEN 1 ELSE 0) <= 1

-----------------------------------------------------------------------------
\* The run history: three exports, two of one dataset.

MCRun == {r1, r2, r3}
MCDataset == {d1, d2}
MCDatasetOf == (r1 :> d1) @@ (r2 :> d1) @@ (r3 :> d2)

-----------------------------------------------------------------------------
\* The version history: two of three versions share their first eight digits.

MCId == {i1, i2, i3}
MCShortOf == (i1 :> p1) @@ (i2 :> p1) @@ (i3 :> q1)
MCContent == {c1, c2}

MCSymmetry == Permutations({i1, i2})

-----------------------------------------------------------------------------
\* The other parts stand at one of their initial states.
ScanOff == linkable /\ payload = [n \in Name |-> "ok"] /\ Files = {}

WorkspaceInit ==
    /\ DiscoveryInit /\ HistoryInit /\ RunsInit
    /\ \/ part = "scan"
       \/ part \in {"history", "runs"} /\ ScanOff

WorkspaceNext ==
    /\ UNCHANGED part
    /\ \/ part = "scan" /\ DiscoveryNext /\ UNCHANGED <<historyVars, runsVars>>
       \/ part = "history" /\ HistoryNext /\ UNCHANGED <<dvars, runsVars>>
       \/ part = "runs" /\ RunsNext /\ UNCHANGED <<dvars, historyVars>>

WorkspaceSpec ==
    WorkspaceInit /\ [][WorkspaceNext]_<<part, dvars, historyVars, runsVars>>
=============================================================================
