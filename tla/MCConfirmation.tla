--------------------------- MODULE MCConfirmation ---------------------------
(***************************************************************************)
(* Instances of Confirmation for TLC.  Two stems share a name, as the      *)
(* stems "data" and "data-1" do: "data" with suffix 1 is "data-1" with     *)
(* none.                                                                   *)
(***************************************************************************)
EXTENDS Confirmation, TLC

CONSTANTS s1, s2, n1, n2, n3

MCStem == {s1, s2}
MCName == {n1, n2, n3}

MCNames == (s1 :> <<n1, n2>>) @@ (s2 :> <<n2, n3>>)
MCCandidate == [s \in Stem |-> [i \in 0 .. MaxSuffix |-> MCNames[s][i + 1]]]

\* An empty workspace, a complete version of an earlier run, and the leftovers
\* that a reservation looking at the CSV alone would overlook.
MCPreexisting == {{}, Kind \X {n1}, {<<"recipe", n2>>}, {<<"sidecar", n2>>}}
=============================================================================
