-------------------------- MODULE MCReprocessedChild --------------------------
(***************************************************************************)
(* Instances of ReprocessedChild for TLC.                                  *)
(***************************************************************************)
EXTENDS ReprocessedChild, TLC

CONSTANTS s1, s2, n1, n2, n3

MCStem == {s1, s2}
MCOneStem == {s1}
MCName == {n1, n2, n3}

MCNames == (s1 :> <<n1, n2>>) @@ (s2 :> <<n2, n3>>)
MCCandidate == [s \in Stem |-> [i \in 0 .. MaxSuffix |-> MCNames[s][i + 1]]]

\* The folder is empty, or holds a version of an earlier run.
MCPreexisting == {{}, Kind \X {n1}}
MCEmpty == {{}}

\* For the instances in which every call is a child confirmation.
MCSymmetry == Permutations(Attempt)
=============================================================================
