------------------------ MODULE MCLifecycleMaintenance ------------------------
(***************************************************************************)
(* Instances of LifecycleMaintenance for TLC: every call asks for the same *)
(* stem, which has one suffix.                                             *)
(***************************************************************************)
EXTENDS LifecycleMaintenance, TLC

CONSTANTS s1, n1, n2

MCStem == {s1}
MCName == {n1, n2}
MCCandidate == [s \in Stem |-> [i \in 0 .. MaxSuffix |-> <<n1, n2>>[i + 1]]]
MCEmpty == {{}}

MCSymmetry == Permutations(Cleaner) \cup Permutations(Attempt)
===============================================================================
