--------------------------- MODULE VersionRegistry ---------------------------
(***************************************************************************)
(* What a caller may rely on when it confirms processed versions: a        *)
(* registry of names that only grows.  A version appears whole, at one     *)
(* name, in one step; it is never replaced or removed; and the answer a    *)
(* call gives is "confirmed" exactly when its version is in the registry.  *)
(* Confirmation implements this with three files per version.              *)
(***************************************************************************)
CONSTANTS
    Attempt,    \* the calls, each of which may register one version
    Name,       \* the names a version can have
    Foreign,    \* a version that was registered before
    NoVersion   \* nothing is registered at a name

VARIABLES
    version,    \* version[n]: the call that registered a version at name n
    answer      \* what each call has answered

vars == <<version, answer>>

Registered(a) == \E n \in Name : version[n] = a

Init ==
    /\ version \in [Name -> {Foreign, NoVersion}]
    /\ answer = [a \in Attempt |-> "none"]

Register(a, n) ==
    /\ answer[a] = "none"
    /\ ~Registered(a)
    /\ version[n] = NoVersion
    /\ version' = [version EXCEPT ![n] = a]
    /\ UNCHANGED answer

Answer(a) ==
    /\ answer[a] = "none"
    /\ answer' = [answer EXCEPT ![a] = IF Registered(a) THEN "confirmed"
                                                        ELSE "not_confirmed"]
    /\ UNCHANGED version

Next == \E a \in Attempt : Answer(a) \/ \E n \in Name : Register(a, n)

Spec == Init /\ [][Next]_vars
=============================================================================
