---------------------------- MODULE ManagedSession ----------------------------
(***************************************************************************)
(* One session of the user interface: which dataset governs it, and what   *)
(* it derives from that dataset.                                           *)
(*                                                                         *)
(* Two pieces of session state name a dataset.  DATASET_CONTEXT, here      *)
(* mirror, is set by every activation; the managed trust root, here root,  *)
(* is set by reopening a version and outranks the mirror.  A page works on *)
(* the dataset that resolve_trust_authority yields.  Its recipe steps and  *)
(* the handoff of a confirmed version are derived state: an activation     *)
(* clears them when it changes the mirror.                                 *)
(*                                                                         *)
(* A session runs one script at a time, so each click is one step.         *)
(* Retiring a root also drops it, so a root that is present is of the      *)
(* current generation and the generation counter is left out; so is the    *)
(* session capability, which nothing replaces while a session lasts.       *)
(* Refused clicks change nothing and are left out.                         *)
(***************************************************************************)
EXTENDS ManagedVersions

CONSTANTS
    MutationFails  \* whether a write to the session state may raise

ASSUME MutationAssumption == MutationFails \in BOOLEAN

VARIABLES
    known,     \* versions with a sidecar in the workspace
    parent,    \* parent[v]: the parent that the sidecar of v records
    origin,    \* history, origin[v]: the dataset whose rows v was made from
    root,      \* the version of the trust root
    mirror,    \* DATASET_CONTEXT
    steps,     \* PREP_RECIPE_STEPS: the datasets its steps were chosen for
    handoff,   \* PREP_CONFIRMED_VERSION
    draft      \* the version whose recipe is loaded for reprocessing

workspaceVars == <<known, parent, origin>>
vars == <<known, parent, origin, root, mirror, steps, handoff, draft>>

Dataset == Version \cup Manual \cup {None}

-----------------------------------------------------------------------------
\* resolve_trust_authority: a root outranks any mirror, and a managed mirror
\* without a root fails closed.
FailClosed == root = None /\ mirror \in Version

\* Seeded fault, not used below: a context outranks the root.
GoverningMirrorFirst == IF mirror # None THEN mirror ELSE root

Governing == IF root # None THEN root ELSE IF FailClosed THEN None ELSE mirror

Init ==
    /\ known \in SUBSET Version
    /\ parent = [v \in Version |-> None]
    /\ origin = [v \in Version |-> None]
    /\ root = None
    /\ mirror = None
    /\ steps = {}
    /\ handoff = None
    /\ draft = None

\* activate_dataset_context: a new binding clears the derived state.  The two
\* keys that survive a first activation are not modelled.
Activate(d) ==
    /\ mirror' = d
    /\ IF mirror = d THEN UNCHANGED <<steps, handoff>> ELSE steps' = {} /\ handoff' = None

-----------------------------------------------------------------------------
\* Seeded faults, not used below.

\* confirm_reprocessed_child without _parent_trust_error.
ConfirmChildUnguarded(v) ==
    /\ root # None /\ draft # None
    /\ v \in Version \ known
    /\ known' = known \cup {v}
    /\ parent' = [parent EXCEPT ![v] = draft]
    /\ origin' = [origin EXCEPT ![v] = root]
    /\ UNCHANGED <<root, mirror, steps, handoff, draft>>

-----------------------------------------------------------------------------
\* Start page.

\* "Use dataset": the mirror alone, a root stays.
UseDataset(m) ==
    /\ Activate(m)
    /\ UNCHANGED <<workspaceVars, root, draft>>

\* "Clear dataset": the root stays here, too.
ClearDataset ==
    /\ mirror # None
    /\ mirror' = None
    /\ steps' = {}
    /\ handoff' = None
    /\ UNCHANGED <<workspaceVars, root, draft>>

\* "Set active" in the version history: commit_trust_root, then the mirror.
Reopen(v) ==
    /\ v \in known
    /\ root' = v
    /\ Activate(v)
    /\ UNCHANGED <<workspaceVars, draft>>

\* The mirror cannot be written after the commit: its old state is restored and
\* the new root is retired.  The old root was replaced by the commit.
ReopenInterrupted(v) ==
    /\ MutationFails
    /\ v \in known
    /\ root' = None
    /\ UNCHANGED <<workspaceVars, mirror, steps, handoff, draft>>

-----------------------------------------------------------------------------
\* Preprocess Studio.  Without any context a file path can be typed in.

PageDatasets ==
    IF FailClosed THEN {} ELSE IF Governing = None THEN Manual ELSE {Governing}

AddStep(d) ==
    /\ d \in PageDatasets
    /\ steps' = steps \cup {d}
    /\ UNCHANGED <<workspaceVars, root, mirror, handoff, draft>>

ClearRecipe ==
    /\ PageDatasets # {} /\ steps # {}
    /\ steps' = {}
    /\ UNCHANGED <<workspaceVars, root, mirror, handoff, draft>>

\* "Confirm processed version" transforms the rows of the page's dataset; the
\* service resolves the parent, root first.
Confirm(v) ==
    /\ Governing # None /\ steps # {}
    /\ v \in Version \ known
    /\ known' = known \cup {v}
    /\ parent' = [parent EXCEPT ![v] = Governing]
    /\ origin' = [origin EXCEPT ![v] = IF root # None THEN root ELSE mirror]
    /\ handoff' = v
    /\ UNCHANGED <<root, mirror, steps, draft>>

\* Nothing was confirmed: no handoff survives.
ConfirmFails ==
    /\ Governing # None /\ steps # {}
    /\ handoff' = None
    /\ UNCHANGED <<workspaceVars, root, mirror, steps, draft>>

\* "Set active" after a confirmation: the mirror alone.
SetActive ==
    /\ Governing # None /\ steps # {} /\ handoff # None
    /\ Activate(handoff)
    /\ UNCHANGED <<workspaceVars, root, draft>>

\* "Load confirmed recipe"; a failure clears the draft.
LoadRecipe ==
    /\ root # None
    /\ draft' \in {root, None}
    /\ UNCHANGED <<workspaceVars, root, mirror, steps, handoff>>

\* "Confirm reprocessed child": the rows of the root, the recipe and the parent
\* of the draft.  _parent_trust_error refuses a parent that is not the root.
ConfirmChild(v) ==
    /\ root # None /\ draft # None
    /\ draft = root
    /\ v \in Version \ known
    /\ known' = known \cup {v}
    /\ parent' = [parent EXCEPT ![v] = draft]
    /\ origin' = [origin EXCEPT ![v] = root]
    /\ UNCHANGED <<root, mirror, steps, handoff, draft>>

Next ==
    \/ \E m \in Manual : UseDataset(m)
    \/ ClearDataset
    \/ \E v \in Version : Reopen(v) \/ ReopenInterrupted(v)
    \/ \E d \in Dataset : AddStep(d)
    \/ ClearRecipe
    \/ \E v \in Version : Confirm(v) \/ ConfirmChild(v)
    \/ ConfirmFails
    \/ SetActive
    \/ LoadRecipe

Spec == Init /\ [][Next]_vars

-----------------------------------------------------------------------------
(***************************************************************************)
(* Properties                                                              *)
(***************************************************************************)

\* The shape of the session and of the workspace behind it.
TypeOK ==
    /\ known \subseteq Version
    /\ parent \in [Version -> Dataset]
    /\ origin \in [Version -> Dataset]
    /\ root \in Version \cup {None}
    /\ mirror \in Dataset
    /\ steps \subseteq Version \cup Manual
    /\ handoff \in Version \cup {None}
    /\ draft \in Version \cup {None}

\* The lineage on disk is true: a version records as its parent the dataset its
\* rows were made from, however the session switched between loading a recipe,
\* choosing steps and confirming (_parent_trust_error, resolve_confirmation_parent).
LineageIsTruth == \A v \in Version : parent[v] = origin[v]

\* An unregistered save is never used as a version: what governs, is offered for
\* activation, is reprocessed or is a parent is registered, and a version never
\* descends from itself (_handle_confirmation_result, _load_recipe_into_state).
OnlyRegisteredVersions ==
    /\ {root, mirror, handoff, draft} \cap Version \subseteq known
    /\ \A v \in Version : parent[v] \in (known \ {v}) \cup Manual \cup {None}

\* A version that governs is only displaced by a reopen: "a manual path never
\* outranks valid managed trust" (resolve_trust_authority).
TrustIsNotOutranked ==
    [][root # None /\ ~(\E v \in Version : Reopen(v) \/ ReopenInterrupted(v))
        => Governing' = Governing]_vars

\* Steps chosen for one dataset are not applied to another: "a new dataset never
\* inherits the previous dataset's identity" (_keys_to_invalidate).
StepsAreOfGoverning == Governing # None => steps \subseteq {Governing}
===============================================================================
