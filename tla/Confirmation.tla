---------------------------- MODULE Confirmation ----------------------------
(***************************************************************************)
(* Confirmation of processed dataset versions in one shared workspace.     *)
(*                                                                         *)
(* Every attempt is one call of confirm_processed_version.  Calls run      *)
(* concurrently: a Streamlit server gives each session a thread, several   *)
(* servers may share a workspace, and nothing in the code takes a lock.    *)
(* An attempt reserves a file name, stages three temporary files and       *)
(* publishes them with os.link: the CSV, the recipe, then the sidecar,     *)
(* whose link registers the version.                                       *)
(*                                                                         *)
(* Contents are abstracted to the attempt that wrote them, a path to its   *)
(* kind and its stem with suffix.  System calls are atomic; any of them    *)
(* may fail with an OSError and a process may die between any two.         *)
(***************************************************************************)
EXTENDS Naturals

CONSTANTS
    Attempt,      \* calls of confirm_processed_version
    Stem,         \* sanitized file name stems the calls ask for
    Name,         \* file name stems with their collision suffix
    MaxSuffix,    \* _MAX_COLLISION_SUFFIX
    Candidate,    \* Candidate[s][i]: stem s with suffix i (none for i = 0)
    Preexisting,  \* possible sets of files, <<kind, name>>, found at start
    Foreign,      \* the owner of a file no attempt wrote
    NoOne         \* the owner of a name that does not exist

Kind == {"csv", "recipe", "sidecar"}

\* What _finalize has published, and _execute_plan has staged, before a kind.
Earlier == [csv |-> {}, recipe |-> {"csv"}, sidecar |-> {"csv", "recipe"}]

Owner == Attempt \cup {Foreign, NoOne}

Status == {"none", "confirmed", "saved_unmanaged", "failed", "unsupported"}

ASSUME MaxSuffixAssumption == MaxSuffix \in Nat
ASSUME CandidateAssumption == Candidate \in [Stem -> [0 .. MaxSuffix -> Name]]
ASSUME PreexistingAssumption == Preexisting \subseteq SUBSET (Kind \X Name)
ASSUME OwnerAssumption == Foreign \notin Attempt /\ NoOne \notin Attempt \cup {Foreign}

VARIABLES
    final,     \* final[k][n]: who published the file of kind k at name n
    temp,      \* temp[a]: kinds of a's staging files that exist on disk
    linkable,  \* whether the file system of the workspace has hard links
    pc,        \* where each attempt is
    stem,      \* the stem each attempt was called with
    index,     \* the collision suffix each attempt is at
    staged,    \* the list `staged`: temporary files an attempt knows it owns
    linked,    \* how far _finalize has come: kinds an attempt has published
    status,    \* the result an attempt is about to return or has returned
    stuck      \* history: temporary files an attempt failed to write or unlink

fileVars == <<final, temp, linkable>>
callVars == <<pc, stem, index, staged, linked, status, stuck>>
vars == <<final, temp, linkable, pc, stem, index, staged, linked, status, stuck>>

-----------------------------------------------------------------------------

Target(a) == Candidate[stem[a]][index[a]]

Occupied(k, n) == final[k][n] # NoOne

\* The CSV and the sidecar are in preprocessed/, the recipe is in recipes/; a
\* candidate is taken only when all three of its paths are free.
AllTargetsFree(n) == \A k \in Kind : ~Occupied(k, n)

Alive(a) == pc[a] \notin {"idle", "returned", "crashed"}

Init ==
    /\ \E files \in Preexisting :
         final = [k \in Kind |->
                    [n \in Name |-> IF <<k, n>> \in files THEN Foreign ELSE NoOne]]
    /\ temp = [a \in Attempt |-> {}]
    /\ linkable \in BOOLEAN
    /\ pc = [a \in Attempt |-> "idle"]
    /\ stem \in [Attempt -> Stem]
    /\ index = [a \in Attempt |-> 0]
    /\ staged = [a \in Attempt |-> {}]
    /\ linked = [a \in Attempt |-> {}]
    /\ status = [a \in Attempt |-> "none"]
    /\ stuck = [a \in Attempt |-> {}]

\* os.link of one staging file: its content appears at the target at once.  The
\* last link of _finalize makes the result CONFIRMED and leads to the cleanup.
LinkFile(a, k, last) ==
    /\ final' = [final EXCEPT ![k][Target(a)] = a]
    /\ linked' = [linked EXCEPT ![a] = @ \cup {k}]
    /\ pc' = [pc EXCEPT ![a] = IF k = last THEN "sweep" ELSE "publish"]
    /\ status' = [status EXCEPT ![a] = IF k = last THEN "confirmed" ELSE "none"]
    /\ UNCHANGED <<temp, linkable, stem, index, staged, stuck>>

-----------------------------------------------------------------------------
(***************************************************************************)
(* Seeded faults: what the code would do with a plausible bug.  Nothing    *)
(* below uses them; each shows that some property can tell the difference. *)
(***************************************************************************)

\* The suffix loop does not advance.
TrySameSuffix(a) ==
    /\ pc[a] = "reserve"
    /\ ~AllTargetsFree(Target(a))
    /\ index[a] < MaxSuffix
    /\ UNCHANGED vars

\* A staging failure returns without _cleanup.
StageFailsUnswept(a, k) ==
    /\ pc[a] = "stage"
    /\ staged[a] = Earlier[k]
    /\ pc' = [pc EXCEPT ![a] = "returned"]
    /\ status' = [status EXCEPT ![a] = "failed"]
    /\ UNCHANGED <<fileVars, stem, index, staged, linked, stuck>>

\* os.replace instead of os.link.
PublishReplacing(a, k) ==
    /\ pc[a] = "publish"
    /\ linked[a] = Earlier[k]
    /\ k \in temp[a]
    /\ LinkFile(a, k, "sidecar")

\* The sidecar is published before the recipe.
PublishSidecarBeforeRecipe(a, k) ==
    /\ pc[a] = "publish"
    /\ linked[a] = [csv |-> {}, recipe |-> {"csv", "sidecar"}, sidecar |-> {"csv"}][k]
    /\ linkable
    /\ k \in temp[a]
    /\ ~Occupied(k, Target(a))
    /\ LinkFile(a, k, "recipe")

\* The result is CONFIRMED as soon as the recipe is published.
PublishConfirmingAtRecipe(a, k) ==
    /\ pc[a] = "publish"
    /\ linked[a] = Earlier[k]
    /\ linkable
    /\ k \in temp[a]
    /\ ~Occupied(k, Target(a))
    /\ LinkFile(a, k, "recipe")

\* A collision after the CSV is reported as a plain failure.
PublishFailsAsFailed(a, k) ==
    /\ pc[a] = "publish"
    /\ linked[a] = Earlier[k]
    /\ linkable \/ Occupied(k, Target(a))
    /\ pc' = [pc EXCEPT ![a] = "sweep"]
    /\ status' = [status EXCEPT ![a] = "failed"]
    /\ UNCHANGED <<fileVars, stem, index, staged, linked, stuck>>

\* A staging file that is gone is taken for one that is published already.
PublishSkippingMissing(a, k) ==
    /\ pc[a] = "publish"
    /\ linked[a] = Earlier[k]
    /\ linkable
    /\ ~Occupied(k, Target(a))
    /\ final' = IF k \in temp[a] THEN [final EXCEPT ![k][Target(a)] = a] ELSE final
    /\ linked' = [linked EXCEPT ![a] = @ \cup {k}]
    /\ pc' = [pc EXCEPT ![a] = IF k = "sidecar" THEN "sweep" ELSE "publish"]
    /\ status' = [status EXCEPT ![a] = IF k = "sidecar" THEN "confirmed" ELSE "none"]
    /\ UNCHANGED <<temp, linkable, stem, index, staged, stuck>>

-----------------------------------------------------------------------------
\* _plan_confirmation: it writes nothing.

Begin(a) ==
    /\ pc[a] = "idle"
    /\ pc' = [pc EXCEPT ![a] = "reserve"]
    /\ UNCHANGED <<fileVars, stem, index, staged, linked, status, stuck>>

\* resolve_confirmation_parent, _validate_inputs or _build_lineage raises a
\* _ConfirmationInputError.
RejectInput(a) ==
    /\ pc[a] = "idle"
    /\ pc' = [pc EXCEPT ![a] = "returned"]
    /\ status' = [status EXCEPT ![a] = "failed"]
    /\ UNCHANGED <<fileVars, stem, index, staged, linked, stuck>>

\* One iteration of the loop of _reserve_linked_targets: its three existence
\* tests are one step, for no confirmation removes a published file, so three
\* paths found free one after the other were all free at the first test.
\* Reserving claims nothing on disk: the name may be gone by the time it is
\* published.
Reserve(a) ==
    /\ pc[a] = "reserve"
    /\ AllTargetsFree(Target(a))
    /\ pc' = [pc EXCEPT ![a] = "stage"]
    /\ UNCHANGED <<fileVars, stem, index, staged, linked, status, stuck>>

\* The name is found, but the recipe or the record does not validate.
RejectPlan(a) ==
    /\ pc[a] = "reserve"
    /\ AllTargetsFree(Target(a))
    /\ pc' = [pc EXCEPT ![a] = "returned"]
    /\ status' = [status EXCEPT ![a] = "failed"]
    /\ UNCHANGED <<fileVars, stem, index, staged, linked, stuck>>

TryNextSuffix(a) ==
    /\ pc[a] = "reserve"
    /\ ~AllTargetsFree(Target(a))
    /\ index[a] < MaxSuffix
    /\ index' = [index EXCEPT ![a] = @ + 1]
    /\ UNCHANGED <<fileVars, pc, stem, staged, linked, status, stuck>>

SuffixesExhausted(a) ==
    /\ pc[a] = "reserve"
    /\ ~AllTargetsFree(Target(a))
    /\ index[a] = MaxSuffix
    /\ pc' = [pc EXCEPT ![a] = "returned"]
    /\ status' = [status EXCEPT ![a] = "failed"]
    /\ UNCHANGED <<fileVars, stem, index, staged, linked, stuck>>

-----------------------------------------------------------------------------
\* _execute_plan, staging.

\* _write_temp: mkstemp beside the final, write, flush, fsync.
Stage(a, k) ==
    /\ pc[a] = "stage"
    /\ staged[a] = Earlier[k]
    /\ temp' = [temp EXCEPT ![a] = @ \cup {k}]
    /\ staged' = [staged EXCEPT ![a] = @ \cup {k}]
    /\ pc' = [pc EXCEPT ![a] = IF k = "sidecar" THEN "publish" ELSE "stage"]
    /\ UNCHANGED <<final, linkable, stem, index, linked, status, stuck>>

\* An OSError of _write_temp.  When mkstemp had already created the file, the
\* file exists but its path never reached `staged`, so no cleanup knows it.
StageFails(a, k) ==
    /\ pc[a] = "stage"
    /\ staged[a] = Earlier[k]
    /\ \/ UNCHANGED <<temp, stuck>>
       \/ /\ temp' = [temp EXCEPT ![a] = @ \cup {k}]
          /\ stuck' = [stuck EXCEPT ![a] = @ \cup {k}]
    /\ pc' = [pc EXCEPT ![a] = "sweep"]
    /\ status' = [status EXCEPT ![a] = "failed"]
    /\ UNCHANGED <<final, linkable, stem, index, staged, linked>>

-----------------------------------------------------------------------------
\* _finalize.

\* _publish_exclusive: os.link creates the name or fails, it never replaces.
Publish(a, k) ==
    /\ pc[a] = "publish"
    /\ linked[a] = Earlier[k]
    /\ linkable
    /\ k \in temp[a]
    /\ ~Occupied(k, Target(a))
    /\ LinkFile(a, k, "sidecar")

\* os.link raises: the name is taken, the temporary file is gone, or any other
\* OSError.  Once the CSV is published the files stay, as an unmanaged save.
PublishFails(a, k) ==
    /\ pc[a] = "publish"
    /\ linked[a] = Earlier[k]
    /\ linkable \/ Occupied(k, Target(a))
    /\ pc' = [pc EXCEPT ![a] = "sweep"]
    /\ status' = [status EXCEPT ![a] = IF k = "csv" THEN "failed" ELSE "saved_unmanaged"]
    /\ UNCHANGED <<fileVars, stem, index, staged, linked, stuck>>

\* is_hardlink_unsupported, at the first link only: FAILED with
\* capability_unsupported, and the staging files are left for review.
HardLinksUnsupported(a) ==
    /\ pc[a] = "publish"
    /\ linked[a] = {}
    /\ ~linkable
    /\ pc' = [pc EXCEPT ![a] = "returned"]
    /\ status' = [status EXCEPT ![a] = "unsupported"]
    /\ UNCHANGED <<fileVars, stem, index, staged, linked, stuck>>

-----------------------------------------------------------------------------
\* _cleanup, then the return of confirm_processed_version.

NextToSweep(a, k) == k \in staged[a] /\ Earlier[k] \cap staged[a] = {}

Sweep(a, k) ==
    /\ pc[a] = "sweep"
    /\ NextToSweep(a, k)
    /\ staged' = [staged EXCEPT ![a] = @ \ {k}]
    /\ temp' = [temp EXCEPT ![a] = @ \ {k}]
    /\ UNCHANGED <<final, linkable, pc, stem, index, linked, status, stuck>>

\* unlink raises an OSError, which _cleanup swallows.
SweepFails(a, k) ==
    /\ pc[a] = "sweep"
    /\ NextToSweep(a, k)
    /\ staged' = [staged EXCEPT ![a] = @ \ {k}]
    /\ stuck' = [stuck EXCEPT ![a] = @ \cup {k}]
    /\ UNCHANGED <<fileVars, pc, stem, index, linked, status>>

Return(a) ==
    /\ pc[a] = "sweep"
    /\ staged[a] = {}
    /\ pc' = [pc EXCEPT ![a] = "returned"]
    /\ UNCHANGED <<fileVars, stem, index, staged, linked, status, stuck>>

-----------------------------------------------------------------------------
\* The process of an attempt dies; its files stay as they are.
Crash(a) ==
    /\ Alive(a)
    /\ pc' = [pc EXCEPT ![a] = "crashed"]
    /\ UNCHANGED <<fileVars, stem, index, staged, linked, status, stuck>>

Proceed(a) ==
    \/ Begin(a)
    \/ RejectInput(a)
    \/ Reserve(a)
    \/ RejectPlan(a)
    \/ TryNextSuffix(a)
    \/ SuffixesExhausted(a)
    \/ \E k \in Kind :
         \/ Stage(a, k)
         \/ StageFails(a, k)
         \/ Publish(a, k)
         \/ PublishFails(a, k)
         \/ Sweep(a, k)
         \/ SweepFails(a, k)
    \/ HardLinksUnsupported(a)
    \/ Return(a)

Next == \E a \in Attempt : Proceed(a) \/ Crash(a)

Spec == Init /\ [][Next]_vars

\* A call that was made is executed by its thread until it returns, unless the
\* process dies.  A call need not be made.
FairSpec == Spec /\ \A a \in Attempt : WF_vars(Alive(a) /\ Proceed(a))

-----------------------------------------------------------------------------
(***************************************************************************)
(* Properties                                                              *)
(***************************************************************************)

\* The shape of the state: files belong to attempts or to someone else, and a
\* call is at one of the points between two of its system calls.
TypeOK ==
    /\ final \in [Kind -> [Name -> Owner]]
    /\ temp \in [Attempt -> SUBSET Kind]
    /\ linkable \in BOOLEAN
    /\ pc \in [Attempt -> {"idle", "reserve", "stage", "publish", "sweep",
                           "returned", "crashed"}]
    /\ stem \in [Attempt -> Stem]
    /\ index \in [Attempt -> 0 .. MaxSuffix]
    /\ staged \in [Attempt -> SUBSET Kind]
    /\ linked \in [Attempt -> SUBSET Kind]
    /\ status \in [Attempt -> Status]
    /\ stuck \in [Attempt -> SUBSET Kind]

\* The sidecar is the registration boundary: at every instant, whatever failed
\* or died, a sidecar of an attempt stands beside the CSV and the recipe of
\* that same attempt (_finalize publishes it last).
RegistrationComplete ==
    \A n \in Name : final["sidecar"][n] \in Attempt =>
        \A k \in Kind : final[k][n] = final["sidecar"][n]

\* The files of an attempt never drift apart: all of them are at its target
\* (_reserve_linked_targets: "the trio can never drift apart").
LinkedTrio ==
    \A a \in Attempt, k \in Kind, n \in Name :
        final[k][n] = a => n = Target(a) /\ k \in linked[a]

\* The result tells the truth about the disk: CONFIRMED has all three files,
\* SAVED_UNMANAGED has a CSV and no sidecar, and FAILED has published nothing
\* (confirm_processed_version, including its capability_unsupported result).
StatusIsTruth ==
    \A a \in Attempt : pc[a] \in {"sweep", "returned"} =>
        LET published == {k \in Kind : \E n \in Name : final[k][n] = a}
        IN  \/ status[a] = "confirmed" /\ published = Kind
            \/ status[a] = "saved_unmanaged" /\ published \in {{"csv"}, {"csv", "recipe"}}
            \/ status[a] \in {"failed", "unsupported"} /\ published = {}

\* Reserving only names whose three targets are free decides the race at the
\* CSV: whoever publishes the CSV can lose the recipe or the sidecar to an I/O
\* error, but never to a competing file.
CsvWinnerIsUnopposed ==
    \A n \in Name : final["csv"][n] \in Attempt =>
        \A k \in Kind : final[k][n] \in {final["csv"][n], NoOne}

\* A call that returns leaves no staging file behind, except one it could not
\* write or unlink, and those it reports because the location cannot link.
StagingIsSwept ==
    \A a \in Attempt : pc[a] = "returned" /\ status[a] # "unsupported" =>
        temp[a] \subseteq stuck[a]

\* No step replaces or removes a published file, of an attempt or of anyone
\* else ("an existing file is never overwritten, truncated, or deleted, even if
\* it appears after target reservation").
PublicationIsExclusive ==
    [][\A k \in Kind, n \in Name : Occupied(k, n) => final'[k][n] = final[k][n]]_vars

\* A call that was made returns: the suffix loop ends, and no failure of
\* staging, publishing or sweeping leaves it waiting.
EveryCallReturns ==
    \A a \in Attempt : Alive(a) ~> pc[a] \in {"returned", "crashed"}

\* Confirmation implements the registry: a version is in the registry when its
\* whole trio is on disk, and a call has answered when it has returned.
RegisteredAt(n) ==
    LET owner == final["sidecar"][n]
    IN  IF owner = Foreign \/ \A k \in Kind : final[k][n] = owner THEN owner ELSE NoOne

AnswerOf(a) ==
    IF pc[a] # "returned" THEN "none"
    ELSE IF status[a] = "confirmed" THEN "confirmed" ELSE "not_confirmed"

Registry == INSTANCE VersionRegistry WITH
                version <- [n \in Name |-> RegisteredAt(n)],
                answer <- [a \in Attempt |-> AnswerOf(a)],
                NoVersion <- NoOne

\* Every behaviour of the protocol is one of the registry: a version appears whole, at
\* one name, in one step, and the answer says so (_finalize, _execute_plan).
RegistryIsImplemented == Registry!Spec
=============================================================================
