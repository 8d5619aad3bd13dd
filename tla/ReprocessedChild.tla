--------------------------- MODULE ReprocessedChild ---------------------------
(***************************************************************************)
(* confirm_reprocessed_child: a confirmation wrapped in a snapshot and a   *)
(* rollback.  Before it confirms, the call lists the two managed folders;  *)
(* when the confirmation returns anything but CONFIRMED, it lists them     *)
(* again and unlinks every name that was not there before and that matches *)
(* the pattern of the names confirmation may create for this stem.         *)
(*                                                                         *)
(* Some attempts are such calls (Child); the others call                   *)
(* confirm_processed_version directly.  The folders themselves are left    *)
(* out: the rollback also removes a folder it found missing and leaves     *)
(* empty, which at most makes another call's mkstemp fail (StageFails).    *)
(***************************************************************************)
EXTENDS Confirmation

CONSTANTS
    Child,      \* the attempts made by confirm_reprocessed_child
    MaxFaults   \* bound: how many system calls fail and processes die

ASSUME ChildAssumption == Child \subseteq Attempt
ASSUME MaxFaultsAssumption == MaxFaults \in Nat

VARIABLES
    phase,    \* where each call is around its confirmation
    before,   \* before[a]: the entries of the snapshot
    work,     \* work[a]: listed entries the rollback still has to unlink
    restored,  \* restored[a]: whether every unlink so far succeeded (`restored`)
    verdict,  \* the reason_code a finished call reports
    faults    \* how many faults have happened

childVars == <<phase, before, work, restored, verdict, faults>>
rvars == <<vars, childVars>>

Folder == [csv |-> "preprocessed", recipe |-> "recipes", sidecar |-> "preprocessed"]

\* A directory entry is a published file or a staging file.
Entry == ({"final"} \X Kind \X Name) \cup ({"temp"} \X Kind \X Attempt)

\* os.listdir of one folder.
Listing(f) ==
    {e \in Entry :
        /\ Folder[e[2]] = f
        /\ IF e[1] = "final" THEN Occupied(e[2], e[3]) ELSE e[2] \in temp[e[3]]}

\* _reserved_name_pattern: the stem with any suffix, for the published name and
\* for the staging name that mkstemp derives from it.
Reserved(a, e) ==
    (IF e[1] = "final" THEN e[3] ELSE Target(e[3])) \in
        {Candidate[stem[a]][i] : i \in 0 .. MaxSuffix}

ChildInit ==
    /\ Init
    /\ phase = [a \in Attempt |-> IF a \in Child THEN "called" ELSE "confirming"]
    /\ before = [a \in Attempt |-> {}]
    /\ work = [a \in Attempt |-> {}]
    /\ restored = [a \in Attempt |-> TRUE]
    /\ verdict = [a \in Attempt |-> "none"]
    /\ faults = 0

-----------------------------------------------------------------------------
\* Seeded faults, not used below.

\* The rollback forgets what was there before.
ToRemoveIgnoringSnapshot(a, f) == {e \in Listing(f) : Reserved(a, e)}

\* The rollback matches published names only.
ToRemoveFinalsOnly(a, f) == {e \in Listing(f) \ before[a] : Reserved(a, e) /\ e[1] = "final"}

-----------------------------------------------------------------------------
\* Before the confirmation.

Finish(a, code) ==
    /\ phase' = [phase EXCEPT ![a] = "finished"]
    /\ verdict' = [verdict EXCEPT ![a] = code]

\* The evidence, an input or the parent is refused, or a listing raises.
Refuse(a) ==
    /\ phase[a] \in {"called", "listing"}
    /\ Finish(a, "REFUSED")
    /\ UNCHANGED <<vars, before, work, restored, faults>>

\* _snapshot_workspace lists preprocessed/, then recipes/.
SnapshotPreprocessed(a) ==
    /\ phase[a] = "called"
    /\ before' = [before EXCEPT ![a] = Listing("preprocessed")]
    /\ phase' = [phase EXCEPT ![a] = "listing"]
    /\ UNCHANGED <<vars, work, restored, verdict, faults>>

SnapshotRecipes(a) ==
    /\ phase[a] = "listing"
    /\ before' = [before EXCEPT ![a] = @ \cup Listing("recipes")]
    /\ phase' = [phase EXCEPT ![a] = "confirming"]
    /\ UNCHANGED <<vars, work, restored, verdict, faults>>

\* A step that no other call explains: an I/O error or the death of a process.
IsFault(a) ==
    \/ Crash(a)
    \/ \E k \in Kind :
         \/ StageFails(a, k)
         \/ SweepFails(a, k)
         \/ PublishFails(a, k) /\ k \in temp[a] /\ ~Occupied(k, Target(a))

Fault == faults < MaxFaults /\ faults' = faults + 1

\* The call to confirm_processed_version.
Confirming(a) ==
    /\ phase[a] = "confirming"
    /\ Proceed(a) \/ Crash(a)
    /\ IF IsFault(a) THEN Fault ELSE UNCHANGED faults
    /\ UNCHANGED <<phase, before, work, restored, verdict>>

-----------------------------------------------------------------------------
\* _finish_child and _restore_workspace.

ToRemove(a, f) == {e \in Listing(f) \ before[a] : Reserved(a, e)}

FinishConfirmed(a) ==
    /\ a \in Child /\ phase[a] = "confirming"
    /\ pc[a] = "returned" /\ status[a] = "confirmed"
    /\ Finish(a, "CONFIRMED")
    /\ UNCHANGED <<vars, before, work, restored, faults>>

RestorePreprocessed(a) ==
    /\ a \in Child /\ phase[a] = "confirming"
    /\ pc[a] = "returned" /\ status[a] # "confirmed"
    /\ work' = [work EXCEPT ![a] = ToRemove(a, "preprocessed")]
    /\ phase' = [phase EXCEPT ![a] = "preprocessed"]
    /\ UNCHANGED <<vars, before, restored, verdict, faults>>

RestoreRecipes(a) ==
    /\ phase[a] = "preprocessed" /\ work[a] = {}
    /\ work' = [work EXCEPT ![a] = ToRemove(a, "recipes")]
    /\ phase' = [phase EXCEPT ![a] = "recipes"]
    /\ UNCHANGED <<vars, before, restored, verdict, faults>>

\* The listing is sorted: staging names start with a dot, and a CSV sorts
\* before its sidecar.
Sorted(d, e) ==
    \/ d[1] = "temp" /\ e[1] = "final"
    \/ d[1] = "final" /\ e[1] = "final" /\ d[3] = e[3] /\ d[2] = "csv" /\ e[2] = "sidecar"

\* _remove_path: unlink, missing_ok.
Remove(a, e) ==
    /\ phase[a] \in {"preprocessed", "recipes"}
    /\ e \in work[a] /\ ~\E d \in work[a] : Sorted(d, e)
    /\ work' = [work EXCEPT ![a] = @ \ {e}]
    /\ final' = IF e[1] = "final" THEN [final EXCEPT ![e[2]][e[3]] = NoOne] ELSE final
    /\ temp' = IF e[1] = "temp" THEN [temp EXCEPT ![e[3]] = @ \ {e[2]}] ELSE temp
    /\ UNCHANGED <<linkable, callVars, phase, before, restored, verdict, faults>>

RemoveFails(a, e) ==
    /\ phase[a] \in {"preprocessed", "recipes"}
    /\ e \in work[a] /\ ~\E d \in work[a] : Sorted(d, e)
    /\ work' = [work EXCEPT ![a] = @ \ {e}]
    /\ restored' = [restored EXCEPT ![a] = FALSE]
    /\ Fault
    /\ UNCHANGED <<vars, phase, before, verdict>>

FinishNotConfirmed(a) ==
    /\ phase[a] = "recipes" /\ work[a] = {}
    /\ Finish(a, IF restored[a] THEN "CHILD_NOT_CONFIRMED" ELSE "CLEANUP_INCOMPLETE")
    /\ UNCHANGED <<vars, before, work, restored, faults>>

\* A listing of the rollback raises: the outer handler answers and stops.
RestoreRaises(a) ==
    /\ \/ a \in Child /\ phase[a] = "confirming" /\ pc[a] = "returned" /\ status[a] # "confirmed"
       \/ phase[a] = "preprocessed" /\ work[a] = {}
    /\ Finish(a, "CONFIRMATION_FAILED")
    /\ Fault
    /\ UNCHANGED <<vars, before, work, restored>>

\* The process dies during the rollback.
RestoreCrash(a) ==
    /\ phase[a] \in {"preprocessed", "recipes"}
    /\ Finish(a, "crashed")
    /\ Fault
    /\ UNCHANGED <<vars, before, work, restored>>

ChildNext ==
    \E a \in Attempt :
        \/ Confirming(a)
        \/ Refuse(a)
        \/ SnapshotPreprocessed(a)
        \/ SnapshotRecipes(a)
        \/ FinishConfirmed(a)
        \/ RestorePreprocessed(a)
        \/ RestoreRecipes(a)
        \/ \E e \in work[a] : Remove(a, e) \/ RemoveFails(a, e)
        \/ FinishNotConfirmed(a)
        \/ RestoreRaises(a)
        \/ RestoreCrash(a)

ChildSpec == ChildInit /\ [][ChildNext]_rvars

-----------------------------------------------------------------------------
(***************************************************************************)
(* Properties                                                              *)
(***************************************************************************)

\* A call that answers CHILD_NOT_CONFIRMED has left none of its files, not even
\* one whose own cleanup failed ("leaving no CSV, recipe, sidecar, temporary
\* file, or orphan directory behind"), but for a file at a name that its snapshot
\* found taken and that another rollback has freed since.
NotConfirmedLeavesNothing ==
    \A a \in Child : verdict[a] = "CHILD_NOT_CONFIRMED" =>
        /\ temp[a] = {}
        /\ \A k \in Kind, n \in Name : final[k][n] = a => <<"final", k, n>> \in before[a]

\* Whatever several rollbacks do to each other, a file that was in the workspace
\* before all of them survives them all (_restore_workspace and its snapshot).
EarlierFilesSurvive ==
    [][\A k \in Kind, n \in Name : final[k][n] = Foreign => final'[k][n] = Foreign]_rvars

\* The files of a version that another call has confirmed are never removed
\* (_restore_workspace: "an unrelated artifact is never removed").
ConfirmedVersionSurvives ==
    [][\A a \in Attempt, k \in Kind, n \in Name :
         pc[a] = "returned" /\ status[a] = "confirmed" /\ final[k][n] = a
            => final'[k][n] = a]_rvars
=============================================================================
