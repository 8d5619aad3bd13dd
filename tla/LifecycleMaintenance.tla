------------------------- MODULE LifecycleMaintenance -------------------------
(***************************************************************************)
(* The maintenance page among confirmations: collect_lifecycle_diagnostics *)
(* offers staging files that have been lying in preprocessed/ for a day,   *)
(* execute_lifecycle_cleanup deletes the ones the operator selects.        *)
(*                                                                         *)
(* Between the report and the deletion any time may pass, and several      *)
(* operators may clean at once; each file is checked again immediately     *)
(* before its own unlink.  Checks that never distinguish two files of this *)
(* model (confinement, file type, directory identity, name pattern) are    *)
(* left out, and so is the cap on the length of a report.  A process that  *)
(* is suspended, or a clock that jumps, makes the files of a live call     *)
(* look a day old: grace tells whether that can happen.                    *)
(***************************************************************************)
EXTENDS Confirmation, FiniteSets

CONSTANTS
    Cleaner,     \* operators that clean
    MaxBatch,    \* MAX_CLEANUP_BATCH
    MaxFaults    \* bound: how many system calls fail and processes die

ASSUME MaxBatchAssumption == MaxBatch \in Nat \ {0}
ASSUME FaultsAssumption == MaxFaults \in Nat

VARIABLES
    grace,    \* whether a live call's files are always younger than a day
    aged,     \* staging files a day old
    todo,     \* todo[c]: selected files the cleanup of c has still to visit
    checked,  \* checked[c]: the file c has revalidated and is about to unlink
    deleted,  \* history: how often each file was reported DELETED
    faults    \* how many faults have happened

cleanerVars == <<grace, aged, todo, checked, deleted, faults>>
mvars == <<vars, cleanerVars>>

\* Only preprocessed/ is scanned: staging files of recipes are never offered.
Artifact == Attempt \X {"csv", "sidecar"}

Exists(e) == e[2] \in temp[e[1]]

\* A seeded fault: the scan offers every owned name, whatever its age.
EligibleAtAnyAge(e) == Exists(e)

\* _eligible_temp.
Eligible(e) == Exists(e) /\ e \in aged

MInit ==
    /\ Init
    /\ grace \in BOOLEAN
    /\ aged = {}
    /\ todo = [c \in Cleaner |-> {}]
    /\ checked = [c \in Cleaner |-> {}]
    /\ deleted = [e \in Artifact |-> 0]
    /\ faults = 0

-----------------------------------------------------------------------------
IsFault(a) ==
    \/ Crash(a)
    \/ \E k \in Kind :
         \/ StageFails(a, k)
         \/ SweepFails(a, k)
         \/ PublishFails(a, k) /\ k \in temp[a] /\ ~Occupied(k, Target(a))

Fault == faults < MaxFaults /\ faults' = faults + 1

Confirming(a) ==
    /\ Proceed(a) \/ Crash(a)
    /\ IF IsFault(a) THEN Fault ELSE UNCHANGED faults
    /\ UNCHANGED <<grace, aged, todo, checked, deleted>>

\* A day passes over a staging file.
Age(e) ==
    /\ Exists(e) /\ e \notin aged
    /\ grace => ~Alive(e[1])
    /\ aged' = aged \cup {e}
    /\ UNCHANGED <<vars, grace, todo, checked, deleted, faults>>

\* The report is shown and the operator confirms a selection from it.
Select(c, selection) ==
    /\ todo[c] = {} /\ checked[c] = {}
    /\ selection # {} /\ Cardinality(selection) <= MaxBatch
    /\ \A e \in selection : Eligible(e)
    /\ todo' = [todo EXCEPT ![c] = selection]
    /\ UNCHANGED <<vars, grace, aged, checked, deleted, faults>>

\* _revalidate; a file that is no longer eligible is SKIPPED.  The files of a
\* batch come in the order of their names, whose tokens are random.
Revalidate(c, e) ==
    /\ e \in todo[c] /\ checked[c] = {}
    /\ todo' = [todo EXCEPT ![c] = @ \ {e}]
    /\ checked' = [checked EXCEPT ![c] = IF Eligible(e) THEN {e} ELSE {}]
    /\ UNCHANGED <<vars, grace, aged, deleted, faults>>

\* os.unlink: DELETED, or UNAVAILABLE when the file has gone meanwhile.
Unlink(c, e) ==
    /\ e \in checked[c]
    /\ checked' = [checked EXCEPT ![c] = {}]
    /\ deleted' = IF Exists(e) THEN [deleted EXCEPT ![e] = @ + 1] ELSE deleted
    /\ temp' = [temp EXCEPT ![e[1]] = @ \ {e[2]}]
    /\ UNCHANGED <<final, linkable, callVars, grace, aged, todo, faults>>

\* FAILED: the rest of the batch goes on.
UnlinkFails(c, e) ==
    /\ e \in checked[c] /\ Exists(e)
    /\ checked' = [checked EXCEPT ![c] = {}]
    /\ Fault
    /\ UNCHANGED <<vars, grace, aged, todo, deleted>>

MNext ==
    \/ \E a \in Attempt : Confirming(a)
    \/ \E e \in Artifact : Age(e)
    \/ \E c \in Cleaner :
         \/ \E selection \in SUBSET Artifact : Select(c, selection)
         \/ \E e \in Artifact : Revalidate(c, e) \/ Unlink(c, e) \/ UnlinkFails(c, e)

MSpec == MInit /\ [][MNext]_mvars

-----------------------------------------------------------------------------
(***************************************************************************)
(* Properties                                                              *)
(***************************************************************************)

\* No call loses a staging file it still needs: as long as a day exceeds the time
\* a call takes, only files of finished or dead calls are removed by a cleanup
\* ("an active or newly created temporary file can never be classified as
\* abandoned"; the report may be arbitrarily old when it is acted upon).
LiveStagingIsKept ==
    [][grace => \A e \in Artifact : deleted'[e] # deleted[e] => ~Alive(e[1])]_mvars
===============================================================================
