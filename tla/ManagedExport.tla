---------------------------- MODULE ManagedExport ----------------------------
(***************************************************************************)
(* Exports into one output folder: what the files hold and what the        *)
(* manifest says of them.                                                  *)
(*                                                                         *)
(* A call is one click on "Run export" in some session.  Under a trust     *)
(* root it exports the root's version and verifies the file first;         *)
(* without one it exports the path in the input field, whatever that       *)
(* holds.  The files in star/ are written in place, one after the other;   *)
(* the manifest is replaced in one step and written last.  Versions are    *)
(* files that anyone may write to; a change can leave size and             *)
(* modification time as they were.                                         *)
(*                                                                         *)
(* Left out: refusals before the call (LARGE versions, missing             *)
(* confirmation), the dataset_id, and between the files and the manifest   *)
(* the history line and the database, which RunHistory models.             *)
(***************************************************************************)
EXTENDS ManagedVersions, Naturals, FiniteSets

CONSTANTS
    Call,
    Files,     \* how many files an export writes into star/
    MaxWrites  \* bound: how often a version's file changes

ASSUME FilesAssumption == Files \in Nat \ {0}
ASSUME MaxWritesAssumption == MaxWrites \in Nat
ASSUME SourceAssumption == None \notin Call

VARIABLES
    content,   \* each version's file: "own" bytes, "changed", or "disguised"
    writes,    \* how often a file has changed
    pc,        \* where each call is
    job,       \* what it exports, and the version whose identity it records
    own,       \* whether the bytes it has read are those of its source
    at,        \* how many files it has written
    file,      \* each file in star/: the calls whose bytes it holds
    manifest,  \* the call whose manifest is in the folder
    told,      \* calls that have returned with a manifest
    raced,     \* history: calls whose source changed after its verification
    disturbed  \* history: calls after whose first write others wrote

sourceVars == <<content, writes, raced>>
folderVars == <<file, manifest, disturbed>>
exportVars == <<sourceVars, pc, job, own, at, folderVars, told>>

Artifact == 1 .. Files

Go(c, place) == pc' = [pc EXCEPT ![c] = place]

\* The call has begun to write.
Begun(c) == at[c] > 0 \/ pc[c] \in {"writing", "emit", "returned"}

Disturb(c) == disturbed' = disturbed \cup {d \in Call \ {c} : Begun(d)}

-----------------------------------------------------------------------------
\* Seeded faults, not used below.

\* content_id is not passed to verify_managed_source.
VerifyByStat(c) ==
    /\ pc[c] = "verify"
    /\ Go(c, IF content[job[c].source] = "changed" THEN "refused" ELSE "read")
    /\ UNCHANGED <<sourceVars, job, own, at, folderVars, told>>

\* The manifest does not wait for the last file.
FinishEarly(c) ==
    /\ pc[c] = "writing"
    /\ file' = [file EXCEPT ![at[c] + 1] = @ \cup {c}]
    /\ Disturb(c)
    /\ at' = [at EXCEPT ![c] = @ + 1]
    /\ Go(c, "emit")
    /\ UNCHANGED <<sourceVars, job, own, manifest, told>>

\* The identity is verified where the manifest asserts it.
EmitVerifying(c) ==
    /\ pc[c] = "emit"
    /\ LET good == job[c].managed => content[job[c].source] = "own"
       IN  /\ manifest' = IF good THEN c ELSE manifest
           /\ told' = IF good THEN told \cup {c} ELSE told
           /\ Go(c, IF good THEN "returned" ELSE "refused")
    /\ Disturb(c)
    /\ UNCHANGED <<sourceVars, job, own, at, file>>

-----------------------------------------------------------------------------
Jobs == [source : Version \cup Manual, claim : Version \cup {None}, managed : BOOLEAN]

\* What a click exports, by the root, the mirror and the path in the input field
\* (_managed_export_decision, classify_export_source, managed_manifest_metadata).
Job(root, mirror, path) ==
    IF root # None
      THEN [source |-> root, claim |-> root, managed |-> TRUE]
      ELSE [source |-> path,
            claim |-> IF path = mirror /\ mirror \in Version THEN mirror ELSE None,
            managed |-> FALSE]

ExportInit ==
    /\ content = [v \in Version |-> "own"]
    /\ writes = 0
    /\ pc = [c \in Call |-> "idle"]
    /\ job = [c \in Call |-> None]
    /\ own = [c \in Call |-> FALSE]
    /\ at = [c \in Call |-> 0]
    /\ file = [a \in Artifact |-> {}]
    /\ manifest = None
    /\ told = {}
    /\ raced = {}
    /\ disturbed = {}

Click(c, root, mirror, path) ==
    /\ pc[c] = "idle"
    /\ job' = [job EXCEPT ![c] = Job(root, mirror, path)]
    /\ Go(c, IF root # None THEN "verify" ELSE "read")
    /\ UNCHANGED <<sourceVars, own, at, folderVars, told>>

\* verify_managed_export_source reads and hashes the file.
Verify(c) ==
    /\ pc[c] = "verify"
    /\ Go(c, IF content[job[c].source] = "own" THEN "read" ELSE "refused")
    /\ UNCHANGED <<sourceVars, job, own, at, folderVars, told>>

\* load_csv opens the path once more; profiling and the star follow in memory.
Read(c) ==
    /\ pc[c] = "read"
    /\ own' = [own EXCEPT ![c] = job[c].source \in Version => content[job[c].source] = "own"]
    /\ Go(c, "write")
    /\ UNCHANGED <<sourceVars, job, at, folderVars, told>>

\* to_csv, write_text: opening truncates the file,
Open(c) ==
    /\ pc[c] = "write"
    /\ file' = [file EXCEPT ![at[c] + 1] = {c}]
    /\ Disturb(c)
    /\ Go(c, "writing")
    /\ UNCHANGED <<sourceVars, job, own, at, manifest, told>>

\* and the rows are added to whatever it holds by now.
Finish(c) ==
    /\ pc[c] = "writing"
    /\ file' = [file EXCEPT ![at[c] + 1] = @ \cup {c}]
    /\ Disturb(c)
    /\ at' = [at EXCEPT ![c] = @ + 1]
    /\ Go(c, IF at[c] + 1 = Files THEN "emit" ELSE "write")
    /\ UNCHANGED <<sourceVars, job, own, manifest, told>>

\* _atomic_write_json replaces the manifest that is there.
Emit(c) ==
    /\ pc[c] = "emit"
    /\ manifest' = c
    /\ told' = told \cup {c}
    /\ Disturb(c)
    /\ Go(c, "returned")
    /\ UNCHANGED <<sourceVars, job, own, at, file>>

\* "Manifest emission failed": a warning, the export succeeds.
EmitFails(c) ==
    /\ pc[c] = "emit"
    /\ Go(c, "returned")
    /\ UNCHANGED <<sourceVars, job, own, at, folderVars, told>>

\* A step raises or the process dies; what has been written stays.
Stop(c) ==
    /\ pc[c] \in {"verify", "read", "write", "writing", "emit"}
    /\ Go(c, "stopped")
    /\ UNCHANGED <<sourceVars, job, own, at, folderVars, told>>

\* Someone writes to a version's file, or puts its bytes back.
WriteFile(v, state) ==
    /\ writes < MaxWrites
    /\ content[v] # state
    /\ content' = [content EXCEPT ![v] = state]
    /\ writes' = writes + 1
    /\ raced' = raced \cup {c \in Call : pc[c] = "read" /\ job[c].source = v}
    /\ UNCHANGED <<pc, job, own, at, folderVars, told>>

ExportNext ==
    \/ \E c \in Call :
         \/ \E root \in Version \cup {None}, mirror \in Version \cup Manual \cup {None},
               path \in Version \cup Manual : Click(c, root, mirror, path)
         \/ Verify(c)
         \/ Read(c)
         \/ Open(c)
         \/ Finish(c)
         \/ Emit(c)
         \/ EmitFails(c)
         \/ Stop(c)
    \/ \E v \in Version, state \in {"own", "changed", "disguised"} : WriteFile(v, state)

ExportSpec == ExportInit /\ [][ExportNext]_exportVars

-----------------------------------------------------------------------------
(***************************************************************************)
(* Properties                                                              *)
(***************************************************************************)

\* The shape of the state; only a call that has written every file goes on to the
\* manifest.
ExportTypeOK ==
    /\ content \in [Version -> {"own", "changed", "disguised"}]
    /\ writes \in 0 .. MaxWrites
    /\ pc \in [Call -> {"idle", "verify", "read", "write", "writing", "emit", "returned",
                        "refused", "stopped"}]
    /\ job \in [Call -> Jobs \cup {None}]
    /\ own \in [Call -> BOOLEAN]
    /\ at \in [Call -> 0 .. Files]
    /\ file \in [Artifact -> SUBSET Call]
    /\ manifest \in Call \cup {None}
    /\ told \subseteq Call /\ raced \subseteq Call /\ disturbed \subseteq Call
    /\ \A c \in Call : pc[c] # "idle" => job[c] \in Jobs
    /\ \A c \in Call : pc[c] \in {"idle", "verify", "read", "refused"} => at[c] = 0
    /\ \A c \in Call : pc[c] \in {"write", "writing"} => at[c] < Files
    /\ \A c \in Call : pc[c] \in {"emit", "returned"} => at[c] = Files

\* A managed export that is refused has not touched the folder (on a mismatch it
\* "raises before any export byte or manifest exists").
RefusedLeavesNothing ==
    \A c \in Call : pc[c] = "refused" =>
        manifest # c /\ \A a \in Artifact : c \notin file[a]

\* An export with the folder to itself since its first write leaves exactly its
\* own files, whatever was there before, and the manifest it has reported
\* (run_export_star).
AloneIsWhole ==
    \A c \in Call \ disturbed : pc[c] = "returned" =>
        /\ \A a \in Artifact : file[a] = {c}
        /\ c \in told => manifest = c

\* A managed export has read the bytes that its identity names, unless the file
\* was written to between the verification and the reading (run_managed_export_star).
VerifiedIsRead ==
    \A c \in Call \ raced :
        pc[c] \in {"write", "writing", "emit", "returned"} /\ job[c].managed => own[c]

\* An identity in a manifest has been verified ("a managed-looking context
\* without exportable managed trust never falls back to an unmanaged export").
IdentityIsVerified ==
    manifest # None /\ job[manifest].claim # None => job[manifest].managed
=============================================================================
