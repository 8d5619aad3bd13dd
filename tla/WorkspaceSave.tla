---------------------------- MODULE WorkspaceSave ----------------------------
(***************************************************************************)
(* save_to_workspace among confirmations.  A save looks for a name that is *)
(* free in its folder, -1, -2, ... like a confirmation, and then opens it  *)
(* for writing: unlike os.link, this takes a file that came into being in  *)
(* between and truncates it.                                               *)
(*                                                                         *)
(* A save of a processed table goes to preprocessed/ (kind "csv"), one of  *)
(* a recipe to recipes/ (kind "recipe"); the other folders the pages save  *)
(* to hold nothing but saves.  What a save writes belongs to no version:   *)
(* its owner is Foreign.  Refused inputs (no workspace root, a path that   *)
(* leaves it) touch no file and are left out, and no page overwrites on    *)
(* purpose.  A process may stop at any point: nothing here has to go on.   *)
(***************************************************************************)
EXTENDS Confirmation

CONSTANT Saver  \* calls of save_to_workspace

SaveKind == {"csv", "recipe"}

VARIABLES
    phase,   \* where each save is
    folder,  \* the kind of file each save writes
    base,    \* the stem each save was called with
    number,  \* the collision suffix each save is at
    found    \* history: the files that existed when the save was called

saveVars == <<phase, folder, base, number, found>>
svars == <<vars, saveVars>>

Place(s) == Candidate[base[s]][number[s]]

Files == {file \in Kind \X Name : Occupied(file[1], file[2])}

SaveInit ==
    /\ Init
    /\ phase = [s \in Saver |-> "idle"]
    /\ folder \in [Saver -> SaveKind]
    /\ base \in [Saver -> Stem]
    /\ number = [s \in Saver |-> 0]
    /\ found = [s \in Saver |-> {}]

-----------------------------------------------------------------------------
Call(s) ==
    /\ phase[s] = "idle"
    /\ phase' = [phase EXCEPT ![s] = "probe"]
    /\ found' = [found EXCEPT ![s] = Files]
    /\ UNCHANGED <<vars, folder, base, number>>

\* _next_available, one candidate at a time.

TryNextNumber(s) ==
    /\ phase[s] = "probe"
    /\ Occupied(folder[s], Place(s))
    /\ number[s] < MaxSuffix
    /\ number' = [number EXCEPT ![s] = @ + 1]
    /\ UNCHANGED <<vars, phase, folder, base, found>>

NoNameFree(s) ==
    /\ phase[s] = "probe"
    /\ Occupied(folder[s], Place(s))
    /\ number[s] = MaxSuffix
    /\ phase' = [phase EXCEPT ![s] = "failed"]
    /\ UNCHANGED <<vars, folder, base, number, found>>

NameFree(s) ==
    /\ phase[s] = "probe"
    /\ ~Occupied(folder[s], Place(s))
    /\ phase' = [phase EXCEPT ![s] = "open"]
    /\ UNCHANGED <<vars, folder, base, number, found>>

\* write_bytes: the open creates the file or truncates the one that is there,
Open(s) ==
    /\ phase[s] = "open"
    /\ final' = [final EXCEPT ![folder[s]][Place(s)] = Foreign]
    /\ phase' = [phase EXCEPT ![s] = "write"]
    /\ UNCHANGED <<temp, linkable, callVars, folder, base, number, found>>

\* the write ends,
Written(s) ==
    /\ phase[s] = "write"
    /\ phase' = [phase EXCEPT ![s] = "saved"]
    /\ UNCHANGED <<vars, folder, base, number, found>>

\* or mkdir, the open or the write raises; a file that was opened stays.
SaveFails(s) ==
    /\ phase[s] \in {"open", "write"}
    /\ phase' = [phase EXCEPT ![s] = "failed"]
    /\ UNCHANGED <<vars, folder, base, number, found>>

ConfirmingMeanwhile(a) == (Proceed(a) \/ Crash(a)) /\ UNCHANGED saveVars

SaveNext ==
    \/ \E a \in Attempt : ConfirmingMeanwhile(a)
    \/ \E s \in Saver :
         \/ Call(s)
         \/ TryNextNumber(s)
         \/ NoNameFree(s)
         \/ NameFree(s)
         \/ Open(s)
         \/ Written(s)
         \/ SaveFails(s)

SaveSpec == SaveInit /\ [][SaveNext]_svars

-----------------------------------------------------------------------------
(***************************************************************************)
(* Properties                                                              *)
(***************************************************************************)

Opens(s) == phase[s] = "open" /\ phase'[s] = "write"

\* A save and the files of others: a file that existed when the save was called is
\* not written to, be it a save or part of a version, for _next_available passes over
\* it, however many names are taken and whatever appears meanwhile; and a file that
\* is saved stays what it is, for no confirmation publishes over it, when the save
\* took the name after the confirmation had reserved it (_publish_exclusive;
\* RegistrationComplete cannot be claimed, for saves do write over the files of
\* versions).
SavesAreKept ==
    [][/\ \A s \in Saver : Opens(s) => <<folder[s], Place(s)>> \notin found[s]
       /\ \A k \in SaveKind, n \in Name : final[k][n] = Foreign => final'[k][n] = Foreign]_svars
=============================================================================
