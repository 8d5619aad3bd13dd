-------------------------- MODULE WorkspaceProofs --------------------------
(***************************************************************************)
(* Proofs about what shares a workspace with confirmations: the cleanup of *)
(* LifecycleMaintenance, the saves of WorkspaceSave, the scan of Discovery *)
(* and the rows of VersionHistory, for any number of calls, cleaners,      *)
(* saves, copies and sidecars and any limits.                              *)
(*                                                                         *)
(* A cleanup only removes staging files, so the invariant of confirmation  *)
(* survives it and everything that follows from it stays true.  A save     *)
(* writes over published files, so of that invariant only the shape of the *)
(* state survives; what it keeps, it keeps by its own doing.  The scan     *)
(* takes no lock, so its invariant says what each of its phases has        *)
(* established and what the world may no longer take away: a sidecar that  *)
(* stood there all along still stands there, and still claims to be the    *)
(* version it was read as.                                                 *)
(***************************************************************************)
EXTENDS LifecycleMaintenance, Discovery, VersionHistory, FiniteSetTheorems, ConfirmationProofs

(***************************************************************************)
(* Cleanup                                                                 *)
(***************************************************************************)

\* The shape of the cleaner's state.
CleanerTypeOK ==
    /\ grace \in BOOLEAN
    /\ aged \subseteq Artifact
    /\ todo \in [Cleaner -> SUBSET Artifact]
    /\ checked \in [Cleaner -> SUBSET Artifact]
    /\ deleted \in [Artifact -> Nat]
    /\ faults \in Nat

\* A call that was not made has no staging file.
NoneBeforeCall == \A a \in Attempt : pc[a] = "idle" => temp[a] = {}

\* While a day exceeds a call, what is a day old belongs to calls that have ended,
\* and they do not start again.
AgedHasEnded == grace => \A e \in aged : pc[e[1]] \in {"returned", "crashed"}

\* What has been revalidated was a day old, and stays so.
CheckedIsAged == \A c \in Cleaner : checked[c] \subseteq aged

MaintenanceInv ==
    /\ IInv
    /\ CleanerTypeOK
    /\ NoneBeforeCall
    /\ AgedHasEnded
    /\ CheckedIsAged

\* The initial states satisfy the invariant.
LEMMA InitMaintenanceInv == MInit => MaintenanceInv
<1> SUFFICES ASSUME MInit PROVE MaintenanceInv
  OBVIOUS
<1>1. IInv
  BY InitIInv DEF MInit
<1>2. CleanerTypeOK
  BY DEF MInit, CleanerTypeOK
<1>3. NoneBeforeCall /\ AgedHasEnded /\ CheckedIsAged
  BY DEF MInit, Init, NoneBeforeCall, AgedHasEnded, CheckedIsAged
<1> QED
  BY <1>1, <1>2, <1>3 DEF MaintenanceInv

-----------------------------------------------------------------------------
\* Removing staging files, whoever does it, leaves what confirmation rests on.
LEMMA RemovingStagingKeepsIInv ==
    ASSUME IInv, UNCHANGED <<final, linkable, callVars>>,
           temp' \in [Attempt -> SUBSET Kind],
           \A a \in Attempt : temp'[a] \subseteq temp[a]
    PROVE  IInv'
<1> USE DEF callVars, IInv
<1>1. TypeOK'
  BY DEF TypeOK
<1>2. LinkedTrio' /\ LinkedOnDisk' /\ LinkedInOrder'
  BY FilesFrame
<1>3. PhaseAgrees' /\ ReservedIsOurs'
  BY DEF PhaseAgrees, PhaseOf, ReservedIsOurs, Target
<1>4. StagingKnown'
  BY DEF StagingKnown
<1> QED
  BY <1>1, <1>2, <1>3, <1>4

\* Every step of calls and cleaners, and a stutter, keeps the invariant.
LEMMA NextMaintenanceInv == MaintenanceInv /\ [MNext]_mvars => MaintenanceInv'
<1> SUFFICES ASSUME MaintenanceInv, [MNext]_mvars PROVE MaintenanceInv'
  OBVIOUS
<1> USE FaultsAssumption DEF MaintenanceInv
<1>1. ASSUME NEW a \in Attempt, Confirming(a) PROVE MaintenanceInv'
  <2>1. IInv'
    BY <1>1, NextIInv DEF Confirming, Next
  <2>2. CleanerTypeOK'
    BY <1>1 DEF Confirming, Fault, CleanerTypeOK
  <2>3. /\ pc[a] \notin {"returned", "crashed"} /\ pc'[a] # "idle"
        /\ \A b \in Attempt \ {a} : pc'[b] = pc[b] /\ temp'[b] = temp[b]
    BY <1>1, StepIsLocal DEF Confirming, IInv
  <2>4. NoneBeforeCall'
    BY <2>3 DEF NoneBeforeCall
  <2>5. AgedHasEnded'
    BY <1>1, <2>3 DEF Confirming, AgedHasEnded, CleanerTypeOK, Artifact
  <2>6. CheckedIsAged'
    BY <1>1 DEF Confirming, CheckedIsAged
  <2> QED
    BY <2>1, <2>2, <2>4, <2>5, <2>6
<1>2. ASSUME UNCHANGED vars PROVE IInv' /\ NoneBeforeCall'
  BY <1>2, NextIInv DEF vars, NoneBeforeCall
<1>3. ASSUME NEW e \in Artifact, Age(e) PROVE MaintenanceInv'
  <2>1. e[1] \in Attempt /\ temp[e[1]] # {}
    BY <1>3 DEF Age, Exists, Artifact
  <2>2. grace => pc[e[1]] \in {"returned", "crashed"}
    BY <1>3, <2>1 DEF Age, Alive, NoneBeforeCall
  <2>3. AgedHasEnded'
    BY <1>3, <2>2 DEF Age, AgedHasEnded, vars
  <2>4. CleanerTypeOK' /\ CheckedIsAged'
    BY <1>3 DEF Age, CleanerTypeOK, CheckedIsAged
  <2> QED
    BY <1>2, <1>3, <2>3, <2>4 DEF Age
<1>4. ASSUME NEW c \in Cleaner, NEW selection \in SUBSET Artifact, Select(c, selection)
      PROVE  MaintenanceInv'
  BY <1>2, <1>4 DEF Select, CleanerTypeOK, AgedHasEnded, CheckedIsAged, vars
<1>5. ASSUME NEW c \in Cleaner, NEW e \in Artifact, Revalidate(c, e)
      PROVE  MaintenanceInv'
  <2>1. checked'[c] \subseteq aged /\ \A d \in Cleaner \ {c} : checked'[d] = checked[d]
    BY <1>5 DEF Revalidate, Eligible, CleanerTypeOK
  <2>2. CleanerTypeOK'
    BY <1>5 DEF Revalidate, CleanerTypeOK
  <2>3. AgedHasEnded' /\ CheckedIsAged'
    BY <1>5, <2>1 DEF Revalidate, AgedHasEnded, CheckedIsAged, vars
  <2> QED
    BY <1>2, <1>5, <2>2, <2>3 DEF Revalidate
<1>6. ASSUME NEW c \in Cleaner, NEW e \in Artifact, Unlink(c, e)
      PROVE  MaintenanceInv'
  <2>1. e[1] \in Attempt
    BY DEF Artifact
  <2>2. temp' \in [Attempt -> SUBSET Kind] /\ \A a \in Attempt : temp'[a] \subseteq temp[a]
    BY <1>6, <2>1 DEF Unlink, IInv, TypeOK
  <2>3. IInv'
    BY <1>6, <2>2, RemovingStagingKeepsIInv DEF Unlink
  <2>4. NoneBeforeCall'
    BY <1>6, <2>2 DEF Unlink, NoneBeforeCall, callVars
  <2>5. CleanerTypeOK'
    BY <1>6 DEF Unlink, CleanerTypeOK
  <2>6. AgedHasEnded' /\ CheckedIsAged'
    BY <1>6 DEF Unlink, AgedHasEnded, CheckedIsAged, CleanerTypeOK, callVars
  <2> QED
    BY <2>3, <2>4, <2>5, <2>6
<1>7. ASSUME NEW c \in Cleaner, NEW e \in Artifact, UnlinkFails(c, e)
      PROVE  MaintenanceInv'
  BY <1>2, <1>7 DEF UnlinkFails, Fault, CleanerTypeOK, AgedHasEnded, CheckedIsAged, vars
<1>8. CASE UNCHANGED mvars
  BY <1>2, <1>8 DEF mvars, cleanerVars, CleanerTypeOK, AgedHasEnded, CheckedIsAged, vars
<1> QED
  BY <1>1, <1>3, <1>4, <1>5, <1>6, <1>7, <1>8 DEF MNext

\* The invariant holds whatever is cleaned.
LEMMA SpecMaintenanceInv == MSpec => []MaintenanceInv
BY InitMaintenanceInv, NextMaintenanceInv, PTL DEF MSpec

\* Among any number of cleaners, too, a sidecar stands beside its CSV and recipe
\* (execute_lifecycle_cleanup unlinks staging files only).
THEOREM CleanupKeepsRegistration == MSpec => []RegistrationComplete
<1>1. MaintenanceInv => RegistrationComplete
  BY IInvImpliesComplete DEF MaintenanceInv
<1> QED
  BY <1>1, SpecMaintenanceInv, PTL

\* A cleanup takes no staging file from a call under way, however old its report and
\* whoever else cleans, as long as no call takes a day (_eligible_temp, _revalidate).
THEOREM CleanupSparesLiveCalls == MSpec => LiveStagingIsKept
<1> DEFINE Spared == grace => \A e \in Artifact : deleted'[e] # deleted[e] => ~Alive(e[1])
<1>1. ASSUME MaintenanceInv, [MNext]_mvars PROVE [Spared]_mvars
  <2>1. ASSUME NEW c \in Cleaner, NEW e \in Artifact, Unlink(c, e), grace
        PROVE  \A f \in Artifact : deleted'[f] # deleted[f] => ~Alive(f[1])
    <3>1. e \in aged
      BY <1>1, <2>1 DEF Unlink, MaintenanceInv, CheckedIsAged
    <3>2. ~Alive(e[1])
      BY <1>1, <2>1, <3>1 DEF MaintenanceInv, AgedHasEnded, Alive
    <3>3. \A f \in Artifact \ {e} : deleted'[f] = deleted[f]
      BY <1>1, <2>1 DEF Unlink, MaintenanceInv, CleanerTypeOK
    <3> QED
      BY <3>2, <3>3
  <2>2. ASSUME ~\E c \in Cleaner, e \in Artifact : Unlink(c, e)
        PROVE  UNCHANGED deleted
    BY <1>1, <2>2 DEF MNext, Confirming, Age, Select, Revalidate, UnlinkFails, mvars, cleanerVars
  <2> QED
    BY <2>1, <2>2
<1> QED
  BY <1>1, SpecMaintenanceInv, PTL DEF MSpec, LiveStagingIsKept

-----------------------------------------------------------------------------
(***************************************************************************)
(* Saves                                                                   *)
(***************************************************************************)

\* The shape of the state of saves.
SaveTypeOK ==
    /\ phase \in [Saver -> {"idle", "probe", "open", "write", "saved", "failed"}]
    /\ folder \in [Saver -> SaveKind]
    /\ base \in [Saver -> Stem]
    /\ number \in [Saver -> 0 .. MaxSuffix]
    /\ found \in [Saver -> SUBSET (Kind \X Name)]

\* No file goes away, so what a save found is still there,
FoundIsThere == \A s \in Saver : found[s] \subseteq Files

\* and the place a save is about to open is none it found.
OpensElsewhere == \A s \in Saver : phase[s] = "open" => <<folder[s], Place(s)>> \notin found[s]

SaveInv ==
    /\ TypeOK
    /\ SaveTypeOK
    /\ FoundIsThere
    /\ OpensElsewhere

\* The place a save looks at is a name, in a folder of files.
LEMMA PlaceIsName ==
    ASSUME SaveTypeOK, NEW s \in Saver
    PROVE  Place(s) \in Name /\ folder[s] \in Kind
BY CandidateAssumption DEF SaveTypeOK, Place, SaveKind, Kind

\* The initial states satisfy the invariant.
LEMMA InitSaveInv == SaveInit => SaveInv
<1> SUFFICES ASSUME SaveInit PROVE SaveInv
  OBVIOUS
<1>1. TypeOK
  BY InitIInv DEF SaveInit, IInv
<1>2. SaveTypeOK
  BY MaxSuffixAssumption DEF SaveInit, SaveTypeOK
<1>3. FoundIsThere /\ OpensElsewhere
  BY DEF SaveInit, FoundIsThere, OpensElsewhere
<1> QED
  BY <1>1, <1>2, <1>3 DEF SaveInv

\* Files only come into being: no step of calls and saves removes one.
LEMMA FilesStay ==
    ASSUME SaveInv, [SaveNext]_svars
    PROVE  Files \subseteq Files'
<1> USE OwnerAssumption DEF Files, Occupied
<1>1. ASSUME NEW a \in Attempt, ConfirmingMeanwhile(a) PROVE Files \subseteq Files'
  BY <1>1, StepPublishesOwn DEF ConfirmingMeanwhile, SaveInv
<1>2. ASSUME NEW s \in Saver, Open(s) PROVE Files \subseteq Files'
  BY <1>2 DEF Open, SaveInv, TypeOK
<1>3. ASSUME UNCHANGED final PROVE Files \subseteq Files'
  BY <1>3
<1> QED
  BY <1>1, <1>2, <1>3
     DEF SaveNext, Call, TryNextNumber, NoNameFree, NameFree, Written, SaveFails, svars, vars

\* Every step of calls and saves, and a stutter, keeps the invariant.
LEMMA NextSaveInv == SaveInv /\ [SaveNext]_svars => SaveInv'
<1> SUFFICES ASSUME SaveInv, [SaveNext]_svars PROVE SaveInv'
  OBVIOUS
<1>a. Files \subseteq Files'
  BY FilesStay
<1> USE DEF SaveInv
<1>1. ASSUME NEW a \in Attempt, ConfirmingMeanwhile(a) PROVE SaveInv'
  <2>1. TypeOK'
    BY <1>1, NextTypeOK DEF ConfirmingMeanwhile, Next
  <2>2. SaveTypeOK' /\ FoundIsThere' /\ OpensElsewhere'
    BY <1>a, <1>1 DEF ConfirmingMeanwhile, saveVars, SaveTypeOK, FoundIsThere, OpensElsewhere, Place
  <2> QED
    BY <2>1, <2>2
<1>2. ASSUME UNCHANGED vars PROVE TypeOK'
  BY <1>2, NextTypeOK
<1>3. ASSUME NEW s \in Saver, Call(s) PROVE SaveInv'
  <2>1. Files \subseteq Kind \X Name
    BY DEF Files
  <2>2. SaveTypeOK'
    BY <1>3, <2>1 DEF Call, SaveTypeOK
  <2>3. FoundIsThere' /\ OpensElsewhere'
    BY <1>3, <1>a DEF Call, FoundIsThere, OpensElsewhere, SaveTypeOK, Place
  <2> QED
    BY <1>2, <1>3, <2>2, <2>3 DEF Call
<1>4. ASSUME NEW s \in Saver, TryNextNumber(s) PROVE SaveInv'
  <2>1. SaveTypeOK'
    BY <1>4, MaxSuffixAssumption DEF TryNextNumber, SaveTypeOK
  <2>2. FoundIsThere' /\ OpensElsewhere'
    BY <1>4, <1>a DEF TryNextNumber, FoundIsThere, OpensElsewhere, SaveTypeOK, Place
  <2> QED
    BY <1>2, <1>4, <2>1, <2>2 DEF TryNextNumber
<1>5. ASSUME NEW s \in Saver, NoNameFree(s) \/ Written(s) \/ SaveFails(s) PROVE SaveInv'
  <2>1. SaveTypeOK' /\ FoundIsThere' /\ OpensElsewhere'
    BY <1>5, <1>a DEF NoNameFree, Written, SaveFails, FoundIsThere, OpensElsewhere, SaveTypeOK, Place
  <2> QED
    BY <1>2, <1>5, <2>1 DEF NoNameFree, Written, SaveFails
<1>6. ASSUME NEW s \in Saver, NameFree(s) PROVE SaveInv'
  <2>1. SaveTypeOK'
    BY <1>6 DEF NameFree, SaveTypeOK
  <2>2. <<folder[s], Place(s)>> \notin Files
    BY <1>6 DEF NameFree, Files
  <2>3. FoundIsThere' /\ OpensElsewhere'
    BY <1>6, <1>a, <2>2 DEF NameFree, FoundIsThere, OpensElsewhere, SaveTypeOK, Place
  <2> QED
    BY <1>2, <1>6, <2>1, <2>3 DEF NameFree
<1>7. ASSUME NEW s \in Saver, Open(s) PROVE SaveInv'
  <2>1. TypeOK'
    BY <1>7, PlaceIsName DEF Open, TypeOK, Owner, callVars
  <2>2. SaveTypeOK' /\ FoundIsThere' /\ OpensElsewhere'
    BY <1>7, <1>a DEF Open, FoundIsThere, OpensElsewhere, SaveTypeOK, Place
  <2> QED
    BY <2>1, <2>2
<1>8. CASE UNCHANGED svars
  BY <1>2, <1>8, <1>a DEF svars, saveVars, SaveTypeOK, FoundIsThere, OpensElsewhere, Place
<1> QED
  BY <1>1, <1>3, <1>4, <1>5, <1>6, <1>7, <1>8 DEF SaveNext

\* The invariant holds among any number of calls and saves.
LEMMA SpecSaveInv == SaveSpec => []SaveInv
BY InitSaveInv, NextSaveInv, PTL DEF SaveSpec

\* A save never opens a file that it could have found, and what is saved is written
\* over by no confirmation (_next_available, _publish_exclusive).
THEOREM SavesStay == SaveSpec => SavesAreKept
<1> DEFINE Elsewhere == \A s \in Saver : Opens(s) => <<folder[s], Place(s)>> \notin found[s]
           Kept == \A k \in SaveKind, n \in Name : final[k][n] = Foreign => final'[k][n] = Foreign
<1>1. ASSUME SaveInv, [SaveNext]_svars PROVE [Elsewhere /\ Kept]_svars
  <2>1. Elsewhere
    BY <1>1 DEF SaveInv, OpensElsewhere, Opens
  <2>2. ASSUME NEW a \in Attempt, ConfirmingMeanwhile(a) PROVE Kept
    BY <1>1, <2>2, StepPublishesOwn, OwnerAssumption
       DEF ConfirmingMeanwhile, SaveInv, SaveKind, Kind
  <2>3. ASSUME NEW s \in Saver, Open(s) PROVE Kept
    BY <1>1, <2>3 DEF Open, SaveInv, TypeOK, SaveKind, Kind
  <2>4. ASSUME UNCHANGED final PROVE Kept
    BY <2>4
  <2>5. Kept
    BY <1>1, <2>2, <2>3, <2>4
       DEF SaveNext, Call, TryNextNumber, NoNameFree, NameFree, Written, SaveFails, svars, vars
  <2> QED
    BY <2>1, <2>5
<1> QED
  BY <1>1, SpecSaveInv, PTL DEF SaveSpec, SavesAreKept

(***************************************************************************)
(* The scan of the sidecars                                                *)
(***************************************************************************)

\* The shape of the state of a scan; no save goes where the sidecars have their names.
ScanTypeOK ==
    /\ folder \in [Saver -> SaveKind]
    /\ copyOf \in [Name -> Name]
    /\ generation \in {0, 1} /\ identity \in {0, 1} /\ opened \in {0, 1}
    /\ broughtBack \in BOOLEAN
    /\ scan \in {"idle", "precheck", "open", "enumerate", "postcheck", "parse", "done"}
    /\ present \subseteq Name /\ candidates \subseteq Name
    /\ parsed \in [Name -> Name \cup {NoOne}]
    /\ issue \in [Name -> {"none", "vanished", "os_error", "corrupt", "unsupported", "csv", "recipe"}]
    /\ listed \subseteq Name /\ duplicate \subseteq Name

\* Names of another directory pass the postcheck only if the captured one came back
\* before it; until then the postcheck finds the other one.
DirectoryIsOne ==
    /\ scan \in {"enumerate", "postcheck"} => opened = identity \/ broughtBack \/ generation # identity
    /\ scan = "parse" \/ Complete => opened = identity \/ broughtBack

\* What stood there all along stands there still.
PresentIsThere == present \subseteq Sidecars

\* Before the sidecars are read, nothing is known of them.
NothingReported ==
    /\ scan \in {"idle", "precheck", "open"} => present = {}
    /\ scan \in {"idle", "precheck", "open", "enumerate"} => candidates = {}
    /\ scan = "postcheck" => present \subseteq candidates
    /\ scan \notin {"parse", "done"} =>
         /\ \A n \in Name : parsed[n] = NoOne /\ issue[n] = "none"
         /\ listed = {} /\ duplicate = {} /\ readable = {}

\* What is still to be read has no report, and no sidecar has two.
ReportedOnce ==
    /\ \A n \in candidates : parsed[n] = NoOne /\ issue[n] = "none"
    /\ \A n \in listed \cup duplicate : parsed[n] # NoOne /\ issue[n] = "none"
    /\ listed \cap duplicate = {}

\* Whatever stood there all along has been read, or will be.
PresentIsRead ==
    /\ scan = "parse" \/ Complete =>
         \A n \in present : n \in candidates \/ parsed[n] # NoOne \/ issue[n] # "none"
    /\ Complete => candidates = {} /\ Unclassified = {}

\* A sidecar that still stands there is the version it was read as.
ParsedIsClaim == \A n \in present : parsed[n] # NoOne => parsed[n] = Claim(n)

\* The files of a version are looked at when every sidecar has been read.
ListedIsAlone == \A n \in listed \cup readable : candidates = {} /\ Alone(n)

ScanInv ==
    /\ TypeOK
    /\ ScanTypeOK
    /\ DirectoryIsOne
    /\ PresentIsThere
    /\ NothingReported
    /\ ReportedOnce
    /\ PresentIsRead
    /\ ParsedIsClaim
    /\ ListedIsAlone

\* The initial states satisfy the invariant.
LEMMA InitScanInv == DiscoveryInit => ScanInv
<1> SUFFICES ASSUME DiscoveryInit PROVE ScanInv
  OBVIOUS
<1>1. TypeOK
  BY InitIInv DEF DiscoveryInit, SaveInit, IInv
<1>2. ScanTypeOK /\ DirectoryIsOne /\ PresentIsThere /\ NothingReported
  BY DEF DiscoveryInit, SaveInit, ScanTypeOK, DirectoryIsOne, PresentIsThere, NothingReported, Complete
<1>3. ReportedOnce /\ PresentIsRead /\ ParsedIsClaim /\ ListedIsAlone
  BY DEF DiscoveryInit, ReportedOnce, PresentIsRead, ParsedIsClaim, ListedIsAlone, Complete
<1> QED
  BY <1>1, <1>2, <1>3 DEF ScanInv

-----------------------------------------------------------------------------
\* What the scan knows survives a step of the world that leaves the sidecars it has
\* seen where they are.
LEMMA WorldKeepsScanInv ==
    ASSUME ScanInv, TypeOK', copyOf' \in [Name -> Name], generation' = generation, folder' = folder,
           UNCHANGED <<scan, identity, opened, broughtBack, candidates, parsed, readable,
                       resultVars, rootStatus>>,
           present' \subseteq present,
           \A n \in present' : Occupied("sidecar", n)' /\ Claim(n)' = Claim(n)
    PROVE  ScanInv'
<1> USE DEF ScanInv, resultVars
<1>1. ScanTypeOK' /\ DirectoryIsOne'
  BY DEF ScanTypeOK, DirectoryIsOne, Complete
<1>2. PresentIsThere' /\ NothingReported'
  BY DEF PresentIsThere, NothingReported, ScanTypeOK, Sidecars
<1>3. ReportedOnce' /\ PresentIsRead'
  BY DEF ReportedOnce, PresentIsRead, Complete, Unclassified
<1>4. ParsedIsClaim' /\ ListedIsAlone'
  BY DEF ParsedIsClaim, ListedIsAlone, Alone
<1> QED
  BY <1>1, <1>2, <1>3, <1>4

\* Calls and saves remove no sidecar and turn none that is there into another.
LEMMA SidecarsStay ==
    ASSUME TypeOK, ScanTypeOK, [SaveNext]_svars, UNCHANGED worldVars
    PROVE  /\ TypeOK' /\ folder' = folder
           /\ \A n \in Name : Occupied("sidecar", n) =>
                Occupied("sidecar", n)' /\ Claim(n)' = Claim(n)
<1> USE OwnerAssumption DEF Occupied
<1>1. ASSUME NEW a \in Attempt, ConfirmingMeanwhile(a)
      PROVE  TypeOK' /\ \A n \in Name : Occupied("sidecar", n) => final'["sidecar"][n] = final["sidecar"][n]
  <2>1. TypeOK'
    BY <1>1, NextTypeOK DEF ConfirmingMeanwhile, Next
  <2> QED
    BY <1>1, <2>1, StepPublishesOwn DEF ConfirmingMeanwhile, Kind
<1>2. ASSUME NEW s \in Saver, Open(s)
      PROVE  TypeOK' /\ \A n \in Name : Occupied("sidecar", n) => final'["sidecar"][n] = final["sidecar"][n]
  <2>1. folder[s] \in Kind \ {"sidecar"}
    BY DEF ScanTypeOK, SaveKind, Kind
  <2>2. final' = [final EXCEPT ![folder[s]] = [@ EXCEPT ![Place(s)] = Foreign]]
    BY <1>2 DEF Open
  <2>3. [final[folder[s]] EXCEPT ![Place(s)] = Foreign] \in [Name -> Owner]
    BY <2>1 DEF TypeOK, Owner
  <2>4. final' \in [Kind -> [Name -> Owner]] /\ final'["sidecar"] = final["sidecar"]
    BY <2>1, <2>2, <2>3 DEF TypeOK, Kind
  <2> QED
    BY <1>2, <2>4 DEF Open, TypeOK, callVars
<1>3. ASSUME UNCHANGED vars
      PROVE  TypeOK' /\ \A n \in Name : Occupied("sidecar", n) => final'["sidecar"][n] = final["sidecar"][n]
  <2>1. TypeOK'
    BY <1>3, NextTypeOK
  <2> QED
    BY <1>3, <2>1 DEF vars
<1>4. TypeOK' /\ \A n \in Name : Occupied("sidecar", n) => final'["sidecar"][n] = final["sidecar"][n]
  BY <1>1, <1>2, <1>3 DEF SaveNext, Call, TryNextNumber, NoNameFree, NameFree, Written, SaveFails, svars
<1>5. folder' = folder
  BY DEF SaveNext, ConfirmingMeanwhile, Call, TryNextNumber, NoNameFree, NameFree, Open, Written,
         SaveFails, svars, saveVars
<1> QED
  BY <1>4, <1>5 DEF worldVars, Claim
-----------------------------------------------------------------------------
\* Every step of the scan and of the world around it, and a stutter, keeps it.
LEMMA NextScanInv == ScanInv /\ [DiscoveryNext]_dvars => ScanInv'
<1> SUFFICES ASSUME ScanInv, [DiscoveryNext]_dvars PROVE ScanInv'
  OBVIOUS
<1> USE DEF ScanInv
<1>t. ASSUME UNCHANGED svars PROVE TypeOK' /\ folder' = folder
  BY <1>t, NextTypeOK DEF svars, saveVars
<1>1. ASSUME SaveNext, UNCHANGED <<worldVars, scanVars>> PROVE ScanInv'
  <2>1. \A n \in present : Occupied("sidecar", n)
    BY DEF PresentIsThere, Sidecars
  <2> QED
    BY <1>1, <2>1, SidecarsStay, WorldKeepsScanInv DEF worldVars, scanVars, ScanTypeOK
<1>2. ASSUME Prepare PROVE ScanInv'
  <2>1. TypeOK' /\ ScanTypeOK' /\ DirectoryIsOne'
    BY <1>2, <1>t DEF Prepare, resultVars, worldVars, ScanTypeOK, DirectoryIsOne, Complete
  <2>2. PresentIsThere' /\ NothingReported'
    BY <1>2 DEF Prepare, resultVars, PresentIsThere, NothingReported, Sidecars, Occupied,
       svars, vars
  <2>3. ReportedOnce' /\ PresentIsRead'
    BY <1>2 DEF Prepare, resultVars, ReportedOnce, PresentIsRead, NothingReported,
       ScanTypeOK, Complete, Unclassified
  <2>4. ParsedIsClaim' /\ ListedIsAlone'
    BY <1>2 DEF Prepare, resultVars, worldVars, ParsedIsClaim, ListedIsAlone,
       NothingReported, ScanTypeOK, Alone, Claim, svars, vars
  <2> QED
    BY <2>1, <2>2, <2>3, <2>4
<1>3. ASSUME DirectoryAbsent PROVE ScanInv'
  <2>1. TypeOK' /\ ScanTypeOK' /\ DirectoryIsOne'
    BY <1>3, <1>t DEF DirectoryAbsent, resultVars, worldVars, ScanTypeOK, DirectoryIsOne,
       Complete, Stop
  <2>2. PresentIsThere' /\ NothingReported'
    BY <1>3 DEF DirectoryAbsent, resultVars, PresentIsThere, NothingReported, Stop,
       Sidecars, Occupied, svars, vars
  <2>3. ReportedOnce' /\ PresentIsRead'
    BY <1>3 DEF DirectoryAbsent, resultVars, ReportedOnce, PresentIsRead, NothingReported,
       ScanTypeOK, Stop, Complete, Unclassified
  <2>4. ParsedIsClaim' /\ ListedIsAlone'
    BY <1>3 DEF DirectoryAbsent, resultVars, worldVars, ParsedIsClaim, ListedIsAlone,
       NothingReported, ScanTypeOK, Stop, Alone, Claim, svars, vars
  <2> QED
    BY <2>1, <2>2, <2>3, <2>4
<1>4. ASSUME DirectoryFails PROVE ScanInv'
  <2>1. TypeOK' /\ ScanTypeOK' /\ DirectoryIsOne'
    BY <1>4, <1>t DEF DirectoryFails, resultVars, worldVars, ScanTypeOK, DirectoryIsOne,
       Complete, Stop
  <2>2. PresentIsThere' /\ NothingReported'
    BY <1>4 DEF DirectoryFails, resultVars, PresentIsThere, NothingReported, Stop, Sidecars,
       Occupied, svars, vars
  <2>3. ReportedOnce' /\ PresentIsRead'
    BY <1>4 DEF DirectoryFails, resultVars, ReportedOnce, PresentIsRead, NothingReported,
       ScanTypeOK, Stop, Complete, Unclassified
  <2>4. ParsedIsClaim' /\ ListedIsAlone'
    BY <1>4 DEF DirectoryFails, resultVars, worldVars, ParsedIsClaim, ListedIsAlone,
       NothingReported, ScanTypeOK, Stop, Alone, Claim, svars, vars
  <2> QED
    BY <2>1, <2>2, <2>3, <2>4
<1>5. ASSUME Recheck PROVE ScanInv'
  <2>1. TypeOK' /\ ScanTypeOK' /\ DirectoryIsOne'
    BY <1>5, <1>t DEF Recheck, resultVars, worldVars, ScanTypeOK, DirectoryIsOne, Complete
  <2>2. PresentIsThere' /\ NothingReported'
    BY <1>5 DEF Recheck, resultVars, PresentIsThere, NothingReported, Sidecars, Occupied,
       svars, vars
  <2>3. ReportedOnce' /\ PresentIsRead'
    BY <1>5 DEF Recheck, resultVars, ReportedOnce, PresentIsRead, NothingReported,
       ScanTypeOK, Complete, Unclassified
  <2>4. ParsedIsClaim' /\ ListedIsAlone'
    BY <1>5 DEF Recheck, resultVars, worldVars, ParsedIsClaim, ListedIsAlone,
       NothingReported, ScanTypeOK, Alone, Claim, svars, vars
  <2> QED
    BY <2>1, <2>2, <2>3, <2>4
<1>6. ASSUME DirectoryChanged PROVE ScanInv'
  <2>1. TypeOK' /\ ScanTypeOK' /\ DirectoryIsOne'
    BY <1>6, <1>t DEF DirectoryChanged, resultVars, worldVars, ScanTypeOK, DirectoryIsOne,
       Complete, Stop
  <2>2. PresentIsThere' /\ NothingReported'
    BY <1>6 DEF DirectoryChanged, resultVars, PresentIsThere, NothingReported, Stop,
       Sidecars, Occupied, svars, vars
  <2>3. ReportedOnce' /\ PresentIsRead'
    BY <1>6 DEF DirectoryChanged, resultVars, ReportedOnce, PresentIsRead, NothingReported,
       ScanTypeOK, Stop, Complete, Unclassified
  <2>4. ParsedIsClaim' /\ ListedIsAlone'
    BY <1>6 DEF DirectoryChanged, resultVars, worldVars, ParsedIsClaim, ListedIsAlone,
       NothingReported, ScanTypeOK, Stop, Alone, Claim, svars, vars
  <2> QED
    BY <2>1, <2>2, <2>3, <2>4
<1>7. ASSUME OpenDirectory PROVE ScanInv'
  <2>1. TypeOK' /\ ScanTypeOK' /\ DirectoryIsOne'
    BY <1>7, <1>t DEF OpenDirectory, Sidecars, resultVars, worldVars, ScanTypeOK,
       DirectoryIsOne, Complete
  <2>2. PresentIsThere' /\ NothingReported'
    BY <1>7 DEF OpenDirectory, resultVars, PresentIsThere, NothingReported, Sidecars,
       Occupied, svars, vars
  <2>3. ReportedOnce' /\ PresentIsRead'
    BY <1>7 DEF OpenDirectory, resultVars, ReportedOnce, PresentIsRead, NothingReported,
       ScanTypeOK, Complete, Unclassified
  <2>4. ParsedIsClaim' /\ ListedIsAlone'
    BY <1>7 DEF OpenDirectory, Sidecars, resultVars, worldVars, ParsedIsClaim,
       ListedIsAlone, NothingReported, ScanTypeOK, Alone, Claim, svars, vars
  <2> QED
    BY <2>1, <2>2, <2>3, <2>4
<1>8. ASSUME NEW names \in SUBSET Name, Enumerate(names) PROVE ScanInv'
  <2>1. TypeOK' /\ ScanTypeOK' /\ DirectoryIsOne'
    BY <1>8, <1>t DEF Enumerate, resultVars, worldVars, ScanTypeOK, DirectoryIsOne, Complete
  <2>2. PresentIsThere' /\ NothingReported'
    BY <1>8 DEF Enumerate, resultVars, PresentIsThere, NothingReported, Sidecars, Occupied,
       svars, vars
  <2>3. ReportedOnce' /\ PresentIsRead'
    BY <1>8 DEF Enumerate, resultVars, ReportedOnce, PresentIsRead, NothingReported,
       ScanTypeOK, Complete, Unclassified
  <2>4. ParsedIsClaim' /\ ListedIsAlone'
    BY <1>8 DEF Enumerate, resultVars, worldVars, ParsedIsClaim, ListedIsAlone,
       NothingReported, ScanTypeOK, Alone, Claim, svars, vars
  <2> QED
    BY <2>1, <2>2, <2>3, <2>4
<1>9. ASSUME LimitExceeded PROVE ScanInv'
  <2>1. TypeOK' /\ ScanTypeOK' /\ DirectoryIsOne'
    BY <1>9, <1>t DEF LimitExceeded, resultVars, worldVars, ScanTypeOK, DirectoryIsOne,
       Complete, Stop
  <2>2. PresentIsThere' /\ NothingReported'
    BY <1>9 DEF LimitExceeded, resultVars, PresentIsThere, NothingReported, Stop, Sidecars,
       Occupied, svars, vars
  <2>3. ReportedOnce' /\ PresentIsRead'
    BY <1>9 DEF LimitExceeded, resultVars, ReportedOnce, PresentIsRead, NothingReported,
       ScanTypeOK, Stop, Complete, Unclassified
  <2>4. ParsedIsClaim' /\ ListedIsAlone'
    BY <1>9 DEF LimitExceeded, resultVars, worldVars, ParsedIsClaim, ListedIsAlone,
       NothingReported, ScanTypeOK, Stop, Alone, Claim, svars, vars
  <2> QED
    BY <2>1, <2>2, <2>3, <2>4
<1>10. ASSUME NEW n \in Name, SidecarIsRead(n) PROVE ScanInv'
  <2>0. Claim(n) \in Name /\ Claim(n) # NoOne
    BY NameAssumption DEF Claim, ScanTypeOK
  <2>1. TypeOK' /\ ScanTypeOK' /\ DirectoryIsOne'
    BY <2>0, <1>10, <1>t DEF SidecarIsRead, resultVars, worldVars, ScanTypeOK,
       DirectoryIsOne, Complete
  <2>2. PresentIsThere' /\ NothingReported'
    BY <1>10 DEF SidecarIsRead, resultVars, PresentIsThere, NothingReported, ScanTypeOK,
       Sidecars, Occupied, svars, vars
  <2>3. ReportedOnce' /\ PresentIsRead'
    BY <2>0, <1>10 DEF SidecarIsRead, resultVars, ReportedOnce, PresentIsRead,
       NothingReported, ScanTypeOK, Complete, Unclassified
  <2>4. ParsedIsClaim' /\ ListedIsAlone'
    BY <1>10 DEF SidecarIsRead, resultVars, worldVars, ParsedIsClaim, ListedIsAlone,
       NothingReported, ScanTypeOK, Alone, Claim, svars, vars
  <2> QED
    BY <2>1, <2>2, <2>3, <2>4
<1>11. ASSUME NEW n \in Name, SidecarIsRefused(n) PROVE ScanInv'
  <2>1. TypeOK' /\ ScanTypeOK' /\ DirectoryIsOne'
    BY <1>11, <1>t DEF SidecarIsRefused, Blame, resultVars, worldVars, ScanTypeOK,
       DirectoryIsOne, Complete
  <2>2. PresentIsThere' /\ NothingReported'
    BY <1>11 DEF SidecarIsRefused, Blame, resultVars, PresentIsThere, NothingReported,
       ScanTypeOK, Sidecars, Occupied, svars, vars
  <2>3. ReportedOnce' /\ PresentIsRead'
    BY <1>11 DEF SidecarIsRefused, Blame, resultVars, ReportedOnce, PresentIsRead,
       NothingReported, ScanTypeOK, Complete, Unclassified
  <2>4. ParsedIsClaim' /\ ListedIsAlone'
    BY <1>11 DEF SidecarIsRefused, Blame, resultVars, worldVars, ParsedIsClaim,
       ListedIsAlone, NothingReported, ScanTypeOK, Alone, Claim, svars, vars
  <2> QED
    BY <2>1, <2>2, <2>3, <2>4
<1>12. ASSUME NEW n \in Name, Quarantine(n) PROVE ScanInv'
  <2>1. TypeOK' /\ ScanTypeOK' /\ DirectoryIsOne'
    BY <1>12, <1>t DEF Quarantine, Grouped, resultVars, worldVars, ScanTypeOK,
       DirectoryIsOne, Complete
  <2>2. PresentIsThere' /\ NothingReported'
    BY <1>12 DEF Quarantine, Grouped, resultVars, PresentIsThere, NothingReported, Sidecars,
       Occupied, svars, vars
  <2>3. ReportedOnce' /\ PresentIsRead'
    BY <1>12 DEF Quarantine, Grouped, resultVars, ReportedOnce, PresentIsRead,
       NothingReported, ScanTypeOK, Complete, Unclassified
  <2>4. ParsedIsClaim' /\ ListedIsAlone'
    BY <1>12 DEF Quarantine, Grouped, resultVars, worldVars, ParsedIsClaim, ListedIsAlone,
       NothingReported, ScanTypeOK, Alone, Claim, svars, vars
  <2> QED
    BY <2>1, <2>2, <2>3, <2>4
<1>13. ASSUME NEW n \in Name, CsvIsReadable(n) PROVE ScanInv'
  <2>1. TypeOK' /\ ScanTypeOK' /\ DirectoryIsOne'
    BY <1>13, <1>t DEF CsvIsReadable, Grouped, resultVars, worldVars, ScanTypeOK,
       DirectoryIsOne, Complete
  <2>2. PresentIsThere' /\ NothingReported'
    BY <1>13 DEF CsvIsReadable, Grouped, resultVars, PresentIsThere, NothingReported,
       Sidecars, Occupied, svars, vars
  <2>3. ReportedOnce' /\ PresentIsRead'
    BY <1>13 DEF CsvIsReadable, Grouped, resultVars, ReportedOnce, PresentIsRead,
       NothingReported, ScanTypeOK, Complete, Unclassified
  <2>4. ParsedIsClaim' /\ ListedIsAlone'
    BY <1>13 DEF CsvIsReadable, Grouped, resultVars, worldVars, ParsedIsClaim,
       ListedIsAlone, NothingReported, ScanTypeOK, Alone, Claim, svars, vars
  <2> QED
    BY <2>1, <2>2, <2>3, <2>4
<1>14. ASSUME NEW n \in Name, RecipeIsReadable(n) PROVE ScanInv'
  <2>1. TypeOK' /\ ScanTypeOK' /\ DirectoryIsOne'
    BY <1>14, <1>t DEF RecipeIsReadable, Grouped, resultVars, worldVars, ScanTypeOK,
       DirectoryIsOne, Complete
  <2>2. PresentIsThere' /\ NothingReported'
    BY <1>14 DEF RecipeIsReadable, Grouped, resultVars, PresentIsThere, NothingReported,
       Sidecars, Occupied, svars, vars
  <2>3. ReportedOnce' /\ PresentIsRead'
    BY <1>14 DEF RecipeIsReadable, Grouped, resultVars, ReportedOnce, PresentIsRead,
       NothingReported, ScanTypeOK, Complete, Unclassified
  <2>4. ParsedIsClaim' /\ ListedIsAlone'
    BY <1>14 DEF RecipeIsReadable, Grouped, resultVars, worldVars, ParsedIsClaim,
       ListedIsAlone, NothingReported, ScanTypeOK, Alone, Claim, svars, vars
  <2> QED
    BY <2>1, <2>2, <2>3, <2>4
<1>15. ASSUME NEW n \in Name, ArtifactUnavailable(n) PROVE ScanInv'
  <2>1. TypeOK' /\ ScanTypeOK' /\ DirectoryIsOne'
    BY <1>15, <1>t DEF ArtifactUnavailable, Blame, Grouped, resultVars, worldVars,
       ScanTypeOK, DirectoryIsOne, Complete
  <2>2. PresentIsThere' /\ NothingReported'
    BY <1>15 DEF ArtifactUnavailable, Blame, Grouped, resultVars, PresentIsThere,
       NothingReported, Sidecars, Occupied, svars, vars
  <2>3. ReportedOnce' /\ PresentIsRead'
    BY <1>15 DEF ArtifactUnavailable, Blame, Grouped, resultVars, ReportedOnce,
       PresentIsRead, NothingReported, ScanTypeOK, Complete, Unclassified
  <2>4. ParsedIsClaim' /\ ListedIsAlone'
    BY <1>15 DEF ArtifactUnavailable, Blame, Grouped, resultVars, worldVars, ParsedIsClaim,
       ListedIsAlone, NothingReported, ScanTypeOK, Alone, Claim, svars, vars
  <2> QED
    BY <2>1, <2>2, <2>3, <2>4
<1>16. ASSUME Finalize PROVE ScanInv'
  <2>1. TypeOK' /\ ScanTypeOK' /\ DirectoryIsOne'
    BY <1>16, <1>t DEF Finalize, Grouped, resultVars, worldVars, ScanTypeOK, DirectoryIsOne,
       Complete, Stop
  <2>2. PresentIsThere' /\ NothingReported'
    BY <1>16 DEF Finalize, Grouped, resultVars, PresentIsThere, NothingReported, Stop,
       Sidecars, Occupied, svars, vars
  <2>3. ReportedOnce' /\ PresentIsRead'
    BY <1>16 DEF Finalize, Grouped, resultVars, ReportedOnce, PresentIsRead,
       NothingReported, ScanTypeOK, Stop, Complete, Unclassified
  <2>4. ParsedIsClaim' /\ ListedIsAlone'
    BY <1>16 DEF Finalize, Grouped, resultVars, worldVars, ParsedIsClaim, ListedIsAlone,
       NothingReported, ScanTypeOK, Stop, Alone, Claim, svars, vars
  <2> QED
    BY <2>1, <2>2, <2>3, <2>4
<1>20. ASSUME NEW n \in Name, NEW m \in Name, CopySidecar(n, m) PROVE ScanInv'
  <2>1. TypeOK'
    BY <1>20 DEF CopySidecar, TypeOK, Owner, Kind, callVars
  <2>2. \A o \in present : Occupied("sidecar", o)' /\ Claim(o)' = Claim(o)
    BY <1>20 DEF CopySidecar, PresentIsThere, Sidecars, Occupied, Claim, TypeOK, Kind, ScanTypeOK
  <2> QED
    BY <1>20, <2>1, <2>2, WorldKeepsScanInv DEF CopySidecar, scanVars, saveVars, ScanTypeOK
<1>21. ASSUME NEW n \in Name, DeleteSidecar(n) PROVE ScanInv'
  <2>1. TypeOK'
    BY <1>21 DEF DeleteSidecar, TypeOK, Owner, Kind, callVars
  <2>2. \A o \in present' : Occupied("sidecar", o)' /\ Claim(o)' = Claim(o)
    BY <1>21 DEF DeleteSidecar, PresentIsThere, Sidecars, Occupied, Claim, TypeOK, Kind, ScanTypeOK, worldVars
  <2> QED
    BY <1>21, <2>1, <2>2, WorldKeepsScanInv DEF DeleteSidecar, saveVars, worldVars, ScanTypeOK
<1>22. ASSUME ReplaceDirectory PROVE ScanInv'
  <2>1. TypeOK' /\ ScanTypeOK' /\ DirectoryIsOne'
    BY <1>22, <1>t DEF ReplaceDirectory, resultVars, ScanTypeOK, DirectoryIsOne, Complete
  <2>2. PresentIsThere' /\ NothingReported' /\ ReportedOnce' /\ PresentIsRead'
    BY <1>22 DEF ReplaceDirectory, resultVars, PresentIsThere, NothingReported, ReportedOnce,
       PresentIsRead, Complete, Unclassified
  <2>3. ParsedIsClaim' /\ ListedIsAlone'
    BY <1>22 DEF ReplaceDirectory, resultVars, ParsedIsClaim, ListedIsAlone, Alone
  <2> QED
    BY <2>1, <2>2, <2>3
<1>23. CASE UNCHANGED dvars
  BY <1>23, <1>t, WorldKeepsScanInv DEF dvars, svars, vars, worldVars, scanVars, resultVars, ScanTypeOK, PresentIsThere, Sidecars,
     Occupied, Claim
<1> QED
  BY <1>1, <1>2, <1>3, <1>4, <1>5, <1>6, <1>7, <1>8, <1>9, <1>10, <1>11, <1>12, <1>13, <1>14, <1>15, <1>16, <1>20, <1>21, <1>22, <1>23 DEF DiscoveryNext

\* The invariant holds in every behaviour of the scan among calls, saves and users.
LEMMA SpecScanInv == DiscoverySpec => []ScanInv
BY InitScanInv, NextScanInv, PTL DEF DiscoverySpec

\* A result that calls itself complete reports every sidecar that stood there all along,
\* once, and comes from the directory that was checked, unless that one was away when the
\* names were begun and came back before the postcheck (_enumerate, _recheck_dir,
\* _classify, _finalize).
THEOREM CompleteScanReportsAll == DiscoverySpec => []ScanIsComplete
<1>1. ScanInv => ScanIsComplete
  <2> SUFFICES ASSUME ScanInv, Complete PROVE ScanIsComplete
    BY DEF ScanIsComplete
  <2> DEFINE Reports(n) == {r \in {"listed", "issue", "duplicate"} :
                              \/ r = "listed" /\ n \in listed
                              \/ r = "issue" /\ issue[n] # "none"
                              \/ r = "duplicate" /\ n \in duplicate}
  <2>1. opened = identity \/ broughtBack
    BY DEF ScanInv, DirectoryIsOne
  <2>2. ASSUME NEW n \in present PROVE Cardinality(Reports(n)) = 1
    <3>1. issue[n] # "none" \/ n \in listed \/ n \in duplicate
      BY <2>2 DEF ScanInv, ScanTypeOK, PresentIsRead, Unclassified
    <3>2. \E r : Reports(n) = {r}
      <4>1. CASE issue[n] # "none"
        BY <4>1 DEF ScanInv, ReportedOnce
      <4>2. CASE n \in listed
        <5>1. Reports(n) = {"listed"}
          BY <4>2 DEF ScanInv, ReportedOnce
        <5> QED
          BY <5>1
      <4>3. CASE n \in duplicate
        <5>1. Reports(n) = {"duplicate"}
          BY <4>3 DEF ScanInv, ReportedOnce
        <5> QED
          BY <5>1
      <4> QED
        BY <3>1, <4>1, <4>2, <4>3
    <3> QED
      BY <3>2, FS_Singleton
  <2> QED
    BY <2>1, <2>2 DEF ScanIsComplete
<1> QED
  BY <1>1, SpecScanInv, PTL

\* A listed version is claimed by no other sidecar that stood there all along and could
\* be read (_classify, _build_duplicate).
THEOREM ListedVersionIsUnclaimed == DiscoverySpec => []ListedIsUnambiguous
<1>1. ScanInv => ListedIsUnambiguous
  <2> SUFFICES ASSUME ScanInv, Complete, NEW n \in listed, NEW m \in present \ {n}, issue[m] = "none"
               PROVE  parsed[n] # Claim(m)
    BY DEF ListedIsUnambiguous
  <2>1. parsed[m] # NoOne
    BY DEF ScanInv, PresentIsRead
  <2>2. parsed[m] = Claim(m)
    BY <2>1 DEF ScanInv, ParsedIsClaim
  <2>3. parsed[m] # parsed[n]
    BY DEF ScanInv, ScanTypeOK, ListedIsAlone, Alone
  <2> QED
    BY <2>2, <2>3
<1> QED
  BY <1>1, SpecScanInv, PTL

-----------------------------------------------------------------------------
(***************************************************************************)
(* A click on a row                                                        *)
(***************************************************************************)

\* A row was drawn for a version, and knows it by one of its two references.
RowKnowsItsVersion(row) ==
    /\ row = <<row[1], row[2]>>
    /\ row[1] \in {<<"eight", ShortOf[row[2]]>>, <<"twelve", row[2]>>}

RowsInv == \A row \in rows : RowKnowsItsVersion(row)

\* Rows are drawn by ShowHistory alone.
LEMMA SpecRowsInv == HistorySpec => []RowsInv
<1>1. HistoryInit => RowsInv
  BY DEF HistoryInit, RowsInv
<1>2. ASSUME RowsInv, [HistoryNext]_historyVars PROVE RowsInv'
  <2>1. ASSUME ShowHistory PROVE RowsInv'
    BY <2>1 DEF ShowHistory, RowsInv, RowKnowsItsVersion, Reference
  <2>2. ASSUME UNCHANGED rows PROVE RowsInv'
    BY <1>2, <2>2 DEF RowsInv, RowKnowsItsVersion
  <2> QED
    BY <1>2, <2>1, <2>2
       DEF HistoryNext, ConfirmFromFile, ConfirmFromVersion, Register, CopyVersion, ChangeFile,
           EditRecord, ClickRow, Reopen, historyVars, pageVars
<1> QED
  BY <1>1, <1>2, PTL DEF HistorySpec

\* However the listed versions have changed since the page was drawn, a click reopens the
\* version of its row or none; a short reference passes to another version only when the
\* row's own is not listed any more (_resolve_reference, _resolve_short_ids).
THEOREM ClickFollowsItsRow == HistorySpec => ClickReopensItsRow
<1> DEFINE Follows == pending' \notin {pending, NoId} =>
             \/ pending' = clicked'
             \/ clicked' \notin Listed
                  /\ <<<<"eight", ShortOf[pending']>>, clicked'>> \in rows
<1>1. ASSUME RowsInv, NEW row \in rows, ClickRow(row) PROVE Follows
  <2> SUFFICES ASSUME pending' # NoId PROVE Follows
    OBVIOUS
  <2>1. clicked' = row[2] /\ RowKnowsItsVersion(row)
    BY <1>1 DEF ClickRow, RowsInv
  <2>2. pending' \in Listed /\ Reference(pending') = row[1]
    BY <1>1 DEF ClickRow, Matches
  <2>3. CASE row[1] = <<"twelve", row[2]>>
    BY <2>1, <2>2, <2>3 DEF Reference
  <2>4. CASE row[1] = <<"eight", ShortOf[row[2]]>>
    <3>1. /\ ShortOf[pending'] = ShortOf[row[2]]
          /\ \A w \in Listed \ {pending'} : ShortOf[w] # ShortOf[pending']
      BY <2>2, <2>4 DEF Reference
    <3>2. row = <<<<"eight", ShortOf[pending']>>, clicked'>>
      BY <2>1, <2>4, <3>1 DEF RowKnowsItsVersion
    <3> QED
      BY <1>1, <2>1, <3>1, <3>2
  <2> QED
    BY <2>1, <2>3, <2>4 DEF RowKnowsItsVersion
<1>2. ASSUME pending' \in {pending, NoId} PROVE Follows
  BY <1>2
<1>3. ASSUME RowsInv, [HistoryNext]_historyVars PROVE [Follows]_historyVars
  BY <1>1, <1>2, <1>3
     DEF HistoryNext, ConfirmFromFile, ConfirmFromVersion, Register, CopyVersion, ChangeFile,
         EditRecord, ShowHistory, Reopen, historyVars, pageVars
<1> QED
  BY <1>3, SpecRowsInv, PTL DEF HistorySpec, ClickReopensItsRow
=============================================================================
