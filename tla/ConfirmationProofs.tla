------------------------- MODULE ConfirmationProofs -------------------------
(***************************************************************************)
(* Theorems about Confirmation, for every set of attempts, stems and       *)
(* names, every suffix bound and every initial content of the workspace.   *)
(***************************************************************************)
EXTENDS Confirmation, TLAPS

(***************************************************************************)
(* The inductive invariant.  `linked` is the program point of _finalize;   *)
(* the invariant ties it to the disk, to the result and to the             *)
(* reservation, which the properties themselves do not mention.            *)
(***************************************************************************)

\* What is on disk under a's name and what a has linked are the same thing.
LinkedOnDisk ==
    \A a \in Attempt, k \in Kind : k \in linked[a] => final[k][Target(a)] = a

\* _finalize links in one order, so only prefixes of it occur.
LinkedInOrder ==
    \A a \in Attempt : linked[a] \in {{}, {"csv"}, {"csv", "recipe"}, Kind}

\* Where a call is, what it has linked and what it will answer.
PhaseOf(a) ==
    /\ pc[a] \in {"idle", "reserve", "stage"} => linked[a] = {}
    /\ pc[a] = "publish" => linked[a] # Kind
    /\ pc[a] \in {"sweep", "returned"} =>
         \/ status[a] = "confirmed" /\ linked[a] = Kind
         \/ status[a] = "saved_unmanaged" /\ linked[a] \in {{"csv"}, {"csv", "recipe"}}
         \/ status[a] \in {"failed", "unsupported"} /\ linked[a] = {}

PhaseAgrees == \A a \in Attempt : PhaseOf(a)

\* A name that was once free in all three kinds belongs to attempts only.
ReservedIsOurs ==
    \A a \in Attempt : linked[a] # {} \/ pc[a] \in {"stage", "publish"} =>
        \A k \in Kind : final[k][Target(a)] # Foreign

\* Every staging file on disk is one its attempt still has to sweep, one that
\* got stuck, or one that is reported.
StagingKnown ==
    \A a \in Attempt :
        /\ temp[a] \subseteq staged[a] \cup stuck[a]
        /\ pc[a] \in {"idle", "reserve"} => staged[a] = {}
        /\ pc[a] = "returned" /\ status[a] # "unsupported" => staged[a] = {}

IInv ==
    /\ TypeOK
    /\ LinkedTrio
    /\ LinkedOnDisk
    /\ LinkedInOrder
    /\ PhaseAgrees
    /\ ReservedIsOurs
    /\ StagingKnown

-----------------------------------------------------------------------------
\* Each kind is published after the kinds before it, and only those.
LEMMA EarlierValues ==
    /\ Earlier["csv"] = {}
    /\ Earlier["recipe"] = {"csv"}
    /\ Earlier["sidecar"] = {"csv", "recipe"}
    /\ \A k \in Kind : Earlier[k] \subseteq Kind /\ k \notin Earlier[k]
BY DEF Earlier, Kind

\* The target of a call is always one of the names.
LEMMA TargetIsName ==
    ASSUME TypeOK, NEW a \in Attempt
    PROVE  Target(a) \in Name
BY CandidateAssumption DEF TypeOK, Target

\* The initial states satisfy the inductive invariant.
LEMMA InitIInv == Init => IInv
<1> SUFFICES ASSUME Init PROVE IInv
  OBVIOUS
<1> USE MaxSuffixAssumption, OwnerAssumption
<1>1. TypeOK
  BY DEF Init, TypeOK, Owner, Status
<1>2. \A k \in Kind, n \in Name : final[k][n] \in {Foreign, NoOne}
  BY DEF Init
<1>3. LinkedTrio
  BY <1>2 DEF LinkedTrio
<1>4. LinkedOnDisk /\ LinkedInOrder /\ PhaseAgrees /\ ReservedIsOurs /\ StagingKnown
  BY DEF Init, LinkedOnDisk, LinkedInOrder, PhaseAgrees, PhaseOf, ReservedIsOurs, StagingKnown
<1> QED
  BY <1>1, <1>3, <1>4 DEF IInv

-----------------------------------------------------------------------------
\* Every step keeps the inductive invariant.

\* Only Publish touches published files, and only TryNextSuffix moves a target.
LEMMA FilesFrame ==
    ASSUME IInv, UNCHANGED <<final, linked, stem, index>>
    PROVE  LinkedTrio' /\ LinkedOnDisk' /\ LinkedInOrder'
BY DEF IInv, LinkedTrio, LinkedOnDisk, LinkedInOrder, Target

\* Every step, and a stutter, keeps the shape of the state.
LEMMA NextTypeOK == TypeOK /\ [Next]_vars => TypeOK'
<1> SUFFICES ASSUME TypeOK, [Next]_vars PROVE TypeOK'
  OBVIOUS
<1> USE OwnerAssumption, EarlierValues DEF fileVars
<1>1. ASSUME NEW a \in Attempt, Begin(a) PROVE TypeOK'
  BY <1>1 DEF Begin, TypeOK, Kind, Owner, Status
<1>2. ASSUME NEW a \in Attempt, RejectInput(a) PROVE TypeOK'
  BY <1>2 DEF RejectInput, TypeOK, Kind, Owner, Status
<1>3. ASSUME NEW a \in Attempt, Reserve(a) PROVE TypeOK'
  BY <1>3 DEF Reserve, TypeOK, Kind, Owner, Status
<1>4. ASSUME NEW a \in Attempt, TryNextSuffix(a) PROVE TypeOK'
  BY <1>4, MaxSuffixAssumption DEF TryNextSuffix, TypeOK, Kind, Owner, Status
<1>5. ASSUME NEW a \in Attempt, SuffixesExhausted(a) PROVE TypeOK'
  BY <1>5 DEF SuffixesExhausted, TypeOK, Kind, Owner, Status
<1>6. ASSUME NEW a \in Attempt, HardLinksUnsupported(a) PROVE TypeOK'
  BY <1>6 DEF HardLinksUnsupported, TypeOK, Kind, Owner, Status
<1>7. ASSUME NEW a \in Attempt, Return(a) PROVE TypeOK'
  BY <1>7 DEF Return, TypeOK, Kind, Owner, Status
<1>8. ASSUME NEW a \in Attempt, Crash(a) PROVE TypeOK'
  BY <1>8 DEF Crash, TypeOK, Kind, Owner, Status
<1>9. ASSUME NEW a \in Attempt, NEW k \in Kind, Stage(a, k) PROVE TypeOK'
  BY <1>9 DEF Stage, TypeOK, Kind, Owner, Status
<1>10. ASSUME NEW a \in Attempt, NEW k \in Kind, StageFails(a, k) PROVE TypeOK'
  BY <1>10 DEF StageFails, TypeOK, Kind, Owner, Status
<1>11. ASSUME NEW a \in Attempt, NEW k \in Kind, Publish(a, k) PROVE TypeOK'
  BY <1>11, TargetIsName DEF Publish, LinkFile, TypeOK, Kind, Owner, Status
<1>12. ASSUME NEW a \in Attempt, NEW k \in Kind, PublishFails(a, k) PROVE TypeOK'
  BY <1>12 DEF PublishFails, TypeOK, Kind, Owner, Status
<1>13. ASSUME NEW a \in Attempt, NEW k \in Kind, Sweep(a, k) PROVE TypeOK'
  BY <1>13 DEF Sweep, TypeOK, Kind, Owner, Status
<1>14. ASSUME NEW a \in Attempt, NEW k \in Kind, SweepFails(a, k) PROVE TypeOK'
  BY <1>14 DEF SweepFails, TypeOK, Kind, Owner, Status
<1>15. CASE UNCHANGED vars
  BY <1>15 DEF vars, TypeOK
<1>16. ASSUME NEW a \in Attempt, RejectPlan(a) PROVE TypeOK'
  BY <1>16 DEF RejectPlan, TypeOK, Kind, Owner, Status
<1> QED
  BY <1>1, <1>2, <1>3, <1>4, <1>5, <1>6, <1>7, <1>8, <1>9, <1>10, <1>11, <1>12, <1>13, <1>14, <1>15, <1>16 DEF Next, Proceed

\* Every step, and a stutter, keeps the inductive invariant.
LEMMA NextIInv == IInv /\ [Next]_vars => IInv'
<1> SUFFICES ASSUME IInv, [Next]_vars PROVE IInv'
  OBVIOUS
<1> USE OwnerAssumption, EarlierValues DEF IInv, fileVars
<1>0. TypeOK'
  BY NextTypeOK
<1>1. ASSUME NEW a \in Attempt, Begin(a) PROVE IInv'
  <2>1. LinkedTrio' /\ LinkedOnDisk' /\ LinkedInOrder'
    BY <1>1, FilesFrame DEF Begin
  <2>2. PhaseAgrees'
    BY <1>1 DEF Begin, PhaseAgrees, PhaseOf, LinkedInOrder, TypeOK, Kind
  <2>3. ReservedIsOurs'
    BY <1>1 DEF Begin, ReservedIsOurs, PhaseAgrees, PhaseOf, Target, TypeOK, Kind
  <2>4. StagingKnown'
    BY <1>1 DEF Begin, StagingKnown, TypeOK, Kind
  <2> QED
    BY <1>0, <2>1, <2>2, <2>3, <2>4
<1>2. ASSUME NEW a \in Attempt, RejectInput(a) PROVE IInv'
  <2>1. LinkedTrio' /\ LinkedOnDisk' /\ LinkedInOrder'
    BY <1>2, FilesFrame DEF RejectInput
  <2>2. PhaseAgrees'
    BY <1>2 DEF RejectInput, PhaseAgrees, PhaseOf, LinkedInOrder, TypeOK, Kind
  <2>3. ReservedIsOurs'
    BY <1>2 DEF RejectInput, ReservedIsOurs, PhaseAgrees, PhaseOf, Target, TypeOK, Kind
  <2>4. StagingKnown'
    BY <1>2 DEF RejectInput, StagingKnown, TypeOK, Kind
  <2> QED
    BY <1>0, <2>1, <2>2, <2>3, <2>4
<1>3. ASSUME NEW a \in Attempt, Reserve(a) PROVE IInv'
  <2>1. LinkedTrio' /\ LinkedOnDisk' /\ LinkedInOrder'
    BY <1>3, FilesFrame DEF Reserve
  <2>2. PhaseAgrees'
    BY <1>3 DEF Reserve, PhaseAgrees, PhaseOf, LinkedInOrder, TypeOK, Kind
  <2>3. ReservedIsOurs'
    BY <1>3 DEF Reserve, ReservedIsOurs, PhaseAgrees, PhaseOf, Target, TypeOK, Kind, AllTargetsFree, Occupied
  <2>4. StagingKnown'
    BY <1>3 DEF Reserve, StagingKnown, TypeOK, Kind
  <2> QED
    BY <1>0, <2>1, <2>2, <2>3, <2>4
<1>4. ASSUME NEW a \in Attempt, TryNextSuffix(a) PROVE IInv'
  <2>1. LinkedTrio'
    BY <1>4 DEF TryNextSuffix, LinkedTrio, LinkedOnDisk, LinkedInOrder, PhaseAgrees, PhaseOf, Target, TypeOK, Kind
  <2>2. LinkedOnDisk'
    BY <1>4 DEF TryNextSuffix, LinkedOnDisk, PhaseAgrees, PhaseOf, Target, TypeOK, Kind, Occupied
  <2>3. LinkedInOrder'
    BY <1>4 DEF TryNextSuffix, LinkedInOrder, TypeOK, Kind
  <2>4. PhaseAgrees'
    BY <1>4 DEF TryNextSuffix, PhaseAgrees, PhaseOf, LinkedInOrder, TypeOK, Kind
  <2>5. ReservedIsOurs'
    BY <1>4 DEF TryNextSuffix, ReservedIsOurs, PhaseAgrees, PhaseOf, Target, TypeOK, Kind
  <2>6. StagingKnown'
    BY <1>4 DEF TryNextSuffix, StagingKnown, TypeOK, Kind
  <2> QED
    BY <1>0, <2>1, <2>2, <2>3, <2>4, <2>5, <2>6
<1>5. ASSUME NEW a \in Attempt, SuffixesExhausted(a) PROVE IInv'
  <2>1. LinkedTrio' /\ LinkedOnDisk' /\ LinkedInOrder'
    BY <1>5, FilesFrame DEF SuffixesExhausted
  <2>2. PhaseAgrees'
    BY <1>5 DEF SuffixesExhausted, PhaseAgrees, PhaseOf, LinkedInOrder, TypeOK, Kind
  <2>3. ReservedIsOurs'
    BY <1>5 DEF SuffixesExhausted, ReservedIsOurs, PhaseAgrees, PhaseOf, Target, TypeOK, Kind
  <2>4. StagingKnown'
    BY <1>5 DEF SuffixesExhausted, StagingKnown, TypeOK, Kind
  <2> QED
    BY <1>0, <2>1, <2>2, <2>3, <2>4
<1>6. ASSUME NEW a \in Attempt, HardLinksUnsupported(a) PROVE IInv'
  <2>1. LinkedTrio' /\ LinkedOnDisk' /\ LinkedInOrder'
    BY <1>6, FilesFrame DEF HardLinksUnsupported
  <2>2. PhaseAgrees'
    BY <1>6 DEF HardLinksUnsupported, PhaseAgrees, PhaseOf, LinkedInOrder, TypeOK, Kind
  <2>3. ReservedIsOurs'
    BY <1>6 DEF HardLinksUnsupported, ReservedIsOurs, PhaseAgrees, PhaseOf, Target, TypeOK, Kind
  <2>4. StagingKnown'
    BY <1>6 DEF HardLinksUnsupported, StagingKnown, TypeOK, Kind
  <2> QED
    BY <1>0, <2>1, <2>2, <2>3, <2>4
<1>7. ASSUME NEW a \in Attempt, Return(a) PROVE IInv'
  <2>1. LinkedTrio' /\ LinkedOnDisk' /\ LinkedInOrder'
    BY <1>7, FilesFrame DEF Return
  <2>2. PhaseAgrees'
    BY <1>7 DEF Return, PhaseAgrees, PhaseOf, LinkedInOrder, TypeOK, Kind
  <2>3. ReservedIsOurs'
    BY <1>7 DEF Return, ReservedIsOurs, PhaseAgrees, PhaseOf, Target, TypeOK, Kind
  <2>4. StagingKnown'
    BY <1>7 DEF Return, StagingKnown, TypeOK, Kind
  <2> QED
    BY <1>0, <2>1, <2>2, <2>3, <2>4
<1>8. ASSUME NEW a \in Attempt, Crash(a) PROVE IInv'
  <2>1. LinkedTrio' /\ LinkedOnDisk' /\ LinkedInOrder'
    BY <1>8, FilesFrame DEF Crash
  <2>2. PhaseAgrees'
    BY <1>8 DEF Crash, PhaseAgrees, PhaseOf, LinkedInOrder, TypeOK, Kind, Alive
  <2>3. ReservedIsOurs'
    BY <1>8 DEF Crash, ReservedIsOurs, PhaseAgrees, PhaseOf, Target, TypeOK, Kind, Alive
  <2>4. StagingKnown'
    BY <1>8 DEF Crash, StagingKnown, TypeOK, Kind, Alive
  <2> QED
    BY <1>0, <2>1, <2>2, <2>3, <2>4
<1>9. ASSUME NEW a \in Attempt, NEW k \in Kind, Stage(a, k) PROVE IInv'
  <2>1. LinkedTrio' /\ LinkedOnDisk' /\ LinkedInOrder'
    BY <1>9, FilesFrame DEF Stage
  <2>2. PhaseAgrees'
    <3>1. linked[a] = {} /\ linked'[a] = {} /\ pc'[a] \in {"stage", "publish"}
      BY <1>9 DEF Stage, PhaseAgrees, PhaseOf, TypeOK
    <3>2. PhaseOf(a)'
      BY <3>1 DEF PhaseOf, Kind
    <3>3. \A b \in Attempt \ {a} : PhaseOf(b)'
      BY <1>9 DEF Stage, PhaseAgrees, PhaseOf, TypeOK
    <3> QED
      BY <3>2, <3>3 DEF PhaseAgrees
  <2>3. ReservedIsOurs'
    BY <1>9 DEF Stage, ReservedIsOurs, PhaseAgrees, PhaseOf, Target, TypeOK, Kind
  <2>4. StagingKnown'
    BY <1>9 DEF Stage, StagingKnown, TypeOK, Kind
  <2> QED
    BY <1>0, <2>1, <2>2, <2>3, <2>4
<1>10. ASSUME NEW a \in Attempt, NEW k \in Kind, StageFails(a, k) PROVE IInv'
  <2>1. LinkedTrio' /\ LinkedOnDisk' /\ LinkedInOrder'
    BY <1>10, FilesFrame DEF StageFails
  <2>2. PhaseAgrees'
    BY <1>10 DEF StageFails, PhaseAgrees, PhaseOf, LinkedInOrder, TypeOK, Kind
  <2>3. ReservedIsOurs'
    BY <1>10 DEF StageFails, ReservedIsOurs, PhaseAgrees, PhaseOf, Target, TypeOK, Kind
  <2>4. StagingKnown'
    BY <1>10 DEF StageFails, StagingKnown, TypeOK, Kind
  <2> QED
    BY <1>0, <2>1, <2>2, <2>3, <2>4
<1>11. ASSUME NEW a \in Attempt, NEW k \in Kind, Publish(a, k) PROVE IInv'
  <2>1. LinkedTrio'
    BY <1>11, TargetIsName DEF Publish, LinkFile, LinkedTrio, LinkedOnDisk, LinkedInOrder, PhaseAgrees, PhaseOf, Target, TypeOK, Kind
  <2>2. LinkedOnDisk'
    BY <1>11, TargetIsName DEF Publish, LinkFile, LinkedOnDisk, PhaseAgrees, PhaseOf, Target, TypeOK, Kind, Occupied
  <2>3. LinkedInOrder'
    BY <1>11 DEF Publish, LinkFile, LinkedInOrder, TypeOK, Kind
  <2>4. PhaseAgrees'
    <3> SUFFICES ASSUME NEW b \in Attempt PROVE PhaseOf(b)'
      BY DEF PhaseAgrees
    <3>1. CASE b # a
      BY <1>11, <3>1 DEF Publish, LinkFile, PhaseAgrees, PhaseOf, TypeOK
    <3>2. CASE b = a /\ k = "sidecar"
      <4>1. linked'[a] = Kind /\ pc'[a] = "sweep" /\ status'[a] = "confirmed"
        BY <1>11, <3>2 DEF Publish, LinkFile, TypeOK, Kind
      <4> QED
        BY <3>2, <4>1 DEF PhaseOf
    <3>3. CASE b = a /\ k # "sidecar"
      <4>1. "sidecar" \notin linked'[a] /\ pc'[a] = "publish"
        BY <1>11, <3>3 DEF Publish, LinkFile, TypeOK, Kind
      <4> QED
        BY <3>3, <4>1 DEF PhaseOf, Kind
    <3> QED
      BY <3>1, <3>2, <3>3
  <2>5. ReservedIsOurs'
    BY <1>11, TargetIsName DEF Publish, LinkFile, ReservedIsOurs, PhaseAgrees, PhaseOf, Target, TypeOK, Kind, Occupied
  <2>6. StagingKnown'
    BY <1>11 DEF Publish, LinkFile, StagingKnown, TypeOK, Kind
  <2> QED
    BY <1>0, <2>1, <2>2, <2>3, <2>4, <2>5, <2>6
<1>12. ASSUME NEW a \in Attempt, NEW k \in Kind, PublishFails(a, k) PROVE IInv'
  <2>1. LinkedTrio' /\ LinkedOnDisk' /\ LinkedInOrder'
    BY <1>12, FilesFrame DEF PublishFails
  <2>2. PhaseAgrees'
    BY <1>12 DEF PublishFails, PhaseAgrees, PhaseOf, LinkedInOrder, TypeOK, Kind
  <2>3. ReservedIsOurs'
    BY <1>12 DEF PublishFails, ReservedIsOurs, PhaseAgrees, PhaseOf, Target, TypeOK, Kind
  <2>4. StagingKnown'
    BY <1>12 DEF PublishFails, StagingKnown, TypeOK, Kind
  <2> QED
    BY <1>0, <2>1, <2>2, <2>3, <2>4
<1>13. ASSUME NEW a \in Attempt, NEW k \in Kind, Sweep(a, k) PROVE IInv'
  <2>1. LinkedTrio' /\ LinkedOnDisk' /\ LinkedInOrder'
    BY <1>13, FilesFrame DEF Sweep
  <2>2. PhaseAgrees'
    BY <1>13 DEF Sweep, PhaseAgrees, PhaseOf, LinkedInOrder, TypeOK, Kind
  <2>3. ReservedIsOurs'
    BY <1>13 DEF Sweep, ReservedIsOurs, PhaseAgrees, PhaseOf, Target, TypeOK, Kind
  <2>4. StagingKnown'
    BY <1>13 DEF Sweep, StagingKnown, TypeOK, Kind, NextToSweep
  <2> QED
    BY <1>0, <2>1, <2>2, <2>3, <2>4
<1>14. ASSUME NEW a \in Attempt, NEW k \in Kind, SweepFails(a, k) PROVE IInv'
  <2>1. LinkedTrio' /\ LinkedOnDisk' /\ LinkedInOrder'
    BY <1>14, FilesFrame DEF SweepFails
  <2>2. PhaseAgrees'
    BY <1>14 DEF SweepFails, PhaseAgrees, PhaseOf, LinkedInOrder, TypeOK, Kind
  <2>3. ReservedIsOurs'
    BY <1>14 DEF SweepFails, ReservedIsOurs, PhaseAgrees, PhaseOf, Target, TypeOK, Kind
  <2>4. StagingKnown'
    BY <1>14 DEF SweepFails, StagingKnown, TypeOK, Kind, NextToSweep
  <2> QED
    BY <1>0, <2>1, <2>2, <2>3, <2>4
<1>15. CASE UNCHANGED vars
  <2>1. LinkedTrio' /\ LinkedOnDisk' /\ LinkedInOrder'
    BY <1>15, FilesFrame DEF vars
  <2>2. PhaseAgrees' /\ StagingKnown'
    BY <1>15 DEF vars, PhaseAgrees, PhaseOf, StagingKnown
  <2>3. ReservedIsOurs'
    BY <1>15 DEF vars, ReservedIsOurs, Target
  <2> QED
    BY <1>0, <2>1, <2>2, <2>3
<1>16. ASSUME NEW a \in Attempt, RejectPlan(a) PROVE IInv'
  <2>1. LinkedTrio' /\ LinkedOnDisk' /\ LinkedInOrder'
    BY <1>16, FilesFrame DEF RejectPlan
  <2>2. PhaseAgrees'
    BY <1>16 DEF RejectPlan, PhaseAgrees, PhaseOf, LinkedInOrder, TypeOK, Kind
  <2>3. ReservedIsOurs'
    BY <1>16 DEF RejectPlan, ReservedIsOurs, PhaseAgrees, PhaseOf, Target, TypeOK, Kind
  <2>4. StagingKnown'
    BY <1>16 DEF RejectPlan, StagingKnown, TypeOK, Kind
  <2> QED
    BY <1>0, <2>1, <2>2, <2>3, <2>4
<1> QED
  BY <1>1, <1>2, <1>3, <1>4, <1>5, <1>6, <1>7, <1>8, <1>9, <1>10, <1>11, <1>12, <1>13, <1>14, <1>15, <1>16 DEF Next, Proceed

-----------------------------------------------------------------------------
(***************************************************************************)
(* What one step of one call can do, for the modules in which calls run    *)
(* among other things.                                                     *)
(***************************************************************************)

\* A call publishes at its own target, and only where nothing is.
LEMMA StepPublishesOwn ==
    ASSUME TypeOK, NEW a \in Attempt, Proceed(a) \/ Crash(a)
    PROVE  \A k \in Kind, n \in Name :
             \/ final'[k][n] = final[k][n]
             \/ final[k][n] = NoOne /\ final'[k][n] = a /\ n = Target(a)
<1>1. ASSUME NEW k \in Kind, Publish(a, k)
      PROVE  \A l \in Kind, n \in Name :
               \/ final'[l][n] = final[l][n]
               \/ final[l][n] = NoOne /\ final'[l][n] = a /\ n = Target(a)
  BY <1>1, TargetIsName DEF Publish, LinkFile, Occupied, TypeOK
<1>2. ASSUME \A k \in Kind : ~Publish(a, k)
      PROVE  UNCHANGED final
  BY <1>2 DEF Proceed, Crash, Begin, RejectInput, Reserve, RejectPlan, TryNextSuffix,
              SuffixesExhausted, Stage, StageFails, PublishFails, Sweep, SweepFails,
              HardLinksUnsupported, Return, fileVars
<1> QED
  BY <1>1, <1>2

\* It touches nothing of another call, has not ended yet, and keeps its stem.
LEMMA StepIsLocal ==
    ASSUME TypeOK, NEW a \in Attempt, Proceed(a) \/ Crash(a)
    PROVE  /\ pc[a] \notin {"returned", "crashed"} /\ pc'[a] # "idle"
           /\ UNCHANGED <<stem, linkable>>
           /\ \A b \in Attempt \ {a} :
                /\ pc'[b] = pc[b] /\ index'[b] = index[b] /\ staged'[b] = staged[b]
                /\ linked'[b] = linked[b] /\ status'[b] = status[b]
                /\ temp'[b] = temp[b] /\ stuck'[b] = stuck[b]
<1> USE DEF fileVars, TypeOK
<1>1. CASE Begin(a) \/ RejectInput(a) \/ Reserve(a) \/ RejectPlan(a) \/ TryNextSuffix(a)
           \/ SuffixesExhausted(a) \/ HardLinksUnsupported(a) \/ Return(a) \/ Crash(a)
  BY <1>1 DEF Begin, RejectInput, Reserve, RejectPlan, TryNextSuffix, SuffixesExhausted,
              HardLinksUnsupported, Return, Crash, Alive
<1>2. ASSUME NEW k \in Kind, Stage(a, k) \/ StageFails(a, k) \/ Publish(a, k) \/ PublishFails(a, k)
      PROVE  /\ pc[a] \in {"stage", "publish"} /\ pc'[a] # "idle"
             /\ UNCHANGED <<stem, linkable>>
             /\ \A b \in Attempt \ {a} :
                  /\ pc'[b] = pc[b] /\ index'[b] = index[b] /\ staged'[b] = staged[b]
                  /\ linked'[b] = linked[b] /\ status'[b] = status[b]
                  /\ temp'[b] = temp[b] /\ stuck'[b] = stuck[b]
  BY <1>2 DEF Stage, StageFails, Publish, LinkFile, PublishFails
<1>3. ASSUME NEW k \in Kind, Sweep(a, k) \/ SweepFails(a, k)
      PROVE  /\ pc[a] = "sweep" /\ pc'[a] = pc[a]
             /\ UNCHANGED <<stem, linkable>>
             /\ \A b \in Attempt \ {a} :
                  /\ pc'[b] = pc[b] /\ index'[b] = index[b] /\ staged'[b] = staged[b]
                  /\ linked'[b] = linked[b] /\ status'[b] = status[b]
                  /\ temp'[b] = temp[b] /\ stuck'[b] = stuck[b]
  BY <1>3 DEF Sweep, SweepFails
<1> QED
  BY <1>1, <1>2, <1>3 DEF Proceed

\* Once its name is reserved it keeps it, and before that it publishes nothing.
LEMMA StepHoldsTarget ==
    ASSUME TypeOK, NEW a \in Attempt, Proceed(a) \/ Crash(a)
    PROVE  /\ pc[a] \notin {"idle", "reserve"} =>
                pc'[a] \notin {"idle", "reserve"} /\ index'[a] = index[a]
           /\ pc[a] \in {"idle", "reserve"} => UNCHANGED final
<1> USE DEF fileVars, TypeOK
<1>1. CASE Begin(a) \/ RejectInput(a) \/ Reserve(a) \/ RejectPlan(a) \/ TryNextSuffix(a)
           \/ SuffixesExhausted(a)
  BY <1>1 DEF Begin, RejectInput, Reserve, RejectPlan, TryNextSuffix, SuffixesExhausted
<1>2. CASE HardLinksUnsupported(a) \/ Return(a) \/ Crash(a)
  BY <1>2 DEF HardLinksUnsupported, Return, Crash, Alive
<1>3. ASSUME NEW k \in Kind, Stage(a, k) \/ StageFails(a, k) \/ Publish(a, k) \/ PublishFails(a, k)
      PROVE  /\ pc[a] \in {"stage", "publish"}
             /\ pc'[a] \notin {"idle", "reserve"} /\ index'[a] = index[a]
  BY <1>3 DEF Stage, StageFails, Publish, LinkFile, PublishFails
<1>4. ASSUME NEW k \in Kind, Sweep(a, k) \/ SweepFails(a, k)
      PROVE  pc[a] = "sweep" /\ pc'[a] = "sweep" /\ index'[a] = index[a]
  BY <1>4 DEF Sweep, SweepFails
<1> QED
  BY <1>1, <1>2, <1>3, <1>4 DEF Proceed

-----------------------------------------------------------------------------
(***************************************************************************)
(* What the inductive invariant gives.                                     *)
(***************************************************************************)

\* The program points of _finalize and the disk agree in both directions.
LEMMA PublishedIsLinked ==
    ASSUME IInv, NEW a \in Attempt
    PROVE  {k \in Kind : \E n \in Name : final[k][n] = a} = linked[a]
<1>1. linked[a] \subseteq Kind /\ Target(a) \in Name
  BY TargetIsName DEF IInv, TypeOK
<1> QED
  BY <1>1 DEF IInv, LinkedTrio, LinkedOnDisk

\* The invariant gives that a sidecar never stands without its CSV and recipe.
LEMMA IInvImpliesComplete == IInv => RegistrationComplete
<1> SUFFICES ASSUME IInv, NEW n \in Name, final["sidecar"][n] \in Attempt, NEW k \in Kind
             PROVE  final[k][n] = final["sidecar"][n]
  BY DEF RegistrationComplete
<1> DEFINE a == final["sidecar"][n]
<1>1. n = Target(a) /\ "sidecar" \in linked[a]
  BY DEF IInv, LinkedTrio, Kind
<1>2. linked[a] = Kind
  BY <1>1 DEF IInv, LinkedInOrder
<1> QED
  BY <1>1, <1>2 DEF IInv, LinkedOnDisk

\* The invariant gives that results agree with the disk.
LEMMA IInvImpliesTruth == IInv => StatusIsTruth
<1> SUFFICES ASSUME IInv, NEW a \in Attempt, pc[a] \in {"sweep", "returned"}
             PROVE  \/ status[a] = "confirmed" /\ linked[a] = Kind
                    \/ /\ status[a] = "saved_unmanaged"
                       /\ linked[a] \in {{"csv"}, {"csv", "recipe"}}
                    \/ status[a] \in {"failed", "unsupported"} /\ linked[a] = {}
  BY PublishedIsLinked DEF StatusIsTruth
<1> QED
  BY DEF IInv, PhaseAgrees, PhaseOf

\* The invariant gives that names are decided at the CSV.
LEMMA IInvImpliesUnopposed == IInv => CsvWinnerIsUnopposed
<1> SUFFICES ASSUME IInv, NEW n \in Name, final["csv"][n] \in Attempt, NEW k \in Kind
             PROVE  final[k][n] \in {final["csv"][n], NoOne}
  BY DEF CsvWinnerIsUnopposed
<1> DEFINE a == final["csv"][n]
<1>1. n = Target(a) /\ "csv" \in linked[a]
  BY DEF IInv, LinkedTrio, Kind
<1>2. final[k][n] # Foreign
  BY <1>1 DEF IInv, ReservedIsOurs
<1>3. ASSUME final[k][n] \in Attempt PROVE final[k][n] = a
  <2> DEFINE b == final[k][n]
  <2>1. n = Target(b) /\ k \in linked[b]
    BY <1>3 DEF IInv, LinkedTrio
  <2>2. "csv" \in linked[b]
    BY <1>3, <2>1 DEF IInv, LinkedInOrder, Kind
  <2> QED
    BY <1>3, <2>1, <2>2 DEF IInv, LinkedOnDisk, Kind
<1> QED
  BY <1>2, <1>3 DEF IInv, TypeOK, Owner

-----------------------------------------------------------------------------
\* The inductive invariant holds throughout every behaviour.
LEMMA SpecIInv == Spec => []IInv
BY InitIInv, NextIInv, PTL DEF Spec

\* Files belong to attempts or to someone else and calls are at one of their
\* program points, for every number of calls, stems and names.
THEOREM TypeCorrect == Spec => []TypeOK
<1>1. IInv => TypeOK
  BY DEF IInv
<1> QED
  BY <1>1, SpecIInv, PTL

\* A sidecar on disk always stands beside the CSV and the recipe of the same
\* attempt: no crash, error or race of _finalize registers half a version.
THEOREM SidecarRegistersWholeTrio == Spec => []RegistrationComplete
BY SpecIInv, IInvImpliesComplete, PTL

\* All files of one attempt stand at the one name it reserved.
THEOREM TrioStaysLinked == Spec => []LinkedTrio
<1>1. IInv => LinkedTrio
  BY DEF IInv
<1> QED
  BY <1>1, SpecIInv, PTL

\* The result of confirm_processed_version tells what is on disk.
THEOREM ResultIsTruthful == Spec => []StatusIsTruth
BY SpecIInv, IInvImpliesTruth, PTL

\* The call whose CSV is published never meets a competitor's recipe or sidecar.
THEOREM RaceIsDecidedAtCsv == Spec => []CsvWinnerIsUnopposed
BY SpecIInv, IInvImpliesUnopposed, PTL

\* A returned call leaves no staging file that it could have swept.
THEOREM NoStrayStaging == Spec => []StagingIsSwept
<1>1. IInv => StagingIsSwept
  BY DEF IInv, StagingKnown, StagingIsSwept
<1> QED
  BY <1>1, SpecIInv, PTL

\* No confirmation ever replaces or removes a published file.
THEOREM PublishedFilesStay == Spec => PublicationIsExclusive
<1> DEFINE Kept == \A k \in Kind, n \in Name : Occupied(k, n) => final'[k][n] = final[k][n]
<1>1. ASSUME TypeOK, [Next]_vars PROVE [Kept]_vars
  <2>1. ASSUME NEW a \in Attempt, Proceed(a) \/ Crash(a) PROVE Kept
    BY <1>1, <2>1, StepPublishesOwn DEF Occupied
  <2> QED
    BY <1>1, <2>1 DEF Next
<1> QED
  BY <1>1, TypeCorrect, PTL DEF Spec, PublicationIsExclusive

-----------------------------------------------------------------------------
(***************************************************************************)
(* Confirmation implements VersionRegistry.                                *)
(***************************************************************************)

\* Because a sidecar never stands alone, the registry is what sidecars say.
SidecarsTell == \A n \in Name : RegisteredAt(n) = final["sidecar"][n]

\* The refinement mapping can be read off the sidecars alone.
LEMMA RegistryIsSidecars == IInv => SidecarsTell
BY IInvImpliesComplete DEF IInv, TypeOK, Owner, Kind, RegistrationComplete, RegisteredAt, SidecarsTell

\* An attempt is registered in the abstract registry when it linked a sidecar.
LEMMA RegisteredMeansLinked ==
    ASSUME IInv, NEW a \in Attempt
    PROVE  Registry!Registered(a) <=> "sidecar" \in linked[a]
<1>1. Registry!Registered(a) <=> \E n \in Name : final["sidecar"][n] = a
  BY RegistryIsSidecars DEF SidecarsTell, Registry!Registered
<1> QED
  BY <1>1, TargetIsName DEF IInv, LinkedTrio, LinkedOnDisk, Kind

\* A step that returns a call answers for it, and leaves the registry alone.
LEMMA ReturningAnswers ==
    ASSUME IInv, IInv', NEW a \in Attempt,
           pc[a] # "returned", pc' = [pc EXCEPT ![a] = "returned"],
           \A b \in Attempt \ {a} : status'[b] = status[b],
           UNCHANGED <<final, linked>>
    PROVE  Registry!Answer(a)
<1>1. \A n \in Name : RegisteredAt(n)' = RegisteredAt(n)
  BY DEF RegisteredAt
<1>2. AnswerOf(a) = "none" /\ pc'[a] = "returned"
  BY DEF AnswerOf, IInv, TypeOK
<1>3. Registry!Registered(a) <=> linked'[a] = Kind
  BY RegisteredMeansLinked DEF IInv, LinkedInOrder, Kind
<1>4. status'[a] = "confirmed" <=> linked'[a] = Kind
  BY <1>2 DEF IInv, PhaseAgrees, PhaseOf, Kind
<1>5. AnswerOf(a)' = IF Registry!Registered(a) THEN "confirmed" ELSE "not_confirmed"
  BY <1>2, <1>3, <1>4 DEF AnswerOf
<1>6. \A b \in Attempt \ {a} : AnswerOf(b)' = AnswerOf(b)
  BY DEF AnswerOf, IInv, TypeOK
<1> QED
  BY <1>1, <1>2, <1>5, <1>6 DEF Registry!Answer

\* A step that neither publishes a sidecar nor returns a call is a stutter.
LEMMA OtherStepsStutter ==
    ASSUME IInv, IInv', NEW a \in Attempt,
           pc[a] # "returned", pc'[a] # "returned",
           \A b \in Attempt \ {a} : pc'[b] = pc[b] /\ status'[b] = status[b],
           UNCHANGED final["sidecar"]
    PROVE  UNCHANGED Registry!vars
<1>1. \A n \in Name : RegisteredAt(n)' = RegisteredAt(n)
  <2>1. IInv' => SidecarsTell'
    BY RegistryIsSidecars, PTL
  <2> QED
    BY <2>1, RegistryIsSidecars DEF SidecarsTell
<1>2. \A b \in Attempt : AnswerOf(b)' = AnswerOf(b)
  BY DEF AnswerOf
<1> QED
  BY <1>1, <1>2 DEF Registry!vars

\* Publishing the sidecar registers the version at the reserved name.
LEMMA SidecarRegisters ==
    ASSUME IInv, IInv', NEW a \in Attempt, Publish(a, "sidecar")
    PROVE  Registry!Register(a, Target(a))
<1>1. SidecarsTell /\ SidecarsTell'
  <2>1. IInv' => SidecarsTell'
    BY RegistryIsSidecars, PTL
  <2> QED
    BY <2>1, RegistryIsSidecars
<1>2. /\ Target(a) \in Name
      /\ final["sidecar"][Target(a)] = NoOne
      /\ \A n \in Name : final'["sidecar"][n] =
                           IF n = Target(a) THEN a ELSE final["sidecar"][n]
  BY TargetIsName DEF Publish, LinkFile, Occupied, IInv, TypeOK, Kind
<1>3. ~Registry!Registered(a)
  BY RegisteredMeansLinked, EarlierValues DEF Publish
<1>4. \A b \in Attempt : AnswerOf(b)' = AnswerOf(b) /\ AnswerOf(a) = "none"
  BY DEF Publish, LinkFile, AnswerOf, IInv, TypeOK
<1> QED
  BY <1>1, <1>2, <1>3, <1>4 DEF Registry!Register, SidecarsTell

\* Initially the registry holds what was there before, and nobody answered.
LEMMA InitIsRegistryInit == Init => Registry!Init
<1> SUFFICES ASSUME Init PROVE Registry!Init
  OBVIOUS
<1>1. \A n \in Name : RegisteredAt(n) \in {Foreign, NoOne}
  BY DEF Init, RegisteredAt, Kind
<1>2. \A a \in Attempt : AnswerOf(a) = "none"
  BY DEF Init, AnswerOf
<1> QED
  BY <1>1, <1>2 DEF Registry!Init

\* Every step of a confirmation is a step of the registry or a stutter.
LEMMA StepIsRegistryStep ==
    IInv /\ IInv' /\ [Next]_vars => [Registry!Next]_(Registry!vars)
<1> SUFFICES ASSUME IInv, IInv', [Next]_vars PROVE [Registry!Next]_(Registry!vars)
  OBVIOUS
<1> USE DEF fileVars
<1>1. ASSUME NEW a \in Attempt,
             \/ RejectInput(a) \/ RejectPlan(a) \/ SuffixesExhausted(a)
             \/ HardLinksUnsupported(a) \/ Return(a)
      PROVE  Registry!Answer(a)
  <2>1. pc[a] # "returned" /\ pc' = [pc EXCEPT ![a] = "returned"]
    BY <1>1 DEF RejectInput, RejectPlan, SuffixesExhausted, HardLinksUnsupported, Return
  <2>2. \A b \in Attempt \ {a} : status'[b] = status[b]
    BY <1>1 DEF RejectInput, RejectPlan, SuffixesExhausted, HardLinksUnsupported, Return, IInv, TypeOK
  <2>3. UNCHANGED <<final, linked>>
    BY <1>1 DEF RejectInput, RejectPlan, SuffixesExhausted, HardLinksUnsupported, Return
  <2> QED
    BY <2>1, <2>2, <2>3, ReturningAnswers
<1>2. ASSUME NEW a \in Attempt, Publish(a, "sidecar")
      PROVE  Registry!Register(a, Target(a)) /\ Target(a) \in Name
  BY <1>2, SidecarRegisters, TargetIsName DEF IInv
<1>3. ASSUME NEW a \in Attempt, NEW k \in {"csv", "recipe"}, Publish(a, k)
      PROVE  UNCHANGED Registry!vars
  <2>1. UNCHANGED final["sidecar"]
    BY <1>3 DEF Publish, LinkFile, IInv, TypeOK, Kind
  <2>2. /\ pc[a] # "returned" /\ pc'[a] # "returned"
        /\ \A b \in Attempt \ {a} : pc'[b] = pc[b] /\ status'[b] = status[b]
    BY <1>3 DEF Publish, LinkFile, IInv, TypeOK
  <2> QED
    BY <2>1, <2>2, OtherStepsStutter
<1>4. ASSUME NEW a \in Attempt,
             \/ Begin(a) \/ Reserve(a) \/ TryNextSuffix(a) \/ Crash(a)
             \/ \E k \in Kind : \/ Stage(a, k) \/ StageFails(a, k) \/ PublishFails(a, k)
                                \/ Sweep(a, k) \/ SweepFails(a, k)
      PROVE  UNCHANGED Registry!vars
  <2>1. UNCHANGED final
    BY <1>4 DEF Begin, Reserve, TryNextSuffix, Crash, Stage, StageFails, PublishFails,
                Sweep, SweepFails
  <2>2. /\ pc[a] # "returned" /\ pc'[a] # "returned"
        /\ \A b \in Attempt \ {a} : pc'[b] = pc[b] /\ status'[b] = status[b]
    BY <1>4 DEF Begin, Reserve, TryNextSuffix, Crash, Alive, Stage, StageFails,
                PublishFails, Sweep, SweepFails, IInv, TypeOK
  <2> QED
    BY <2>1, <2>2, OtherStepsStutter
<1>5. CASE UNCHANGED vars
  BY <1>5 DEF vars, Registry!vars, RegisteredAt, AnswerOf
<1> QED
  BY <1>1, <1>2, <1>3, <1>4, <1>5 DEF Next, Proceed, Kind, Registry!Next

\* Confirmation behaves like a registry in which whole versions appear in one
\* step, stay for ever, and every answer given is right.
THEOREM ConfirmationImplementsRegistry == Spec => RegistryIsImplemented
<1>1. Init => Registry!Init
  BY InitIsRegistryInit
<1>2. IInv /\ IInv' /\ [Next]_vars => [Registry!Next]_(Registry!vars)
  BY StepIsRegistryStep
<1> QED
  BY <1>1, <1>2, SpecIInv, PTL DEF Spec, RegistryIsImplemented, Registry!Spec
=============================================================================
