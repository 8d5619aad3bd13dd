----------------------- MODULE ReprocessedChildProofs -----------------------
(***************************************************************************)
(* Proofs about ReprocessedChild: what a rollback leaves and what it       *)
(* spares, for any number of calls of either kind and any faults.          *)
(*                                                                         *)
(* Rollbacks remove files of other calls, so most of the invariant of      *)
(* confirmation is lost here.  Two facts replace it: a call's files stand  *)
(* at the one name its rollback looks at, and what the rollback has still  *)
(* to remove, together with the snapshot, accounts for all of them.        *)
(***************************************************************************)
EXTENDS ReprocessedChild, ConfirmationProofs

Verdict == {"none", "REFUSED", "CONFIRMED", "CHILD_NOT_CONFIRMED", "CLEANUP_INCOMPLETE",
            "CONFIRMATION_FAILED", "crashed"}

\* The shape of the state around confirmations.
ChildTypeOK ==
    /\ phase \in [Attempt -> {"called", "listing", "confirming", "preprocessed", "recipes",
                              "finished"}]
    /\ before \in [Attempt -> SUBSET Entry]
    /\ work \in [Attempt -> SUBSET Entry]
    /\ restored \in [Attempt -> BOOLEAN]
    /\ verdict \in [Attempt -> Verdict]
    /\ faults \in Nat

\* The published files of a call are at its target, which it has reserved.
OwnAtTarget ==
    \A a \in Attempt, k \in Kind, n \in Name :
        final[k][n] = a => n = Target(a) /\ pc[a] \notin {"idle", "reserve"}

\* The entries of a call in the folders.
OwnEntries(a) ==
    {e \in Entry : IF e[1] = "final" THEN final[e[2]][e[3]] = a ELSE e[3] = a /\ e[2] \in temp[a]}

\* Until its snapshot is complete a call has no staging file, so the snapshot lists
\* none of its own; and it publishes nothing new once its rollback has begun.
SnapshotIsForeign ==
    \A a \in Attempt :
        /\ pc[a] = "idle" => temp[a] = {}
        /\ phase[a] \in {"called", "listing"} => pc[a] = "idle"
        /\ \A k \in Kind : <<"temp", k, a>> \notin before[a]

\* An entry of a call that its rollback has dealt with is gone or was there before.
Accounted(a, e) == e \in before[a] \cup work[a]

RollbackAccounts ==
    \A a \in Attempt :
        /\ phase[a] = "preprocessed" /\ restored[a] =>
             \A e \in OwnEntries(a) : Folder[e[2]] = "preprocessed" => Accounted(a, e)
        /\ phase[a] = "recipes" /\ restored[a] =>
             \A e \in OwnEntries(a) : Accounted(a, e)
        /\ verdict[a] = "CHILD_NOT_CONFIRMED" =>
             phase[a] = "finished" /\ OwnEntries(a) \subseteq before[a]

\* A snapshot holds the files that belong to no call, as far as it has come,
\* and so no rollback is to remove one.
SnapshotOfEarlier ==
    \A a \in Attempt, k \in Kind, n \in Name :
        final[k][n] = Foreign =>
            /\ phase[a] = "listing" /\ Folder[k] = "preprocessed" => <<"final", k, n>> \in before[a]
            /\ a \in Child /\ phase[a] \in {"confirming", "preprocessed", "recipes"} =>
                 <<"final", k, n>> \in before[a]
            /\ <<"final", k, n>> \notin work[a]

OnlyChildrenRollBack ==
    \A a \in Attempt : phase[a] \in {"called", "listing", "preprocessed", "recipes"} => a \in Child

ChildInv ==
    /\ TypeOK
    /\ ChildTypeOK
    /\ OwnAtTarget
    /\ SnapshotIsForeign
    /\ RollbackAccounts
    /\ SnapshotOfEarlier
    /\ OnlyChildrenRollBack

-----------------------------------------------------------------------------
\* The initial states satisfy the invariant.
LEMMA InitChildInv == ChildInit => ChildInv
<1> SUFFICES ASSUME ChildInit PROVE ChildInv
  OBVIOUS
<1> USE OwnerAssumption
<1>1. TypeOK
  BY InitIInv DEF ChildInit, IInv
<1>2. ChildTypeOK /\ OnlyChildrenRollBack
  BY DEF ChildInit, ChildTypeOK, Verdict, OnlyChildrenRollBack
<1>3. \A k \in Kind, n \in Name : final[k][n] \in {Foreign, NoOne}
  BY DEF ChildInit, Init
<1>4. OwnAtTarget
  BY <1>3 DEF OwnAtTarget
<1>5. SnapshotIsForeign
  BY DEF ChildInit, Init, SnapshotIsForeign
<1>6. RollbackAccounts
  BY DEF ChildInit, RollbackAccounts
<1>7. SnapshotOfEarlier
  BY DEF ChildInit, SnapshotOfEarlier
<1> QED
  BY <1>1, <1>2, <1>4, <1>5, <1>6, <1>7 DEF ChildInv

-----------------------------------------------------------------------------
\* What a call has reserved is a name its rollback looks at.
LEMMA TargetIsReserved ==
    ASSUME TypeOK, NEW a \in Attempt
    PROVE  Target(a) \in {Candidate[stem[a]][j] : j \in 0 .. MaxSuffix}
BY DEF TypeOK, Target

\* A rollback finds every entry of its own call.
LEMMA RollbackFindsOwn ==
    ASSUME TypeOK, OwnAtTarget, NEW a \in Attempt, NEW e \in OwnEntries(a), e \notin before[a]
    PROVE  e \in ToRemove(a, Folder[e[2]])
<1> USE OwnerAssumption, TargetIsReserved
<1>1. CASE e[1] = "final"
  <2>1. e[2] \in Kind /\ e[3] \in Name
    BY <1>1 DEF OwnEntries, Entry
  <2>2. final[e[2]][e[3]] = a /\ e[3] = Target(a)
    BY <1>1, <2>1 DEF OwnEntries, OwnAtTarget
  <2>3. Occupied(e[2], e[3])
    BY <2>2 DEF Occupied
  <2> QED
    BY <1>1, <2>2, <2>3 DEF ToRemove, Listing, Reserved, OwnEntries
<1>2. CASE e[1] # "final"
  <2>1. e[3] = a /\ e[2] \in temp[a]
    BY <1>2 DEF OwnEntries
  <2> QED
    BY <1>2, <2>1 DEF ToRemove, Listing, Reserved, OwnEntries
<1> QED
  BY <1>1, <1>2

\* It finds nothing that belongs to no call.
LEMMA RollbackSparesEarlier ==
    ASSUME NEW a \in Attempt, NEW f, NEW e \in ToRemove(a, f)
    PROVE  e \in Entry /\ e \notin before[a]
BY DEF ToRemove, Listing

\* The steps of a call around its confirmation touch no file.
LEMMA FilesUntouched ==
    ASSUME ChildInv, UNCHANGED vars
    PROVE  /\ TypeOK' /\ OwnAtTarget'
           /\ \A a \in Attempt : OwnEntries(a)' = OwnEntries(a)
<1>1. TypeOK'
  BY NextTypeOK DEF ChildInv
<1>2. OwnAtTarget' /\ \A a \in Attempt : OwnEntries(a)' = OwnEntries(a)
  BY DEF ChildInv, OwnAtTarget, Target, OwnEntries, vars
<1> QED
  BY <1>1, <1>2

\* Every step, and a stutter, keeps the invariant.
LEMMA NextChildInv == ChildInv /\ [ChildNext]_rvars => ChildInv'
<1> SUFFICES ASSUME ChildInv, [ChildNext]_rvars PROVE ChildInv'
  OBVIOUS
<1> USE OwnerAssumption, ChildAssumption, MaxFaultsAssumption DEF ChildInv
<1>1. ASSUME NEW a \in Attempt, Confirming(a) PROVE ChildInv'
  <2>1. Proceed(a) \/ Crash(a)
    BY <1>1 DEF Confirming
  <2>2. /\ phase[a] = "confirming"
        /\ UNCHANGED <<phase, before, work, restored, verdict>>
        /\ faults' \in Nat
    BY <1>1 DEF Confirming, Fault, ChildTypeOK
  <2>3. \A b \in Attempt \ {a} : /\ pc'[b] = pc[b] /\ index'[b] = index[b]
                                 /\ temp'[b] = temp[b]
    BY <2>1, StepIsLocal
  <2>4. pc'[a] # "idle" /\ stem' = stem
    BY <2>1, StepIsLocal
  <2>5. \A k \in Kind, n \in Name :
          \/ final'[k][n] = final[k][n]
          \/ final[k][n] = NoOne /\ final'[k][n] = a /\ n = Target(a)
    BY <2>1, StepPublishesOwn
  <2>6. TypeOK'
    BY <2>1, NextTypeOK DEF Next
  <2>7. ChildTypeOK' /\ OnlyChildrenRollBack'
    BY <2>2 DEF ChildTypeOK, OnlyChildrenRollBack
  <2>8. OwnAtTarget'
    <3>1. ASSUME NEW b \in Attempt \ {a}, NEW k \in Kind, NEW n \in Name, final'[k][n] = b
          PROVE  n = Target(b)' /\ pc'[b] \notin {"idle", "reserve"}
      BY <2>3, <2>4, <2>5, <3>1 DEF OwnAtTarget, Target
    <3>2. ASSUME NEW k \in Kind, NEW n \in Name, final'[k][n] = a
          PROVE  n = Target(a)' /\ pc'[a] \notin {"idle", "reserve"}
      <4>1. pc[a] \notin {"idle", "reserve"}
        BY <2>1, <3>2, StepHoldsTarget DEF OwnAtTarget
      <4>2. pc'[a] \notin {"idle", "reserve"} /\ index'[a] = index[a]
        BY <2>1, <4>1, StepHoldsTarget
      <4>3. n = Target(a)
        BY <2>5, <3>2 DEF OwnAtTarget
      <4> QED
        BY <2>4, <4>2, <4>3 DEF Target
    <3> QED
      BY <3>1, <3>2 DEF OwnAtTarget
  <2>9. SnapshotIsForeign'
    BY <2>2, <2>3, <2>4 DEF SnapshotIsForeign
  <2>10. RollbackAccounts'
    <3>1. ASSUME NEW b \in Attempt \ {a} PROVE OwnEntries(b)' \subseteq OwnEntries(b)
      BY <2>3, <2>5 DEF OwnEntries, Entry
    <3>2. ASSUME NEW b \in Attempt, phase[b] # "confirming" PROVE b # a
      BY <2>2, <3>2
    <3> QED
      BY <2>2, <3>1, <3>2 DEF RollbackAccounts, Accounted
  <2>11. SnapshotOfEarlier'
    BY <2>2, <2>5 DEF SnapshotOfEarlier
  <2> QED
    BY <2>6, <2>7, <2>8, <2>9, <2>10, <2>11
<1>2. ASSUME NEW a \in Attempt, SnapshotPreprocessed(a) PROVE ChildInv'
  <2>1. /\ UNCHANGED <<vars, work, restored, verdict, faults>>
        /\ phase[a] = "called" /\ phase' = [phase EXCEPT ![a] = "listing"]
        /\ before' = [before EXCEPT ![a] = Listing("preprocessed")]
    BY <1>2 DEF SnapshotPreprocessed
  <2>2. Listing("preprocessed") \subseteq Entry
    BY DEF Listing
  <2>3. ChildTypeOK' /\ OnlyChildrenRollBack'
    BY <2>1, <2>2 DEF ChildTypeOK, OnlyChildrenRollBack
  <2>4. SnapshotIsForeign'
    <3>1. pc[a] = "idle" /\ temp[a] = {}
      BY <2>1 DEF SnapshotIsForeign
    <3>2. \A k \in Kind : <<"temp", k, a>> \notin Listing("preprocessed")
      BY <3>1 DEF Listing
    <3> QED
      BY <2>1, <3>1, <3>2 DEF SnapshotIsForeign, ChildTypeOK, vars
  <2>5. RollbackAccounts'
    BY <2>1, FilesUntouched DEF RollbackAccounts, Accounted, ChildTypeOK
  <2>6. SnapshotOfEarlier'
    <3>1. \A k \in Kind, n \in Name :
            final[k][n] = Foreign /\ Folder[k] = "preprocessed" =>
                <<"final", k, n>> \in Listing("preprocessed")
      BY DEF Listing, Entry, Occupied
    <3> QED
      BY <2>1, <3>1 DEF SnapshotOfEarlier, ChildTypeOK, vars
  <2> QED
    BY <2>1, <2>3, <2>4, <2>5, <2>6, FilesUntouched
<1>3. ASSUME NEW a \in Attempt, SnapshotRecipes(a) PROVE ChildInv'
  <2>1. /\ UNCHANGED <<vars, work, restored, verdict, faults>>
        /\ phase[a] = "listing" /\ phase' = [phase EXCEPT ![a] = "confirming"]
        /\ before' = [before EXCEPT ![a] = @ \cup Listing("recipes")]
    BY <1>3 DEF SnapshotRecipes
  <2>2. Listing("recipes") \subseteq Entry
    BY DEF Listing
  <2>3. ChildTypeOK' /\ OnlyChildrenRollBack'
    BY <2>1, <2>2 DEF ChildTypeOK, OnlyChildrenRollBack
  <2>4. SnapshotIsForeign'
    <3>1. pc[a] = "idle" /\ temp[a] = {}
      BY <2>1 DEF SnapshotIsForeign
    <3>2. \A k \in Kind : <<"temp", k, a>> \notin Listing("recipes")
      BY <3>1 DEF Listing
    <3> QED
      BY <2>1, <3>1, <3>2 DEF SnapshotIsForeign, ChildTypeOK, vars
  <2>5. RollbackAccounts'
    BY <2>1, FilesUntouched DEF RollbackAccounts, Accounted, ChildTypeOK
  <2>6. SnapshotOfEarlier'
    <3>1. \A k \in Kind, n \in Name :
            final[k][n] = Foreign /\ Folder[k] # "preprocessed" =>
                <<"final", k, n>> \in Listing("recipes")
      BY DEF Listing, Entry, Occupied, Folder, Kind
    <3> QED
      BY <2>1, <3>1 DEF SnapshotOfEarlier, ChildTypeOK, vars
  <2> QED
    BY <2>1, <2>3, <2>4, <2>5, <2>6, FilesUntouched
<1>4. ASSUME NEW a \in Attempt, RestorePreprocessed(a) PROVE ChildInv'
  <2>1. /\ UNCHANGED <<vars, before, restored, verdict, faults>>
        /\ a \in Child /\ phase[a] = "confirming"
        /\ work' = [work EXCEPT ![a] = ToRemove(a, "preprocessed")]
        /\ phase' = [phase EXCEPT ![a] = "preprocessed"]
    BY <1>4 DEF RestorePreprocessed
  <2>2. \A e \in ToRemove(a, "preprocessed") : e \in Entry /\ e \notin before[a]
    BY RollbackSparesEarlier
  <2>3. ChildTypeOK' /\ OnlyChildrenRollBack' /\ SnapshotIsForeign'
    BY <2>1, <2>2 DEF ChildTypeOK, OnlyChildrenRollBack, SnapshotIsForeign, vars
  <2>4. RollbackAccounts'
    <3>1. \A e \in OwnEntries(a) : Folder[e[2]] = "preprocessed" =>
            e \in before[a] \cup ToRemove(a, "preprocessed")
      BY RollbackFindsOwn
    <3> QED
      BY <2>1, <3>1, FilesUntouched DEF RollbackAccounts, Accounted, ChildTypeOK
  <2>5. SnapshotOfEarlier'
    BY <2>1, <2>2 DEF SnapshotOfEarlier, ChildTypeOK, vars
  <2> QED
    BY <2>1, <2>3, <2>4, <2>5, FilesUntouched
<1>5. ASSUME NEW a \in Attempt, RestoreRecipes(a) PROVE ChildInv'
  <2>1. /\ UNCHANGED <<vars, before, restored, verdict, faults>>
        /\ phase[a] = "preprocessed" /\ work[a] = {}
        /\ work' = [work EXCEPT ![a] = ToRemove(a, "recipes")]
        /\ phase' = [phase EXCEPT ![a] = "recipes"]
    BY <1>5 DEF RestoreRecipes
  <2>2. \A e \in ToRemove(a, "recipes") : e \in Entry /\ e \notin before[a]
    BY RollbackSparesEarlier
  <2>3. ChildTypeOK' /\ OnlyChildrenRollBack' /\ SnapshotIsForeign'
    BY <2>1, <2>2 DEF ChildTypeOK, OnlyChildrenRollBack, SnapshotIsForeign, vars
  <2>4. RollbackAccounts'
    <3>1. \A e \in OwnEntries(a) : Folder[e[2]] \in {"preprocessed", "recipes"}
      BY DEF OwnEntries, Entry, Folder, Kind
    <3>2. \A e \in OwnEntries(a) : Folder[e[2]] = "recipes" =>
            e \in before[a] \cup ToRemove(a, "recipes")
      BY RollbackFindsOwn
    <3>3. restored[a] => \A e \in OwnEntries(a) : e \in before[a] \cup ToRemove(a, "recipes")
      BY <2>1, <3>1, <3>2 DEF RollbackAccounts, Accounted
    <3> QED
      BY <2>1, <3>3, FilesUntouched DEF RollbackAccounts, Accounted, ChildTypeOK
  <2>5. SnapshotOfEarlier'
    BY <2>1, <2>2 DEF SnapshotOfEarlier, ChildTypeOK, OnlyChildrenRollBack, vars
  <2> QED
    BY <2>1, <2>3, <2>4, <2>5, FilesUntouched
<1>6. ASSUME NEW a \in Attempt, NEW e \in work[a], Remove(a, e) PROVE ChildInv'
  <2>1. /\ UNCHANGED <<linkable, callVars, phase, before, restored, verdict, faults>>
        /\ work' = [work EXCEPT ![a] = @ \ {e}]
        /\ final' = IF e[1] = "final" THEN [final EXCEPT ![e[2]][e[3]] = NoOne] ELSE final
        /\ temp' = IF e[1] = "temp" THEN [temp EXCEPT ![e[3]] = @ \ {e[2]}] ELSE temp
    BY <1>6 DEF Remove
  <2>2. e \in Entry
    BY DEF ChildTypeOK
  <2>3. TypeOK'
    BY <2>1, <2>2 DEF TypeOK, Entry, Owner, callVars
  <2>4. /\ \A k \in Kind, n \in Name : final'[k][n] \in {final[k][n], NoOne}
        /\ \A b \in Attempt : temp'[b] \subseteq temp[b]
    BY <2>1, <2>2 DEF TypeOK, Entry
  <2>5. OwnAtTarget'
    BY <2>1, <2>4 DEF OwnAtTarget, Target, callVars
  <2>6. ChildTypeOK' /\ OnlyChildrenRollBack'
    BY <2>1 DEF ChildTypeOK, OnlyChildrenRollBack
  <2>7. SnapshotIsForeign'
    BY <2>1, <2>4 DEF SnapshotIsForeign, callVars
  <2>8. RollbackAccounts'
    <3>1. \A b \in Attempt : OwnEntries(b)' \subseteq OwnEntries(b)
      BY <2>4 DEF OwnEntries, Entry
    <3>2. e \notin OwnEntries(a)'
      <4>1. CASE e[1] = "final"
        BY <2>1, <2>2, <4>1 DEF OwnEntries, Entry, TypeOK
      <4>2. CASE e[1] # "final"
        BY <2>1, <2>2, <4>2 DEF OwnEntries, Entry, TypeOK
      <4> QED
        BY <4>1, <4>2
    <3>3. \A b \in Attempt : \A f \in OwnEntries(b)' : Accounted(b, f) => Accounted(b, f)'
      BY <2>1, <3>2 DEF Accounted, ChildTypeOK
    <3> QED
      BY <2>1, <3>1, <3>3 DEF RollbackAccounts
  <2>9. SnapshotOfEarlier'
    BY <2>1, <2>4 DEF SnapshotOfEarlier, ChildTypeOK
  <2> QED
    BY <2>3, <2>5, <2>6, <2>7, <2>8, <2>9
<1>7. ASSUME NEW a \in Attempt, NEW e \in work[a], RemoveFails(a, e) PROVE ChildInv'
  <2>1. /\ UNCHANGED <<vars, phase, before, verdict>>
        /\ work' = [work EXCEPT ![a] = @ \ {e}]
        /\ restored' = [restored EXCEPT ![a] = FALSE]
        /\ faults' = faults + 1 /\ phase[a] \in {"preprocessed", "recipes"}
    BY <1>7 DEF RemoveFails, Fault
  <2>2. ChildTypeOK' /\ OnlyChildrenRollBack' /\ SnapshotIsForeign'
    BY <2>1 DEF ChildTypeOK, OnlyChildrenRollBack, SnapshotIsForeign, vars
  <2>3. RollbackAccounts'
    BY <2>1, FilesUntouched DEF RollbackAccounts, Accounted, ChildTypeOK
  <2>4. SnapshotOfEarlier'
    BY <2>1 DEF SnapshotOfEarlier, ChildTypeOK, vars
  <2> QED
    BY <2>1, <2>2, <2>3, <2>4, FilesUntouched
<1>8. ASSUME NEW a \in Attempt, FinishNotConfirmed(a) PROVE ChildInv'
  <2>1. /\ UNCHANGED <<vars, before, work, restored, faults>>
        /\ phase[a] = "recipes" /\ work[a] = {}
        /\ phase' = [phase EXCEPT ![a] = "finished"]
        /\ verdict' = [verdict EXCEPT ![a] =
                         IF restored[a] THEN "CHILD_NOT_CONFIRMED" ELSE "CLEANUP_INCOMPLETE"]
    BY <1>8 DEF FinishNotConfirmed, Finish
  <2>2. ChildTypeOK' /\ OnlyChildrenRollBack' /\ SnapshotIsForeign'
    BY <2>1 DEF ChildTypeOK, Verdict, OnlyChildrenRollBack, SnapshotIsForeign, vars
  <2>3. RollbackAccounts'
    <3>1. restored[a] => OwnEntries(a) \subseteq before[a]
      BY <2>1 DEF RollbackAccounts, Accounted
    <3> QED
      BY <2>1, <3>1, FilesUntouched DEF RollbackAccounts, Accounted, ChildTypeOK
  <2>4. SnapshotOfEarlier'
    BY <2>1 DEF SnapshotOfEarlier, ChildTypeOK, vars
  <2> QED
    BY <2>1, <2>2, <2>3, <2>4, FilesUntouched
<1>9. ASSUME NEW a \in Attempt,
             Refuse(a) \/ FinishConfirmed(a) \/ RestoreRaises(a) \/ RestoreCrash(a)
      PROVE  ChildInv'
  <2>1. PICK code \in Verdict \ {"CHILD_NOT_CONFIRMED"} :
          /\ phase' = [phase EXCEPT ![a] = "finished"]
          /\ verdict' = [verdict EXCEPT ![a] = code]
    BY <1>9 DEF Refuse, FinishConfirmed, RestoreRaises, RestoreCrash, Finish, Verdict
  <2>2. UNCHANGED <<vars, before, work, restored>> /\ faults' \in Nat
    BY <1>9 DEF Refuse, FinishConfirmed, RestoreRaises, RestoreCrash, Fault, ChildTypeOK
  <2>3. ChildTypeOK' /\ OnlyChildrenRollBack' /\ SnapshotIsForeign'
    BY <2>1, <2>2 DEF ChildTypeOK, OnlyChildrenRollBack, SnapshotIsForeign, vars
  <2>4. RollbackAccounts'
    BY <2>1, <2>2, FilesUntouched DEF RollbackAccounts, Accounted, ChildTypeOK
  <2>5. SnapshotOfEarlier'
    BY <2>1, <2>2 DEF SnapshotOfEarlier, ChildTypeOK, vars
  <2> QED
    BY <2>2, <2>3, <2>4, <2>5, FilesUntouched
<1>10. CASE UNCHANGED rvars
  <2>1. UNCHANGED <<vars, childVars>>
    BY <1>10 DEF rvars
  <2>2. ChildTypeOK' /\ OnlyChildrenRollBack' /\ SnapshotIsForeign' /\ SnapshotOfEarlier'
    BY <2>1 DEF ChildTypeOK, OnlyChildrenRollBack, SnapshotIsForeign, SnapshotOfEarlier, vars, childVars
  <2>3. RollbackAccounts'
    BY <2>1, FilesUntouched DEF RollbackAccounts, Accounted, childVars
  <2> QED
    BY <2>1, <2>2, <2>3, FilesUntouched
<1> QED
  BY <1>1, <1>2, <1>3, <1>4, <1>5, <1>6, <1>7, <1>8, <1>9, <1>10 DEF ChildNext

-----------------------------------------------------------------------------
\* The invariant holds whatever calls and rollbacks run at once.
LEMMA SpecChildInv == ChildSpec => []ChildInv
BY InitChildInv, NextChildInv, PTL DEF ChildSpec

\* A call that answers CHILD_NOT_CONFIRMED has left nothing of its own, but at a name
\* that another rollback freed (_finish_child, _restore_workspace).
THEOREM RollbackIsComplete == ChildSpec => []NotConfirmedLeavesNothing
<1>1. ASSUME ChildInv, NEW a \in Child, verdict[a] = "CHILD_NOT_CONFIRMED"
      PROVE  /\ temp[a] = {}
             /\ \A k \in Kind, n \in Name : final[k][n] = a => <<"final", k, n>> \in before[a]
  <2>1. a \in Attempt
    BY ChildAssumption
  <2>2. OwnEntries(a) \subseteq before[a]
    BY <1>1, <2>1 DEF ChildInv, RollbackAccounts
  <2>3. \A k \in Kind : k \in temp[a] => <<"temp", k, a>> \in OwnEntries(a)
    BY <2>1 DEF OwnEntries, Entry
  <2>4. temp[a] \subseteq Kind
    BY <1>1, <2>1 DEF ChildInv, TypeOK
  <2>5. temp[a] = {}
    BY <1>1, <2>1, <2>2, <2>3, <2>4 DEF ChildInv, SnapshotIsForeign
  <2>6. \A k \in Kind, n \in Name : final[k][n] = a => <<"final", k, n>> \in OwnEntries(a)
    BY DEF OwnEntries, Entry
  <2> QED
    BY <2>2, <2>5, <2>6
<1>2. ChildInv => NotConfirmedLeavesNothing
  BY <1>1 DEF NotConfirmedLeavesNothing
<1> QED
  BY <1>2, SpecChildInv, PTL

\* A file that was there before all calls survives all rollbacks (_snapshot_workspace).
THEOREM EarlierFilesStay == ChildSpec => EarlierFilesSurvive
<1> DEFINE Kept == \A k \in Kind, n \in Name : final[k][n] = Foreign => final'[k][n] = Foreign
<1>1. ASSUME ChildInv, [ChildNext]_rvars PROVE [Kept]_rvars
  <2>1. ASSUME NEW a \in Attempt, Confirming(a) PROVE Kept
    BY <1>1, <2>1, StepPublishesOwn, OwnerAssumption DEF Confirming, ChildInv
  <2>2. ASSUME NEW a \in Attempt, NEW e \in work[a], Remove(a, e) PROVE Kept
    <3>1. e \in Entry
      BY <1>1 DEF ChildInv, ChildTypeOK
    <3>2. e[1] = "final" => e = <<"final", e[2], e[3]>> /\ final[e[2]][e[3]] # Foreign
      BY <1>1, <3>1 DEF ChildInv, SnapshotOfEarlier, Entry
    <3> QED
      BY <1>1, <2>2, <3>1, <3>2 DEF Remove, ChildInv, TypeOK, Entry
  <2>3. ASSUME UNCHANGED final PROVE Kept
    BY <2>3
  <2> QED
    BY <1>1, <2>1, <2>2, <2>3
       DEF ChildNext, Refuse, SnapshotPreprocessed, SnapshotRecipes, FinishConfirmed,
           RestorePreprocessed, RestoreRecipes, RemoveFails, FinishNotConfirmed, RestoreRaises,
           RestoreCrash, rvars, vars
<1> QED
  BY <1>1, SpecChildInv, PTL DEF ChildSpec, EarlierFilesSurvive
=============================================================================
