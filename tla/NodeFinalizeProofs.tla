------------------------- MODULE NodeFinalizeProofs -------------------------
(***************************************************************************)
(* Proofs about the reconcilers of topolvm-controller: doFinalize passes no *)
(* LogicalVolume by, for any number of volumes, creations and faults, and  *)
(* the reconciler of the claims leaves no pod behind that is to be nudged. *)
(***************************************************************************)
EXTENDS NodeFinalize, ClaimReconciler, FiniteSetTheorems, TLAPS

(* UIDs are given out once: those that are still to come are smaller.      *)
UIDsAreUsed ==
    \A v \in Volumes :
        /\ lv[v] # None => lv[v].uid > creates
        /\ lvSeen[v] # None => lvSeen[v].uid > creates
        /\ listed[v] # None => listed[v].uid > creates

(* What was listed is gone, on its way out, or replaced by a namesake.     *)
Over(v) == (listed[v] # None /\ lv[v] # None /\ lv[v].uid = listed[v].uid) => lv[v].deleting

(* The list is worked off: what is not to be done any more is over.        *)
DoneIsOver ==
    /\ fpc \in {"lvs", "remove"} => \A v \in Volumes \ todo : Over(v)
    /\ fpc = "remove" => todo = {}

(* With the flag nothing is listed, and before the list nothing either.    *)
NotListed == fpc \in {"idle", "pvcs"} => listed = Nothing /\ todo = {}

FinalizeInv == TypeOK /\ UIDsAreUsed /\ DoneIsOver /\ NotListed

-----------------------------------------------------------------------------
(* A DELETE removes the object or marks it. *)
LEMMA Gone ==
    ASSUME NEW obj \in LogicalVolume \cup {None}
    PROVE  /\ Deleted(obj) \in LogicalVolume \cup {None}
           /\ Deleted(obj) # None =>
                obj # None /\ Deleted(obj).uid = obj.uid /\ Deleted(obj).deleting
    BY ZenonT(30), NodeAssumption, NoneAssumption DEF Deleted, LogicalVolume

(* Taking the finalizer away removes a marked object, and marks none. *)
LEMMA Patched ==
    ASSUME NEW obj \in LogicalVolume
    PROVE  /\ [obj EXCEPT !.pending = TRUE] \in LogicalVolume
           /\ Unlocked(obj) \in LogicalVolume \cup {None}
           /\ Unlocked(obj) # None => Unlocked(obj).uid = obj.uid /\ ~obj.deleting
           /\ Unlocked([obj EXCEPT !.pending = TRUE]) \in LogicalVolume \cup {None}
           /\ Unlocked([obj EXCEPT !.pending = TRUE]) # None =>
                Unlocked([obj EXCEPT !.pending = TRUE]).uid = obj.uid /\ ~obj.deleting
    BY ZenonT(30), NodeAssumption, NoneAssumption DEF Unlocked, LogicalVolume

(* Every step keeps the types. *)
LEMMA TypesStep ==
    ASSUME TypeOK, Next
    PROVE  TypeOK'
    <1> USE NodeAssumption, NoneAssumption DEF TypeOK, Copies, LogicalVolume, Nodes,
       objVars, seenVars, recVars
    <1>a. UNCHANGED skipNodeFinalize
      BY DEF Next
    <1>1. CASE DeleteNode
      BY <1>a, <1>1 DEF DeleteNode
    <1>2. CASE Reconcile
      BY <1>a, <1>2 DEF Reconcile, Nothing
    <1>3. CASE ReconcileFails
      BY <1>a, <1>3 DEF ReconcileFails, ReconcileError, Fault, Nothing
    <1>4. CASE ListLogicalVolumes
      BY ZenonT(30), <1>a, <1>4 DEF ListLogicalVolumes, isLVHasSnapshot
    <1>5. CASE Finalized
      BY <1>a, <1>5 DEF Finalized
    <1>6. CASE RemoveFinalizer
      BY <1>a, <1>6 DEF RemoveFinalizer, ReconcileError, Nothing
    <1>7. ASSUME NEW v \in Volumes, SelectNode(v) PROVE TypeOK'
      BY <1>a, <1>7 DEF SelectNode, Nodes
    <1>8. ASSUME NEW v \in Volumes, CreateLogicalVolume(v) PROVE TypeOK'
      BY <1>a, <1>8 DEF CreateLogicalVolume
    <1>9. ASSUME NEW v \in Volumes, Reschedule(v) PROVE TypeOK'
      BY <1>a, <1>9, Gone DEF Reschedule, Fault
    <1>10. ASSUME NEW v \in Volumes, BackupSucceeds(v) PROVE TypeOK'
      <2>1. lv[v] \in LogicalVolume
        BY <1>10 DEF BackupSucceeds
      <2>2. [lv[v] EXCEPT !.done = TRUE] \in LogicalVolume
        BY ZenonT(30), <2>1
      <2>3. lv' \in Copies
        BY <2>2, <1>10 DEF BackupSucceeds
      <2> QED BY <1>a, <2>3, <1>10 DEF BackupSucceeds
    <1>11. ASSUME NEW v \in Volumes, ControllerCacheSync(v) PROVE TypeOK'
      BY <1>a, <1>11 DEF ControllerCacheSync
    <1>12. ASSUME NEW v \in Volumes, NodeCacheSync(v) PROVE TypeOK'
      BY ZenonT(30), <1>a, <1>12 DEF NodeCacheSync
    <1>13. ASSUME NEW v \in Volumes, EnsureFinalizer(v) PROVE TypeOK'
      <2>1. lv[v] \in LogicalVolume
        BY <1>13 DEF EnsureFinalizer
      <2>2. [lv[v] EXCEPT !.finalizer = TRUE] \in LogicalVolume
        BY ZenonT(30), <2>1
      <2>3. lv' \in Copies
        BY <2>2, <1>13 DEF EnsureFinalizer
      <2> QED BY ZenonT(30), <1>a, <2>3, <1>13 DEF EnsureFinalizer
    <1>14. ASSUME NEW v \in Volumes, HandleDeletion(v) PROVE TypeOK'
      <2>1. lv[v] \in LogicalVolume
        BY ZenonT(30), <1>14 DEF HandleDeletion
      <2> DEFINE new == Unlocked(lv[v])
      <2>2. /\ new \in LogicalVolume \cup {None}
            /\ new # None => new.uid = lv[v].uid /\ ~lv[v].deleting
        BY ZenonT(30), <2>1, Patched
      <2> HIDE DEF new
      <2>3. lv' = [lv EXCEPT ![v] = new]
        BY <1>14 DEF HandleDeletion, new
      <2> QED BY <1>a, <2>1, <2>2, <2>3, <1>14 DEF HandleDeletion
    <1>15. ASSUME NEW v \in Volumes, DeletePVC(v) PROVE TypeOK'
      BY <1>a, <1>15 DEF DeletePVC, ReconcileError, Nothing
    <1>16. ASSUME NEW v \in Volumes, CleanupPatch(v) PROVE TypeOK'
      <2>1. lv[v] # None => lv[v] \in LogicalVolume
        BY <1>16 DEF CleanupPatch
      <2> DEFINE new == Unlocked([lv[v] EXCEPT !.pending = TRUE])
      <2>2. lv[v] # None =>
              /\ new \in LogicalVolume \cup {None}
              /\ new # None => new.uid = lv[v].uid /\ ~lv[v].deleting
        BY ZenonT(30), <2>1, Patched
      <2> HIDE DEF new
      <2>3. lv[v] # None => lv' = [lv EXCEPT ![v] = new]
        BY <1>16 DEF CleanupPatch, new
      <2>4. CASE lv[v] = None
        BY <1>a, <2>4, <1>16 DEF CleanupPatch
      <2>5. CASE lv[v] # None
        BY <1>a, <2>2, <2>3, <2>5, <1>16 DEF CleanupPatch
      <2> QED BY ZenonT(30), <2>4, <2>5
    <1>17. ASSUME NEW v \in Volumes, CleanupDelete(v) PROVE TypeOK'
      BY ZenonT(30), <1>a, <1>17, Gone DEF CleanupDelete
    <1> QED BY ZenonT(30), <1>1, <1>2, <1>3, <1>4, <1>5, <1>6, <1>7, <1>8, <1>9, <1>10, <1>11,
       <1>12, <1>13, <1>14, <1>15, <1>16, <1>17 DEF Next

(* The UIDs yet to be given out are counted down. *)
LEMMA LowerNext ==
    \A c \in Nat : c > 0 => c > c - 1 /\ \A n \in Nat : n > c => n > c - 1
    OBVIOUS

(* A UID is not above itself. *)
LEMMA NotAboveItself == \A c \in Nat : ~ (c > c)
    OBVIOUS

(* What Kubernetes has, what the controller saw and what it listed have the *)
(* fields of a LogicalVolume.                                              *)
LEMMA UIDsAreNat ==
    ASSUME TypeOK
    PROVE  /\ creates \in Nat
           /\ \A u \in Volumes : /\ lv[u] # None => lv[u] \in LogicalVolume /\ lv[u].uid \in Nat
                                 /\ lvSeen[u] # None => lvSeen[u].uid \in Nat
                                 /\ listed[u] # None => listed[u].uid \in Nat
    <1>1. \A n \in 0..MaxCreates : n \in Nat
      BY NodeAssumption
    <1>2. \A obj \in LogicalVolume : obj.uid \in Nat
      BY ZenonT(30), <1>1 DEF LogicalVolume
    <1>3. lv \in Copies /\ lvSeen \in Copies /\ listed \in Copies /\ creates \in 0..MaxCreates
      BY ZenonT(30) DEF TypeOK
    <1> QED BY ZenonT(30), <1>1, <1>2, <1>3 DEF Copies

(* A new LogicalVolume has a UID that nobody has seen. *)
LEMMA CreateKeeps ==
    ASSUME FinalizeInv, NEW v \in Volumes, CreateLogicalVolume(v)
    PROVE  UIDsAreUsed' /\ DoneIsOver' /\ NotListed'
    <1>1. /\ UNCHANGED <<lvSeen, listed, todo, fpc>> /\ creates > 0 /\ creates' = creates - 1
          /\ lv' = [lv EXCEPT ![v] = [node |-> pvc[v], uid |-> creates, finalizer |-> FALSE,
                                      pending |-> FALSE, deleting |-> FALSE, done |-> FALSE]]
      BY ZenonT(30) DEF CreateLogicalVolume, seenVars, recVars
    <1>2. \A u \in Volumes : lv'[u] = lv[u] \/ lv'[u].uid = creates
      BY ZenonT(30), <1>1 DEF FinalizeInv, TypeOK, Copies
    <1>3. TypeOK /\ UIDsAreUsed /\ DoneIsOver /\ NotListed
      BY ZenonT(30) DEF FinalizeInv
    <1>4. creates \in Nat /\ creates > creates' /\ \A n \in Nat : n > creates => n > creates'
      BY ZenonT(30), <1>1, <1>3, UIDsAreNat, LowerNext
    <1>5. UIDsAreUsed'
      <2>1. \A u \in Volumes : lv'[u] # None => lv'[u].uid > creates'
        BY ZenonT(30), <1>2, <1>3, <1>4, UIDsAreNat DEF UIDsAreUsed
      <2>2. \A u \in Volumes : /\ lvSeen[u] # None => lvSeen[u].uid > creates'
                               /\ listed[u] # None => listed[u].uid > creates'
        BY ZenonT(30), <1>3, <1>4, UIDsAreNat DEF UIDsAreUsed
      <2> QED BY ZenonT(30), <1>1, <2>1, <2>2 DEF UIDsAreUsed
    <1>6. \A u \in Volumes : Over(u) => Over(u)'
      <2>1. \A u \in Volumes : listed[u] # None => listed[u].uid # creates
        BY ZenonT(30), <1>3, <1>4, NotAboveItself DEF UIDsAreUsed
      <2> QED BY ZenonT(30), <1>1, <1>2, <2>1 DEF Over
    <1> QED BY ZenonT(30), <1>1, <1>3, <1>5, <1>6 DEF DoneIsOver, NotListed

(* The finalizer of a LogicalVolume that is deleted is removed. *)
LEMMA DeletionKeeps ==
    ASSUME FinalizeInv, NEW v \in Volumes, HandleDeletion(v)
    PROVE  UIDsAreUsed' /\ DoneIsOver' /\ NotListed'
    <1> DEFINE new == Unlocked(lv[v])
    <1>1. /\ lv[v] # None /\ lv' = [lv EXCEPT ![v] = new]
          /\ UNCHANGED <<lvSeen, listed, todo, fpc, creates>>
      BY ZenonT(30) DEF HandleDeletion, seenVars, recVars
    <1>2. TypeOK /\ UIDsAreUsed /\ DoneIsOver /\ NotListed
      BY ZenonT(30) DEF FinalizeInv
    <1>3. new # None => new.uid = lv[v].uid /\ ~lv[v].deleting
      <2>1. lv[v] \in LogicalVolume
        BY ZenonT(30), <1>1, <1>2, UIDsAreNat
      <2> QED BY ZenonT(30), <2>1, Patched
    <1> HIDE DEF new
    <1>4. \A u \in Volumes : lv'[u] = lv[u]
             \/ (lv'[u] # None => lv[u] # None /\ lv'[u].uid = lv[u].uid /\ ~lv[u].deleting)
      BY ZenonT(30), <1>1, <1>2, <1>3 DEF TypeOK, Copies
    <1>5. UIDsAreUsed'
      BY ZenonT(30), <1>1, <1>2, <1>4 DEF UIDsAreUsed
    <1>6. \A u \in Volumes : Over(u) => Over(u)'
      BY ZenonT(30), <1>1, <1>4 DEF Over
    <1> QED BY ZenonT(30), <1>1, <1>2, <1>5, <1>6 DEF DoneIsOver, NotListed

(* A UID is used once. *)
LEMMA UIDsStep ==
    ASSUME FinalizeInv, TypeOK', Next
    PROVE  UIDsAreUsed'
    <1> USE NodeAssumption, NoneAssumption DEF FinalizeInv, UIDsAreUsed, TypeOK,
       Copies, LogicalVolume, objVars, seenVars, recVars
    <1>a. UNCHANGED skipNodeFinalize
      BY ZenonT(30) DEF Next
    <1>1. CASE DeleteNode
      BY ZenonT(30), <1>a, <1>1 DEF DeleteNode
    <1>2. CASE Reconcile
      BY ZenonT(30), <1>a, <1>2 DEF Reconcile, Nothing
    <1>3. CASE ReconcileFails
      BY ZenonT(30), <1>a, <1>3 DEF ReconcileFails, ReconcileError, Fault, Nothing
    <1>4. CASE ListLogicalVolumes
      BY ZenonT(30), <1>a, <1>4 DEF ListLogicalVolumes, isLVHasSnapshot
    <1>5. CASE Finalized
      BY ZenonT(30), <1>a, <1>5 DEF Finalized
    <1>6. CASE RemoveFinalizer
      BY ZenonT(30), <1>a, <1>6 DEF RemoveFinalizer, ReconcileError, Nothing
    <1>7. ASSUME NEW v \in Volumes, SelectNode(v) PROVE UIDsAreUsed'
      BY ZenonT(30), <1>a, <1>7 DEF SelectNode, Nodes
    <1>8. ASSUME NEW v \in Volumes, CreateLogicalVolume(v) PROVE UIDsAreUsed'
      BY ZenonT(30), <1>8, CreateKeeps
    <1>9. ASSUME NEW v \in Volumes, Reschedule(v) PROVE UIDsAreUsed'
      BY ZenonT(30), <1>a, <1>9, Gone DEF Reschedule, Fault
    <1>10. ASSUME NEW v \in Volumes, BackupSucceeds(v) PROVE UIDsAreUsed'
      BY <1>a, <1>10 DEF BackupSucceeds
    <1>11. ASSUME NEW v \in Volumes, ControllerCacheSync(v) PROVE UIDsAreUsed'
      BY <1>a, <1>11 DEF ControllerCacheSync
    <1>12. ASSUME NEW v \in Volumes, NodeCacheSync(v) PROVE UIDsAreUsed'
      BY ZenonT(30), <1>a, <1>12 DEF NodeCacheSync
    <1>13. ASSUME NEW v \in Volumes, EnsureFinalizer(v) PROVE UIDsAreUsed'
      BY <1>a, <1>13 DEF EnsureFinalizer
    <1>14. ASSUME NEW v \in Volumes, HandleDeletion(v) PROVE UIDsAreUsed'
      BY ZenonT(30), <1>14, DeletionKeeps
    <1>15. ASSUME NEW v \in Volumes, DeletePVC(v) PROVE UIDsAreUsed'
      BY <1>a, <1>15 DEF DeletePVC, ReconcileError, Nothing
    <1>16. ASSUME NEW v \in Volumes, CleanupPatch(v) PROVE UIDsAreUsed'
      <2>1. lv[v] # None => lv[v] \in LogicalVolume
        BY ZenonT(30), <1>16 DEF CleanupPatch
      <2> DEFINE new == Unlocked([lv[v] EXCEPT !.pending = TRUE])
      <2>2. lv[v] # None =>
              /\ new \in LogicalVolume \cup {None}
              /\ new # None => new.uid = lv[v].uid /\ ~lv[v].deleting
        BY ZenonT(30), <2>1, Patched
      <2> HIDE DEF new
      <2>3. lv[v] # None => lv' = [lv EXCEPT ![v] = new]
        BY ZenonT(30), <1>16 DEF CleanupPatch, new
      <2>4. CASE lv[v] = None
        BY ZenonT(30), <1>a, <2>4, <1>16 DEF CleanupPatch
      <2>5. CASE lv[v] # None
        BY ZenonT(30), <1>a, <2>2, <2>3, <2>5, <1>16 DEF CleanupPatch
      <2> QED BY ZenonT(30), <2>4, <2>5
    <1>17. ASSUME NEW v \in Volumes, CleanupDelete(v) PROVE UIDsAreUsed'
      BY ZenonT(30), <1>a, <1>17, Gone DEF CleanupDelete
    <1> QED BY ZenonT(30), <1>1, <1>2, <1>3, <1>4, <1>5, <1>6, <1>7, <1>8, <1>9, <1>10, <1>11,
       <1>12, <1>13, <1>14, <1>15, <1>16, <1>17 DEF Next

(* What is over stays over. *)
LEMMA OverStep ==
    ASSUME FinalizeInv, TypeOK', Next
    PROVE  DoneIsOver' /\ NotListed'
    <1> USE NodeAssumption, NoneAssumption DEF FinalizeInv, UIDsAreUsed, DoneIsOver,
       NotListed, Over, TypeOK, Copies, LogicalVolume, objVars, seenVars, recVars
    <1>a. UNCHANGED skipNodeFinalize
      BY ZenonT(30) DEF Next
    <1>1. CASE DeleteNode
      BY ZenonT(30), <1>a, <1>1 DEF DeleteNode
    <1>2. CASE Reconcile
      <2>1. listed' = Nothing /\ todo' = {}
        BY ZenonT(30), <1>2 DEF Reconcile
      <2> QED BY ZenonT(30), <2>1 DEF Nothing
    <1>3. CASE ReconcileFails
      BY ZenonT(30), <1>a, <1>3 DEF ReconcileFails, ReconcileError, Fault, Nothing
    <1>4. CASE ListLogicalVolumes
      BY ZenonT(30), <1>a, <1>4 DEF ListLogicalVolumes, isLVHasSnapshot
    <1>5. CASE Finalized
      BY ZenonT(30), <1>a, <1>5 DEF Finalized
    <1>6. CASE RemoveFinalizer
      BY ZenonT(30), <1>a, <1>6 DEF RemoveFinalizer, ReconcileError, Nothing
    <1>7. ASSUME NEW v \in Volumes, SelectNode(v) PROVE DoneIsOver' /\ NotListed'
      BY ZenonT(30), <1>a, <1>7 DEF SelectNode, Nodes
    <1>8. ASSUME NEW v \in Volumes, CreateLogicalVolume(v) PROVE DoneIsOver' /\ NotListed'
      BY ZenonT(30), <1>8, CreateKeeps
    <1>9. ASSUME NEW v \in Volumes, Reschedule(v) PROVE DoneIsOver' /\ NotListed'
      BY ZenonT(30), <1>a, <1>9, Gone DEF Reschedule, Fault
    <1>10. ASSUME NEW v \in Volumes, BackupSucceeds(v) PROVE DoneIsOver' /\ NotListed'
      BY <1>a, <1>10 DEF BackupSucceeds
    <1>11. ASSUME NEW v \in Volumes, ControllerCacheSync(v) PROVE DoneIsOver' /\ NotListed'
      BY ZenonT(30), <1>a, <1>11 DEF ControllerCacheSync
    <1>12. ASSUME NEW v \in Volumes, NodeCacheSync(v) PROVE DoneIsOver' /\ NotListed'
      BY ZenonT(30), <1>a, <1>12 DEF NodeCacheSync
    <1>13. ASSUME NEW v \in Volumes, EnsureFinalizer(v) PROVE DoneIsOver' /\ NotListed'
      BY <1>a, <1>13 DEF EnsureFinalizer
    <1>14. ASSUME NEW v \in Volumes, HandleDeletion(v) PROVE DoneIsOver' /\ NotListed'
      BY ZenonT(30), <1>14, DeletionKeeps
    <1>15. ASSUME NEW v \in Volumes, DeletePVC(v) PROVE DoneIsOver' /\ NotListed'
      BY ZenonT(30), <1>a, <1>15 DEF DeletePVC, ReconcileError, Nothing
    <1>16. ASSUME NEW v \in Volumes, CleanupPatch(v) PROVE DoneIsOver' /\ NotListed'
      <2>1. lv[v] # None => lv[v] \in LogicalVolume
        BY ZenonT(30), <1>16 DEF CleanupPatch
      <2> DEFINE new == Unlocked([lv[v] EXCEPT !.pending = TRUE])
      <2>2. lv[v] # None =>
              /\ new \in LogicalVolume \cup {None}
              /\ new # None => new.uid = lv[v].uid /\ ~lv[v].deleting
        BY ZenonT(30), <2>1, Patched
      <2> HIDE DEF new
      <2>3. lv[v] # None => lv' = [lv EXCEPT ![v] = new]
        BY ZenonT(30), <1>16 DEF CleanupPatch, new
      <2>4. CASE lv[v] = None
        BY <1>a, <2>4, <1>16 DEF CleanupPatch
      <2>5. CASE lv[v] # None
        BY <1>a, <2>2, <2>3, <2>5, <1>16 DEF CleanupPatch
      <2> QED BY ZenonT(30), <2>4, <2>5
    <1>17. ASSUME NEW v \in Volumes, CleanupDelete(v) PROVE DoneIsOver' /\ NotListed'
      BY ZenonT(30), <1>a, <1>17, Gone DEF CleanupDelete
    <1> QED BY ZenonT(30), <1>1, <1>2, <1>3, <1>4, <1>5, <1>6, <1>7, <1>8, <1>9, <1>10, <1>11,
       <1>12, <1>13, <1>14, <1>15, <1>16, <1>17 DEF Next

(* The invariant holds in the beginning ... *)
LEMMA InitInv ==
    ASSUME Init PROVE FinalizeInv
    <1> USE NodeAssumption DEF Init, Nothing
    <1>1. TypeOK
      BY DEF TypeOK, Copies
    <1>2. UIDsAreUsed /\ DoneIsOver /\ NotListed
      BY DEF UIDsAreUsed, DoneIsOver, NotListed
    <1> QED BY <1>1, <1>2 DEF FinalizeInv

(* ... and is kept by a step that changes nothing. *)
LEMMA StutterInv ==
    ASSUME FinalizeInv, UNCHANGED vars
    PROVE  FinalizeInv'
    <1> USE DEF vars, objVars, seenVars, recVars, FinalizeInv
    <1>1. TypeOK'
      BY ZenonT(30) DEF TypeOK
    <1>2. UIDsAreUsed' /\ DoneIsOver' /\ NotListed'
      BY ZenonT(30) DEF UIDsAreUsed, DoneIsOver, NotListed, Over
    <1> QED BY <1>1, <1>2

(* The inductive invariant: what doFinalize has ticked off is over and     *)
(* stays over, because UIDs do not come back and a deletion is not undone. *)
THEOREM FinalizeInvariant == Spec => []FinalizeInv
    <1>1. ASSUME FinalizeInv, Next PROVE FinalizeInv'
      <2>1. TypeOK'
        BY <1>1, TypesStep DEF FinalizeInv
      <2>2. UIDsAreUsed'
        BY <1>1, <2>1, UIDsStep
      <2>3. DoneIsOver' /\ NotListed'
        BY <1>1, <2>1, OverStep
      <2> QED BY <2>1, <2>2, <2>3 DEF FinalizeInv
    <1> QED BY <1>1, InitInv, StutterInv, PTL DEF Spec

(* doFinalize (node_controller.go:95) passes no listed LogicalVolume by,  *)
(* whatever the caches held, whatever was created, rescheduled, backed up  *)
(* or reconciled between its calls, and however often it was retried.      *)
THEOREM NothingIsPassedBy == Spec => []FinalizeIsComplete
    <1>1. FinalizeInv => FinalizeIsComplete
      BY DEF FinalizeInv, DoneIsOver, Over, FinalizeIsComplete
    <1> QED BY <1>1, FinalizeInvariant, PTL

(* The state of the reconciler and of what it caches keeps its shape. *)
THEOREM FinalizeTypes == Spec => []TypeOK
    <1>1. FinalizeInv => TypeOK
      BY DEF FinalizeInv
    <1> QED BY <1>1, FinalizeInvariant, PTL

-----------------------------------------------------------------------------
(***************************************************************************)
(* The other reconciler of topolvm-controller, of the claims, for every    *)
(* set of claims and pods, any clock and any number of disturbances, when  *)
(* a pod uses one claim: an annotation that is later than the condition's  *)
(* truncated time was then written for that condition.                     *)
(***************************************************************************)
Claim == [exists : BOOLEAN, deleting : BOOLEAN, finalizers : SUBSET Finalizers,
          since : Nat, expanded : BOOLEAN]
Pod == [exists : BOOLEAN, uses : SUBSET Claims, requestedAt : Nat]
Worker == [on : {TRUE}, claim : Claims, condTransitionAt : Nat,
           todo : SUBSET Pods, touched : SUBSET Pods]

ClaimTypes ==
    /\ claim \in [Claims -> Claim] /\ cache \in [Claims -> Claim] /\ pod \in [Pods -> Pod]
    /\ worker = Idle \/ worker \in Worker
    /\ queue \subseteq Claims
    /\ now \in Nat \ {0}

(* s is when the one expansion of the claim ended, if that is not over.    *)
ExpandedAt(c, s) ==
    claim[c].expanded /\ s \in Nat \ {0} /\ s <= now /\ claim[c].since \in {0, s}

(* The informer's copy may be old, and shows no other expansion.           *)
OneExpansion ==
    \A c \in Claims :
        /\ claim[c].since # 0 => ExpandedAt(c, claim[c].since)
        /\ cache[c].since # 0 => ExpandedAt(c, cache[c].since)

OneClaim == \A p \in Pods : \A c, d \in pod[p].uses : c = d

(* A pod is annotated for the expansion of its claim, and after it.        *)
AnnotatedAfter ==
    \A p \in Pods : \A c \in pod[p].uses :
        pod[p].requestedAt # 0 => claim[c].expanded /\ claim[c].since <= pod[p].requestedAt

(* The pods a call of Reconcile still has to annotate use its claim.       *)
WorksOnUsers ==
    worker.on => /\ claim[worker.claim].expanded /\ claim[worker.claim].since <= now
                 /\ \A p \in worker.todo : worker.claim \in pod[p].uses

Waiting(c) ==
    /\ claim[c].exists /\ ~claim[c].deleting /\ claim[c].since # 0
    /\ cache[c] = claim[c] /\ c \notin queue

(* A claim the reconciler knows to wait, and has taken off its queue, has  *)
(* its pods annotated, or a call at work on them.                          *)
Attended(c) ==
    \A p \in UsedBy(c) :
        \/ claim[c].since <= pod[p].requestedAt
        \/ worker.on /\ worker.claim = c /\ p \in worker.todo

AllAttended == \A c \in Related \cap Claims : Waiting(c) => Attended(c)

NudgeInv == ClaimTypes /\ OneExpansion /\ OneClaim /\ AnnotatedAfter /\ WorksOnUsers /\ AllAttended

(* A call of Reconcile is idle or has the fields of one at work. *)
LEMMA WorkerOn ==
    ASSUME ClaimTypes
    PROVE  /\ worker.on \in BOOLEAN
           /\ worker.on => worker \in Worker
           /\ ~Idle.on
    <1>1. Idle.on = FALSE
      BY DEF Idle
    <1>2. \A w \in Worker : w.on = TRUE
      BY ZenonT(30) DEF Worker
    <1> QED BY ZenonT(30), <1>1, <1>2 DEF ClaimTypes

(* Reconcile writes only finalizers, and only to a claim it has read as it *)
(* is; a claim that waits gets a call at work on its pods.                 *)
LEMMA ReconcileNudges ==
    ASSUME NudgeInv, NEW c \in Claims, ReconcileClaim(c)
    PROVE  NudgeInv'
    <1> DEFINE copy == cache[c]
               conflict == copy.finalizers # {} /\ copy # claim[c]
               left == removeUnusedFinalizer(copy)
               notify == ~copy.deleting /\ copy.since # 0 /\ c \in Related
               w == [on |-> TRUE, claim |-> c, condTransitionAt |-> LastTransitionTime(copy.since),
                     todo |-> UsedBy(c), touched |-> {}]
    <1>0. /\ ClaimTypes /\ OneExpansion /\ OneClaim /\ AnnotatedAfter /\ WorksOnUsers /\ AllAttended
          /\ ~worker.on /\ c \in queue
          /\ cache' = cache /\ pod' = pod /\ now' = now
      BY DEF NudgeInv, ReconcileClaim
    <1>1. /\ queue' = IF copy.exists /\ conflict THEN queue ELSE queue \ {c}
          /\ IF copy.exists /\ ~conflict
             THEN /\ claim' = IF copy.finalizers = {} THEN claim
                              ELSE [claim EXCEPT ![c] = [claim[c] EXCEPT !.finalizers = left]]
                  /\ worker' = IF ~notify THEN Idle ELSE w
             ELSE claim' = claim /\ worker' = worker
      BY ZenonT(30) DEF ReconcileClaim, Never, isPVCRelated
    <1>2. /\ claim[c] \in Claim /\ copy \in Claim
          /\ left \in SUBSET Finalizers
          /\ copy.finalizers # {} => left # copy.finalizers
      BY <1>0 DEF ClaimTypes, Claim, removeUnusedFinalizer, Finalizers
    <1> HIDE DEF left
    <1>3. claim' \in [Claims -> Claim]
      <2> DEFINE v == [claim[c] EXCEPT !.finalizers = left]
      <2>1. v \in Claim
        BY ZenonT(30), <1>2 DEF Claim
      <2>2. claim' = claim \/ claim' = [claim EXCEPT ![c] = v]
        BY ZenonT(30), <1>1
      <2> HIDE DEF v
      <2> QED BY ZenonT(30), <1>0, <2>1, <2>2 DEF ClaimTypes
    <1>4. \A d \in Claims : /\ claim'[d].exists = claim[d].exists /\ claim'[d].deleting = claim[d].deleting
                           /\ claim'[d].since = claim[d].since /\ claim'[d].expanded = claim[d].expanded
      <2>1. claim \in [Claims -> Claim]
        BY <1>0 DEF ClaimTypes
      <2> QED BY <1>1, <2>1 DEF Claim
    <1>5. \A d \in Claims : d # c => claim'[d] = claim[d]
      BY ZenonT(30), <1>0, <1>1 DEF ClaimTypes
    <1>6. copy.exists /\ ~conflict /\ copy.finalizers # {} => claim'[c] # cache[c]
      <2> SUFFICES ASSUME copy.exists, ~conflict, copy.finalizers # {} PROVE claim'[c] # cache[c]
        BY ZenonT(30)
      <2>1. claim'[c] = [claim[c] EXCEPT !.finalizers = left]
        BY ZenonT(30), <1>0, <1>1 DEF ClaimTypes
      <2>2. claim'[c].finalizers = left
        BY <1>2, <2>1 DEF Claim
      <2> QED BY ZenonT(30), <1>2, <2>2
    <1>7. copy.since # 0 => claim[c].expanded /\ claim[c].since <= now
      BY <1>0 DEF OneExpansion, ExpandedAt, ClaimTypes
    <1>8. /\ w.on /\ w.claim = c /\ w.todo = UsedBy(c)
          /\ \A p \in w.todo : p \in Pods /\ c \in pod[p].uses
      BY ZenonT(30) DEF UsedBy
    <1>9. w \in Worker
      <2>1. LastTransitionTime(copy.since) \in Nat
        <3>1. copy.since \in Nat
          BY <1>2 DEF Claim
        <3> QED BY <3>1, ReconcilerAssumption DEF LastTransitionTime
      <2>2. UsedBy(c) \in SUBSET Pods
        BY ZenonT(30) DEF UsedBy
      <2> QED BY ZenonT(30), <2>1, <2>2 DEF Worker
    <1> HIDE DEF w
    <1>10. (worker' = w /\ notify) \/ worker' = Idle \/ worker' = worker
      BY ZenonT(30), <1>1
    <1>11. ClaimTypes'
      BY ZenonT(30), <1>0, <1>1, <1>3, <1>9, <1>10 DEF ClaimTypes, Idle
    <1>12. OneExpansion' /\ OneClaim' /\ AnnotatedAfter'
      BY ZenonT(30), <1>0, <1>4 DEF OneExpansion, ExpandedAt, OneClaim, AnnotatedAfter, ClaimTypes, Pod
    <1>13. WorksOnUsers'
      BY ZenonT(30), <1>0, <1>4, <1>7, <1>8, <1>10, WorkerOn DEF WorksOnUsers, Idle
    <1>14. AllAttended'
      <2> SUFFICES ASSUME NEW d \in Related \cap Claims, Waiting(d)' PROVE Attended(d)'
        BY ZenonT(30) DEF AllAttended
      <2>1. CASE d # c
        <3>1. Waiting(d)
          BY ZenonT(30), <1>0, <1>1, <1>5, <2>1 DEF Waiting
        <3>2. Attended(d)
          BY ZenonT(30), <1>0, <3>1 DEF AllAttended
        <3> QED BY ZenonT(30), <1>0, <1>5, <2>1, <3>2 DEF Attended, UsedBy
      <2>2. CASE d = c
        <3>1. claim'[c] = cache[c] /\ c \notin queue' /\ claim[c].exists /\ ~claim[c].deleting /\ claim[c].since # 0
          BY ZenonT(30), <1>0, <1>4, <2>2 DEF Waiting
        <3>2. copy.exists /\ ~copy.deleting /\ copy.since # 0
          BY ZenonT(30), <1>4, <3>1
        <3>3. ~conflict
          BY ZenonT(30), <1>0, <1>1, <3>1, <3>2
        <3>4. worker' = w
          BY ZenonT(30), <1>1, <2>2, <3>2, <3>3
        <3> QED BY ZenonT(30), <1>0, <1>8, <2>2, <3>4 DEF Attended, UsedBy
      <2> QED BY <2>1, <2>2
    <1> QED BY ZenonT(30), <1>11, <1>12, <1>13, <1>14 DEF NudgeInv

(* A pod is skipped when it has been annotated for this expansion.  Every  *)
(* other pod is annotated now, or the claim is put back on the queue.      *)
LEMMA NotifyNudges ==
    ASSUME NudgeInv, NEW p \in Pods, notifyKubeletToResizeFS(p)
    PROVE  NudgeInv'
    <1> DEFINE c == worker.claim
               skip == pod[p].requestedAt > worker.condTransitionAt
               conflict == ~skip /\ p \in worker.touched
               w == [worker EXCEPT !.todo = worker.todo \ {p}]
               q == [pod[p] EXCEPT !.requestedAt = now]
    <1>0. /\ ClaimTypes /\ OneExpansion /\ OneClaim /\ AnnotatedAfter /\ WorksOnUsers /\ AllAttended
          /\ worker.on /\ p \in worker.todo
          /\ cache' = cache /\ claim' = claim /\ now' = now
      BY DEF NudgeInv, notifyKubeletToResizeFS
    <1>1. /\ worker' = IF conflict THEN Idle ELSE w
          /\ queue' = IF conflict THEN queue \cup {c} ELSE queue
          /\ pod' = IF skip \/ conflict THEN pod ELSE [pod EXCEPT ![p] = q]
      BY ZenonT(30) DEF notifyKubeletToResizeFS
    <1>2. worker \in Worker /\ c \in Claims /\ worker.condTransitionAt \in Nat
      BY ZenonT(30), <1>0, WorkerOn DEF Worker
    <1>3. w \in Worker /\ w.on /\ w.claim = c /\ w.todo = worker.todo \ {p}
      BY ZenonT(30), <1>2 DEF Worker
    <1>4. pod[p] \in Pod /\ pod[p].requestedAt \in Nat /\ now \in Nat \ {0}
      BY <1>0 DEF ClaimTypes, Pod
    <1>5. q \in Pod /\ q.requestedAt = now /\ q.uses = pod[p].uses /\ q.exists = pod[p].exists
      BY <1>4 DEF Pod
    <1>6. c \in pod[p].uses /\ claim[c].expanded /\ claim[c].since <= now /\ claim[c].since \in Nat
      <2>1. claim[c] \in Claim
        BY <1>0, <1>2 DEF ClaimTypes
      <2>2. claim[c].since \in Nat
        BY <2>1 DEF Claim
      <2> QED BY ZenonT(30), <1>0, <2>2 DEF WorksOnUsers
    <1> HIDE DEF w, q
    <1>7. pod' \in [Pods -> Pod]
      BY ZenonT(30), <1>0, <1>1, <1>5 DEF ClaimTypes
    <1>8. \A r \in Pods : /\ pod'[r].uses = pod[r].uses /\ pod'[r].exists = pod[r].exists
                          /\ pod'[r].requestedAt = pod[r].requestedAt \/ (r = p /\ pod'[r].requestedAt = now)
      <2>1. pod' = pod \/ pod' = [pod EXCEPT ![p] = q]
        BY ZenonT(30), <1>1
      <2>2. \A r \in Pods : pod'[r] = pod[r] \/ (r = p /\ pod'[r] = q)
        BY <1>0, <2>1 DEF ClaimTypes
      <2> QED BY ZenonT(30), <1>5, <2>2
    <1>9. conflict \/ claim[c].since <= pod'[p].requestedAt
      <2>1. CASE skip
        <3>1. pod[p].requestedAt # 0
          BY <1>2, <1>4, <2>1
        <3> QED BY ZenonT(30), <1>0, <1>1, <1>6, <2>1, <3>1 DEF AnnotatedAfter
      <2>2. CASE ~skip /\ ~conflict
        <3>1. pod'[p] = q
          BY ZenonT(30), <1>0, <1>1, <2>2 DEF ClaimTypes
        <3> QED BY ZenonT(30), <1>5, <1>6, <3>1
      <2> QED BY ZenonT(30), <2>1, <2>2
    <1>10. ClaimTypes'
      BY ZenonT(30), <1>0, <1>1, <1>2, <1>3, <1>7 DEF ClaimTypes
    <1>11. OneExpansion' /\ OneClaim'
      <2>1. OneExpansion'
        BY ZenonT(30), <1>0 DEF OneExpansion, ExpandedAt
      <2>2. OneClaim'
        BY <1>0, <1>8 DEF OneClaim
      <2> QED BY <2>1, <2>2
    <1>12. AnnotatedAfter'
      <2> SUFFICES ASSUME NEW r \in Pods, NEW d \in pod'[r].uses, pod'[r].requestedAt # 0
                   PROVE  claim[d].expanded /\ claim[d].since <= pod'[r].requestedAt
        BY ZenonT(30), <1>0 DEF AnnotatedAfter
      <2>0. d \in pod[r].uses
        BY <1>8
      <2>1. CASE pod'[r].requestedAt = pod[r].requestedAt
        BY ZenonT(30), <1>0, <2>0, <2>1 DEF AnnotatedAfter
      <2>2. CASE r = p /\ pod'[r].requestedAt = now
        <3>1. d = c
          BY ZenonT(30), <1>0, <1>6, <2>0, <2>2 DEF OneClaim
        <3> QED BY ZenonT(30), <1>6, <2>2, <3>1
      <2> QED BY ZenonT(30), <1>8, <2>1, <2>2
    <1>13. WorksOnUsers'
      BY ZenonT(30), <1>0, <1>1, <1>2, <1>3, <1>6, <1>8, WorkerOn DEF WorksOnUsers, Worker
    <1>14. AllAttended'
      <2> SUFFICES ASSUME NEW d \in Related \cap Claims, Waiting(d)', NEW r \in UsedBy(d)'
                   PROVE  \/ claim[d].since <= pod'[r].requestedAt
                          \/ worker'.on /\ worker'.claim = d /\ r \in worker'.todo
        BY ZenonT(30), <1>0 DEF AllAttended, Attended
      <2>1. Waiting(d)
        BY ZenonT(30), <1>0, <1>1 DEF Waiting
      <2>2. r \in Pods /\ r \in UsedBy(d)
        <3>1. r \in Pods /\ pod'[r].exists /\ d \in pod'[r].uses
          BY ZenonT(30) DEF UsedBy
        <3>2. pod[r].exists /\ d \in pod[r].uses
          BY ZenonT(30), <1>8, <3>1
        <3> QED BY ZenonT(30), <3>1, <3>2 DEF UsedBy
      <2>3. \/ claim[d].since <= pod[r].requestedAt
            \/ c = d /\ r \in worker.todo
        BY ZenonT(30), <1>0, <2>1, <2>2 DEF AllAttended, Attended
      <2>4. claim[d].since \in Nat /\ claim[d].since <= now
        <3>1. claim[d] \in Claim
          BY ZenonT(30), <1>0 DEF ClaimTypes
        <3>2. claim[d].since \in Nat
          BY <3>1 DEF Claim
        <3> QED BY ZenonT(30), <1>0, <2>1, <3>2 DEF OneExpansion, ExpandedAt, Waiting
      <2>5. CASE claim[d].since <= pod[r].requestedAt
        BY ZenonT(30), <1>8, <2>2, <2>4, <2>5
      <2>6. CASE c = d /\ r \in worker.todo
        <3>1. ~conflict
          BY ZenonT(30), <1>0, <1>1, <2>6 DEF Waiting
        <3> QED BY ZenonT(30), <1>1, <1>3, <1>9, <2>6, <3>1
      <2> QED BY ZenonT(30), <2>3, <2>5, <2>6
    <1> QED BY ZenonT(30), <1>10, <1>11, <1>12, <1>13, <1>14 DEF NudgeInv

(* A call that returns has no pod left to annotate. *)
LEMMA ReturnNudges ==
    ASSUME NudgeInv, Return
    PROVE  NudgeInv'
    <1>0. /\ ClaimTypes /\ OneExpansion /\ OneClaim /\ AnnotatedAfter /\ WorksOnUsers /\ AllAttended
          /\ worker.todo = {} /\ worker' = Idle
          /\ cache' = cache /\ claim' = claim /\ now' = now /\ pod' = pod /\ queue' = queue
      BY DEF NudgeInv, Return
    <1>1. ClaimTypes' /\ OneExpansion' /\ OneClaim' /\ AnnotatedAfter'
      BY ZenonT(30), <1>0 DEF ClaimTypes, OneExpansion, ExpandedAt, OneClaim, AnnotatedAfter
    <1>2. WorksOnUsers'
      BY ZenonT(30), <1>0, WorkerOn DEF WorksOnUsers
    <1>3. AllAttended'
      BY ZenonT(30), <1>0 DEF AllAttended, Waiting, Attended, UsedBy
    <1> QED BY ZenonT(30), <1>1, <1>2, <1>3 DEF NudgeInv

(* A new version in the cache puts the claim on the queue. *)
LEMMA DeliverNudges ==
    ASSUME NudgeInv, NEW c \in Claims, Deliver(c)
    PROVE  NudgeInv'
    <1>0. /\ ClaimTypes /\ OneExpansion /\ OneClaim /\ AnnotatedAfter /\ WorksOnUsers /\ AllAttended
          /\ cache' = [cache EXCEPT ![c] = claim[c]]
          /\ queue' = IF claim[c].exists THEN queue \cup {c} ELSE queue
          /\ claim' = claim /\ now' = now /\ pod' = pod /\ worker' = worker
      BY ZenonT(30) DEF NudgeInv, Deliver
    <1>1. \A d \in Claims : cache'[d] = IF d = c THEN claim[c] ELSE cache[d]
      BY ZenonT(30), <1>0 DEF ClaimTypes
    <1>2. ClaimTypes'
      BY ZenonT(30), <1>0 DEF ClaimTypes
    <1>3. OneExpansion'
      <2>1. \A d \in Claims : \A s : ExpandedAt(d, s) => ExpandedAt(d, s)'
        BY ZenonT(30), <1>0 DEF ExpandedAt
      <2>2. \A d \in Claims : cache'[d] = claim[d] \/ cache'[d] = cache[d]
        BY ZenonT(30), <1>1
      <2> QED BY ZenonT(30), <1>0, <2>1, <2>2 DEF OneExpansion
    <1>4. OneClaim' /\ AnnotatedAfter' /\ WorksOnUsers'
      BY ZenonT(30), <1>0 DEF OneClaim, AnnotatedAfter, WorksOnUsers
    <1>5. AllAttended'
      <2>1. \A d \in Claims : Attended(d) => Attended(d)'
        BY ZenonT(30), <1>0 DEF Attended, UsedBy
      <2>2. ~Waiting(c)'
        BY ZenonT(30), <1>0 DEF Waiting
      <2>3. \A d \in Claims : d # c /\ Waiting(d)' => Waiting(d)
        BY ZenonT(30), <1>0, <1>1 DEF Waiting
      <2> QED BY ZenonT(30), <1>0, <2>1, <2>2, <2>3 DEF AllAttended
    <1> QED BY ZenonT(30), <1>2, <1>3, <1>4, <1>5 DEF NudgeInv

(* A write to claim c that keeps its finalizers keeps the invariant, when  *)
(* it does not bring a claim back to what the cache has, and a time that   *)
(* it sets is new.                                                         *)
LEMMA WriteNudges ==
    ASSUME NudgeInv, NEW c \in Claims, NEW v \in Claim,
           claim' = [claim EXCEPT ![c] = v],
           cache' = cache, now' = now, pod' = pod, worker' = worker, queue' = queue,
           claim[c].expanded => v.expanded /\ v.since \in {0, claim[c].since},
           v.since # 0 => v.expanded /\ v.since <= now,
           (v.exists /\ ~v.deleting /\ v.since # 0) => cache[c] # v
    PROVE  NudgeInv'
    <1>0. ClaimTypes /\ OneExpansion /\ OneClaim /\ AnnotatedAfter /\ WorksOnUsers /\ AllAttended
      BY DEF NudgeInv
    <1>1. \A d \in Claims : claim'[d] = IF d = c THEN v ELSE claim[d]
      BY ZenonT(30), <1>0 DEF ClaimTypes
    <1>2. /\ \A d \in Claims : claim[d].since \in Nat /\ cache[d].since \in Nat
          /\ v.since \in Nat /\ now \in Nat
          /\ \A p \in Pods : pod[p].requestedAt \in Nat /\ pod[p].uses \subseteq Claims
      BY <1>0 DEF ClaimTypes, Claim, Pod
    <1>3. ClaimTypes'
      BY ZenonT(30), <1>0 DEF ClaimTypes
    <1>4. OneExpansion'
      <2> SUFFICES ASSUME NEW d \in Claims
                   PROVE  /\ claim'[d].since # 0 => ExpandedAt(d, claim[d].since)'
                          /\ cache[d].since # 0 =>
                               /\ claim'[d].expanded /\ cache[d].since \in Nat \ {0} /\ cache[d].since <= now
                               /\ claim'[d].since \in {0, cache[d].since}
        BY ZenonT(30) DEF OneExpansion, ExpandedAt
      <2>1. CASE d # c
        BY ZenonT(30), <1>0, <1>1, <2>1 DEF OneExpansion, ExpandedAt
      <2>2. CASE d = c
        <3>1. claim'[d] = v
          BY ZenonT(30), <1>1, <2>2
        <3>2. v.since # 0 => ExpandedAt(d, claim[d].since)'
          BY ZenonT(30), <1>2, <3>1 DEF ExpandedAt
        <3>3. cache[d].since # 0 => ExpandedAt(d, cache[d].since)
          BY ZenonT(30), <1>0 DEF OneExpansion
        <3>4. cache[d].since # 0 => v.since \in {0, cache[d].since}
          BY ZenonT(30), <2>2, <3>3 DEF ExpandedAt
        <3> QED BY ZenonT(30), <2>2, <3>1, <3>2, <3>3, <3>4 DEF ExpandedAt
      <2> QED BY ZenonT(30), <2>1, <2>2
    <1>5. OneClaim'
      BY ZenonT(30), <1>0 DEF OneClaim
    <1>6. AnnotatedAfter'
      <2> SUFFICES ASSUME NEW p \in Pods, NEW d \in pod[p].uses, pod[p].requestedAt # 0
                   PROVE  claim'[d].expanded /\ claim'[d].since <= pod[p].requestedAt
        BY ZenonT(30) DEF AnnotatedAfter
      <2>1. claim[d].expanded /\ claim[d].since <= pod[p].requestedAt /\ d \in Claims
        BY ZenonT(30), <1>0, <1>2 DEF AnnotatedAfter
      <2>2. CASE d # c
        BY ZenonT(30), <1>1, <2>1, <2>2
      <2>3. CASE d = c
        <3>1. claim'[d] = v /\ v.expanded /\ v.since \in {0, claim[d].since}
          BY ZenonT(30), <1>1, <2>1, <2>3
        <3> QED BY <1>2, <2>1, <3>1
      <2> QED BY ZenonT(30), <2>2, <2>3
    <1>7. WorksOnUsers'
      <2> SUFFICES ASSUME worker.on
                   PROVE  /\ claim'[worker.claim].expanded /\ claim'[worker.claim].since <= now
                          /\ \A p \in worker.todo : worker.claim \in pod[p].uses
        BY ZenonT(30) DEF WorksOnUsers
      <2>1. worker.claim \in Claims
        BY ZenonT(30), <1>0, WorkerOn DEF Worker
      <2>2. v.since = 0 => v.since <= now
        BY <1>2
      <2>3. /\ claim[worker.claim].expanded /\ claim[worker.claim].since <= now
            /\ \A p \in worker.todo : worker.claim \in pod[p].uses
        BY ZenonT(30), <1>0 DEF WorksOnUsers
      <2>4. CASE worker.claim # c
        <3>1. claim'[worker.claim] = claim[worker.claim]
          BY ZenonT(30), <1>1, <2>1, <2>4
        <3> QED BY ZenonT(30), <2>3, <3>1
      <2>5. CASE worker.claim = c
        <3>1. claim'[worker.claim] = v
          BY ZenonT(30), <1>1, <2>5
        <3>2. v.expanded /\ v.since <= now
          BY ZenonT(30), <2>2, <2>3, <2>5
        <3> QED BY ZenonT(30), <2>3, <3>1, <3>2
      <2> QED BY ZenonT(30), <2>4, <2>5
    <1>8. AllAttended'
      <2> SUFFICES ASSUME NEW d \in Related \cap Claims, Waiting(d)' PROVE Attended(d)'
        BY ZenonT(30) DEF AllAttended
      <2>1. d # c /\ claim'[d] = claim[d]
        BY ZenonT(30), <1>1 DEF Waiting
      <2>2. Waiting(d)
        BY ZenonT(30), <2>1 DEF Waiting
      <2>3. Attended(d)
        BY ZenonT(30), <1>0, <2>2 DEF AllAttended
      <2> QED BY ZenonT(30), <2>1, <2>3 DEF Attended, UsedBy
    <1> QED BY ZenonT(30), <1>3, <1>4, <1>5, <1>6, <1>7, <1>8 DEF NudgeInv

(* So do the writes of external-resizer, of the kubelet, of the user and   *)
(* of the API server: each changes a claim for the first time.             *)
LEMMA OthersWrite ==
    ASSUME NudgeInv, NEW c \in Claims,
           Expand(c) \/ Resized(c) \/ DeleteClaim(c) \/ RemoveClaim(c)
    PROVE  NudgeInv'
    <1> DEFINE a == claim[c]
    <1>0. a \in Claim /\ cache[c] \in Claim /\ now \in Nat \ {0}
      BY DEF NudgeInv, ClaimTypes
    <1>1. /\ a.since # 0 => a.expanded /\ a.since <= now
          /\ cache[c].since # 0 => a.expanded
      BY ZenonT(30) DEF NudgeInv, OneExpansion, ExpandedAt
    <1>2. CASE Expand(c)
      <2> DEFINE v == [a EXCEPT !.since = now, !.expanded = TRUE]
      <2>1. /\ claim' = [claim EXCEPT ![c] = v] /\ ~a.expanded
            /\ cache' = cache /\ now' = now /\ pod' = pod /\ worker' = worker /\ queue' = queue
        BY ZenonT(30), <1>2 DEF Expand
      <2>2. v \in Claim /\ v.since = now /\ v.expanded
        BY ZenonT(30), <1>0 DEF Claim
      <2>3. cache[c] # v
        BY ZenonT(30), <1>0, <1>1, <2>1, <2>2
      <2>4. v.since <= now
        BY <1>0, <2>2
      <2> HIDE DEF v
      <2> QED BY ZenonT(30), <2>1, <2>2, <2>3, <2>4, WriteNudges
    <1>3. CASE Resized(c)
      <2> DEFINE v == [a EXCEPT !.since = 0]
      <2>1. /\ claim' = [claim EXCEPT ![c] = v]
            /\ cache' = cache /\ now' = now /\ pod' = pod /\ worker' = worker /\ queue' = queue
        BY <1>3 DEF Resized, Never
      <2>2. v \in Claim /\ v.since = 0 /\ v.expanded = a.expanded
        BY ZenonT(30), <1>0 DEF Claim
      <2> HIDE DEF v
      <2> QED BY ZenonT(30), <2>1, <2>2, WriteNudges
    <1>4. CASE DeleteClaim(c)
      <2> DEFINE v == [a EXCEPT !.deleting = TRUE]
      <2>1. /\ claim' = [claim EXCEPT ![c] = v]
            /\ cache' = cache /\ now' = now /\ pod' = pod /\ worker' = worker /\ queue' = queue
        BY <1>4 DEF DeleteClaim
      <2>2. v \in Claim /\ v.deleting /\ v.since = a.since /\ v.expanded = a.expanded
        BY ZenonT(30), <1>0 DEF Claim
      <2> HIDE DEF v
      <2> QED BY ZenonT(30), <1>1, <2>1, <2>2, WriteNudges
    <1>5. CASE RemoveClaim(c)
      <2> DEFINE v == [a EXCEPT !.exists = FALSE]
      <2>1. /\ claim' = [claim EXCEPT ![c] = v]
            /\ cache' = cache /\ now' = now /\ pod' = pod /\ worker' = worker /\ queue' = queue
        BY <1>5 DEF RemoveClaim
      <2>2. v \in Claim /\ ~v.exists /\ v.since = a.since /\ v.expanded = a.expanded
        BY ZenonT(30), <1>0 DEF Claim
      <2> HIDE DEF v
      <2> QED BY ZenonT(30), <1>1, <2>1, <2>2, WriteNudges
    <1> QED BY <1>2, <1>3, <1>4, <1>5

(* Somebody else's write to a pod leaves its annotation and its claim.     *)
LEMMA TouchNudges ==
    ASSUME NudgeInv, NEW p \in Pods, NEW gone \in BOOLEAN, TouchPod(p, gone)
    PROVE  NudgeInv'
    <1> DEFINE q == [pod[p] EXCEPT !.exists = ~gone]
               w == [worker EXCEPT !.touched = worker.touched \cup {p}]
    <1>0. /\ ClaimTypes /\ OneExpansion /\ OneClaim /\ AnnotatedAfter /\ WorksOnUsers /\ AllAttended
          /\ pod[p].exists /\ pod' = [pod EXCEPT ![p] = q]
          /\ worker' = IF worker.on THEN w ELSE worker
          /\ claim' = claim /\ cache' = cache /\ queue' = queue /\ now' = now
      BY ZenonT(30) DEF NudgeInv, TouchPod
    <1>1. pod[p] \in Pod
      BY <1>0 DEF ClaimTypes
    <1>2. q \in Pod /\ q.uses = pod[p].uses /\ q.requestedAt = pod[p].requestedAt
      BY ZenonT(30), <1>1 DEF Pod
    <1>3. worker.on => /\ worker.on = TRUE /\ w \in Worker /\ w.on = TRUE
                       /\ w.claim = worker.claim /\ w.todo = worker.todo
      BY ZenonT(30), <1>0, WorkerOn DEF Worker
    <1> HIDE DEF q, w
    <1>4. /\ worker'.on = worker.on
          /\ worker.on => worker'.claim = worker.claim /\ worker'.todo = worker.todo
      <2>1. CASE worker.on
        BY ZenonT(30), <1>0, <1>3, <2>1
      <2>2. CASE ~worker.on
        BY ZenonT(30), <1>0, <2>2
      <2> QED BY <2>1, <2>2
    <1>5. ClaimTypes'
      <2>1. pod' \in [Pods -> Pod]
        BY ZenonT(30), <1>0, <1>2 DEF ClaimTypes
      <2>2. worker' = Idle \/ worker' \in Worker
        BY ZenonT(30), <1>0, <1>3 DEF ClaimTypes
      <2> QED BY ZenonT(30), <1>0, <2>1, <2>2 DEF ClaimTypes
    <1>6. \A r \in Pods : /\ pod'[r].uses = pod[r].uses /\ pod'[r].requestedAt = pod[r].requestedAt
                          /\ pod'[r].exists => pod[r].exists
      <2>1. \A r \in Pods : pod'[r] = IF r = p THEN q ELSE pod[r]
        BY ZenonT(30), <1>0 DEF ClaimTypes
      <2> QED BY ZenonT(30), <1>0, <1>2, <2>1
    <1>7. OneExpansion'
      BY ZenonT(30), <1>0 DEF OneExpansion, ExpandedAt
    <1>8. OneClaim' /\ AnnotatedAfter'
      BY ZenonT(30), <1>0, <1>6 DEF OneClaim, AnnotatedAfter
    <1>9. WorksOnUsers'
      <2> SUFFICES ASSUME worker.on
                   PROVE  /\ claim[worker.claim].expanded /\ claim[worker.claim].since <= now
                          /\ \A r \in worker.todo : worker.claim \in pod'[r].uses
        BY ZenonT(30), <1>0, <1>4 DEF WorksOnUsers
      <2>1. worker.todo \subseteq Pods
        BY <1>0, WorkerOn DEF Worker
      <2> QED BY ZenonT(30), <1>0, <1>6, <2>1 DEF WorksOnUsers
    <1>10. AllAttended'
      <2> SUFFICES ASSUME NEW d \in Related \cap Claims, Waiting(d)', NEW r \in UsedBy(d)'
                   PROVE  \/ claim[d].since <= pod'[r].requestedAt
                          \/ worker'.on /\ worker'.claim = d /\ r \in worker'.todo
        BY ZenonT(30), <1>0 DEF AllAttended, Attended
      <2>1. Waiting(d)
        BY ZenonT(30), <1>0 DEF Waiting
      <2>2. r \in Pods /\ r \in UsedBy(d)
        <3>1. r \in Pods /\ pod'[r].exists /\ d \in pod'[r].uses
          BY ZenonT(30) DEF UsedBy
        <3>2. pod[r].exists /\ d \in pod[r].uses
          BY ZenonT(30), <1>6, <3>1
        <3> QED BY ZenonT(30), <3>1, <3>2 DEF UsedBy
      <2>3. \/ claim[d].since <= pod[r].requestedAt
            \/ worker.on /\ worker.claim = d /\ r \in worker.todo
        BY ZenonT(30), <1>0, <2>1, <2>2 DEF AllAttended, Attended
      <2> QED BY ZenonT(30), <1>4, <1>6, <2>2, <2>3
    <1> QED BY ZenonT(30), <1>5, <1>7, <1>8, <1>9, <1>10 DEF NudgeInv

(* A restart puts every claim on the queue. *)
LEMMA RestartNudges ==
    ASSUME NudgeInv, Restart
    PROVE  NudgeInv'
    <1>0. /\ ClaimTypes /\ OneExpansion /\ OneClaim /\ AnnotatedAfter /\ WorksOnUsers /\ AllAttended
          /\ worker' = Idle /\ cache' = claim /\ queue' = {c \in Claims : claim[c].exists}
          /\ claim' = claim /\ pod' = pod /\ now' = now
      BY DEF NudgeInv, Restart
    <1>1. ClaimTypes'
      BY ZenonT(30), <1>0 DEF ClaimTypes
    <1>2. OneExpansion'
      BY ZenonT(30), <1>0 DEF OneExpansion, ExpandedAt
    <1>3. OneClaim' /\ AnnotatedAfter'
      BY ZenonT(30), <1>0 DEF OneClaim, AnnotatedAfter
    <1>4. WorksOnUsers'
      BY ZenonT(30), <1>0, WorkerOn DEF WorksOnUsers
    <1>5. AllAttended'
      BY ZenonT(30), <1>0 DEF AllAttended, Waiting
    <1> QED BY ZenonT(30), <1>1, <1>2, <1>3, <1>4, <1>5 DEF NudgeInv

(* Time passes. *)
LEMMA TickNudges ==
    ASSUME NudgeInv, now' \in Nat, now <= now',
           claim' = claim, cache' = cache, pod' = pod, queue' = queue, worker' = worker
    PROVE  NudgeInv'
    <1>0. ClaimTypes /\ OneExpansion /\ OneClaim /\ AnnotatedAfter /\ WorksOnUsers /\ AllAttended
      BY DEF NudgeInv
    <1>1. /\ now \in Nat \ {0} /\ now' \in Nat \ {0}
          /\ \A c \in Claims : claim[c].since \in Nat
      BY <1>0 DEF ClaimTypes, Claim
    <1>2. \A s \in Nat : s <= now => s <= now'
      BY <1>1
    <1>3. ClaimTypes'
      BY ZenonT(30), <1>0, <1>1 DEF ClaimTypes
    <1>4. OneExpansion'
      BY ZenonT(30), <1>0, <1>2 DEF OneExpansion, ExpandedAt
    <1>5. WorksOnUsers'
      <2>1. worker.on => worker.claim \in Claims
        BY <1>0, WorkerOn DEF Worker
      <2> QED BY ZenonT(30), <1>0, <1>1, <1>2, <2>1 DEF WorksOnUsers
    <1>6. OneClaim' /\ AnnotatedAfter'
      BY ZenonT(30), <1>0 DEF OneClaim, AnnotatedAfter
    <1>7. AllAttended'
      BY ZenonT(30), <1>0 DEF AllAttended, Waiting, Attended, UsedBy
    <1> QED BY ZenonT(30), <1>3, <1>4, <1>5, <1>6, <1>7 DEF NudgeInv

(* A set of at most one claim has no two. *)
LEMMA AtMostOne ==
    ASSUME NEW u \in SUBSET Claims, Cardinality(u) <= 1, NEW c \in u, NEW d \in u
    PROVE  c = d
    <1>1. IsFiniteSet(u) /\ Cardinality(u) \in Nat
      BY ZenonT(30), ReconcilerAssumption, FS_Subset, FS_CardinalityType
    <1>2. Cardinality(u) # 0
      BY ZenonT(30), <1>1, FS_EmptySet
    <1>3. Cardinality(u) = 1
      BY <1>1, <1>2
    <1>4. PICK x : u = {x}
      BY ZenonT(30), <1>1, <1>3, FS_Singleton
    <1> QED BY <1>4

(* At the start nobody has been annotated, and nothing expanded. *)
LEMMA InitNudges ==
    ASSUME ClaimInit, ClaimsPerPod = 1
    PROVE  NudgeInv
    <1> DEFINE C0 == [exists : {TRUE}, deleting : {FALSE}, finalizers : {{}, Finalizers},
                      since : {Never}, expanded : {FALSE}]
               P0 == [exists : {TRUE}, uses : {u \in SUBSET Claims : Cardinality(u) <= ClaimsPerPod},
                      requestedAt : {Never}]
    <1>0. /\ claim \in [Claims -> C0] /\ pod \in [Pods -> P0]
          /\ cache = claim /\ queue = Claims /\ worker = Idle /\ now = TicksPerSecond
      <2>1. claim \in [Claims -> C0]
        BY ZenonT(30) DEF ClaimInit
      <2>2. pod \in [Pods -> P0]
        BY ZenonT(30) DEF ClaimInit
      <2> HIDE DEF C0, P0
      <2>3. cache = claim /\ queue = Claims /\ worker = Idle /\ now = TicksPerSecond
        BY ZenonT(30) DEF ClaimInit
      <2> QED BY ZenonT(30), <2>1, <2>2, <2>3
    <1>1. ASSUME NEW x \in C0 PROVE x \in Claim /\ x.since = 0
      <2>1. x = [exists |-> x.exists, deleting |-> x.deleting, finalizers |-> x.finalizers,
                 since |-> x.since, expanded |-> x.expanded]
        BY ZenonT(30), <1>1
      <2>2. /\ x.exists = TRUE /\ x.deleting = FALSE /\ x.since = Never /\ x.expanded = FALSE
            /\ x.finalizers \in {{}, Finalizers}
        BY ZenonT(30), <1>1
      <2>3. x.since = 0
        BY <2>2 DEF Never
      <2>4. x.finalizers \in SUBSET Finalizers
        BY ZenonT(30), <2>2
      <2> HIDE DEF C0
      <2>5. x = [exists |-> TRUE, deleting |-> FALSE, finalizers |-> x.finalizers,
                 since |-> 0, expanded |-> FALSE]
        BY ZenonT(30), <2>1, <2>2, <2>3
      <2>6. x \in Claim
        <3> DEFINE f == x.finalizers
        <3>1. f \in SUBSET Finalizers
          BY <2>4
        <3> HIDE DEF f
        <3>2. [exists |-> TRUE, deleting |-> FALSE, finalizers |-> f, since |-> 0, expanded |-> FALSE] \in Claim
          BY ZenonT(30), <3>1 DEF Claim
        <3> QED BY ZenonT(30), <2>5, <3>2 DEF f
      <2> QED BY <2>3, <2>6
    <1>2. ASSUME NEW x \in P0
          PROVE  x \in Pod /\ x.requestedAt = 0 /\ x.uses \in SUBSET Claims /\ Cardinality(x.uses) <= 1
      <2>1. x = [exists |-> x.exists, uses |-> x.uses, requestedAt |-> x.requestedAt]
        BY ZenonT(30), <1>2
      <2>2. x.exists = TRUE /\ x.requestedAt = Never /\ x.uses \in SUBSET Claims /\ Cardinality(x.uses) <= ClaimsPerPod
        BY ZenonT(30), <1>2
      <2>3. x.requestedAt = 0 /\ 0 \in Nat
        BY <2>2 DEF Never
      <2> HIDE DEF P0
      <2>4. x \in Pod
        BY ZenonT(30), <2>1, <2>2, <2>3 DEF Pod
      <2> QED BY ZenonT(30), <2>2, <2>3, <2>4
    <1> HIDE DEF C0, P0
    <1>3. claim \in [Claims -> Claim] /\ \A c \in Claims : claim[c].since = 0
      BY ZenonT(30), <1>0, <1>1
    <1>4. /\ pod \in [Pods -> Pod]
          /\ \A p \in Pods : /\ pod[p].requestedAt = 0 /\ pod[p].uses \in SUBSET Claims
                             /\ Cardinality(pod[p].uses) <= 1
      BY ZenonT(30), <1>0, <1>2
    <1>5. ~worker.on
      BY <1>0 DEF Idle
    <1>6. ClaimTypes
      BY ZenonT(30), ReconcilerAssumption, <1>0, <1>3, <1>4 DEF ClaimTypes
    <1>7. OneExpansion /\ AnnotatedAfter /\ WorksOnUsers /\ AllAttended
      BY ZenonT(30), <1>0, <1>3, <1>4, <1>5
         DEF OneExpansion, AnnotatedAfter, WorksOnUsers, AllAttended, Waiting
    <1>8. OneClaim
      BY ZenonT(30), <1>4, AtMostOne DEF OneClaim
    <1> QED BY ZenonT(30), <1>6, <1>7, <1>8 DEF NudgeInv

(* The inductive invariant of the claims' reconciler: a claim that waits   *)
(* and is off the queue is attended to.                                    *)
THEOREM NudgeInvariant ==
    ASSUME ClaimsPerPod = 1
    PROVE  ClaimSpec => []NudgeInv
    <1>1. ASSUME NudgeInv, ClaimNext PROVE NudgeInv'
      <2>1. CASE Controller
        BY ZenonT(30), <1>1, <2>1, ReconcileNudges, DeliverNudges, NotifyNudges, ReturnNudges DEF Controller
      <2>2. CASE \E c \in Claims : Expand(c) \/ Resized(c) \/ DeleteClaim(c) \/ RemoveClaim(c)
        BY ZenonT(30), <1>1, <2>2, OthersWrite
      <2>3. CASE \E p \in Pods, gone \in BOOLEAN : TouchPod(p, gone)
        BY ZenonT(30), <1>1, <2>3, TouchNudges
      <2>4. CASE Restart
        BY <1>1, <2>4, RestartNudges
      <2>5. CASE Tick
        <3>1. /\ claim' = claim /\ cache' = cache /\ pod' = pod /\ queue' = queue /\ worker' = worker
              /\ now' = now + 1
          BY <2>5 DEF Tick
        <3>2. now' \in Nat /\ now <= now'
          BY <1>1, <3>1 DEF NudgeInv, ClaimTypes
        <3> QED BY ZenonT(30), <1>1, <3>1, <3>2, TickNudges
      <2> QED BY ZenonT(30), <1>1, <2>1, <2>2, <2>3, <2>4, <2>5 DEF ClaimNext
    <1>2. ASSUME NudgeInv, UNCHANGED claimVars PROVE NudgeInv'
      <2>1. /\ claim' = claim /\ cache' = cache /\ pod' = pod /\ queue' = queue /\ worker' = worker
            /\ now' = now
        BY <1>2 DEF claimVars
      <2>2. now' \in Nat /\ now <= now'
        BY <1>2, <2>1 DEF NudgeInv, ClaimTypes
      <2> QED BY ZenonT(30), <1>2, <2>1, <2>2, TickNudges
    <1>3. ClaimInit => NudgeInv
      BY InitNudges
    <1> QED BY <1>1, <1>2, <1>3, PTL DEF ClaimSpec

(* notifyKubeletToResizeFS (persistentvolumeclaim_controller.go) leaves no *)
(* pod of a waiting claim behind, whatever is written to the pods and the  *)
(* claims meanwhile and however often it is retried or restarted: when the *)
(* reconciler rests, each has an annotation that is later than the         *)
(* expansion.  The comparison with the truncated time is exact for a pod   *)
(* with one claim that is expanded once.                                   *)
THEOREM NudgesFollow ==
    ASSUME ClaimsPerPod = 1
    PROVE  ClaimSpec => []NudgeFollowsResize
    <1>1. ASSUME NudgeInv PROVE NudgeFollowsResize
      <2> SUFFICES ASSUME NEW c \in Related, Waiting(c), ~worker.on, NEW p \in UsedBy(c)
                   PROVE  pod[p].requestedAt >= claim[c].since
        BY ZenonT(30) DEF NudgeFollowsResize, Never, Waiting
      <2>1. c \in Related \cap Claims
        BY ZenonT(30), ReconcilerAssumption
      <2>2. claim[c].since <= pod[p].requestedAt
        BY ZenonT(30), <1>1, <2>1 DEF NudgeInv, AllAttended, Attended
      <2>3. p \in Pods
        BY ZenonT(30) DEF UsedBy
      <2>4. claim[c].since \in Nat /\ pod[p].requestedAt \in Nat
        BY <1>1, <2>1, <2>3 DEF NudgeInv, ClaimTypes, Claim, Pod
      <2> QED BY <2>2, <2>4
    <1> QED BY <1>1, NudgeInvariant, PTL
=============================================================================
