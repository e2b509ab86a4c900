-------------------------- MODULE LVLifecycleProofs -------------------------
(***************************************************************************)
(* Proofs about LVLifecycle for every set of UIDs and sizes and any number *)
(* of faults and expansions: no volume is orphaned, LVLifecycle implements *)
(* AbstractVolume, its statuses are backed by LVM and its VolumeIDs are    *)
(* stable.                                                                 *)
(*                                                                         *)
(* NoOrphanLV is not inductive: that a reconcile may create a volume       *)
(* depends on what its own, possibly stale, copy of the CR says about the  *)
(* CR in the API server.  NoOrphanInv states that link.  VolumeInv extends *)
(* the links, which are about the finalizer, by what the copies of the CR  *)
(* say about VolumeIDs and sizes.                                          *)
(***************************************************************************)
EXTENDS LVLifecycle, TLAPS

Holds(u) == api # None /\ api.uid = u /\ api.finalizer

CreatePath == {"volumeExists", "CreateLV", "updateLVStatus", "failStatus",
               "ResizeLV", "expandError"}

DeletePath == {"RemoveLV", "removeFinalizer"}

(* A copy with the current resourceVersion is the current CR. *)
FreshIsCurrent ==
    /\ "ncache" \in fresh => ncache = api
    /\ "ccache" \in fresh => ccache = api

(* Every copy is of a CR the API server once created. *)
CopiesAreUsed ==
    /\ api # None => api.uid \in used
    /\ ncache # None => ncache.uid \in used
    /\ ccache # None => ccache.uid \in used
    /\ rlv # None => rlv.uid \in used

(* A cached copy with the finalizer and no deletionTimestamp still tells   *)
(* the truth about the finalizer: only a reconcile that saw the            *)
(* deletionTimestamp removes it.                                           *)
LiveCopyHolds ==
    (ncache # None /\ ncache.finalizer /\ ~ncache.deleting) => Holds(ncache.uid)

(* A cached copy with the finalizer is of the current CR, or of one whose  *)
(* successor has no finalizer yet.                                         *)
FinalizerIsOfCopy ==
    (ncache # None /\ ncache.finalizer /\ api # None /\ api.finalizer)
        => api.uid = ncache.uid

(* A deletionTimestamp is never taken back. *)
DeletingIsForever ==
    (ncache # None /\ ncache.deleting /\ api # None /\ api.uid = ncache.uid)
        => api.deleting

(* A reconcile on its way to create or expand works on a CR that is there. *)
CreatePathHolds == rpc \in CreatePath => Holds(rlv.uid)

(* A reconcile on its way to delete: the CR is really being deleted, and   *)
(* no CR with a finalizer but this one exists.                             *)
DeletePathSafe ==
    rpc \in DeletePath =>
        /\ (api # None /\ api.finalizer) => api.uid = rlv.uid
        /\ (api # None /\ api.uid = rlv.uid) => api.deleting
        /\ (ncache # None /\ ncache.uid = rlv.uid) => ncache.deleting

RemovedBeforeFinalizer ==
    rpc = "removeFinalizer" => lvm[rlv.uid] = 0 \/ rlv.uid \in missed

NoOrphanInv ==
    /\ TypeOK /\ NoOrphanLV
    /\ FreshIsCurrent /\ CopiesAreUsed
    /\ LiveCopyHolds /\ FinalizerIsOfCopy /\ DeletingIsForever
    /\ CreatePathHolds /\ DeletePathSafe /\ RemovedBeforeFinalizer

-----------------------------------------------------------------------------
(* What the updates of a CR keep *)

(* The fields of a LogicalVolume have their types. *)
LEMMA Fields ==
    ASSUME NEW lv \in LogicalVolume
    PROVE  /\ lv.uid \in UIDs /\ lv.size \in Sizes
           /\ lv.finalizer \in BOOLEAN /\ lv.deleting \in BOOLEAN
           /\ lv.volumeID \in UIDs \cup {None}
           /\ lv.currentSize \in Sizes \cup {0}
    BY DEF LogicalVolume

(* A new version of a CR is of the same CR, and keeps the finalizer and    *)
(* the deletionTimestamp if it has them.                                   *)
SameCR(old, new) ==
    /\ new \in LogicalVolume /\ new.uid = old.uid
    /\ old.finalizer => new.finalizer
    /\ old.deleting => new.deleting

(* Adding the finalizer or the label and changing the size are such        *)
(* versions, and they leave the status alone.                              *)
LEMMA SpecUpdates ==
    ASSUME NEW lv \in LogicalVolume, NEW size \in Sizes,
           NEW new \in {[lv EXCEPT !.finalizer = TRUE], [lv EXCEPT !.label = TRUE],
                        [lv EXCEPT !.size = size]}
    PROVE  /\ SameCR(lv, new) /\ new.deleting = lv.deleting
           /\ new.volumeID = lv.volumeID /\ new.currentSize = lv.currentSize
    <1>1. CASE new = [lv EXCEPT !.finalizer = TRUE]
      BY ZenonT(30), <1>1 DEF LogicalVolume, SameCR
    <1>2. CASE new = [lv EXCEPT !.label = TRUE]
      BY ZenonT(30), <1>2 DEF LogicalVolume, SameCR
    <1>3. CASE new = [lv EXCEPT !.size = size]
      BY <1>3 DEF LogicalVolume, SameCR
    <1> QED BY <1>1, <1>2, <1>3

(* So are the writes of the status subresource. *)
LEMMA StatusUpdate ==
    ASSUME NEW lv \in LogicalVolume, NEW st \in LogicalVolume
    PROVE  /\ SameCR(lv, WithStatus(lv, st))
           /\ WithStatus(lv, st).finalizer = lv.finalizer
           /\ WithStatus(lv, st).deleting = lv.deleting
           /\ WithStatus(lv, st).volumeID = st.volumeID
           /\ WithStatus(lv, st).currentSize = st.currentSize
    BY ZenonT(30) DEF LogicalVolume, SameCR, WithStatus

(* Setting the deletionTimestamp changes nothing else. *)
LEMMA DeletingUpdate ==
    ASSUME NEW lv \in LogicalVolume,
           NEW new, new = [lv EXCEPT !.deleting = TRUE]
    PROVE  /\ SameCR(lv, new) /\ new.deleting /\ new.finalizer = lv.finalizer
           /\ new.volumeID = lv.volumeID /\ new.currentSize = lv.currentSize
    BY ZenonT(30) DEF LogicalVolume, SameCR

(* Dropping the finalizer changes nothing else. *)
LEMMA FinalizerDropped ==
    ASSUME NEW lv \in LogicalVolume,
           NEW new, new = [lv EXCEPT !.finalizer = FALSE]
    PROVE  /\ new \in LogicalVolume /\ ~new.finalizer
           /\ new.uid = lv.uid /\ new.deleting = lv.deleting
           /\ new.volumeID = lv.volumeID /\ new.currentSize = lv.currentSize
    BY ZenonT(30) DEF LogicalVolume

(* The updates a reconcile makes to its own copy keep the metadata. *)
LEMMA CopyUpdates ==
    ASSUME NEW lv \in LogicalVolume, NEW size \in Sizes
    PROVE  /\ LET new == [lv EXCEPT !.code = "Error"] IN
                SameCR(lv, new) /\ new.volumeID = lv.volumeID
                /\ new.currentSize = lv.currentSize
           /\ LET new == [lv EXCEPT !.volumeID = lv.uid, !.code = "OK"] IN
                SameCR(lv, new) /\ new.volumeID = lv.uid
                /\ new.currentSize = lv.currentSize
           /\ LET new == [lv EXCEPT !.volumeID = lv.uid, !.code = "OK",
                                    !.currentSize = lv.size] IN
                SameCR(lv, new) /\ new.volumeID = lv.uid
                /\ new.currentSize = lv.size
           /\ LET new == [lv EXCEPT !.code = "OK", !.currentSize = size] IN
                SameCR(lv, new) /\ new.volumeID = lv.volumeID
                /\ new.currentSize = size
    BY ZenonT(30) DEF LogicalVolume, SameCR

(* A new CR has neither a finalizer nor a volume. *)
LEMMA NewLVType ==
    ASSUME NEW uid \in UIDs
    PROVE  /\ NewLV(uid) \in LogicalVolume
           /\ NewLV(uid).uid = uid
           /\ ~NewLV(uid).finalizer /\ ~NewLV(uid).deleting
           /\ NewLV(uid).volumeID = None /\ NewLV(uid).currentSize = 0
    BY ClaimAssumption DEF LogicalVolume, NewLV

-----------------------------------------------------------------------------
(* The link between the reconcile's copy and the API, step by step *)

Links ==
    /\ FreshIsCurrent /\ CopiesAreUsed
    /\ LiveCopyHolds /\ FinalizerIsOfCopy /\ DeletingIsForever
    /\ CreatePathHolds /\ DeletePathSafe /\ RemovedBeforeFinalizer
    /\ NoOrphanLV

(* The reconcile is not involved, or it returns. *)
SameOrReturns == UNCHANGED <<rpc, rlv>> \/ (rpc' = "idle" /\ rlv' = None)

(* A step that at most writes a new version of the CR keeps the links; the *)
(* finalizer may only appear while the reconciler works on a copy without  *)
(* one.                                                                    *)
LEMMA NewVersion ==
    ASSUME NoOrphanInv, SameOrReturns, UNCHANGED <<ncache, ccache, used, lvm, missed>>,
           \/ UNCHANGED <<api, fresh>>
           \/ /\ api # None /\ SameCR(api, api')
              /\ fresh' = {} \/ (fresh' = fresh /\ api' = api)
              /\ \/ api'.finalizer = api.finalizer
                 \/ rpc = "idle" /\ ncache # None /\ ~ncache.finalizer
    PROVE  Links'
    <1> USE NoneAssumption DEF NoOrphanInv, SameCR
    <1>1. CASE UNCHANGED <<api, fresh>>
      <2>1. FreshIsCurrent' /\ CopiesAreUsed'
        BY <1>1 DEF FreshIsCurrent, CopiesAreUsed, SameOrReturns
      <2>2. LiveCopyHolds' /\ FinalizerIsOfCopy' /\ DeletingIsForever' /\ NoOrphanLV'
        BY <1>1 DEF LiveCopyHolds, FinalizerIsOfCopy, DeletingIsForever, NoOrphanLV, Holds
      <2>3. CreatePathHolds' /\ DeletePathSafe' /\ RemovedBeforeFinalizer'
        BY <1>1 DEF CreatePathHolds, DeletePathSafe, RemovedBeforeFinalizer,
                    SameOrReturns, Holds, CreatePath, DeletePath
      <2> QED BY <2>1, <2>2, <2>3 DEF Links
    <1>2. CASE api # None /\ SameCR(api, api')
      <2>0. /\ fresh' = {} \/ (fresh' = fresh /\ api' = api)
            /\ \/ api'.finalizer = api.finalizer
               \/ rpc = "idle" /\ ncache # None /\ ~ncache.finalizer
        BY <1>2 DEF FreshIsCurrent
      <2>1. FreshIsCurrent' /\ CopiesAreUsed'
        BY <1>2, <2>0 DEF FreshIsCurrent, CopiesAreUsed, SameOrReturns
      <2>2. LiveCopyHolds' /\ DeletingIsForever' /\ NoOrphanLV'
        BY <1>2 DEF LiveCopyHolds, DeletingIsForever, NoOrphanLV, Holds
      <2>3. FinalizerIsOfCopy'
        BY ZenonT(30), <1>2, <2>0 DEF FinalizerIsOfCopy
      <2>4. CreatePathHolds' /\ DeletePathSafe' /\ RemovedBeforeFinalizer'
        BY <1>2, <2>0 DEF CreatePathHolds, DeletePathSafe, RemovedBeforeFinalizer,
                    SameOrReturns, Holds, CreatePath, DeletePath
      <2> QED BY <2>1, <2>2, <2>3, <2>4 DEF Links
    <1> QED BY <1>1, <1>2

(* A CR without a finalizer may go: it has no volume. *)
LEMMA GoneUnfinalized ==
    ASSUME NoOrphanInv, SameOrReturns, UNCHANGED <<ncache, ccache, used, lvm, missed>>,
           api # None, ~api.finalizer, api' = None, fresh' = {}
    PROVE  Links'
    <1> USE NoneAssumption DEF NoOrphanInv
    <1>1. FreshIsCurrent' /\ CopiesAreUsed'
      BY DEF FreshIsCurrent, CopiesAreUsed, SameOrReturns
    <1>2. LiveCopyHolds' /\ FinalizerIsOfCopy' /\ DeletingIsForever' /\ NoOrphanLV'
      BY DEF LiveCopyHolds, FinalizerIsOfCopy, DeletingIsForever, NoOrphanLV, Holds
    <1>3. CreatePathHolds' /\ DeletePathSafe' /\ RemovedBeforeFinalizer'
      BY DEF CreatePathHolds, DeletePathSafe, RemovedBeforeFinalizer,
             SameOrReturns, Holds, CreatePath, DeletePath
    <1> QED BY <1>1, <1>2, <1>3 DEF Links

(* Steps of the reconciler that write to the API or merely return. *)
LEMMA ReconcilerWrites ==
    ASSUME NoOrphanInv,
           \/ ReconcileNothing \/ EnsureFinalizer \/ EnsureLabel
           \/ FailStatus \/ UpdateLVStatus \/ ExpandError \/ TimerFires
    PROVE  StoreTypeOK' /\ RecTypeOK' /\ Links'
    <1>0. TypeOK BY DEF NoOrphanInv
    <1>a. api # None => api \in LogicalVolume
      BY <1>0 DEF TypeOK, StoreTypeOK, Copy
    <1>b. rpc # "idle" => rlv \in LogicalVolume
      BY <1>0 DEF TypeOK, RecTypeOK, Copy
    <1>c. /\ (rpc = "failStatus" => api # None)
          /\ ("ncache" \in fresh /\ ncache # None => api # None)
      BY DEF NoOrphanInv, CreatePathHolds, CreatePath, Holds, FreshIsCurrent
    <1>d. ASSUME NEW new \in LogicalVolume, Put(new)
          PROVE  api' \in Copy /\ fresh' \in SUBSET Holders
      BY <1>0, <1>d DEF Put, TypeOK, StoreTypeOK, Copy
    <1>e. PICK size : size \in Sizes BY ClaimAssumption
    <1>1. CASE ReconcileNothing \/ TimerFires
      <2>1. StoreTypeOK' /\ RecTypeOK'
        BY ZenonT(30), <1>0, <1>1 DEF ReconcileNothing, TimerFires, storeVars, TypeOK,
                          StoreTypeOK, RecTypeOK
      <2>2. Links'
        BY <1>1, NewVersion DEF ReconcileNothing, TimerFires, storeVars, SameOrReturns
      <2> QED BY <2>1, <2>2
    <1>2. CASE EnsureFinalizer
      <2>1. api = None \/ SameCR(api, [api EXCEPT !.finalizer = TRUE])
        BY ZenonT(30), <1>a, <1>e, SpecUpdates
      <2>2. StoreTypeOK' /\ RecTypeOK'
        BY ZenonT(30), <1>0, <1>2, <1>d, <2>1
           DEF EnsureFinalizer, TypeOK, StoreTypeOK, RecTypeOK, SameCR
      <2>3. Links'
        BY ZenonT(30), <1>2, <2>1, NewVersion DEF EnsureFinalizer, Put, Idle, Live, SameOrReturns
      <2> QED BY <2>2, <2>3
    <1>3. CASE EnsureLabel
      <2>1. api = None \/ (/\ SameCR(api, [api EXCEPT !.label = TRUE])
                           /\ [api EXCEPT !.label = TRUE].finalizer = api.finalizer)
        BY ZenonT(30), <1>a, <1>e, SpecUpdates DEF LogicalVolume
      <2>2. StoreTypeOK' /\ RecTypeOK'
        BY ZenonT(30), <1>0, <1>3, <1>d, <2>1
           DEF EnsureLabel, TypeOK, StoreTypeOK, RecTypeOK, SameCR
      <2>3. Links'
        BY ZenonT(30), <1>3, <2>1, NewVersion DEF EnsureLabel, Put, SameOrReturns
      <2> QED BY <2>2, <2>3
    <1>4. CASE FailStatus \/ UpdateLVStatus \/ ExpandError
      <2>1. /\ rpc # "idle" /\ rpc' = "idle" /\ rlv' = None
            /\ queued' = queued /\ timer' \in BOOLEAN
            /\ UNCHANGED <<ncache, ccache, used, lvm, missed>>
            /\ faults' = faults \/ (faults > 0 /\ faults' = faults - 1)
            /\ \/ UNCHANGED <<api, fresh>>
               \/ api # None /\ Put(WithStatus(api, rlv))
        BY ZenonT(30), <1>0, <1>4, <1>c DEF FailStatus, UpdateLVStatus, ExpandError, WriteStatus,
                         Return, Fault, TypeOK, RecTypeOK
      <2>2. api = None \/ (/\ SameCR(api, WithStatus(api, rlv))
                           /\ WithStatus(api, rlv).finalizer = api.finalizer)
        BY <1>a, <1>b, <2>1, StatusUpdate
      <2>3. StoreTypeOK' /\ RecTypeOK'
        BY SMTT(60), <1>0, <1>d, <2>1, <2>2
           DEF TypeOK, StoreTypeOK, RecTypeOK, SameCR, Calls, Copy
      <2>4. Links'
        BY <2>1, <2>2, NewVersion DEF Put, SameOrReturns
      <2> QED BY <2>3, <2>4
    <1> QED BY <1>1, <1>2, <1>3, <1>4

(* Starting a reconcile from the cached copy. *)
LEMMA ReconcilerStarts ==
    ASSUME NoOrphanInv, StartCreate \/ StartExpand \/ StartDelete
    PROVE  StoreTypeOK' /\ RecTypeOK' /\ Links'
    <1>1. /\ UNCHANGED <<api, ncache, ccache, used, lvm, faults, timer, missed>>
          /\ rlv' = ncache /\ ncache # None /\ ncache.finalizer
          /\ queued' = FALSE
          /\ fresh' \in {fresh \cup {"rec"}, fresh \ {"rec"}}
          /\ \/ rpc' \in {"volumeExists", "ResizeLV"} /\ ~ncache.deleting
             \/ rpc' = "RemoveLV" /\ ncache.deleting
      BY DEF StartCreate, StartExpand, StartDelete, Begin, Live
    <1>2. StoreTypeOK' /\ RecTypeOK'
      BY ZenonT(30), <1>1 DEF NoOrphanInv, TypeOK, StoreTypeOK, RecTypeOK, Holders, Calls
    <1>3. FreshIsCurrent' /\ CopiesAreUsed'
      BY <1>1 DEF NoOrphanInv, FreshIsCurrent, CopiesAreUsed
    <1>4. LiveCopyHolds' /\ FinalizerIsOfCopy' /\ DeletingIsForever' /\ NoOrphanLV'
      BY <1>1 DEF NoOrphanInv, LiveCopyHolds, FinalizerIsOfCopy, DeletingIsForever,
                  NoOrphanLV, Holds
    <1>5. CreatePathHolds' /\ DeletePathSafe' /\ RemovedBeforeFinalizer'
      BY <1>1 DEF NoOrphanInv, CreatePathHolds, DeletePathSafe, RemovedBeforeFinalizer,
                  LiveCopyHolds, FinalizerIsOfCopy, DeletingIsForever,
                  Holds, CreatePath, DeletePath
    <1> QED BY <1>2, <1>3, <1>4, <1>5 DEF Links

(* The calls to lvmd of createLV and expandLV. *)
LEMMA CreateCalls ==
    ASSUME NoOrphanInv, VolumeExists \/ CreateLV \/ ResizeLV
    PROVE  StoreTypeOK' /\ RecTypeOK' /\ Links'
    <1>0. TypeOK BY DEF NoOrphanInv
    <1>1. rpc \in CreatePath /\ rlv \in LogicalVolume /\ Holds(rlv.uid)
      BY <1>0 DEF NoOrphanInv, CreatePathHolds, CreatePath, VolumeExists, CreateLV,
                  ResizeLV, TypeOK, RecTypeOK, Copy
    <1>2. rlv.uid \in UIDs /\ rlv.size \in Sizes BY <1>1, Fields
    <1>3. Grown(rlv.uid, rlv.size) \in Sizes
      <2>1. lvm[rlv.uid] \in Sizes \cup {0}
        BY <1>0, <1>2 DEF TypeOK, StoreTypeOK
      <2>2. rlv.size \in Nat \ {0} BY ZenonT(30), <1>2, StoreAssumption
      <2>3. rlv.size <= lvm[rlv.uid] => lvm[rlv.uid] # 0 BY <2>2
      <2> QED BY <1>2, <2>1, <2>3 DEF Grown
    <1>4. /\ UNCHANGED <<api, ncache, ccache, fresh, used, queued, timer, missed>>
          /\ faults' = faults \/ (faults > 0 /\ faults' = faults - 1)
          /\ rpc' \in CreatePath
          /\ SameCR(rlv, rlv')
          /\ \E n \in Sizes : lvm' = lvm \/ lvm' = [lvm EXCEPT ![rlv.uid] = n]
      <2>1. CASE VolumeExists
        <3>1. rlv' \in {[rlv EXCEPT !.volumeID = rlv.uid, !.code = "OK"],
                        rlv, [rlv EXCEPT !.code = "Error"]}
          BY <2>1 DEF VolumeExists, Continue
        <3>2. SameCR(rlv, rlv')
          <4>1. /\ SameCR(rlv, [rlv EXCEPT !.volumeID = rlv.uid, !.code = "OK"])
                /\ SameCR(rlv, [rlv EXCEPT !.code = "Error"])
            <5>1. rlv \in LogicalVolume /\ rlv.size \in Sizes
              BY <1>1, <1>2, Fields
            <5> QED BY ZenonT(30), <5>1, CopyUpdates
          <4>2. SameCR(rlv, rlv)
            BY <1>1, <1>2 DEF SameCR
          <4> QED BY ZenonT(30), <3>1, <4>1, <4>2
        <3> QED BY <1>2, <2>1, <3>2
              DEF VolumeExists, Continue, CreatePath, storeVars, Fault
      <2>2. CASE CreateLV
        <3>1. rlv' \in {[rlv EXCEPT !.volumeID = rlv.uid, !.code = "OK",
                                    !.currentSize = rlv.size],
                        [rlv EXCEPT !.code = "Error"]}
          BY <2>2 DEF CreateLV, Continue
        <3>2. SameCR(rlv, rlv')
          BY ZenonT(30), <1>1, <1>2, <3>1, CopyUpdates
        <3>3. Effect = [lvm EXCEPT ![rlv.uid] = rlv.size]
          BY <2>2 DEF CreateLV, Effect
        <3> QED BY <1>2, <2>2, <3>2, <3>3 DEF CreateLV, Continue, CreatePath, Fault
      <2>3. CASE ResizeLV
        <3>1. rlv' \in {[rlv EXCEPT !.code = "OK", !.currentSize = Grown(rlv.uid, rlv.size)],
                        [rlv EXCEPT !.code = "Error"]}
          BY <2>3 DEF ResizeLV, Continue
        <3>2. SameCR(rlv, rlv')
          BY ZenonT(60), <1>1, <1>3, <3>1, CopyUpdates
        <3>3. Effect \in {lvm, [lvm EXCEPT ![rlv.uid] = Grown(rlv.uid, rlv.size)]}
          BY <2>3 DEF ResizeLV, Effect
        <3> QED BY <1>3, <2>3, <3>2, <3>3 DEF ResizeLV, Continue, CreatePath, Fault
      <2> QED BY <2>1, <2>2, <2>3
    <1>5. StoreTypeOK' /\ RecTypeOK'
      <2>1. lvm' \in [UIDs -> Sizes \cup {0}]
        BY <1>0, <1>4 DEF TypeOK, StoreTypeOK
      <2>2. faults' \in Nat
        BY <1>0, <1>4 DEF TypeOK, StoreTypeOK
      <2> QED BY <1>0, <1>4, <2>1, <2>2, NoneAssumption
            DEF TypeOK, StoreTypeOK, RecTypeOK, SameCR, Copy, Calls, CreatePath
    <1>6. FreshIsCurrent' /\ CopiesAreUsed'
      BY <1>1, <1>4, NoneAssumption DEF NoOrphanInv, FreshIsCurrent, CopiesAreUsed, SameCR
    <1>7. LiveCopyHolds' /\ FinalizerIsOfCopy' /\ DeletingIsForever'
      BY <1>4 DEF NoOrphanInv, LiveCopyHolds, FinalizerIsOfCopy, DeletingIsForever, Holds
    <1>8. CreatePathHolds' /\ DeletePathSafe' /\ RemovedBeforeFinalizer'
      BY <1>1, <1>4 DEF CreatePathHolds, DeletePathSafe, RemovedBeforeFinalizer,
                        Holds, CreatePath, DeletePath, SameCR
    <1>9. NoOrphanLV'
      BY <1>0, <1>1, <1>2, <1>4 DEF NoOrphanInv, NoOrphanLV, Holds, TypeOK, StoreTypeOK
    <1> QED BY <1>5, <1>6, <1>7, <1>8, <1>9 DEF Links

(* Removing the volume, then the finalizer. *)
LEMMA DeleteCalls ==
    ASSUME NoOrphanInv, RemoveLV \/ RemoveFinalizer
    PROVE  StoreTypeOK' /\ RecTypeOK' /\ Links'
    <1>0. TypeOK BY DEF NoOrphanInv
    <1>a. rpc \in DeletePath /\ rlv \in LogicalVolume
      BY ZenonT(30), <1>0 DEF RemoveLV, RemoveFinalizer, TypeOK, RecTypeOK, Copy, DeletePath
    <1>b. rlv.uid \in UIDs BY <1>a, Fields
    <1>1. CASE RemoveLV
      <2>1. /\ UNCHANGED <<api, ncache, ccache, fresh, used, queued>>
            /\ timer' \in BOOLEAN
            /\ faults' = faults \/ (faults > 0 /\ faults' = faults - 1)
            /\ lvm' \in {lvm, [lvm EXCEPT ![rlv.uid] = 0]}
            /\ \/ /\ rpc' = "removeFinalizer" /\ rlv' = rlv
                  /\ \/ lvm' = [lvm EXCEPT ![rlv.uid] = 0] /\ missed' = missed
                     \/ lvm' = lvm /\ missed' = missed \cup {rlv.uid}
               \/ rpc' = "idle" /\ rlv' = None /\ missed' = missed
        BY ZenonT(30), <1>0, <1>1 DEF RemoveLV, Effect, Continue, Return, Fault, TypeOK, RecTypeOK
      <2>2. StoreTypeOK' /\ RecTypeOK'
        <3>1. lvm' \in [UIDs -> Sizes \cup {0}] /\ faults' \in Nat
          BY <1>0, <2>1 DEF TypeOK, StoreTypeOK
        <3> QED BY SMTT(60), <1>0, <1>a, <1>b, <2>1, <3>1, NoneAssumption
              DEF TypeOK, StoreTypeOK, RecTypeOK, Copy, Calls
      <2>3. FreshIsCurrent' /\ CopiesAreUsed' /\ LiveCopyHolds' /\ FinalizerIsOfCopy'
            /\ DeletingIsForever'
        BY ZenonT(30), <2>1 DEF NoOrphanInv, FreshIsCurrent, CopiesAreUsed, LiveCopyHolds,
                    FinalizerIsOfCopy, DeletingIsForever, Holds
      <2>4. CreatePathHolds' /\ DeletePathSafe' /\ RemovedBeforeFinalizer'
        BY ZenonT(30), <1>0, <1>a, <1>b, <2>1
           DEF NoOrphanInv, CreatePathHolds, DeletePathSafe, RemovedBeforeFinalizer,
               Holds, CreatePath, DeletePath, TypeOK, StoreTypeOK
      <2>5. NoOrphanLV'
        BY ZenonT(30), <1>0, <1>b, <2>1 DEF NoOrphanInv, NoOrphanLV, TypeOK, StoreTypeOK
      <2> QED BY <2>2, <2>3, <2>4, <2>5 DEF Links
    <1>2. CASE RemoveFinalizer
      <2>1. /\ UNCHANGED <<ncache, ccache, used, lvm, queued, missed>>
            /\ timer' \in BOOLEAN
            /\ faults' = faults \/ (faults > 0 /\ faults' = faults - 1)
            /\ rpc = "removeFinalizer" /\ rpc' = "idle" /\ rlv' = None
        BY ZenonT(30), <1>0, <1>2 DEF RemoveFinalizer, Return, Fault, TypeOK, RecTypeOK
      <2>2. \/ UNCHANGED <<api, fresh>>
            \/ /\ api # None /\ HasFinalizer(ncache)
               /\ Put(IF api.deleting THEN None ELSE [api EXCEPT !.finalizer = FALSE])
        BY ZenonT(30), <1>2 DEF RemoveFinalizer, DropFinalizer
      <2>3. CASE UNCHANGED <<api, fresh>>
        <3>1. StoreTypeOK' /\ RecTypeOK'
          BY SMTT(60), <1>0, <2>1, <2>3 DEF TypeOK, StoreTypeOK, RecTypeOK, Calls, Copy
        <3> QED BY <2>1, <2>3, <3>1, NewVersion DEF SameOrReturns
      <2>4. CASE /\ api # None /\ HasFinalizer(ncache)
                 /\ Put(IF api.deleting THEN None ELSE [api EXCEPT !.finalizer = FALSE])
        <3>1. api \in LogicalVolume /\ api.uid \in UIDs /\ api.finalizer \in BOOLEAN
          BY <1>0, <2>4, Fields DEF TypeOK, StoreTypeOK, Copy
        <3>2. lvm[api.uid] = 0 \/ api.uid \in missed
          BY ZenonT(30), <1>a, <2>1, <3>1
             DEF NoOrphanInv, NoOrphanLV, DeletePathSafe, RemovedBeforeFinalizer
        <3>3. \A u \in UIDs \ missed : lvm[u] = 0
          BY <3>2 DEF NoOrphanInv, NoOrphanLV
        <3>4. ncache.deleting
          BY <1>a, <2>4 DEF NoOrphanInv, LiveCopyHolds, Holds, DeletePathSafe, HasFinalizer
        <3>5. \/ api' = None
              \/ /\ api' \in LogicalVolume /\ ~api'.finalizer
                 /\ api'.uid = api.uid /\ api'.deleting = api.deleting
          BY <2>4, <3>1, FinalizerDropped DEF Put
        <3>6. fresh' = IF api' = api THEN fresh ELSE {}
          BY <2>4 DEF Put
        <3>7. StoreTypeOK' /\ RecTypeOK'
          BY SMTT(60), <1>0, <2>1, <3>5, <3>6 DEF TypeOK, StoreTypeOK, RecTypeOK, Calls, Copy
        <3>8. FreshIsCurrent' /\ CopiesAreUsed'
          BY <2>1, <2>4, <3>5, <3>6 DEF NoOrphanInv, FreshIsCurrent, CopiesAreUsed
        <3>9. LiveCopyHolds' /\ FinalizerIsOfCopy' /\ NoOrphanLV'
          BY ZenonT(30), <2>1, <3>3, <3>4, <3>5 DEF LiveCopyHolds, FinalizerIsOfCopy, NoOrphanLV
        <3>10. DeletingIsForever'
          BY <2>1, <2>4, <3>5 DEF NoOrphanInv, DeletingIsForever
        <3>11. CreatePathHolds' /\ DeletePathSafe' /\ RemovedBeforeFinalizer'
          BY <2>1 DEF CreatePathHolds, DeletePathSafe, RemovedBeforeFinalizer,
                      CreatePath, DeletePath
        <3> QED BY <3>7, <3>8, <3>9, <3>10, <3>11 DEF Links
      <2> QED BY <2>2, <2>3, <2>4
    <1> QED BY <1>1, <1>2

(* What a call that is cut short may leave in LVM. *)
LEMMA EffectIsSafe ==
    ASSUME NoOrphanInv
    PROVE  /\ Effect \in [UIDs -> Sizes \cup {0}]
           /\ \A u \in UIDs \ missed : Effect[u] # 0 => Holds(u)
    <1>0. TypeOK /\ NoOrphanLV BY DEF NoOrphanInv
    <1>1. CASE rpc \notin {"CreateLV", "ResizeLV", "RemoveLV"}
      BY <1>0, <1>1 DEF Effect, TypeOK, StoreTypeOK, NoOrphanLV, Holds
    <1>2. CASE rpc \in {"CreateLV", "ResizeLV", "RemoveLV"}
      <2>1. rlv \in LogicalVolume /\ rlv.uid \in UIDs /\ rlv.size \in Sizes
        BY <1>0, <1>2, Fields DEF TypeOK, RecTypeOK, Copy
      <2>2. rpc # "RemoveLV" => Holds(rlv.uid)
        BY <1>2 DEF NoOrphanInv, CreatePathHolds, CreatePath
      <2>3. lvm \in [UIDs -> Sizes \cup {0}] /\ lvm[rlv.uid] \in Sizes \cup {0}
        BY <1>0, <2>1 DEF TypeOK, StoreTypeOK
      <2>4. PICK n \in Sizes \cup {0} :
               /\ Effect = lvm \/ Effect = [lvm EXCEPT ![rlv.uid] = n]
               /\ n # 0 => Holds(rlv.uid)
        BY ZenonT(30), <1>2, <2>1, <2>2, <2>3 DEF Effect, Grown
      <2> QED BY <1>0, <2>1, <2>3, <2>4 DEF NoOrphanLV, Holds
    <1> QED BY <1>1, <1>2

(* The watch of topolvm-node, and its restart. *)
LEMMA NodeEvents ==
    ASSUME NoOrphanInv, NodeCacheSync \/ NodeRestart
    PROVE  StoreTypeOK' /\ RecTypeOK' /\ Links'
    <1>0. TypeOK BY DEF NoOrphanInv
    <1>1. CASE NodeCacheSync
      <2>1. /\ UNCHANGED <<api, ccache, used, lvm, faults, timer, rpc, rlv, missed>>
            /\ ncache' = api /\ queued' = TRUE /\ fresh' = fresh \cup {"ncache"}
        BY <1>1 DEF NodeCacheSync
      <2>2. StoreTypeOK' /\ RecTypeOK'
        BY <1>0, <2>1 DEF TypeOK, StoreTypeOK, RecTypeOK, Holders
      <2>3. FreshIsCurrent' /\ CopiesAreUsed'
        BY <2>1 DEF NoOrphanInv, FreshIsCurrent, CopiesAreUsed
      <2>4. LiveCopyHolds' /\ FinalizerIsOfCopy' /\ DeletingIsForever' /\ NoOrphanLV'
        BY ZenonT(30), <2>1 DEF NoOrphanInv, LiveCopyHolds, FinalizerIsOfCopy, DeletingIsForever,
                    NoOrphanLV, Holds
      <2>5. CreatePathHolds' /\ DeletePathSafe' /\ RemovedBeforeFinalizer'
        BY ZenonT(30), <2>1 DEF NoOrphanInv, CreatePathHolds, DeletePathSafe,
                    RemovedBeforeFinalizer, Holds, CreatePath, DeletePath
      <2> QED BY <2>2, <2>3, <2>4, <2>5 DEF Links
    <1>2. CASE NodeRestart
      <2>1. /\ UNCHANGED <<api, ccache, used, missed>>
            /\ ncache' = api /\ fresh' = (fresh \ {"rec"}) \cup {"ncache"}
            /\ lvm' \in {lvm, Effect}
            /\ rpc' = "idle" /\ rlv' = None
            /\ queued' = (api # None) /\ timer' = FALSE
            /\ faults > 0 /\ faults' = faults - 1
        BY <1>2 DEF NodeRestart, Fault
      <2>2. StoreTypeOK' /\ RecTypeOK'
        <3>1. lvm' \in [UIDs -> Sizes \cup {0}]
          BY <1>0, <2>1, EffectIsSafe DEF TypeOK, StoreTypeOK
        <3>2. faults' \in Nat BY <1>0, <2>1 DEF TypeOK, StoreTypeOK
        <3> QED BY ZenonT(30), <1>0, <2>1, <3>1, <3>2
              DEF TypeOK, StoreTypeOK, RecTypeOK, Holders, Calls, Copy
      <2>3. FreshIsCurrent' /\ CopiesAreUsed'
        BY <2>1 DEF NoOrphanInv, FreshIsCurrent, CopiesAreUsed
      <2>4. LiveCopyHolds' /\ FinalizerIsOfCopy' /\ DeletingIsForever'
        BY <2>1 DEF LiveCopyHolds, FinalizerIsOfCopy, DeletingIsForever, Holds
      <2>5. NoOrphanLV'
        BY <2>1, EffectIsSafe DEF NoOrphanInv, NoOrphanLV, Holds
      <2>6. CreatePathHolds' /\ DeletePathSafe' /\ RemovedBeforeFinalizer'
        BY <2>1 DEF CreatePathHolds, DeletePathSafe, RemovedBeforeFinalizer,
                    CreatePath, DeletePath
      <2> QED BY <2>2, <2>3, <2>4, <2>5, <2>6 DEF Links
    <1> QED BY <1>1, <1>2

(* The controller's cache plays no part in the links. *)
LEMMA ControllerEvents ==
    ASSUME NoOrphanInv, UNCHANGED recVars,
           CreateVolumePanic \/ ControllerRestart \/ ControllerCacheSync
    PROVE  TypeOK' /\ Links'
    <1>0. TypeOK BY DEF NoOrphanInv
    <1>1. /\ UNCHANGED <<api, ncache, used, lvm, queued, timer, rpc, rlv, missed>>
          /\ ccache' = api /\ fresh' = fresh \cup {"ccache"}
          /\ faults' = faults \/ (faults > 0 /\ faults' = faults - 1)
      BY DEF CreateVolumePanic, ControllerRestart, ControllerDies, ControllerCacheSync,
             Fault, recVars
    <1>2. StoreTypeOK' /\ RecTypeOK'
      <2>1. faults' \in Nat BY <1>0, <1>1 DEF TypeOK, StoreTypeOK
      <2> QED BY <1>0, <1>1, <2>1 DEF TypeOK, StoreTypeOK, RecTypeOK, Holders
    <1>3. CSITypeOK'
      BY ZenonT(30), <1>0 DEF TypeOK, CSITypeOK, CreateVolumePanic, ControllerRestart,
                  ControllerDies, ControllerCacheSync, csiVars
    <1>4. FreshIsCurrent' /\ CopiesAreUsed'
      BY <1>1 DEF NoOrphanInv, FreshIsCurrent, CopiesAreUsed
    <1>5. LiveCopyHolds' /\ FinalizerIsOfCopy' /\ DeletingIsForever' /\ NoOrphanLV'
      BY ZenonT(30), <1>1 DEF NoOrphanInv, LiveCopyHolds, FinalizerIsOfCopy, DeletingIsForever,
                  NoOrphanLV, Holds
    <1>6. CreatePathHolds' /\ DeletePathSafe' /\ RemovedBeforeFinalizer'
      BY ZenonT(30), <1>1 DEF NoOrphanInv, CreatePathHolds, DeletePathSafe, RemovedBeforeFinalizer,
                  Holds, CreatePath, DeletePath
    <1> QED BY <1>2, <1>3, <1>4, <1>5, <1>6 DEF Links, TypeOK

(* CSI steps that leave the store alone. *)
LEMMA CSILocal ==
    ASSUME NoOrphanInv, UNCHANGED recVars,
           \/ CallCreateVolume \/ CreateVolumeOK \/ CallExpandVolume
           \/ ExpandVolumeEnds \/ CallDeleteVolume \/ DeleteWait \/ Timeout
    PROVE  TypeOK' /\ Links'
    <1>0. TypeOK BY DEF NoOrphanInv
    <1>1. /\ UNCHANGED <<api, ncache, ccache, fresh, used, lvm, rpc, rlv, queued, timer, missed>>
          /\ faults' = faults \/ (faults > 0 /\ faults' = faults - 1)
      BY ZenonT(30) DEF CallCreateVolume, CreateVolumeOK, CallExpandVolume, ExpandVolumeEnds,
             CallDeleteVolume, DeleteWait, Timeout, Fault, storeVars, recVars
    <1>2. StoreTypeOK' /\ RecTypeOK'
      <2>1. faults' \in Nat BY <1>0, <1>1 DEF TypeOK, StoreTypeOK
      <2> QED BY <1>0, <1>1, <2>1 DEF TypeOK, StoreTypeOK, RecTypeOK
    <1>3. Links' BY <1>1, NewVersion DEF SameOrReturns
    <1>a. \A lv \in LogicalVolume : /\ lv.size \in Sizes
                                    /\ lv.volumeID \in UIDs \cup {None}
                                    /\ lv.currentSize \in Sizes \cup {0}
      BY Fields
    <1>b. (Get # None => Get \in LogicalVolume)
          /\ (GetVolume(pv) # None => GetVolume(pv) \in LogicalVolume)
      BY <1>0 DEF TypeOK, StoreTypeOK, Copy, Get, GetVolume, InCache
    <1>4. CSITypeOK'
      <2>1. CASE CallCreateVolume \/ CallDeleteVolume \/ Timeout
        BY ZenonT(30), <1>0, <2>1 DEF TypeOK, CSITypeOK, CallCreateVolume, CallDeleteVolume,
                          Timeout, EndExpand
      <2>2. CASE CreateVolumeOK
        BY ZenonT(30), <1>0, <1>a, <1>b, <2>2 DEF TypeOK, CSITypeOK, CreateVolumeOK
      <2>3. CASE CallExpandVolume
        <3>1. pvSize' \in Sizes \cup {0} /\ request' \in Sizes \cup {0}
              /\ volOp' \in {volOp, "expand"}
              /\ (volOp' = "expand" => request' # 0)
          BY ZenonT(30), <1>0, <1>a, <1>b, <2>3, StoreAssumption DEF TypeOK, CSITypeOK, CallExpandVolume
        <3>2. expands' \in Nat
          <4>1. expands \in Nat
            BY ZenonT(30), <1>0 DEF TypeOK, CSITypeOK
          <4>2. expands > 0 /\ expands' = expands - 1
            BY ZenonT(30), <2>3 DEF CallExpandVolume
          <4> QED BY <4>1, <4>2
        <3> QED BY ZenonT(30), <1>0, <2>3, <3>1, <3>2 DEF TypeOK, CSITypeOK, CallExpandVolume
      <2>4. CASE ExpandVolumeEnds
        BY ZenonT(30), <1>0, <1>a, <1>b, <2>4 DEF TypeOK, CSITypeOK, ExpandVolumeEnds, EndExpand
      <2>5. CASE DeleteWait
        <3>1. pv \in UIDs
          BY ZenonT(30), <1>0, <2>5 DEF NoOrphanInv, TypeOK, CSITypeOK, DeleteWait
        <3> QED BY <1>0, <2>5, <3>1 DEF TypeOK, CSITypeOK, DeleteWait, ReportDeleted
      <2> QED BY <2>1, <2>2, <2>3, <2>4, <2>5
    <1> QED BY <1>2, <1>3, <1>4 DEF TypeOK

(* CreateVolume creates the CR. *)
LEMMA CSICreate ==
    ASSUME NoOrphanInv, UNCHANGED recVars, Create
    PROVE  TypeOK' /\ Links'
    <1>0. TypeOK BY DEF NoOrphanInv
    <1>1. CSITypeOK' /\ RecTypeOK'
      BY ZenonT(30), <1>0 DEF TypeOK, CSITypeOK, RecTypeOK, Create, recVars
    <1>2. CASE Get # None
      <2>1. UNCHANGED <<api, ncache, ccache, fresh, used, lvm, faults, rpc, rlv, missed>>
        BY <1>2 DEF Create, recVars
      <2>2. StoreTypeOK' BY <1>0, <2>1 DEF TypeOK, StoreTypeOK
      <2>3. Links' BY <2>1, NewVersion DEF SameOrReturns
      <2> QED BY <1>1, <2>2, <2>3 DEF TypeOK
    <1>3. CASE Get = None
      <2>1. api = None /\ ccache = None BY <1>3 DEF Get
      <2>2. PICK uid \in UIDs \ used : Put(NewLV(uid)) /\ used' = used \cup {uid}
        BY <1>3 DEF Create
      <2>3. /\ api' \in LogicalVolume /\ api'.uid = uid
            /\ ~api'.finalizer /\ ~api'.deleting
            /\ api' # None /\ fresh' = {}
        BY <2>1, <2>2, NewLVType, NoneAssumption DEF Put
      <2>4. UNCHANGED <<ncache, ccache, lvm, faults, rpc, rlv, missed>>
        BY DEF Create, recVars
      <2>5. StoreTypeOK'
        BY ZenonT(30), <1>0, <2>2, <2>3, <2>4 DEF TypeOK, StoreTypeOK, Copy
      <2>6. FreshIsCurrent' /\ CopiesAreUsed'
        BY ZenonT(30), <2>2, <2>3, <2>4 DEF NoOrphanInv, FreshIsCurrent, CopiesAreUsed
      <2>7. LiveCopyHolds' /\ FinalizerIsOfCopy' /\ NoOrphanLV'
        BY ZenonT(30), <2>1, <2>3, <2>4 DEF NoOrphanInv, LiveCopyHolds, FinalizerIsOfCopy,
                                NoOrphanLV, Holds
      <2>8. DeletingIsForever'
        BY ZenonT(30), <2>2, <2>3, <2>4 DEF NoOrphanInv, DeletingIsForever, CopiesAreUsed
      <2>9. CreatePathHolds' /\ RemovedBeforeFinalizer'
        BY ZenonT(30), <2>1, <2>4 DEF NoOrphanInv, CreatePathHolds, RemovedBeforeFinalizer, Holds
      <2>10. DeletePathSafe'
        <3>1. rpc \in DeletePath => rlv # None /\ rlv.uid \in used
          BY <1>0 DEF NoOrphanInv, CopiesAreUsed, TypeOK, RecTypeOK, DeletePath
        <3> QED BY ZenonT(30), <2>2, <2>3, <2>4, <3>1 DEF NoOrphanInv, DeletePathSafe
      <2> QED BY <1>1, <2>5, <2>6, <2>7, <2>8, <2>9, <2>10 DEF Links, TypeOK
    <1> QED BY <1>2, <1>3

(* CSI steps that update or delete the CR. *)
LEMMA CSIWrites ==
    ASSUME NoOrphanInv, UNCHANGED recVars,
           CreateVolumeError \/ UpdateSpecSize \/ DeleteVolume
    PROVE  TypeOK' /\ Links'
    <1>0. TypeOK BY DEF NoOrphanInv
    <1>a. api # None => api \in LogicalVolume
      BY <1>0 DEF TypeOK, StoreTypeOK, Copy
    <1>1. /\ UNCHANGED <<ncache, ccache, used, lvm, rpc, rlv, queued, timer, missed>>
          /\ faults' = faults \/ (faults > 0 /\ faults' = faults - 1)
      BY DEF CreateVolumeError, UpdateSpecSize, DeleteVolume, Fault, recVars
    <1>2. CSITypeOK' /\ RecTypeOK'
      <2>1. CASE CreateVolumeError \/ UpdateSpecSize
        BY <1>0, <1>1, <2>1 DEF TypeOK, CSITypeOK, RecTypeOK, CreateVolumeError,
                                UpdateSpecSize, EndExpand
      <2>2. CASE DeleteVolume
        <3>1. pv \in UIDs BY ZenonT(30), <1>0, <2>2 DEF TypeOK, CSITypeOK, DeleteVolume
        <3> QED BY ZenonT(30), <1>0, <1>1, <2>2, <3>1 DEF TypeOK, CSITypeOK, RecTypeOK,
                                DeleteVolume, ReportDeleted
      <2> QED BY <2>1, <2>2
    <1>3. \/ UNCHANGED <<api, fresh>>
          \/ api # None /\ ~api.finalizer /\ api' = None /\ fresh' = {}
          \/ /\ api # None /\ SameCR(api, api') /\ api'.finalizer = api.finalizer
             /\ fresh' = {} \/ (fresh' = fresh /\ api' = api)
      <2>1. CASE UNCHANGED <<api, fresh>> BY <2>1
      <2>2. CASE DeleteCR
        <3>1. api # None => SameCR(api, [api EXCEPT !.deleting = TRUE])
              /\ [api EXCEPT !.deleting = TRUE].finalizer = api.finalizer
          BY <1>a, DeletingUpdate
        <3> QED BY ZenonT(30), <2>2, <3>1 DEF DeleteCR, Put
      <2>3. CASE UpdateSpecSize /\ GetVolume(pv) # None
        <3>1. api # None
          BY <2>3 DEF UpdateSpecSize, GetVolume, InCache, NoOrphanInv, FreshIsCurrent
        <3>2. request \in Sizes
          BY <1>0, <2>3 DEF TypeOK, CSITypeOK, UpdateSpecSize
        <3>3. SameCR(api, [api EXCEPT !.size = request])
              /\ [api EXCEPT !.size = request].finalizer = api.finalizer
          BY ZenonT(30), <1>a, <3>1, <3>2, SpecUpdates DEF LogicalVolume
        <3> QED BY ZenonT(30), <2>3, <3>1, <3>3 DEF UpdateSpecSize
      <2> QED BY <2>1, <2>2, <2>3 DEF CreateVolumeError, UpdateSpecSize, DeleteVolume
    <1>4. StoreTypeOK'
      <2>1. faults' \in Nat BY SMTT(60), <1>0, <1>1 DEF TypeOK, StoreTypeOK
      <2> QED BY ZenonT(30), <1>0, <1>1, <1>3, <2>1 DEF TypeOK, StoreTypeOK, Copy, SameCR
    <1>5. Links'
      BY ZenonT(30), <1>1, <1>3, NewVersion, GoneUnfinalized DEF SameOrReturns
    <1> QED BY <1>2, <1>4, <1>5 DEF TypeOK

-----------------------------------------------------------------------------
(* The invariant of the volume's life cycle *)

(* Every initial state satisfies the invariant. *)
LEMMA InitNoOrphan == Init => NoOrphanInv
    <1> SUFFICES ASSUME Init PROVE NoOrphanInv OBVIOUS
    <1>1. TypeOK
      BY ZenonT(30), StoreAssumption, ClaimAssumption
         DEF Init, StoreInit, RecInit, CSIInit, TypeOK, StoreTypeOK, RecTypeOK,
             CSITypeOK, Copy, Holders, Calls
    <1>2. FreshIsCurrent /\ CopiesAreUsed /\ LiveCopyHolds /\ FinalizerIsOfCopy
          /\ DeletingIsForever
      BY DEF Init, StoreInit, RecInit, FreshIsCurrent, CopiesAreUsed, LiveCopyHolds,
             FinalizerIsOfCopy, DeletingIsForever
    <1>3. CreatePathHolds /\ DeletePathSafe /\ RemovedBeforeFinalizer /\ NoOrphanLV
      BY DEF Init, StoreInit, RecInit, CreatePathHolds, DeletePathSafe,
             RemovedBeforeFinalizer, NoOrphanLV, CreatePath, DeletePath
    <1> QED BY <1>1, <1>2, <1>3 DEF NoOrphanInv

(* Every step preserves it. *)
LEMMA StepNoOrphan ==
    ASSUME NoOrphanInv, [Next]_vars
    PROVE  NoOrphanInv'
    <1>1. CASE RecNext /\ UNCHANGED csiVars
      <2>1. CSITypeOK' BY ZenonT(30), <1>1 DEF NoOrphanInv, TypeOK, CSITypeOK, csiVars
      <2>2. StoreTypeOK' /\ RecTypeOK' /\ Links'
        BY <1>1, ReconcilerWrites, ReconcilerStarts, CreateCalls, DeleteCalls, NodeEvents
           DEF RecNext, ReconcileStep
      <2> QED BY <2>1, <2>2 DEF NoOrphanInv, Links, TypeOK
    <1>2. CASE CSINext /\ UNCHANGED recVars
      <2>1. TypeOK' /\ Links'
        BY <1>2, CSILocal, CSICreate, CSIWrites, ControllerEvents DEF CSINext, CSIProgress
      <2> QED BY <2>1 DEF NoOrphanInv, Links
    <1>3. CASE UNCHANGED vars
      <2>1. UNCHANGED <<api, ncache, ccache, fresh, used, lvm, rpc, rlv, missed>>
        BY <1>3 DEF vars, storeVars, recVars
      <2>2. Links' BY <2>1, NewVersion DEF SameOrReturns
      <2>3. TypeOK'
        <3>0. TypeOK BY DEF NoOrphanInv
        <3>1. StoreTypeOK' BY <1>3, <3>0 DEF TypeOK, StoreTypeOK, vars, storeVars
        <3>2. RecTypeOK' BY <1>3, <3>0 DEF TypeOK, RecTypeOK, vars, recVars
        <3>3. CSITypeOK' BY ZenonT(30), <1>3, <3>0 DEF TypeOK, CSITypeOK, vars, csiVars
        <3> QED BY <3>1, <3>2, <3>3 DEF TypeOK
      <2> QED BY <2>2, <2>3 DEF NoOrphanInv, Links
    <1> QED BY <1>1, <1>2, <1>3 DEF Next

(* Type correctness and the links between the copies of the CR hold in     *)
(* every reachable state.                                                  *)
THEOREM NoOrphanInvariant == Spec => []NoOrphanInv
    <1>1. Init => NoOrphanInv BY InitNoOrphan
    <1>2. NoOrphanInv /\ [Next]_vars => NoOrphanInv' BY StepNoOrphan
    <1> QED BY <1>1, <1>2, PTL DEF Spec

(* TypeOK: every variable keeps its type. *)
THEOREM TypeCorrect == Spec => []TypeOK
    <1>1. NoOrphanInv => TypeOK BY DEF NoOrphanInv
    <1> QED BY <1>1, NoOrphanInvariant, PTL

(* NoOrphanLV: as long as an LVM volume exists that lvmd did not lose      *)
(* sight of, its LogicalVolume exists and holds the finalizer.             *)
THEOREM NoOrphan == Spec => []NoOrphanLV
    <1>1. NoOrphanInv => NoOrphanLV BY DEF NoOrphanInv
    <1> QED BY <1>1, NoOrphanInvariant, PTL

-----------------------------------------------------------------------------
(* Refinement, statuses and VolumeIDs *)

(* A VolumeID is the CR's UID; a CurrentSize is only there with it. *)
Sane(lv) == lv # None => /\ lv.volumeID \in {None, lv.uid}
                         /\ lv.volumeID = None => lv.currentSize = 0

VolumeIDIsUID == Sane(api) /\ Sane(ncache) /\ Sane(ccache) /\ Sane(rlv)

(* What a copy promises holds as long as the CR is not being deleted. *)
Backed(lv) ==
    (lv # None /\ ~lv.deleting /\ lv.volumeID # None) =>
        lvm[lv.uid] # 0 /\ lv.currentSize <= lvm[lv.uid]

CopiesAreBacked == Backed(api) /\ Backed(ncache)

(* A cached VolumeID is still there. *)
Remembered(lv) ==
    (lv # None /\ lv.volumeID # None /\ api # None /\ api.uid = lv.uid)
        => api.volumeID = lv.volumeID

VolumeIDStays == Remembered(ncache) /\ Remembered(ccache)

CreateCopies == {"volumeExists", "CreateLV", "failStatus"}
VolumeCopies == {"updateLVStatus", "ResizeLV", "expandError"}

(* The copy of the reconcile, at each of its calls. *)
RecCopy ==
    /\ rpc \in CreateCopies =>
         /\ rlv.volumeID = None
         /\ "rec" \in fresh => api.volumeID = None
    /\ rpc = "CreateLV" => lvm[rlv.uid] = 0
    /\ rpc \in VolumeCopies =>
         /\ rlv.volumeID = rlv.uid
         /\ lvm[rlv.uid] # 0
         /\ rlv.currentSize <= lvm[rlv.uid]

(* The volume of a PersistentVolume is found by its VolumeID as long as    *)
(* its CR exists; while CreateVolume is called there is no such volume.    *)
PVIsFound ==
    /\ pv # None => /\ pv \in used
                    /\ (api # None /\ api.uid = pv) => api.volumeID = pv
    /\ create # "idle" => pv = None /\ deleted = {}

VolumeInv ==
    /\ VolumeIDIsUID /\ CopiesAreBacked /\ VolumeIDStays /\ RecCopy /\ PVIsFound
    /\ DeletedVolumeIsGone /\ deleted \subseteq used

(* Every step is one of the abstract volume, or changes nothing of it. *)
AbstractStep == [Abstract!Next]_(Abstract!vars)

-----------------------------------------------------------------------------
(* The steps, by what they do to the CR and its volume *)

(* A new version of a CR that says the same about the volume. *)
SameVolume(old, new) ==
    /\ new \in LogicalVolume /\ new.uid = old.uid
    /\ old.deleting => new.deleting
    /\ new.volumeID = old.volumeID /\ new.currentSize = old.currentSize

(* CreateVolume is only called, and only goes on, without a volume. *)
CreateStaysAlone == create' # "idle" => create # "idle" \/ (pv = None /\ deleted = {})

(* A step that at most writes such a version, or goes on without the CR. *)
LEMMA SameVolumeStep ==
    ASSUME NoOrphanInv, VolumeInv, SameOrReturns, CreateStaysAlone,
           UNCHANGED <<ncache, ccache, used, lvm, missed, pv, deleted>>,
           \/ UNCHANGED <<api, fresh>>
           \/ /\ api # None /\ SameVolume(api, api')
              /\ fresh' = {} \/ (fresh' = fresh /\ api' = api)
    PROVE  VolumeInv' /\ AbstractStep
    <1> USE NoneAssumption DEF SameVolume
    <1>1. VolumeIDIsUID' /\ CopiesAreBacked' /\ VolumeIDStays'
      <2>1. VolumeIDIsUID'
        BY ZenonT(30) DEF VolumeInv, VolumeIDIsUID, Sane, SameOrReturns
      <2>2. CopiesAreBacked'
        BY ZenonT(30) DEF VolumeInv, CopiesAreBacked, Backed, SameOrReturns
      <2>3. VolumeIDStays'
        BY ZenonT(30) DEF VolumeInv, VolumeIDStays, Remembered, SameOrReturns
      <2> QED BY <2>1, <2>2, <2>3
    <1>2. RecCopy'
      BY ZenonT(30) DEF VolumeInv, RecCopy, SameOrReturns, CreateCopies, VolumeCopies, NoOrphanInv,
             CreatePathHolds, CreatePath, Holds
    <1>3. PVIsFound' /\ DeletedVolumeIsGone' /\ (deleted \subseteq used)'
      BY ZenonT(30) DEF VolumeInv, PVIsFound, DeletedVolumeIsGone, CreateStaysAlone
    <1>4. AbstractStep
      <2>1. CASE UNCHANGED <<api, fresh>>
        BY <2>1 DEF AbstractStep, Abstract!vars
      <2>2. CASE api # None /\ SameVolume(api, api')
        <3>1. CASE api'.deleting = api.deleting
          BY ZenonT(30), <2>2, <3>1 DEF AbstractStep, Abstract!vars
        <3>2. CASE api'.deleting # api.deleting
          <4>1. api \in LogicalVolume BY ZenonT(30), <2>2 DEF NoOrphanInv, TypeOK, StoreTypeOK, Copy
          <4>2. api'.deleting = TRUE
            BY ZenonT(30), <2>2, <3>2, <4>1 DEF LogicalVolume
          <4>3. api.uid # None BY ZenonT(30), <4>1 DEF LogicalVolume
          <4>4. Abstract!AskToGo BY ZenonT(30), <2>2, <4>2, <4>3 DEF Abstract!AskToGo
          <4> QED BY ZenonT(30), <4>4 DEF AbstractStep, Abstract!Next
        <3> QED BY <3>1, <3>2
      <2> QED BY <2>1, <2>2
    <1> QED BY ZenonT(30), <1>1, <1>2, <1>3, <1>4 DEF VolumeInv

(* The CR goes when nothing of its volume is left. *)
LEMMA CRGoes ==
    ASSUME NoOrphanInv, VolumeInv, SameOrReturns, CreateStaysAlone,
           UNCHANGED <<ncache, ccache, used, lvm, missed, pv, deleted>>,
           rpc \notin CreatePath, api # None, api' = None, fresh' = {},
           lvm[api.uid] = 0 \/ api.uid \in missed
    PROVE  VolumeInv' /\ AbstractStep
    <1>1. VolumeIDIsUID' /\ CopiesAreBacked' /\ VolumeIDStays'
      BY ZenonT(30) DEF VolumeInv, VolumeIDIsUID, CopiesAreBacked, VolumeIDStays, Sane, Backed,
             Remembered, SameOrReturns
    <1>2. RecCopy'
      BY DEF RecCopy, SameOrReturns, CreateCopies, VolumeCopies, CreatePath
    <1>3. PVIsFound' /\ DeletedVolumeIsGone' /\ (deleted \subseteq used)'
      BY ZenonT(30) DEF VolumeInv, PVIsFound, DeletedVolumeIsGone, CreateStaysAlone
    <1>4. api.uid # None
      BY ZenonT(30), NoneAssumption DEF NoOrphanInv, TypeOK, StoreTypeOK, Copy, LogicalVolume
    <1>5. Abstract!Release
      BY ZenonT(30), <1>4 DEF Abstract!Release, Abstract!Removed
    <1> QED BY ZenonT(30), <1>1, <1>2, <1>3, <1>5 DEF VolumeInv, AbstractStep, Abstract!Next

(* The reconciler writes the status of its copy. *)
LEMMA StatusWrites ==
    ASSUME NoOrphanInv, VolumeInv, UNCHANGED csiVars,
           FailStatus \/ UpdateLVStatus \/ ExpandError
    PROVE  /\ VolumeInv' /\ AbstractStep
           /\ (api # None /\ api' # None /\ api.volumeID # None)
                  => api'.volumeID = api.volumeID
    <1> USE NoneAssumption
    <1>0. TypeOK BY DEF NoOrphanInv
    <1>1. /\ rpc \in {"failStatus", "updateLVStatus", "expandError"}
          /\ rpc' = "idle" /\ rlv' = None
          /\ UNCHANGED <<ncache, ccache, used, lvm, missed, pv, deleted, create>>
      BY ZenonT(30) DEF FailStatus, UpdateLVStatus, ExpandError, WriteStatus, Return, csiVars
    <1>2. /\ Holds(rlv.uid) /\ api \in LogicalVolume /\ rlv \in LogicalVolume
      BY ZenonT(30), <1>0, <1>1 DEF NoOrphanInv, CreatePathHolds, CreatePath, Holds, TypeOK,
                        StoreTypeOK, RecTypeOK, Copy
    <1>3. \/ UNCHANGED <<api, fresh>>
          \/ Put(WithStatus(api, rlv)) /\ (rpc = "failStatus" => "rec" \in fresh)
      BY ZenonT(30), <1>1 DEF FailStatus, UpdateLVStatus, ExpandError, WriteStatus
    <1>4. CASE UNCHANGED <<api, fresh>>
      <2>1. VolumeInv' /\ AbstractStep
        BY <1>1, <1>4, SameVolumeStep DEF SameOrReturns, CreateStaysAlone
      <2> QED BY <1>4, <2>1
    <1>5. CASE Put(WithStatus(api, rlv)) /\ (rpc = "failStatus" => "rec" \in fresh)
      <2>1. /\ api' \in LogicalVolume /\ api'.uid = api.uid
            /\ api'.deleting = api.deleting
            /\ api'.volumeID = rlv.volumeID /\ api'.currentSize = rlv.currentSize
        BY ZenonT(30), <1>2, <1>5, StatusUpdate DEF Put, SameCR
      <2>2. api.uid = rlv.uid /\ api # None BY <1>2 DEF Holds
      <2>3. \/ rlv.volumeID = None /\ api.volumeID = None
            \/ rlv.volumeID = rlv.uid /\ lvm[rlv.uid] # 0 /\ rlv.currentSize <= lvm[rlv.uid]
        BY ZenonT(30), <1>1, <1>5 DEF VolumeInv, RecCopy, CreateCopies, VolumeCopies
      <2>4. VolumeIDIsUID'
        BY ZenonT(30), <1>1, <1>2, <2>1, <2>2 DEF VolumeInv, VolumeIDIsUID, Sane
      <2>5. CopiesAreBacked'
        BY ZenonT(30), <1>1, <2>1, <2>2, <2>3 DEF VolumeInv, CopiesAreBacked, Backed
      <2>6. VolumeIDStays' /\ PVIsFound'
        BY ZenonT(30), <1>1, <2>1, <2>2, <2>3
           DEF VolumeInv, VolumeIDStays, Remembered, VolumeIDIsUID, Sane, PVIsFound
      <2>7. RecCopy'
        BY <1>1 DEF RecCopy, CreateCopies, VolumeCopies
      <2>8. DeletedVolumeIsGone' /\ (deleted \subseteq used)'
        BY ZenonT(30), <1>1, <2>1, <2>2 DEF VolumeInv, DeletedVolumeIsGone
      <2>9. AbstractStep
        BY ZenonT(30), <1>1, <2>1, <2>2 DEF AbstractStep, Abstract!vars
      <2>10. api.volumeID # None => api'.volumeID = api.volumeID
        BY ZenonT(30), <2>1, <2>2, <2>3 DEF VolumeInv, VolumeIDIsUID, Sane
      <2> QED BY <2>4, <2>5, <2>6, <2>7, <2>8, <2>9, <2>10 DEF VolumeInv
    <1> QED BY <1>3, <1>4, <1>5

(* A reconcile starts with the cached copy. *)
LEMMA Starts ==
    ASSUME NoOrphanInv, VolumeInv, UNCHANGED csiVars,
           StartCreate \/ StartExpand \/ StartDelete
    PROVE  VolumeInv' /\ AbstractStep
    <1> USE NoneAssumption
    <1>1. /\ UNCHANGED <<api, ncache, ccache, used, lvm, missed, pv, deleted, create>>
          /\ rlv' = ncache /\ ncache # None
          /\ fresh' = IF "ncache" \in fresh THEN fresh \cup {"rec"} ELSE fresh \ {"rec"}
      BY ZenonT(30) DEF StartCreate, StartExpand, StartDelete, Begin, Live, csiVars
    <1>2. \/ rpc' = "volumeExists" /\ ncache.volumeID = None
          \/ rpc' = "ResizeLV" /\ ncache.volumeID # None /\ ~ncache.deleting
          \/ rpc' = "RemoveLV"
      BY ZenonT(30) DEF StartCreate, StartExpand, StartDelete, Begin, Live
    <1>3. VolumeIDIsUID' /\ CopiesAreBacked' /\ VolumeIDStays' /\ PVIsFound'
      <2>1. VolumeIDIsUID'
        BY ZenonT(30), <1>1 DEF VolumeInv, VolumeIDIsUID, Sane
      <2>2. CopiesAreBacked'
        BY ZenonT(30), <1>1 DEF VolumeInv, CopiesAreBacked, Backed
      <2>3. VolumeIDStays'
        BY ZenonT(30), <1>1 DEF VolumeInv, VolumeIDStays, Remembered
      <2>4. PVIsFound'
        BY ZenonT(30), <1>1 DEF VolumeInv, PVIsFound
      <2> QED BY <2>1, <2>2, <2>3, <2>4
    <1>4. "rec" \in fresh' => api = ncache
      BY <1>1 DEF NoOrphanInv, FreshIsCurrent
    <1>5. RecCopy'
      BY ZenonT(30), <1>1, <1>2, <1>4 DEF VolumeInv, RecCopy, CreateCopies, VolumeCopies,
                        VolumeIDIsUID, Sane, CopiesAreBacked, Backed
    <1>6. DeletedVolumeIsGone' /\ (deleted \subseteq used)'
      BY ZenonT(30), <1>1 DEF VolumeInv, DeletedVolumeIsGone
    <1>7. AbstractStep BY ZenonT(30), <1>1 DEF AbstractStep, Abstract!vars
    <1> QED BY ZenonT(30), <1>3, <1>5, <1>6, <1>7 DEF VolumeInv

(* Sizes are positive numbers. *)
LEMMA SizesAreNat ==
    \A n \in Sizes \cup {0} : n \in Nat /\ (n # 0 => n \in Nat \ {0})
    BY StoreAssumption

(* A CR is not the missing one. *)
LEMMA NoneIsNoCopy == \A lv \in LogicalVolume : lv # None
    BY NoneAssumption DEF LogicalVolume

(* A size that has not changed has not shrunk (the order of sizes). *)
LEMMA AtMostItself == \A a \in Nat : 0 <= a /\ a <= a
    OBVIOUS

(* A size promised earlier is within one that has grown since. *)
LEMMA AtMostMore == \A a, b, c \in Nat : a <= b /\ c >= b => a <= c
    OBVIOUS

(* A volume of some size, or none, is no larger than some size. *)
LEMMA SizeAbove == \A z \in Sizes : \A s \in Sizes \cup {0} : \E m \in Sizes : m >= s
    BY StoreAssumption

(* The volume of a CR that holds it is made or grows. *)
LEMMA VolumeGrows ==
    ASSUME NoOrphanInv, VolumeInv, NEW u \in UIDs, NEW n \in Sizes, Holds(u),
           n >= lvm[u], lvm' = [lvm EXCEPT ![u] = n], ncache' \in {ncache, api},
           UNCHANGED <<api, used, missed, pv, deleted>>
    PROVE  CopiesAreBacked' /\ DeletedVolumeIsGone' /\ AbstractStep
    <1>1. /\ lvm \in [UIDs -> Sizes \cup {0}]
          /\ api \in LogicalVolume
          /\ ncache # None => ncache \in LogicalVolume
      BY ZenonT(30) DEF NoOrphanInv, TypeOK, StoreTypeOK, Copy, Holds
    <1>a. n \in Nat \ {0} BY StoreAssumption
    <1>b. lvm \in [UIDs -> Nat] BY <1>1, SizesAreNat
    <1>2. \A v \in UIDs : /\ lvm'[v] \in Nat /\ lvm'[v] >= lvm[v]
                          /\ lvm[v] # 0 => lvm'[v] # 0
      BY <1>a, <1>b
    <1>3. ASSUME NEW lv \in LogicalVolume, Backed(lv)
          PROVE  (~lv.deleting /\ lv.volumeID # None) =>
                     lvm'[lv.uid] # 0 /\ lv.currentSize <= lvm'[lv.uid]
      <2>1. lv.uid \in UIDs /\ lv.currentSize \in Nat BY ZenonT(30), Fields, SizesAreNat
      <2>2. lvm[lv.uid] \in Nat BY <1>b, <2>1
      <2>3. lvm'[lv.uid] \in Nat /\ lvm'[lv.uid] >= lvm[lv.uid] /\ (lvm[lv.uid] # 0 => lvm'[lv.uid] # 0)
        BY ZenonT(30), <1>2, <2>1
      <2>4. (~lv.deleting /\ lv.volumeID # None) => lvm[lv.uid] # 0 /\ lv.currentSize <= lvm[lv.uid]
        BY ZenonT(30), <1>3, NoneIsNoCopy DEF Backed
      <2> QED BY ZenonT(30), <2>1, <2>2, <2>3, <2>4, AtMostMore
    <1>4. CopiesAreBacked'
      BY ZenonT(30), <1>1, <1>3 DEF VolumeInv, CopiesAreBacked, Backed
    <1>5. DeletedVolumeIsGone'
      <2>1. u \notin deleted BY ZenonT(30) DEF VolumeInv, DeletedVolumeIsGone, Holds
      <2> QED BY ZenonT(30), <1>1, <2>1 DEF VolumeInv, DeletedVolumeIsGone, NoOrphanInv, TypeOK, CSITypeOK
    <1>6. Abstract!Provide(u, n)
      BY ZenonT(30), <1>1 DEF Abstract!Provide, Holds
    <1>7. AbstractStep
      BY ZenonT(30), <1>6 DEF AbstractStep, Abstract!Next
    <1> QED BY <1>4, <1>5, <1>7

(* The calls of createLV and expandLV to lvmd. *)
LEMMA LvmdCalls ==
    ASSUME NoOrphanInv, VolumeInv, UNCHANGED csiVars,
           VolumeExists \/ CreateLV \/ ResizeLV
    PROVE  VolumeInv' /\ AbstractStep
    <1> USE NoneAssumption
    <1>0. TypeOK BY DEF NoOrphanInv
    <1>1. /\ rpc \in {"volumeExists", "CreateLV", "ResizeLV"}
          /\ UNCHANGED <<api, ncache, ccache, fresh, used, missed, pv, deleted, create>>
      BY DEF VolumeExists, CreateLV, ResizeLV, Continue, csiVars, storeVars
    <1>2. rlv \in LogicalVolume /\ rlv # None /\ Holds(rlv.uid)
      BY ZenonT(30), <1>0, <1>1 DEF NoOrphanInv, CreatePathHolds, CreatePath, TypeOK, RecTypeOK, Copy
    <1>3. /\ rlv.uid \in UIDs /\ rlv.size \in Sizes /\ rlv.size \in Nat \ {0}
          /\ lvm[rlv.uid] \in Sizes \cup {0} /\ lvm[rlv.uid] \in Nat
          /\ rlv.currentSize \in Nat
      <2>1. rlv.uid \in UIDs /\ rlv.size \in Sizes /\ rlv.currentSize \in Sizes \cup {0}
        BY <1>2, Fields
      <2>2. lvm[rlv.uid] \in Sizes \cup {0} BY <1>0, <2>1 DEF TypeOK, StoreTypeOK
      <2> QED BY ZenonT(30), <2>1, <2>2, SizesAreNat, StoreAssumption
    <1>4. PICK n \in Sizes :
            /\ n >= lvm[rlv.uid]
            /\ lvm' = lvm \/ lvm' = [lvm EXCEPT ![rlv.uid] = n]
            /\ \/ /\ rpc' \in {"CreateLV", "failStatus"} /\ rpc # "ResizeLV"
                  /\ rlv'.volumeID = rlv.volumeID
                  /\ rlv'.currentSize = rlv.currentSize
                  /\ rpc' = "CreateLV" => lvm' = lvm /\ lvm[rlv.uid] = 0
               \/ /\ rpc' \in VolumeCopies
                  /\ rlv'.volumeID = rlv.uid
                  /\ lvm'[rlv.uid] # 0
                  /\ rlv'.currentSize \in {0, lvm'[rlv.uid], rlv.currentSize}
                  /\ rlv'.currentSize = rlv.currentSize => rlv.currentSize <= lvm[rlv.uid]
            /\ rlv'.uid = rlv.uid /\ rlv' # None
      <2>1. CASE VolumeExists
        <3>1. lvm' = lvm BY <2>1 DEF VolumeExists, storeVars
        <3>2. rlv.volumeID = None /\ rlv.currentSize = 0
          BY <1>2, <2>1 DEF VolumeInv, RecCopy, CreateCopies, VolumeExists, VolumeIDIsUID, Sane
        <3>3. \/ /\ rpc' = "updateLVStatus" /\ lvm[rlv.uid] # 0
                 /\ rlv' = [rlv EXCEPT !.volumeID = rlv.uid, !.code = "OK"]
              \/ rpc' = "CreateLV" /\ rlv' = rlv /\ lvm[rlv.uid] = 0
              \/ rpc' = "failStatus" /\ rlv' = [rlv EXCEPT !.code = "Error"]
          BY <2>1 DEF VolumeExists, Continue
        <3>4. PICK m \in Sizes : m >= lvm[rlv.uid] BY ZenonT(30), <1>3, SizeAbove
        <3>5. /\ rlv'.uid = rlv.uid /\ rlv' # None /\ rlv'.currentSize = 0
              /\ rlv'.volumeID = IF rpc' = "updateLVStatus" THEN rlv.uid ELSE None
          <4>1. rlv' \in LogicalVolume
            <5>1. /\ [rlv EXCEPT !.volumeID = rlv.uid, !.code = "OK"] \in LogicalVolume
                  /\ [rlv EXCEPT !.code = "Error"] \in LogicalVolume
              BY ZenonT(30), <1>2, <1>3 DEF LogicalVolume
            <5> QED BY ZenonT(30), <1>2, <3>3, <5>1
          <4> QED BY ZenonT(60), <1>2, <1>3, <3>2, <3>3, <4>1 DEF LogicalVolume
        <3> QED BY <1>3, <2>1, <3>1, <3>2, <3>3, <3>4, <3>5
                DEF VolumeExists, VolumeCopies
      <2>2. CASE CreateLV
        <3>1. rlv.volumeID = None /\ rlv.currentSize = 0 /\ lvm[rlv.uid] = 0
          BY <1>2, <2>2 DEF VolumeInv, RecCopy, CreateCopies, CreateLV, VolumeIDIsUID, Sane
        <3>2. Effect = [lvm EXCEPT ![rlv.uid] = rlv.size]
          BY <2>2 DEF CreateLV, Effect
        <3>3. \/ /\ rpc' = "updateLVStatus" /\ lvm' = [lvm EXCEPT ![rlv.uid] = rlv.size]
                 /\ rlv' = [rlv EXCEPT !.volumeID = rlv.uid, !.code = "OK",
                                       !.currentSize = rlv.size]
              \/ /\ rpc' = "failStatus" /\ rlv' = [rlv EXCEPT !.code = "Error"]
                 /\ lvm' \in {lvm, [lvm EXCEPT ![rlv.uid] = rlv.size]}
          BY <2>2, <3>2 DEF CreateLV, Continue
        <3>4. lvm' = [lvm EXCEPT ![rlv.uid] = rlv.size] => lvm'[rlv.uid] = rlv.size
          BY ZenonT(30), <1>0, <1>3 DEF TypeOK, StoreTypeOK
        <3>5. /\ rlv'.uid = rlv.uid /\ rlv' # None
              /\ rpc' = "updateLVStatus" => rlv'.volumeID = rlv.uid
                                            /\ rlv'.currentSize = rlv.size
              /\ rpc' = "failStatus" => rlv'.volumeID = None /\ rlv'.currentSize = 0
          <4>1. rlv' \in {[rlv EXCEPT !.volumeID = rlv.uid, !.code = "OK",
                                      !.currentSize = rlv.size],
                          [rlv EXCEPT !.code = "Error"]}
            BY <3>3
          <4>2. SameCR(rlv, rlv') BY ZenonT(30), <1>2, <1>3, <4>1, CopyUpdates
          <4>3. CASE rpc' = "updateLVStatus"
            BY ZenonT(60), <1>2, <3>3, <4>2, <4>3 DEF LogicalVolume, SameCR
          <4>4. CASE rpc' = "failStatus"
            BY <1>2, <3>1, <3>3, <4>2, <4>4 DEF LogicalVolume, SameCR
          <4> QED BY <3>3, <4>3, <4>4
        <3> QED BY <1>3, <2>2, <3>1, <3>3, <3>4, <3>5
                DEF CreateLV, VolumeCopies
      <2>3. CASE ResizeLV
        <3> DEFINE m == Grown(rlv.uid, rlv.size)
        <3>1. /\ rlv.volumeID = rlv.uid /\ lvm[rlv.uid] # 0
              /\ rlv.currentSize <= lvm[rlv.uid]
          BY <2>3 DEF VolumeInv, RecCopy, VolumeCopies, ResizeLV
        <3>2. m \in Sizes /\ m >= lvm[rlv.uid] BY <1>3, <3>1 DEF Grown
        <3>3. Effect = [lvm EXCEPT ![rlv.uid] = m]
          BY <2>3, <3>1 DEF ResizeLV, Effect
        <3>4. \/ /\ rpc' = "updateLVStatus" /\ lvm' = [lvm EXCEPT ![rlv.uid] = m]
                 /\ rlv' = [rlv EXCEPT !.code = "OK", !.currentSize = m]
              \/ /\ rpc' = "expandError" /\ rlv' = [rlv EXCEPT !.code = "Error"]
                 /\ lvm' \in {lvm, [lvm EXCEPT ![rlv.uid] = m]}
          BY <2>3, <3>1, <3>3 DEF ResizeLV, Continue
        <3>5. lvm' = [lvm EXCEPT ![rlv.uid] = m] => lvm'[rlv.uid] = m
          BY ZenonT(30), <1>0, <1>3 DEF TypeOK, StoreTypeOK
        <3>6. m # 0 /\ m \in Nat BY ZenonT(30), <3>2, StoreAssumption
        <3> HIDE DEF m
        <3>7. SameCR(rlv, rlv') /\ rlv'.volumeID = rlv.volumeID
              /\ rlv'.currentSize \in {m, rlv.currentSize}
              /\ (rpc' = "updateLVStatus" => rlv'.currentSize = m)
              /\ (rpc' = "expandError" => rlv'.currentSize = rlv.currentSize)
          <4>1. rlv' \in {[rlv EXCEPT !.code = "OK", !.currentSize = m],
                          [rlv EXCEPT !.code = "Error"]}
            BY <3>4
          <4>2. SameCR(rlv, rlv') BY ZenonT(30), <1>2, <3>2, <4>1, CopyUpdates
          <4>3. CASE rpc' = "updateLVStatus"
            BY ZenonT(30), <1>2, <3>4, <4>2, <4>3 DEF LogicalVolume
          <4>4. CASE rpc' = "expandError"
            BY <1>2, <3>4, <4>2, <4>4 DEF LogicalVolume
          <4> QED BY <3>4, <4>3, <4>4
        <3> QED BY <1>2, <1>3, <3>1, <3>2, <3>4, <3>5, <3>6, <3>7
                DEF SameCR, VolumeCopies
      <2> QED BY ZenonT(30), <2>1, <2>2, <2>3
    <1>5. CopiesAreBacked' /\ DeletedVolumeIsGone' /\ AbstractStep
      <2>1. CASE lvm' = lvm
        BY ZenonT(30), <1>1, <2>1 DEF VolumeInv, CopiesAreBacked, Backed, DeletedVolumeIsGone,
                          AbstractStep, Abstract!vars
      <2>2. CASE lvm' = [lvm EXCEPT ![rlv.uid] = n]
        BY ZenonT(30), <1>1, <1>2, <1>3, <1>4, <2>2, VolumeGrows
      <2> QED BY ZenonT(30), <1>4, <2>1, <2>2
    <1>6. RecCopy'
      <2>1. CASE rpc' \in {"CreateLV", "failStatus"}
        BY ZenonT(30), <1>1, <1>4, <2>1 DEF VolumeInv, RecCopy, CreateCopies, VolumeCopies
      <2>2. CASE rpc' \in VolumeCopies
        <3>1. rlv'.currentSize <= lvm'[rlv.uid]
          <4>1. lvm'[rlv.uid] \in Nat /\ lvm[rlv.uid] <= lvm'[rlv.uid]
            <5>1. lvm \in [UIDs -> Sizes \cup {0}] /\ n \in Nat
              BY ZenonT(30), <1>0, SizesAreNat DEF TypeOK, StoreTypeOK
            <5>2. lvm'[rlv.uid] \in {lvm[rlv.uid], n}
              BY ZenonT(30), <1>3, <1>4, <5>1
            <5>3. lvm[rlv.uid] <= lvm[rlv.uid] /\ lvm[rlv.uid] <= n
              BY <1>3, <1>4, <5>1
            <5> QED BY ZenonT(30), <1>3, <5>1, <5>2, <5>3
          <4>2. /\ rlv'.currentSize \in {0, lvm'[rlv.uid], rlv.currentSize}
                /\ rlv'.currentSize = rlv.currentSize => rlv.currentSize <= lvm[rlv.uid]
            BY ZenonT(30), <1>4, <2>2 DEF VolumeCopies
          <4>3. rlv.currentSize <= lvm[rlv.uid] => rlv.currentSize <= lvm'[rlv.uid]
            BY ZenonT(30), <1>3, <4>1, AtMostMore
          <4>4. 0 <= lvm'[rlv.uid] /\ lvm'[rlv.uid] <= lvm'[rlv.uid]
            BY ZenonT(30), <4>1, AtMostItself
          <4> QED BY ZenonT(30), <4>2, <4>3, <4>4
        <3> QED BY ZenonT(30), <1>4, <2>2, <3>1 DEF RecCopy, CreateCopies, VolumeCopies
      <2> QED BY ZenonT(30), <1>4, <2>1, <2>2
    <1>7. VolumeIDIsUID' /\ VolumeIDStays' /\ PVIsFound' /\ (deleted \subseteq used)'
      <2>1. Sane(rlv')
        BY ZenonT(30), <1>2, <1>3, <1>4 DEF VolumeInv, VolumeIDIsUID, Sane
      <2>2. VolumeIDIsUID' BY ZenonT(30), <1>1, <2>1 DEF VolumeInv, VolumeIDIsUID, Sane
      <2>3. VolumeIDStays' BY ZenonT(30), <1>1 DEF VolumeInv, VolumeIDStays, Remembered
      <2>4. PVIsFound' BY <1>1 DEF VolumeInv, PVIsFound
      <2> QED BY ZenonT(30), <1>1, <2>2, <2>3, <2>4 DEF VolumeInv
    <1> QED BY ZenonT(30), <1>5, <1>6, <1>7 DEF VolumeInv

(* The volume goes: the deletion of its CR was asked for, or lvmd has lost *)
(* sight of it before.                                                     *)
LEMMA VolumeGoes ==
    ASSUME NoOrphanInv, VolumeInv, rpc = "RemoveLV",
           lvm' = [lvm EXCEPT ![rlv.uid] = 0], ncache' \in {ncache, api},
           UNCHANGED <<api, used, missed, pv, deleted>>
    PROVE  CopiesAreBacked' /\ DeletedVolumeIsGone' /\ AbstractStep
    <1> USE NoneAssumption
    <1>1. /\ lvm \in [UIDs -> Sizes \cup {0}] /\ rlv \in LogicalVolume
          /\ api # None => api \in LogicalVolume
          /\ ncache # None => ncache \in LogicalVolume
      BY ZenonT(30) DEF NoOrphanInv, TypeOK, StoreTypeOK, RecTypeOK, Copy
    <1>2. rlv.uid \in UIDs BY <1>1, Fields
    <1>3. /\ (api # None /\ api.uid = rlv.uid) => api.deleting
          /\ (ncache # None /\ ncache.uid = rlv.uid) => ncache.deleting
      BY ZenonT(30) DEF NoOrphanInv, DeletePathSafe, DeletePath
    <1>4. CopiesAreBacked'
      <2>1. ASSUME NEW lv \in LogicalVolume, Backed(lv),
                   lv.uid = rlv.uid => lv.deleting
            PROVE  (~lv.deleting /\ lv.volumeID # None) =>
                       lvm'[lv.uid] # 0 /\ lv.currentSize <= lvm'[lv.uid]
        BY ZenonT(30), <1>1, <1>2, <2>1, Fields DEF Backed
      <2> QED BY ZenonT(30), <1>1, <1>3, <2>1 DEF VolumeInv, CopiesAreBacked, Backed
    <1>5. DeletedVolumeIsGone'
      BY ZenonT(30), <1>1, <1>2 DEF VolumeInv, DeletedVolumeIsGone, NoOrphanInv, TypeOK, CSITypeOK
    <1>6. AbstractStep
      <2>1. CASE lvm[rlv.uid] = 0
        <3>1. lvm' = lvm BY <1>1, <1>2, <2>1
        <3> QED BY ZenonT(30), <3>1 DEF AbstractStep, Abstract!vars
      <2>2. CASE lvm[rlv.uid] # 0
        <3>1. rlv.uid \in missed \/ (api # None /\ api.uid = rlv.uid)
          BY ZenonT(30), <1>2, <2>2 DEF NoOrphanInv, NoOrphanLV
        <3>2. Abstract!Remove(rlv.uid)
          BY ZenonT(30), <1>3, <3>1 DEF Abstract!Remove
        <3> QED BY <1>2, <3>2 DEF AbstractStep, Abstract!Next
      <2> QED BY <2>1, <2>2
    <1> QED BY <1>4, <1>5, <1>6

(* Removing the volume, or taking it for removed. *)
LEMMA Removal ==
    ASSUME NoOrphanInv, VolumeInv, UNCHANGED csiVars, RemoveLV
    PROVE  VolumeInv' /\ AbstractStep
    <1> USE NoneAssumption
    <1>1. /\ rpc = "RemoveLV" /\ rlv # None /\ rlv \in LogicalVolume
          /\ UNCHANGED <<api, ncache, ccache, fresh, used, pv, deleted, create>>
          /\ rpc' \in {"removeFinalizer", "idle"} /\ rlv' \in {rlv, None}
      BY ZenonT(30) DEF RemoveLV, Continue, Return, csiVars, NoOrphanInv, TypeOK, RecTypeOK, Copy
    <1>2. rlv.uid \in UIDs BY ZenonT(30), <1>1, Fields
    <1>3. \/ lvm' = lvm /\ missed' = missed
          \/ lvm' = [lvm EXCEPT ![rlv.uid] = 0] /\ missed' = missed
          \/ lvm' = lvm /\ missed' = missed \cup {rlv.uid} /\ lvm[rlv.uid] # 0
      BY <1>1 DEF RemoveLV, Effect, Continue, Return
    <1>4. CopiesAreBacked' /\ DeletedVolumeIsGone' /\ AbstractStep
      <2>1. CASE lvm' = [lvm EXCEPT ![rlv.uid] = 0] /\ missed' = missed
        BY ZenonT(30), <1>1, <2>1, VolumeGoes
      <2>2. CASE lvm' = lvm
        <3>1. CopiesAreBacked' /\ DeletedVolumeIsGone'
          BY ZenonT(30), <1>1, <1>3, <2>2 DEF VolumeInv, CopiesAreBacked, Backed, DeletedVolumeIsGone
        <3>2. CASE missed' = missed
          BY ZenonT(30), <1>1, <2>2, <3>1, <3>2 DEF AbstractStep, Abstract!vars
        <3>3. CASE missed' = missed \cup {rlv.uid} /\ lvm[rlv.uid] # 0
          <4>1. CASE rlv.uid \in missed
            <5>1. missed' = missed BY <3>3, <4>1
            <5> QED BY ZenonT(30), <1>1, <2>2, <3>1, <5>1 DEF AbstractStep, Abstract!vars
          <4>2. CASE rlv.uid \notin missed
            <5>1. api # None /\ api.uid = rlv.uid
              BY <1>2, <3>3, <4>2 DEF NoOrphanInv, NoOrphanLV
            <5>2. api.deleting
              BY ZenonT(30), <1>1, <5>1 DEF NoOrphanInv, DeletePathSafe, DeletePath
            <5>3. Abstract!Lose(rlv.uid)
              BY ZenonT(30), <1>1, <2>2, <3>3, <5>1, <5>2 DEF Abstract!Lose
            <5> QED BY <1>2, <3>1, <5>3 DEF AbstractStep, Abstract!Next
          <4> QED BY <4>1, <4>2
        <3> QED BY ZenonT(30), <1>3, <2>2, <3>2, <3>3, <2>1
      <2> QED BY ZenonT(30), <1>3, <2>1, <2>2
    <1>5. VolumeIDIsUID' /\ VolumeIDStays' /\ PVIsFound' /\ (deleted \subseteq used)'
      <2>1. VolumeIDIsUID' BY ZenonT(30), <1>1 DEF VolumeInv, VolumeIDIsUID, Sane
      <2>2. VolumeIDStays' BY ZenonT(30), <1>1 DEF VolumeInv, VolumeIDStays, Remembered
      <2>3. PVIsFound' BY ZenonT(30), <1>1 DEF VolumeInv, PVIsFound
      <2> QED BY <1>1, <2>1, <2>2, <2>3 DEF VolumeInv
    <1>6. RecCopy' BY ZenonT(30), <1>1 DEF RecCopy, CreateCopies, VolumeCopies
    <1> QED BY <1>4, <1>5, <1>6 DEF VolumeInv

(* The finalizer is removed once the volume is. *)
LEMMA FinalizerGoes ==
    ASSUME NoOrphanInv, VolumeInv, UNCHANGED csiVars, RemoveFinalizer
    PROVE  /\ VolumeInv' /\ AbstractStep
           /\ (api # None /\ api' # None) => api'.volumeID = api.volumeID
    <1>1. /\ rpc = "removeFinalizer" /\ rpc' = "idle" /\ rlv' = None
          /\ UNCHANGED <<ncache, ccache, used, lvm, missed, pv, deleted, create>>
      BY ZenonT(30) DEF RemoveFinalizer, Return, csiVars
    <1>2. \/ UNCHANGED <<api, fresh>>
          \/ /\ api # None
             /\ Put(IF api.deleting THEN None ELSE [api EXCEPT !.finalizer = FALSE])
      BY ZenonT(30) DEF RemoveFinalizer, DropFinalizer
    <1>3. CASE UNCHANGED <<api, fresh>>
      BY ZenonT(30), <1>1, <1>3, SameVolumeStep DEF SameOrReturns, CreateStaysAlone
    <1>4. CASE /\ api # None
               /\ Put(IF api.deleting THEN None ELSE [api EXCEPT !.finalizer = FALSE])
      <2>1. api \in LogicalVolume /\ api.uid \in UIDs
        BY <1>4, Fields DEF NoOrphanInv, TypeOK, StoreTypeOK, Copy
      <2>2. fresh' = {} \/ (fresh' = fresh /\ api' = api) BY <1>4 DEF Put
      <2>3. CASE ~api.deleting
        <3>1. SameVolume(api, api')
          BY <1>4, <2>1, <2>3, FinalizerDropped DEF Put, SameVolume
        <3> QED BY <1>1, <1>4, <2>2, <3>1, SameVolumeStep
                DEF SameOrReturns, CreateStaysAlone, SameVolume
      <2>4. CASE api.deleting
        <3>1. api' = None /\ fresh' = {} BY <1>4, <2>4 DEF Put
        <3>2. lvm[api.uid] = 0 \/ api.uid \in missed
          <4>1. lvm[api.uid] # 0 /\ api.uid \notin missed => api.finalizer
            BY ZenonT(30), <2>1 DEF NoOrphanInv, NoOrphanLV
          <4>2. api.finalizer => api.uid = rlv.uid
            BY ZenonT(30), <1>1, <1>4 DEF NoOrphanInv, DeletePathSafe, DeletePath
          <4>3. lvm[rlv.uid] = 0 \/ rlv.uid \in missed
            BY ZenonT(30), <1>1 DEF NoOrphanInv, RemovedBeforeFinalizer
          <4> QED BY ZenonT(30), <4>1, <4>2, <4>3
        <3>3. rpc \notin CreatePath BY <1>1 DEF CreatePath
        <3> QED BY <1>1, <1>4, <3>1, <3>2, <3>3, CRGoes
                DEF SameOrReturns, CreateStaysAlone
      <2> QED BY <2>3, <2>4
    <1> QED BY <1>2, <1>3, <1>4

(* The caches follow the API server; topolvm-node may die during a call. *)
LEMMA CacheEvents ==
    ASSUME NoOrphanInv, VolumeInv,
           \/ (NodeCacheSync \/ NodeRestart) /\ UNCHANGED csiVars
           \/ /\ CreateVolumePanic \/ ControllerRestart \/ ControllerCacheSync
              /\ UNCHANGED recVars
    PROVE  VolumeInv' /\ AbstractStep
    <1> USE NoneAssumption
    <1>1. /\ UNCHANGED <<api, used, missed, pv, deleted>>
          /\ create' \in {create, "idle"}
          /\ ncache' \in {ncache, api} /\ ccache' \in {ccache, api}
          /\ fresh' \subseteq fresh \cup {"ncache", "ccache"}
          /\ \/ rpc' = "idle" /\ rlv' = None
             \/ UNCHANGED <<rpc, rlv, lvm>>
      BY ZenonT(30) DEF NodeCacheSync, NodeRestart, CreateVolumePanic, ControllerRestart, csiVars,
             recVars, ControllerDies, ControllerCacheSync
    <1>2. VolumeIDIsUID' /\ VolumeIDStays' /\ PVIsFound' /\ (deleted \subseteq used)'
      <2>1. VolumeIDIsUID' BY ZenonT(30), <1>1 DEF VolumeInv, VolumeIDIsUID, Sane
      <2>2. VolumeIDStays' BY ZenonT(30), <1>1 DEF VolumeInv, VolumeIDStays, Remembered
      <2>3. PVIsFound' BY ZenonT(30), <1>1 DEF VolumeInv, PVIsFound
      <2> QED BY ZenonT(30), <1>1, <2>1, <2>2, <2>3 DEF VolumeInv
    <1>3. RecCopy'
      BY ZenonT(30), <1>1 DEF VolumeInv, RecCopy, CreateCopies, VolumeCopies
    <1>4. CopiesAreBacked' /\ DeletedVolumeIsGone' /\ AbstractStep
      <2>1. CASE lvm' = lvm
        BY ZenonT(30), <1>1, <2>1 DEF VolumeInv, CopiesAreBacked, Backed, DeletedVolumeIsGone,
                          AbstractStep, Abstract!vars
      <2>2. CASE lvm' # lvm
        <3>1. lvm' = Effect
          BY ZenonT(30), <2>2 DEF NodeCacheSync, NodeRestart, CreateVolumePanic, ControllerRestart,
                      csiVars, recVars, ControllerDies, ControllerCacheSync
        <3>2. CASE rpc = "RemoveLV"
          BY <1>1, <3>1, <3>2, VolumeGoes DEF Effect
        <3>3. CASE rpc # "RemoveLV"
          <4>1. rpc \in {"CreateLV", "ResizeLV"} BY <2>2, <3>1, <3>3 DEF Effect
          <4>2. rlv \in LogicalVolume /\ Holds(rlv.uid)
            BY ZenonT(30), <4>1 DEF NoOrphanInv, CreatePathHolds, CreatePath, TypeOK, RecTypeOK, Copy
          <4>3. /\ rlv.uid \in UIDs /\ rlv.size \in Sizes /\ rlv.size \in Nat
                /\ lvm[rlv.uid] \in Sizes \cup {0} /\ lvm[rlv.uid] \in Nat
            BY ZenonT(30), <4>2, Fields, SizesAreNat DEF NoOrphanInv, TypeOK, StoreTypeOK
          <4>4. CASE rpc = "CreateLV"
            <5>1. rlv.size >= lvm[rlv.uid]
              <6>1. lvm[rlv.uid] = 0 BY ZenonT(30), <4>4 DEF VolumeInv, RecCopy
              <6>2. \A s \in Nat : s >= 0 OBVIOUS
              <6> QED BY ZenonT(30), <4>3, <6>1, <6>2
            <5>2. lvm' = [lvm EXCEPT ![rlv.uid] = rlv.size] BY <3>1, <4>4 DEF Effect
            <5> QED BY ZenonT(30), <1>1, <4>2, <4>3, <5>1, <5>2, VolumeGrows
          <4>5. CASE rpc = "ResizeLV"
            <5>1. Grown(rlv.uid, rlv.size) \in Sizes
                  /\ Grown(rlv.uid, rlv.size) >= lvm[rlv.uid]
              <6>1. lvm[rlv.uid] # 0 BY ZenonT(30), <4>5 DEF VolumeInv, RecCopy, VolumeCopies
              <6>2. \A s, t \in Nat : s >= s /\ (~ (t <= s) => t >= s) OBVIOUS
              <6> QED BY ZenonT(30), <4>3, <6>1, <6>2 DEF Grown
            <5>2. lvm' = [lvm EXCEPT ![rlv.uid] = Grown(rlv.uid, rlv.size)]
              BY <2>2, <3>1, <4>5 DEF Effect
            <5> QED BY ZenonT(30), <1>1, <4>2, <4>3, <5>1, <5>2, VolumeGrows
          <4> QED BY <4>1, <4>4, <4>5
        <3> QED BY <3>2, <3>3
      <2> QED BY <2>1, <2>2
    <1> QED BY <1>2, <1>3, <1>4 DEF VolumeInv

(* Steps of the reconciler that say nothing new about the volume. *)
LEMMA MetadataWrites ==
    ASSUME NoOrphanInv, VolumeInv, UNCHANGED csiVars,
           ReconcileNothing \/ EnsureFinalizer \/ EnsureLabel \/ TimerFires
    PROVE  /\ VolumeInv' /\ AbstractStep
           /\ (api # None /\ api' # None) => api'.volumeID = api.volumeID
    <1>1. /\ UNCHANGED <<ncache, ccache, used, lvm, missed, rpc, rlv, pv, deleted, create>>
          /\ \/ UNCHANGED <<api, fresh>>
             \/ /\ api # None
                /\ Put([api EXCEPT !.finalizer = TRUE]) \/ Put([api EXCEPT !.label = TRUE])
      BY DEF ReconcileNothing, EnsureFinalizer, EnsureLabel, TimerFires, storeVars, csiVars
    <1>2. CASE UNCHANGED <<api, fresh>>
      BY <1>1, <1>2, SameVolumeStep DEF SameOrReturns, CreateStaysAlone
    <1>3. CASE /\ api # None
               /\ Put([api EXCEPT !.finalizer = TRUE]) \/ Put([api EXCEPT !.label = TRUE])
      <2>1. api \in LogicalVolume BY <1>3 DEF NoOrphanInv, TypeOK, StoreTypeOK, Copy
      <2>2. PICK size : size \in Sizes BY ClaimAssumption
      <2>3. SameVolume(api, api')
        BY ZenonT(60), <1>3, <2>1, <2>2, SpecUpdates DEF Put, SameVolume, SameCR
      <2>4. PICK obj : Put(obj) BY <1>3
      <2>5. fresh' = {} \/ (fresh' = fresh /\ api' = api) BY <2>4 DEF Put
      <2> QED BY <1>1, <1>3, <2>3, <2>5, SameVolumeStep
              DEF SameOrReturns, CreateStaysAlone, SameVolume
    <1> QED BY <1>1, <1>2, <1>3

(* CreateVolume creates the CR of a new volume. *)
LEMMA Creation ==
    ASSUME NoOrphanInv, VolumeInv, UNCHANGED recVars, Create
    PROVE  /\ VolumeInv' /\ AbstractStep
           /\ (api # None /\ api' # None) => api'.volumeID = api.volumeID
    <1> USE NoneAssumption
    <1>0. TypeOK BY DEF NoOrphanInv
    <1>1. /\ UNCHANGED <<ncache, ccache, lvm, missed, rpc, rlv, pv, deleted>>
          /\ create = "create"
      BY ZenonT(30) DEF Create, recVars
    <1>2. CASE Get # None
      <2>1. UNCHANGED <<api, fresh, used>> BY ZenonT(30), <1>2 DEF Create
      <2> QED BY ZenonT(30), <1>1, <2>1, SameVolumeStep DEF SameOrReturns, CreateStaysAlone
    <1>3. CASE Get = None
      <2>1. api = None /\ ccache = None BY <1>3 DEF Get
      <2>2. PICK uid \in UIDs \ used : Put(NewLV(uid)) /\ used' = used \cup {uid}
        BY ZenonT(30), <1>3 DEF Create
      <2>3. /\ api' \in LogicalVolume /\ api'.uid = uid /\ ~api'.deleting
            /\ api'.volumeID = None /\ api'.currentSize = 0 /\ api' # None /\ fresh' = {}
        BY ZenonT(30), <2>1, <2>2, NewLVType DEF Put
      <2>4. ncache # None => ncache.uid # uid
        BY ZenonT(30), <2>2 DEF NoOrphanInv, CopiesAreUsed
      <2>5. rpc \notin CreatePath
        BY ZenonT(30), <2>1 DEF NoOrphanInv, CreatePathHolds, Holds
      <2>6. VolumeIDIsUID' /\ CopiesAreBacked' /\ VolumeIDStays'
        BY ZenonT(30), <1>1, <2>1, <2>3, <2>4 DEF VolumeInv, VolumeIDIsUID, CopiesAreBacked,
                          VolumeIDStays, Sane, Backed, Remembered
      <2>7. RecCopy'
        BY ZenonT(30), <1>1, <2>5 DEF RecCopy, CreateCopies, VolumeCopies, CreatePath
      <2>8. PVIsFound' /\ DeletedVolumeIsGone' /\ (deleted \subseteq used)'
        BY ZenonT(30), <1>1, <2>2, <2>3 DEF VolumeInv, PVIsFound, DeletedVolumeIsGone
      <2>9. (api' # None /\ api'.deleting) = FALSE
        BY ZenonT(30), <2>3 DEF LogicalVolume
      <2>10. Abstract!Request(uid)
        BY ZenonT(30), <1>1, <2>1, <2>2, <2>3, <2>9 DEF Abstract!Request
      <2>11. AbstractStep BY <2>2, <2>10 DEF AbstractStep, Abstract!Next
      <2> QED BY <2>1, <2>6, <2>7, <2>8, <2>11 DEF VolumeInv
    <1> QED BY <1>2, <1>3

(* As long as the CR, its copies and the volume stay, so does what they say. *)
LEMMA NothingMoves ==
    ASSUME VolumeInv, UNCHANGED <<api, ncache, ccache, fresh, lvm, rpc, rlv>>
    PROVE  VolumeIDIsUID' /\ CopiesAreBacked' /\ VolumeIDStays' /\ RecCopy'
    <1>1. VolumeIDIsUID' BY ZenonT(30) DEF VolumeInv, VolumeIDIsUID, Sane
    <1>2. CopiesAreBacked' BY ZenonT(30) DEF VolumeInv, CopiesAreBacked, Backed
    <1>3. VolumeIDStays' BY ZenonT(30) DEF VolumeInv, VolumeIDStays, Remembered
    <1>4. RecCopy' BY ZenonT(30) DEF VolumeInv, RecCopy, CreateCopies, VolumeCopies
    <1> QED BY <1>1, <1>2, <1>3, <1>4

(* The CSI calls that change nothing but what the caller knows. *)
LEMMA Answers ==
    ASSUME NoOrphanInv, VolumeInv, UNCHANGED recVars,
           \/ CallCreateVolume \/ CreateVolumeOK \/ CallExpandVolume
           \/ ExpandVolumeEnds \/ CallDeleteVolume \/ DeleteWait \/ Timeout
    PROVE  VolumeInv' /\ AbstractStep /\ api' = api
    <1> USE NoneAssumption
    <1>0. TypeOK BY DEF NoOrphanInv
    <1>1. UNCHANGED <<api, ncache, ccache, fresh, used, lvm, missed, rpc, rlv>>
      BY ZenonT(30) DEF CallCreateVolume, CreateVolumeOK, CallExpandVolume, ExpandVolumeEnds,
             CallDeleteVolume, DeleteWait, Timeout, storeVars, recVars
    <1>2. CASE \/ CallCreateVolume \/ CallExpandVolume \/ ExpandVolumeEnds
               \/ CallDeleteVolume \/ Timeout
      <2>1. UNCHANGED <<pv, deleted>> /\ CreateStaysAlone
        BY ZenonT(30), <1>2 DEF CallCreateVolume, CallExpandVolume, ExpandVolumeEnds,
                    CallDeleteVolume, Timeout, CreateStaysAlone
      <2> QED BY ZenonT(30), <1>1, <2>1, SameVolumeStep DEF SameOrReturns
    <1>3. CASE CreateVolumeOK \/ DeleteWait
      <2>1. VolumeIDIsUID' /\ CopiesAreBacked' /\ VolumeIDStays' /\ RecCopy'
        BY ZenonT(30), <1>1, NothingMoves
      <2>2. CASE CreateVolumeOK
        <3>1. /\ pv = None /\ deleted = {} /\ deleted' = deleted /\ create' = "idle"
              /\ Get # None /\ pv' = Get.volumeID /\ pv' # None
          BY ZenonT(30), <2>2 DEF CreateVolumeOK, VolumeInv, PVIsFound
        <3>2. /\ pv' = Get.uid /\ pv' \in used /\ pv' \in UIDs
              /\ (api # None /\ api.uid = pv') => api.volumeID = pv'
          BY ZenonT(30), <1>0, <3>1 DEF Get, VolumeInv, VolumeIDIsUID, VolumeIDStays, Sane, Remembered,
                      NoOrphanInv, CopiesAreUsed, TypeOK, StoreTypeOK
        <3>3. PVIsFound' /\ DeletedVolumeIsGone' /\ (deleted \subseteq used)'
          BY ZenonT(30), <1>1, <3>1, <3>2 DEF VolumeInv, PVIsFound, DeletedVolumeIsGone
        <3>4. Abstract!Give(pv')
          BY ZenonT(30), <1>1, <3>1, <3>2 DEF Abstract!Give
        <3>5. AbstractStep BY ZenonT(30), <3>2, <3>4 DEF AbstractStep, Abstract!Next
        <3> QED BY ZenonT(30), <1>1, <2>1, <3>3, <3>5 DEF VolumeInv
      <2>3. CASE DeleteWait
        <3>1. pv \in UIDs /\ api = None /\ pv \in used
          BY ZenonT(30), <1>0, <2>3 DEF DeleteWait, Get, TypeOK, CSITypeOK, VolumeInv, PVIsFound
        <3>2. /\ deleted' = deleted \cup {pv} /\ pv' = None /\ UNCHANGED create
          BY <2>3 DEF DeleteWait, ReportDeleted
        <3>3. lvm[pv] = 0 \/ pv \in missed
          BY <3>1 DEF NoOrphanInv, NoOrphanLV
        <3>4. PVIsFound' /\ DeletedVolumeIsGone' /\ (deleted \subseteq used)'
          BY ZenonT(30), <1>1, <3>1, <3>2, <3>3 DEF VolumeInv, PVIsFound, DeletedVolumeIsGone
        <3>5. Abstract!ReportDeleted
          BY ZenonT(30), <1>1, <3>1, <3>2, <3>3 DEF Abstract!ReportDeleted, Abstract!Removed
        <3>6. AbstractStep BY <3>5 DEF AbstractStep, Abstract!Next
        <3> QED BY ZenonT(30), <1>1, <2>1, <3>4, <3>6 DEF VolumeInv
      <2> QED BY <1>3, <2>2, <2>3
    <1> QED BY <1>2, <1>3

(* The CSI calls that update or delete the CR. *)
LEMMA CallsWrite ==
    ASSUME NoOrphanInv, VolumeInv, UNCHANGED recVars,
           CreateVolumeError \/ UpdateSpecSize \/ DeleteVolume
    PROVE  /\ VolumeInv' /\ AbstractStep
           /\ (api # None /\ api' # None) => api'.volumeID = api.volumeID
    <1> USE NoneAssumption
    <1>0. TypeOK BY DEF NoOrphanInv
    <1>a. api # None => api \in LogicalVolume
      BY <1>0 DEF TypeOK, StoreTypeOK, Copy
    <1>1. /\ UNCHANGED <<ncache, ccache, used, lvm, missed, rpc, rlv>>
          /\ create' \in {create, "idle"}
      BY DEF CreateVolumeError, UpdateSpecSize, DeleteVolume, recVars
    <1>2. CASE UNCHANGED <<api, fresh, pv, deleted>>
      BY ZenonT(30), <1>1, <1>2, SameVolumeStep DEF SameOrReturns, CreateStaysAlone
    <1>3. CASE DeleteCR /\ api # None /\ UNCHANGED <<pv, deleted>>
      <2>1. CASE api.finalizer
        <3>1. SameVolume(api, api')
          BY <1>3, <1>a, <2>1, DeletingUpdate DEF DeleteCR, Put, SameVolume, SameCR
        <3>2. PICK obj : Put(obj) BY <1>3 DEF DeleteCR
        <3>3. fresh' = {} \/ (fresh' = fresh /\ api' = api) BY <3>2 DEF Put
        <3> QED BY ZenonT(30), <1>1, <1>3, <3>1, <3>3, SameVolumeStep
                DEF SameOrReturns, CreateStaysAlone, SameVolume
      <2>2. CASE ~api.finalizer
        <3>1. api' = None /\ fresh' = {} BY <1>3, <2>2 DEF DeleteCR, Put
        <3>2. api.uid \in UIDs BY ZenonT(30), <1>3, <1>a, Fields
        <3>3. lvm[api.uid] = 0 \/ api.uid \in missed
          BY ZenonT(30), <2>2, <3>2 DEF NoOrphanInv, NoOrphanLV
        <3>4. rpc \notin CreatePath
          BY ZenonT(30), <2>2 DEF NoOrphanInv, CreatePathHolds, Holds
        <3> QED BY ZenonT(30), <1>1, <1>3, <3>1, <3>3, <3>4, CRGoes DEF SameOrReturns, CreateStaysAlone
      <2> QED BY ZenonT(30), <2>1, <2>2
    <1>4. CASE UpdateSpecSize /\ GetVolume(pv) # None
      <2>1. api # None
        BY <1>4 DEF UpdateSpecSize, GetVolume, InCache, NoOrphanInv, FreshIsCurrent
      <2>2. request \in Sizes
        BY <1>0, <1>4 DEF TypeOK, CSITypeOK, UpdateSpecSize
      <2>3. api' = [api EXCEPT !.size = request] /\ fresh' = {} /\ UNCHANGED <<pv, deleted>>
        BY <1>4 DEF UpdateSpecSize
      <2>4. SameVolume(api, api')
        BY ZenonT(30), <1>a, <2>1, <2>2, <2>3, SpecUpdates DEF SameVolume, SameCR
      <2> QED BY <1>1, <2>1, <2>3, <2>4, SameVolumeStep
              DEF SameOrReturns, CreateStaysAlone, SameVolume
    <1>5. CASE DeleteVolume /\ ReportDeleted /\ UNCHANGED <<api, fresh>>
      <2>1. pv \in UIDs /\ pv \in used /\ UNCHANGED create
        BY ZenonT(30), <1>0, <1>5 DEF DeleteVolume, TypeOK, CSITypeOK, VolumeInv, PVIsFound
      <2>2. /\ deleted' = deleted \cup {pv} /\ pv' = None
        BY <1>5 DEF ReportDeleted
      <2>3. api # None => api.uid # pv
        <3>1. CASE GetVolume(pv) = None
          BY ZenonT(30), <2>1, <3>1 DEF GetVolume, InCache, VolumeInv, PVIsFound
        <3>2. CASE GetVolume(pv) # None /\ api # None
          <4>1. volOp' = "deleteWait" \/ UNCHANGED deleted BY ZenonT(30), <1>5, <3>2 DEF DeleteVolume
          <4>2. volOp' = "idle" BY <1>5 DEF ReportDeleted
          <4>3. UNCHANGED deleted /\ UNCHANGED pv BY ZenonT(30), <1>5, <3>2 DEF DeleteVolume
          <4> QED BY <2>1, <2>2, <4>3
        <3> QED BY <3>1, <3>2
      <2>4. lvm[pv] = 0 \/ pv \in missed
        BY <2>1, <2>3 DEF NoOrphanInv, NoOrphanLV
      <2>5. VolumeIDIsUID' /\ CopiesAreBacked' /\ VolumeIDStays' /\ RecCopy'
        BY ZenonT(30), <1>1, <1>5, NothingMoves
      <2>6. PVIsFound' /\ DeletedVolumeIsGone' /\ (deleted \subseteq used)'
        BY ZenonT(30), <1>1, <1>5, <2>1, <2>2, <2>3, <2>4 DEF VolumeInv, PVIsFound, DeletedVolumeIsGone
      <2>7. Abstract!ReportDeleted
        BY ZenonT(30), <1>1, <1>5, <2>1, <2>2, <2>3, <2>4 DEF Abstract!ReportDeleted, Abstract!Removed
      <2>8. AbstractStep BY <2>7 DEF AbstractStep, Abstract!Next
      <2> QED BY ZenonT(30), <1>5, <2>5, <2>6, <2>8 DEF VolumeInv
    <1>6. CASE CreateVolumeError
      <2>1. UNCHANGED <<api, fresh, pv, deleted>>
            \/ (DeleteCR /\ api # None /\ UNCHANGED <<pv, deleted>>)
        BY <1>6 DEF CreateVolumeError, DeleteCR
      <2> QED BY ZenonT(30), <1>2, <1>3, <2>1
    <1>7. CASE UpdateSpecSize /\ GetVolume(pv) = None
      BY <1>2, <1>7 DEF UpdateSpecSize
    <1>8. CASE DeleteVolume
      BY ZenonT(30), <1>3, <1>5, <1>8 DEF DeleteVolume
    <1> QED BY ZenonT(30), <1>4, <1>6, <1>7, <1>8

-----------------------------------------------------------------------------
(* The theorems *)

(* Every initial state satisfies the invariant. *)
LEMMA InitVolume == Init => VolumeInv
    BY ZenonT(30) DEF Init, StoreInit, RecInit, CSIInit, VolumeInv, VolumeIDIsUID, CopiesAreBacked,
           VolumeIDStays, RecCopy, PVIsFound, DeletedVolumeIsGone, Sane, Backed,
           Remembered, CreateCopies, VolumeCopies

(* VolumeIDIsStable says this of every step. *)
KeepsVolumeID ==
    (api # None /\ api' # None /\ api'.uid = api.uid /\ api.volumeID # None)
        => api'.volumeID = api.volumeID

(* Every step preserves the invariant, is one of the abstract volume and   *)
(* keeps the VolumeID.                                                     *)
LEMMA StepVolume ==
    ASSUME NoOrphanInv, VolumeInv, [Next]_vars
    PROVE  VolumeInv' /\ AbstractStep /\ KeepsVolumeID
    <1>1. CASE RecNext /\ UNCHANGED csiVars
      <2>1. CASE ReconcileNothing \/ EnsureFinalizer \/ EnsureLabel \/ TimerFires
        BY ZenonT(30), <1>1, <2>1, MetadataWrites DEF KeepsVolumeID
      <2>2. CASE FailStatus \/ UpdateLVStatus \/ ExpandError
        BY ZenonT(30), <1>1, <2>2, StatusWrites DEF KeepsVolumeID
      <2>3. CASE RemoveFinalizer
        BY ZenonT(30), <1>1, <2>3, FinalizerGoes DEF KeepsVolumeID
      <2>4. CASE \/ StartCreate \/ StartExpand \/ StartDelete \/ VolumeExists \/ CreateLV
                 \/ ResizeLV \/ RemoveLV \/ NodeCacheSync \/ NodeRestart
        <3>1. api' = api
          BY ZenonT(30), <2>4 DEF StartCreate, StartExpand, StartDelete, VolumeExists, CreateLV,
                      ResizeLV, RemoveLV, NodeCacheSync, NodeRestart, storeVars, Begin
        <3>2. VolumeInv' /\ AbstractStep
          <4>1. CASE StartCreate \/ StartExpand \/ StartDelete BY <1>1, <4>1, Starts
          <4>2. CASE VolumeExists \/ CreateLV \/ ResizeLV BY <1>1, <4>2, LvmdCalls
          <4>3. CASE RemoveLV BY <1>1, <4>3, Removal
          <4>4. CASE NodeCacheSync \/ NodeRestart BY <1>1, <4>4, CacheEvents
          <4> QED BY <2>4, <4>1, <4>2, <4>3, <4>4
        <3> QED BY ZenonT(30), <3>1, <3>2 DEF KeepsVolumeID
      <2> QED BY <1>1, <2>1, <2>2, <2>3, <2>4 DEF RecNext, ReconcileStep
    <1>2. CASE CSINext /\ UNCHANGED recVars
      <2>1. CASE Create BY ZenonT(30), <1>2, <2>1, Creation DEF KeepsVolumeID
      <2>2. CASE CreateVolumeError \/ UpdateSpecSize \/ DeleteVolume
        BY ZenonT(30), <1>2, <2>2, CallsWrite DEF KeepsVolumeID
      <2>3. CASE \/ CallCreateVolume \/ CreateVolumeOK \/ CallExpandVolume
                 \/ ExpandVolumeEnds \/ CallDeleteVolume \/ DeleteWait \/ Timeout
        BY ZenonT(30), <1>2, <2>3, Answers DEF KeepsVolumeID
      <2>4. CASE CreateVolumePanic \/ ControllerRestart \/ ControllerCacheSync
        <3>1. api' = api
          BY ZenonT(30), <2>4 DEF CreateVolumePanic, ControllerRestart, ControllerDies,
                      ControllerCacheSync
        <3> QED BY ZenonT(30), <1>2, <2>4, <3>1, CacheEvents DEF KeepsVolumeID
      <2> QED BY <1>2, <2>1, <2>2, <2>3, <2>4 DEF CSINext, CSIProgress
    <1>3. CASE UNCHANGED vars
      BY ZenonT(30), <1>3, SameVolumeStep
         DEF vars, storeVars, recVars, csiVars, SameOrReturns, CreateStaysAlone, KeepsVolumeID
    <1> QED BY <1>1, <1>2, <1>3 DEF Next

(* The copies of the CR stay within what the volume has, in every          *)
(* reachable state.                                                        *)
THEOREM VolumeInvariant == Spec => []VolumeInv
    <1>1. Init => VolumeInv BY InitVolume
    <1>2. NoOrphanInv /\ VolumeInv /\ [Next]_vars => VolumeInv' BY StepVolume
    <1> QED BY <1>1, <1>2, NoOrphanInvariant, PTL DEF Spec

(* StatusIsBacked: a CR with a VolumeID that is not being deleted has its  *)
(* LVM volume, at least as large as the CurrentSize in its status.         *)
THEOREM Backing == Spec => []StatusIsBacked
    <1>1. VolumeInv => StatusIsBacked
      BY ZenonT(30) DEF VolumeInv, StatusIsBacked, VolumeIDIsUID, Sane, CopiesAreBacked, Backed
    <1> QED BY <1>1, VolumeInvariant, PTL

(* DeletedVolumeIsGone: of a volume DeleteVolume reported as deleted there *)
(* is neither the CR nor, unless lvmd lost sight of it, the LVM volume.    *)
THEOREM Deletion == Spec => []DeletedVolumeIsGone
    <1>1. VolumeInv => DeletedVolumeIsGone BY DEF VolumeInv
    <1> QED BY <1>1, VolumeInvariant, PTL

(* VolumeIDIsStable: no write of the status erases or changes a VolumeID. *)
THEOREM StableVolumeID == Spec => VolumeIDIsStable
    <1>1. NoOrphanInv /\ VolumeInv /\ [Next]_vars => [KeepsVolumeID]_vars
      BY StepVolume
    <1>2. Spec => [][KeepsVolumeID]_vars
      BY <1>1, NoOrphanInvariant, VolumeInvariant, PTL DEF Spec
    <1> QED BY <1>2 DEF VolumeIDIsStable, KeepsVolumeID

(* ImplementsVolume: every behaviour of the controller, the reconciler,    *)
(* their caches and lvmd is one of AbstractVolume.                         *)
THEOREM Refinement == Spec => ImplementsVolume
    <1>1. Init => Abstract!Init
      BY ZenonT(30) DEF Init, StoreInit, RecInit, CSIInit, Abstract!Init
    <1>2. NoOrphanInv /\ VolumeInv /\ [Next]_vars => [Abstract!Next]_(Abstract!vars)
      BY StepVolume DEF AbstractStep
    <1> QED BY <1>1, <1>2, NoOrphanInvariant, VolumeInvariant, PTL
            DEF Spec, ImplementsVolume, Abstract!Spec
=============================================================================
