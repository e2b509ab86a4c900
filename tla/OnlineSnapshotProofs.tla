------------------------ MODULE OnlineSnapshotProofs ------------------------
(***************************************************************************)
(* The safety of the online snapshot operations, for every kind and every  *)
(* number of faults: the type invariant, BackupBeforeRemoval, NoOrphanLV   *)
(* and DeleteConditionIsTrue of OnlineSnapshot, and that it implements     *)
(* AbstractSnapshot.                                                       *)
(***************************************************************************)
EXTENDS OnlineSnapshot, TLAPS

(* The calls that only handleDeletion makes. *)
DeletionCalls ==
    {"deleteUnmount", "deleteExecutor", "deleteTrue", "deleteFalse",
     "deletePod", "unmount", "RemoveLV", "RemoveLVOnly", "removeFinalizer"}

Deleting(lv) == lv = None \/ lv.deleting

(* A copy is never newer than the CR, and who holds the current            *)
(* resourceVersion holds the CR.                                           *)
CopiesInv ==
    /\ "ncache" \in fresh => ncache = api
    /\ "pod" \in fresh => api # None
    /\ Deleting(ncache) => Deleting(api)

(* What handleDeletion does, and what it leaves behind, is only there once *)
(* the cache knows of the deletion; from the delete pod on, the reconciler *)
(* makes no other calls.                                                   *)
DeletionInv ==
    /\ rpc \in DeletionCalls => Deleting(ncache)
    /\ (dpod.at # "none" \/ (api # None /\ api.del # "")) =>
           Deleting(ncache) /\ rpc \in DeletionCalls \cup {"idle"}

(* The volume is gone before the finalizer is. *)
VolumeInv ==
    /\ rpc = "removeFinalizer" => ~lvm
    /\ NoOrphanLV

Written == remote # "none" \/ Deleting(api)

(* A backup that is called a success, anywhere, has been written. *)
BackupInv ==
    operation = "Backup" =>
        /\ pod.at = "done" => Written
        /\ api # None /\ api.phase = "Succeeded" => Written
        /\ ncache # None /\ ncache.phase = "Succeeded" => Written
        /\ rpc = "removeSnapshot" => Written
        /\ ~lvm => Written

(* From the delete pod on no backup is to come, and the repository is      *)
(* empty from the time the delete pod has emptied it.                      *)
RepositoryInv ==
    ~overlap =>
        /\ (dpod.at # "none" \/ (api # None /\ api.del # "")) => ~YetToWork(pod)
        /\ dpod.at = "forgotten" => remote = "none"
        /\ DeleteConditionIsTrue

SnapInv ==
    TypeOK /\ CopiesInv /\ DeletionInv /\ VolumeInv /\ BackupInv /\ RepositoryInv

-----------------------------------------------------------------------------
(* Who may change what: every step is a step of each of these shapes.      *)

(* The CR disappears with its finalizer.  No write takes a deletion back,  *)
(* only setStatusSuccess makes an operation Succeeded, and only the delete *)
(* pod writes the reason of its condition.                                 *)
ApiStep ==
    \/ api' = api
    \/ api' = None /\ rpc = "removeFinalizer"
    \/ /\ api # None /\ api' \in LogicalVolume
       /\ api.deleting => api'.deleting
       /\ api'.phase = "Succeeded" => api.phase = "Succeeded" \/ pod.at = "done"
       /\ api'.del # api.del =>
              dpod.at # "none" /\ (api'.del = "Succeeded" => dpod.at = "forgotten")

CacheStep ==
    /\ ncache' = ncache \/ (ncache' = api /\ api' = api)
    /\ "ncache" \in fresh' => ncache' = api'
    /\ "pod" \in fresh' => api' # None

(* handleDeletion is entered, and everything else is entered only, as the  *)
(* cache has it; removeSnapshot and removeFinalizer come after success.    *)
CallStep ==
    /\ rpc' \in Calls
    /\ rpc' \in DeletionCalls => rpc \in DeletionCalls \/ Deleting(ncache)
    /\ rpc' \notin DeletionCalls \cup {"idle"} =>
           rpc \notin DeletionCalls /\ (rpc = "idle" => ~Deleting(ncache))
    /\ rpc' = "removeSnapshot" => rpc' = rpc \/ (ncache # None /\ ncache.phase = "Succeeded")
    /\ rpc' = "removeFinalizer" => rpc' = rpc \/ ~lvm'

DeviceStep ==
    \/ lvm' = lvm
    \/ lvm' = FALSE /\ rpc \in DeletionCalls \cup {"removeSnapshot"}

RepositoryStep ==
    \/ remote' = remote
    \/ remote' \in {"data", "empty"} /\ pod.at = "working"
    \/ remote' = "none" /\ dpod.at = "working"

PodStep ==
    /\ (pod'.at = "done" /\ operation = "Backup") => pod.at = "done" \/ remote' # "none"
    /\ YetToWork(pod') => YetToWork(pod) \/ rpc = "pod"

DeletePodStep ==
    /\ overlap => overlap'
    /\ dpod'.at # "none" =>
           dpod.at # "none" \/ (rpc = "deleteExecutor" /\ (overlap' \/ ~YetToWork(pod')))
    /\ dpod'.at = "forgotten" => dpod.at = "forgotten" \/ remote' = "none"

DeviceTypes == lvm \in BOOLEAN /\ mounted \in BOOLEAN /\ published \in BOOLEAN

PodTypes ==
    /\ pod \in Pod /\ dpod \in DeletePod
    /\ podSeen \in {"none", "live", "failed", "terminating"}
    /\ podEvent \in BOOLEAN

WorldTypes ==
    /\ restored \in BOOLEAN /\ overlap \in BOOLEAN
    /\ pv \in BOOLEAN /\ source \in BOOLEAN /\ storage \in BOOLEAN

WorkerTypes ==
    /\ fresh \subseteq {"ncache", "pod"}
    /\ faults \in 0 .. MaxFaults
    /\ queued \in BOOLEAN /\ timer \in BOOLEAN
    /\ shouldRestore \in BOOLEAN /\ pqueued \in BOOLEAN

OtherTypes == DeviceTypes /\ PodTypes /\ WorldTypes /\ WorkerTypes

Shape ==
    /\ ApiStep /\ CacheStep /\ CallStep /\ DeviceStep
    /\ RepositoryStep /\ PodStep /\ DeletePodStep
    /\ operation' = operation /\ OtherTypes'

(* The invariant follows from the shapes. *)
LEMMA ShapeKeepsInv ==
    ASSUME SnapInv, Shape
    PROVE  SnapInv'
    <1> USE NoneAssumption DEF SnapInv, Shape
    <1>1. TypeOK'
      <2>1. api' \in LogicalVolume \cup {None} /\ ncache' \in LogicalVolume \cup {None}
        BY DEF TypeOK, SnapTypeOK, ApiStep, CacheStep
      <2>2. remote' \in {"none", "data", "empty"}
        BY DEF TypeOK, SnapTypeOK, RepositoryStep
      <2>3. rpc' \in Calls
        BY DEF CallStep
      <2>4. operation' \in Operations
        BY DEF TypeOK, SnapTypeOK
      <2> QED
        BY ZenonT(30), <2>1, <2>2, <2>3, <2>4
           DEF TypeOK, SnapTypeOK, RecTypeOK, PodRecTypeOK, OtherTypes, DeviceTypes,
               PodTypes, WorldTypes, WorkerTypes
    <1>2. Deleting(api) => Deleting(api')
      BY ZenonT(30) DEF TypeOK, SnapTypeOK, ApiStep, Deleting, LogicalVolume
    <1>3. CopiesInv'
      BY <1>2 DEF CopiesInv, CacheStep, Deleting
    <1>4. Deleting(ncache) => Deleting(ncache')
      BY DEF CacheStep, CopiesInv, Deleting
    <1>5. DeletionInv'
      <2>1. rpc' \in DeletionCalls => Deleting(ncache')
        BY ZenonT(30), <1>4 DEF CallStep, DeletionInv
      <2>2. ASSUME dpod'.at # "none" \/ (api' # None /\ api'.del # "")
            PROVE  Deleting(ncache') /\ rpc' \in DeletionCalls \cup {"idle"}
        <3>1. \/ dpod.at # "none" \/ (api # None /\ api.del # "")
              \/ rpc = "deleteExecutor"
          BY ZenonT(30), <2>2 DEF DeletePodStep, ApiStep
        <3>2. Deleting(ncache) /\ rpc \in DeletionCalls \cup {"idle"}
          BY ZenonT(30), <3>1 DEF DeletionInv, DeletionCalls
        <3> QED
          BY <3>2, <1>4 DEF CallStep, DeletionCalls
      <2> QED
        BY ZenonT(30), <2>1, <2>2 DEF DeletionInv
    <1>6. VolumeInv'
      BY DEF VolumeInv, NoOrphanLV, CallStep, DeviceStep, ApiStep, TypeOK, SnapTypeOK
    <1>7. Written => Written'
      <2>1. dpod.at = "working" => Deleting(api)
        BY DEF DeletionInv, CopiesInv
      <2> QED
        BY <2>1, <1>2 DEF Written, RepositoryStep
    <1>8. BackupInv'
      <2> SUFFICES ASSUME operation = "Backup"
                   PROVE  BackupInv'
        BY DEF BackupInv
      <2>1. pod'.at = "done" => Written'
        BY <1>7 DEF BackupInv, PodStep, Written
      <2>2. api' # None /\ api'.phase = "Succeeded" => Written'
        BY <1>7 DEF BackupInv, ApiStep
      <2>3. ncache' # None /\ ncache'.phase = "Succeeded" => Written'
        BY <1>7, <2>2 DEF BackupInv, CacheStep
      <2>4. rpc' = "removeSnapshot" => Written'
        BY <1>7 DEF BackupInv, CallStep
      <2>5. ~lvm' => Written'
        <3>1. rpc \in DeletionCalls => Deleting(api)
          BY ZenonT(30) DEF DeletionInv, CopiesInv
        <3> QED
          BY <1>7, <3>1 DEF BackupInv, DeviceStep, Written
      <2> QED
        BY <2>1, <2>2, <2>3, <2>4, <2>5 DEF BackupInv
    <1>9. RepositoryInv'
      <2> SUFFICES ASSUME ~overlap'
                   PROVE  RepositoryInv'
        BY ZenonT(30) DEF RepositoryInv
      <2>0. ~overlap
        BY DEF DeletePodStep
      <2>1. ASSUME dpod'.at # "none" \/ (api' # None /\ api'.del # "")
            PROVE  ~YetToWork(pod')
        <3>1. CASE dpod.at # "none" \/ (api # None /\ api.del # "")
          BY ZenonT(30), <3>1, <2>0 DEF RepositoryInv, DeletionInv, PodStep, DeletionCalls
        <3>2. CASE ~(dpod.at # "none" \/ (api # None /\ api.del # ""))
          BY ZenonT(30), <3>2, <2>1 DEF DeletePodStep, ApiStep
        <3> QED
          BY ZenonT(30), <3>1, <3>2
      <2>2. dpod.at # "none" \/ (api # None /\ api.del # "") => pod.at # "working"
        BY ZenonT(30), <2>0 DEF RepositoryInv, YetToWork
      <2>3. dpod'.at = "forgotten" => remote' = "none"
        BY ZenonT(30), <2>0, <2>2 DEF RepositoryInv, DeletePodStep, RepositoryStep
      <2>4. DeleteConditionIsTrue'
        <3> SUFFICES ASSUME api' # None, api'.del = "Succeeded"
                     PROVE  remote' = "none"
          BY DEF DeleteConditionIsTrue
        <3>1. CASE api # None /\ api.del = "Succeeded"
          BY <3>1, <2>0, <2>2 DEF RepositoryInv, DeleteConditionIsTrue, RepositoryStep
        <3>2. CASE ~(api # None /\ api.del = "Succeeded")
          BY ZenonT(30), <3>2, <2>0, <2>2 DEF RepositoryInv, ApiStep, RepositoryStep
        <3> QED
          BY <3>1, <3>2
      <2> QED
        BY ZenonT(30), <2>1, <2>3, <2>4 DEF RepositoryInv
    <1> QED
      BY <1>1, <1>3, <1>5, <1>6, <1>8, <1>9

-----------------------------------------------------------------------------
(* Every step has the shapes. *)

(* What the setters of the status leave alone. *)
Kept(lv, new) ==
    /\ new \in LogicalVolume
    /\ new.deleting = lv.deleting /\ new.del = lv.del
    /\ new.phase = "Succeeded" => lv.phase = "Succeeded"

(* The setters write their own field of the status, and a phase that is    *)
(* not Succeeded.                                                          *)
LEMMA Setters ==
    ASSUME NEW lv \in LogicalVolume, NEW s \in Condition
    PROVE  /\ Kept(lv, NonNil(lv))
           /\ Kept(lv, SetStorageFound(lv, s))
           /\ Kept(lv, SetExecutorEnsured(lv, s))
           /\ Kept(lv, SetExecutorCleanup(lv, s))
           /\ Kept(lv, SetLVMSnapshotCleaned(lv, s))
           /\ Kept(lv, SetDeleteExecutorEnsured(lv, s))
           /\ Kept(lv, [lv EXCEPT !.removedMsg = TRUE])
    <1> DEFINE n == NonNil(lv)
    <1>1. Kept(lv, n)
      BY ZenonT(30) DEF Kept, NonNil, LogicalVolume, Phase
    <1>2. \A m \in LogicalVolume :
              /\ Kept(m, [m EXCEPT !.found = s]) /\ Kept(m, [m EXCEPT !.ensured = s])
              /\ Kept(m, [m EXCEPT !.cleaned = s]) /\ Kept(m, [m EXCEPT !.lvmCleaned = s])
              /\ Kept(m, [m EXCEPT !.deleteEnsured = s])
              /\ Kept(m, [m EXCEPT !.removedMsg = TRUE])
      BY ZenonT(60) DEF Kept, LogicalVolume
    <1> HIDE DEF n
    <1> QED
      BY ZenonT(30), <1>1, <1>2
         DEF Kept, n, SetStorageFound, SetExecutorEnsured, SetExecutorCleanup,
             SetLVMSnapshotCleaned, SetDeleteExecutorEnsured

(* So does UpdateSnapshotOperationStatus, which writes Pending or Failed. *)
LEMMA PhaseSetter ==
    ASSUME NEW lv \in LogicalVolume, NEW ph \in {"Pending", "Failed"}
    PROVE  Kept(lv, UpdateSnapshotOperationStatus(lv, ph))
    BY ZenonT(30) DEF Kept, UpdateSnapshotOperationStatus, LogicalVolume, Phase

(* The writes of the executor pods and of their reconciler. *)
LEMMA PodSetters ==
    ASSUME NEW lv \in LogicalVolume
    PROVE  /\ Kept(lv, [lv EXCEPT !.phase = "Running"])
           /\ Kept(lv, [lv EXCEPT !.phase = "Failed"])
           /\ Kept(lv, FailSnapshotOperation(lv))
           /\ Kept(lv, IF lv.phase = "nil" THEN [lv EXCEPT !.phase = ""] ELSE lv)
           /\ BackupSucceeded(lv) \in LogicalVolume
           /\ BackupSucceeded(lv).deleting = lv.deleting
           /\ BackupSucceeded(lv).del = lv.del
           /\ RestoreSucceeded(lv) \in LogicalVolume
           /\ RestoreSucceeded(lv).deleting = lv.deleting
           /\ RestoreSucceeded(lv).del = lv.del
           /\ [lv EXCEPT !.deleting = TRUE] \in LogicalVolume
    <1> DEFINE b == BackupSucceeded(lv)
               r == RestoreSucceeded(lv)
    <1>1. /\ Kept(lv, [lv EXCEPT !.phase = "Running"])
          /\ Kept(lv, [lv EXCEPT !.phase = "Failed"])
          /\ Kept(lv, FailSnapshotOperation(lv))
      BY ZenonT(30) DEF Kept, FailSnapshotOperation, LogicalVolume, Phase
    <1>2. Kept(lv, IF lv.phase = "nil" THEN [lv EXCEPT !.phase = ""] ELSE lv)
      BY ZenonT(30) DEF Kept, LogicalVolume, Phase
    <1>3. b \in LogicalVolume /\ b.deleting = lv.deleting /\ b.del = lv.del
      BY ZenonT(30) DEF BackupSucceeded, LogicalVolume, Phase
    <1>4. r \in LogicalVolume /\ r.deleting = lv.deleting /\ r.del = lv.del
      BY ZenonT(30) DEF RestoreSucceeded, LogicalVolume, Phase
    <1>5. [lv EXCEPT !.deleting = TRUE] \in LogicalVolume
      BY ZenonT(30) DEF LogicalVolume
    <1> QED
      BY ZenonT(30), <1>1, <1>2, <1>3, <1>4, <1>5

(* What the reconciler does after a reconcile of a CR that is not being    *)
(* deleted is no deletion, and one of an operation that has succeeded.     *)
LEMMA NextCalls ==
    ASSUME NEW lv \in LogicalVolume, NEW restore \in BOOLEAN
    PROVE  /\ SnapshotStep(lv, restore) \notin DeletionCalls
           /\ SnapshotStep(lv, restore) = "removeSnapshot" => lv.phase = "Succeeded"
           /\ DeletionStep(lv) \in DeletionCalls
           /\ DeletionStep(lv) # "removeFinalizer"
           /\ RemoveStep(lv) \in {"RemoveLV", "RemoveLVOnly"}
    BY ZenonT(30)
       DEF SnapshotStep, StartStep, CleanupStep, DeletionStep, RemoveStep, DeletionCalls

(* A call of the reconciler that writes the status from the cached CR. *)
StatusCall ==
    /\ \/ UNCHANGED <<api, fresh>>
       \/ ncache = api /\ api # None /\ Kept(api, api') /\ fresh' = {}
    /\ UNCHANGED <<ncache, devVars, podVars, dataVars, envVars, queued, shouldRestore, pqueued>>
    /\ faults' \in 0 .. MaxFaults /\ timer' \in BOOLEAN

(* Fault takes one of the faults that are left. *)
LEMMA FaultTyped ==
    ASSUME NEW kind, faults \in 0 .. MaxFaults, Fault(kind)
    PROVE  faults' \in 0 .. MaxFaults
    BY SnapAssumption DEF Fault

(* The types that no shape is about are part of TypeOK. *)
LEMMA OtherTypesHold ==
    ASSUME TypeOK
    PROVE  OtherTypes
    <1>1. DeviceTypes
      BY ZenonT(30) DEF TypeOK, SnapTypeOK, DeviceTypes
    <1>2. PodTypes
      BY ZenonT(30) DEF TypeOK, SnapTypeOK, PodTypes
    <1>3. WorldTypes
      BY ZenonT(30) DEF TypeOK, SnapTypeOK, WorldTypes
    <1>4. WorkerTypes
      BY ZenonT(30) DEF TypeOK, SnapTypeOK, RecTypeOK, PodRecTypeOK, WorkerTypes
    <1> QED
      BY <1>1, <1>2, <1>3, <1>4 DEF OtherTypes

(* What is unchanged keeps its type. *)
LEMMA TypesKept ==
    ASSUME OtherTypes
    PROVE  /\ UNCHANGED devVars => DeviceTypes'
           /\ UNCHANGED podVars => PodTypes'
           /\ UNCHANGED dataVars /\ UNCHANGED envVars => WorldTypes'
    <1>1. UNCHANGED devVars => DeviceTypes'
      BY ZenonT(30) DEF OtherTypes, DeviceTypes, devVars
    <1>2. UNCHANGED podVars => PodTypes'
      BY ZenonT(30) DEF OtherTypes, PodTypes, podVars
    <1>3. UNCHANGED dataVars /\ UNCHANGED envVars => WorldTypes'
      BY ZenonT(30) DEF OtherTypes, WorldTypes, dataVars, envVars
    <1> QED
      BY <1>1, <1>2, <1>3

(* Such a call has the shapes, if the next call does. *)
LEMMA StatusCallShape ==
    ASSUME SnapInv, StatusCall, CallStep
    PROVE  Shape
    <1> USE NoneAssumption
    <1>0. /\ UNCHANGED <<ncache, lvm, mounted, published, pod, podSeen, podEvent, dpod,
                         remote, restored, overlap, pv, source, storage, operation,
                         queued, shouldRestore, pqueued>>
          /\ faults' \in 0 .. MaxFaults /\ timer' \in BOOLEAN
      BY DEF StatusCall, devVars, podVars, dataVars, envVars
    <1>1. ApiStep
      BY DEF StatusCall, ApiStep, Kept
    <1>2. CacheStep
      BY <1>0 DEF StatusCall, SnapInv, CacheStep, CopiesInv, Kept
    <1>3. DeviceStep /\ RepositoryStep /\ PodStep /\ DeletePodStep
      BY ZenonT(30), <1>0 DEF DeviceStep, RepositoryStep, PodStep, DeletePodStep, YetToWork
    <1>4. OtherTypes'
      <2>1. OtherTypes
        BY OtherTypesHold DEF SnapInv
      <2>2. WorkerTypes'
        BY ZenonT(30), <2>1 DEF StatusCall, OtherTypes, WorkerTypes
      <2> QED
        BY ZenonT(30), <2>1, <2>2, TypesKept DEF StatusCall, OtherTypes
    <1> QED
      BY <1>0, <1>1, <1>2, <1>3, <1>4 DEF Shape

(* The calls that write the status have the shapes. *)
LEMMA StatusCallsShape ==
    ASSUME SnapInv, UNCHANGED pqueued,
           \/ InitializeSnapshotStatus \/ ValidateStorage \/ StorageNotFound
           \/ FailOperation \/ EnsuredTrue \/ EnsuredFalse
           \/ CleanedTrue \/ CleanedFalse \/ LVMCleaned \/ Message \/ DeleteEnsured
    PROVE  Shape
    <1> SUFFICES StatusCall /\ CallStep
      BY StatusCallShape
    <1>0. /\ ncache \in LogicalVolume \cup {None} /\ faults \in 0 .. MaxFaults
          /\ timer \in BOOLEAN /\ shouldRestore \in BOOLEAN /\ rpc \in Calls
          /\ "ncache" \in fresh => ncache = api
          /\ rpc \in DeletionCalls => Deleting(ncache)
      BY ZenonT(30) DEF SnapInv, TypeOK, SnapTypeOK, RecTypeOK, CopiesInv, DeletionInv
    <1> USE NoneAssumption
    <1>1. CASE InitializeSnapshotStatus
      <2>1. StatusCall
        BY ZenonT(30), <1>0, <1>1, PhaseSetter, FaultTyped
           DEF InitializeSnapshotStatus, StatusWrite, StatusCall, Put, Goto, Enter, Condition
      <2>2. CallStep
        BY ZenonT(30), <1>0, <1>1
           DEF InitializeSnapshotStatus, StatusWrite, CallStep, Goto, Enter, Calls,
               DeletionCalls, Deleting
      <2> QED
        BY <2>1, <2>2
    <1>2. CASE ValidateStorage
      <2>1. StatusCall
        BY ZenonT(30), <1>0, <1>2, Setters, FaultTyped
           DEF ValidateStorage, StatusWrite, StatusCall, Put, Goto, Enter, Condition
      <2>2. CallStep
        BY ZenonT(30), <1>0, <1>2
           DEF ValidateStorage, StatusWrite, CallStep, Goto, Enter, Calls, DeletionCalls, Deleting
      <2> QED
        BY <2>1, <2>2
    <1>3. CASE StorageNotFound
      <2>1. StatusCall
        BY ZenonT(30), <1>0, <1>3, PhaseSetter, Setters, FaultTyped
           DEF StorageNotFound, StatusWrite, StatusCall, Put, Goto, Enter, Condition
      <2>2. CallStep
        BY ZenonT(30), <1>0, <1>3
           DEF StorageNotFound, StatusWrite, CallStep, Goto, Enter, Calls, DeletionCalls, Deleting
      <2> QED
        BY <2>1, <2>2
    <1>4. CASE FailOperation
      <2>1. StatusCall
        BY ZenonT(30), <1>0, <1>4, PhaseSetter, FaultTyped
           DEF FailOperation, StatusWrite, StatusCall, Put, Goto, Enter, Condition
      <2>2. CallStep
        BY ZenonT(30), <1>0, <1>4
           DEF FailOperation, StatusWrite, CallStep, Goto, Enter, Calls, DeletionCalls, Deleting
      <2> QED
        BY <2>1, <2>2
    <1>5. CASE EnsuredTrue
      <2>1. StatusCall
        BY ZenonT(30), <1>0, <1>5, Setters, FaultTyped
           DEF EnsuredTrue, StatusWrite, StatusCall, Put, Goto, Enter, Condition
      <2>2. CallStep
        BY ZenonT(30), <1>0, <1>5
           DEF EnsuredTrue, StatusWrite, CallStep, Goto, Enter, Calls, DeletionCalls, Deleting
      <2> QED
        BY <2>1, <2>2
    <1>6. CASE EnsuredFalse
      <2>1. StatusCall
        BY ZenonT(30), <1>0, <1>6, Setters, FaultTyped
           DEF EnsuredFalse, StatusWrite, StatusCall, Put, Goto, Enter, Condition
      <2>2. CallStep
        BY ZenonT(30), <1>0, <1>6
           DEF EnsuredFalse, StatusWrite, CallStep, Goto, Enter, Calls, DeletionCalls, Deleting
      <2> QED
        BY <2>1, <2>2
    <1>7. CASE CleanedTrue
      <2> DEFINE lv == SetExecutorCleanup(ncache, "True")
                 step == SnapshotStep(lv, shouldRestore)
      <2>1. ncache # None => Kept(ncache, lv)
        BY ZenonT(30), <1>0, Setters DEF Condition
      <2>2. ncache # None =>
              /\ step \notin DeletionCalls
              /\ step = "removeSnapshot" => ncache.phase = "Succeeded"
        BY <1>0, <2>1, NextCalls DEF Kept
      <2>3. StatusWrite(lv, step, "error") /\ rpc = "cleanedTrue"
        BY <1>7 DEF CleanedTrue
      <2> HIDE DEF lv, step
      <2>4. StatusCall
        BY ZenonT(30), <1>0, <2>1, <2>3, FaultTyped
           DEF StatusWrite, StatusCall, Put, Goto, Enter
      <2>5. CallStep
        BY <1>0, <2>2, <2>3 DEF StatusWrite, CallStep, Goto, Enter, Calls, DeletionCalls
      <2> QED
        BY <2>4, <2>5
    <1>8. CASE CleanedFalse
      <2>1. StatusCall
        BY ZenonT(30), <1>0, <1>8, Setters, FaultTyped
           DEF CleanedFalse, StatusWrite, StatusCall, Put, Goto, Enter, Condition
      <2>2. CallStep
        BY ZenonT(30), <1>0, <1>8
           DEF CleanedFalse, StatusWrite, CallStep, Goto, Enter, Calls, DeletionCalls, Deleting
      <2> QED
        BY <2>1, <2>2
    <1>9. CASE LVMCleaned
      <2>1. StatusCall
        BY ZenonT(30), <1>0, <1>9, Setters, FaultTyped
           DEF LVMCleaned, StatusWrite, StatusCall, Put, Goto, Enter, Condition
      <2>2. CallStep
        BY ZenonT(30), <1>0, <1>9
           DEF LVMCleaned, StatusWrite, CallStep, Goto, Enter, Calls, DeletionCalls, Deleting
      <2> QED
        BY <2>1, <2>2
    <1>10. CASE Message
      <2>1. StatusCall
        BY ZenonT(30), <1>0, <1>10, Setters, FaultTyped
           DEF Message, StatusWrite, StatusCall, Put, Goto, Enter, Condition
      <2>2. CallStep
        BY <1>0, <1>10
           DEF Message, StatusWrite, CallStep, Goto, Enter, Calls, DeletionCalls, Deleting
      <2> QED
        BY <2>1, <2>2
    <1>11. CASE DeleteEnsured
      <2>1. StatusCall
        BY ZenonT(30), <1>0, <1>11, Setters, FaultTyped
           DEF DeleteEnsured, StatusWrite, StatusCall, Put, Goto, Enter, Condition
      <2>2. CallStep
        BY ZenonT(30), <1>0, <1>11, NextCalls
           DEF DeleteEnsured, StatusWrite, CallStep, Goto, Enter, Calls, DeletionCalls, Deleting
      <2> QED
        BY <2>1, <2>2
    <1> QED
      BY <1>1, <1>2, <1>3, <1>4, <1>5, <1>6, <1>7, <1>8, <1>9, <1>10, <1>11

(* A step that leaves the CR and its copies alone. *)
LEMMA ObjectsKept ==
    ASSUME SnapInv, UNCHANGED objVars
    PROVE  ApiStep /\ CacheStep /\ fresh' = fresh
    BY DEF SnapInv, CopiesInv, ApiStep, CacheStep, objVars

(* The pods that calls and events make of a pod. *)
LEMMA PodsTyped ==
    ASSUME NEW p \in Pod
    PROVE  /\ NoPod \in Pod
           /\ [NoPod EXCEPT !.at = "pending"] \in Pod
           /\ [NoPod EXCEPT !.at = "pending"].at = "pending"
           /\ [p EXCEPT !.deleting = TRUE] \in Pod
           /\ [p EXCEPT !.deleting = TRUE].at = p.at
           /\ NoDeletePod \in DeletePod
           /\ [NoDeletePod EXCEPT !.at = "pending"] \in DeletePod
           /\ [NoDeletePod EXCEPT !.at = "pending"].at = "pending"
    BY ZenonT(30) DEF Pod, NoPod, DeletePod, NoDeletePod, Condition

(* The other calls of the reconciler, its cache and its timer. *)
LEMMA OtherCallsShape ==
    ASSUME SnapInv, UNCHANGED pqueued,
           \/ Reconcile \/ Mount \/ CreateSnapshotPod \/ CreateRestorePod
           \/ CleanUnmount \/ CleanPod \/ RemoveSnapshot
           \/ DeleteUnmount \/ DeleteExecutor \/ DeletePodFirst \/ DeletionUnmount
           \/ RemoveLV \/ RemoveFinalizer \/ NodeCacheSync \/ TimerFires
    PROVE  Shape
    <1> USE NoneAssumption
    <1>a. OtherTypes
      BY OtherTypesHold DEF SnapInv
    <1>0. /\ api \in LogicalVolume \cup {None} /\ ncache \in LogicalVolume \cup {None}
          /\ rpc \in Calls
          /\ rpc \in DeletionCalls => Deleting(ncache)
      BY ZenonT(30) DEF SnapInv, TypeOK, SnapTypeOK, RecTypeOK, DeletionInv
    <1>1. CASE Reconcile
      <2>1. /\ UNCHANGED storeVars /\ rpc = "idle" /\ queued' = FALSE
            /\ shouldRestore' = source
            /\ IF ncache = None THEN UNCHANGED <<rpc, timer>>
               ELSE Enter(IF ncache.deleting THEN DeletionStep(ncache)
                          ELSE SnapshotStep(ncache, source))
        BY ZenonT(30), <1>1 DEF Reconcile, RestoreCandidate
      <2>2. CallStep
        <3>1. CASE ncache = None
          BY <1>0, <2>1, <3>1 DEF CallStep, Calls, DeletionCalls
        <3>2. CASE ncache # None /\ ncache.deleting
          <4>1. DeletionStep(ncache) \in DeletionCalls \ {"removeFinalizer"}
            BY ZenonT(30), <1>0, <3>2, NextCalls
          <4> QED
            BY ZenonT(30), <1>0, <2>1, <3>2, <4>1
               DEF CallStep, Enter, Calls, DeletionCalls, Deleting
        <3>3. CASE ncache # None /\ ~ncache.deleting
          <4>1. /\ SnapshotStep(ncache, source) \notin DeletionCalls
                /\ SnapshotStep(ncache, source) = "removeSnapshot" => ncache.phase = "Succeeded"
            BY ZenonT(30), <1>0, <1>a, <3>3, NextCalls DEF OtherTypes, WorldTypes
          <4> QED
            BY ZenonT(30), <1>0, <2>1, <3>3, <4>1
               DEF CallStep, Enter, Calls, DeletionCalls, Deleting
        <3> QED
          BY <3>1, <3>2, <3>3
      <2>3. DeviceStep /\ RepositoryStep /\ PodStep /\ DeletePodStep /\ operation' = operation
        BY ZenonT(30), <2>1 DEF DeviceStep, RepositoryStep, PodStep, DeletePodStep, YetToWork,
           storeVars, devVars, podVars, dataVars, envVars
      <2>4. WorkerTypes'
        BY ZenonT(30), <1>a, <2>1
           DEF OtherTypes, WorkerTypes, WorldTypes, Enter, storeVars, objVars
      <2>5. OtherTypes'
        BY ZenonT(30), <1>a, <2>1, <2>4, TypesKept DEF OtherTypes, storeVars
      <2>6. UNCHANGED objVars
        BY <2>1 DEF storeVars
      <2> QED
        BY <2>2, <2>3, <2>5, <2>6, ObjectsKept DEF Shape
    <1>2. CASE Mount
      <2>1. UNCHANGED objVars /\ operation' = operation
        BY <1>2 DEF Mount, envVars
      <2>2. CallStep
        BY ZenonT(30), <1>0, <1>2 DEF Mount, CallStep, Goto, Enter, Calls, DeletionCalls
      <2>3. DeviceStep /\ RepositoryStep /\ PodStep /\ DeletePodStep
        BY ZenonT(30), <1>a, <1>2
           DEF Mount, DeviceStep, RepositoryStep, PodStep, DeletePodStep, YetToWork,
               DeletionCalls, OtherTypes, PodTypes, devVars, podVars, dataVars
      <2>4. OtherTypes'
        BY ZenonT(30), <1>a, <1>2, TypesKept, FaultTyped
           DEF OtherTypes, DeviceTypes, WorkerTypes, Mount, Goto, Enter, objVars
      <2> QED
        BY <2>1, <2>2, <2>3, <2>4, ObjectsKept DEF Shape
    <1>3. CASE CreateSnapshotPod
      <2>1. UNCHANGED objVars /\ operation' = operation
        BY <1>3 DEF CreateSnapshotPod, EnsurePod, envVars
      <2>2. CallStep
        BY <1>0, <1>3
           DEF CreateSnapshotPod, EnsurePod, CallStep, Goto, Enter, Calls, DeletionCalls
      <2>3. DeviceStep /\ RepositoryStep /\ PodStep /\ DeletePodStep
        BY ZenonT(30), <1>a, <1>3, PodsTyped
           DEF CreateSnapshotPod, EnsurePod, DeviceStep, RepositoryStep, PodStep,
               DeletePodStep, YetToWork, DeletionCalls, OtherTypes, PodTypes, devVars,
               podVars, dataVars
      <2>4. OtherTypes'
        BY ZenonT(30), <1>a, <1>3, TypesKept, PodsTyped, FaultTyped
           DEF OtherTypes, PodTypes, WorkerTypes, CreateSnapshotPod, EnsurePod, Goto,
               Enter, objVars
      <2> QED
        BY <2>1, <2>2, <2>3, <2>4, ObjectsKept DEF Shape
    <1>4. CASE CreateRestorePod
      <2>1. UNCHANGED objVars /\ operation' = operation
        BY <1>4 DEF CreateRestorePod, EnsurePod, envVars
      <2>2. CallStep
        BY <1>0, <1>4
           DEF CreateRestorePod, EnsurePod, CallStep, Goto, Enter, Calls, DeletionCalls
      <2>3. DeviceStep /\ RepositoryStep /\ PodStep /\ DeletePodStep
        BY ZenonT(30), <1>a, <1>4, PodsTyped
           DEF CreateRestorePod, EnsurePod, DeviceStep, RepositoryStep, PodStep,
               DeletePodStep, YetToWork, DeletionCalls, OtherTypes, PodTypes, devVars,
               podVars, dataVars
      <2>4. OtherTypes'
        BY ZenonT(30), <1>a, <1>4, TypesKept, PodsTyped, FaultTyped
           DEF OtherTypes, PodTypes, WorkerTypes, CreateRestorePod, EnsurePod, Goto,
               Enter, objVars
      <2> QED
        BY <2>1, <2>2, <2>3, <2>4, ObjectsKept DEF Shape
    <1>5. CASE CleanUnmount
      <2>1. UNCHANGED objVars /\ operation' = operation
        BY <1>5 DEF CleanUnmount, Unmount, envVars
      <2>2. CallStep
        BY ZenonT(30), <1>0, <1>5 DEF CleanUnmount, Unmount, CallStep, Goto, Enter, Calls, DeletionCalls
      <2>3. DeviceStep /\ RepositoryStep /\ PodStep /\ DeletePodStep
        BY ZenonT(30), <1>a, <1>5
           DEF CleanUnmount, Unmount, DeviceStep, RepositoryStep, PodStep,
               DeletePodStep, YetToWork, DeletionCalls, OtherTypes, PodTypes, devVars,
               podVars, dataVars
      <2>4. OtherTypes'
        BY ZenonT(30), <1>a, <1>5, TypesKept, FaultTyped
           DEF OtherTypes, DeviceTypes, WorkerTypes, CleanUnmount, Unmount, Goto,
               Enter, objVars
      <2> QED
        BY <2>1, <2>2, <2>3, <2>4, ObjectsKept DEF Shape
    <1>6. CASE CleanPod
      <2>1. UNCHANGED objVars /\ operation' = operation
        BY <1>6 DEF CleanPod, KillPod, envVars
      <2>2. CallStep
        BY <1>0, <1>6 DEF CleanPod, KillPod, CallStep, Goto, Enter, Calls, DeletionCalls
      <2>3. DeviceStep /\ RepositoryStep /\ PodStep /\ DeletePodStep
        BY ZenonT(30), <1>a, <1>6, PodsTyped
           DEF CleanPod, KillPod, DeviceStep, RepositoryStep, PodStep, DeletePodStep,
               YetToWork, DeletionCalls, OtherTypes, PodTypes, devVars, podVars,
               dataVars
      <2>4. OtherTypes'
        BY ZenonT(30), <1>a, <1>6, TypesKept, PodsTyped, FaultTyped
           DEF OtherTypes, PodTypes, WorkerTypes, CleanPod, KillPod, Goto, Enter,
               objVars
      <2> QED
        BY <2>1, <2>2, <2>3, <2>4, ObjectsKept DEF Shape
    <1>7. CASE RemoveSnapshot
      <2>1. UNCHANGED objVars /\ operation' = operation
        BY <1>7 DEF RemoveSnapshot, CallRemoveLV, envVars
      <2>2. CallStep
        BY ZenonT(30), <1>0, <1>7
           DEF RemoveSnapshot, CallRemoveLV, CallStep, Goto, Enter, Calls, DeletionCalls
      <2>3. DeviceStep /\ RepositoryStep /\ PodStep /\ DeletePodStep
        BY ZenonT(30), <1>a, <1>7
           DEF RemoveSnapshot, CallRemoveLV, DeviceStep, RepositoryStep, PodStep,
               DeletePodStep, YetToWork, DeletionCalls, OtherTypes, PodTypes, devVars,
               podVars, dataVars
      <2>4. OtherTypes'
        BY ZenonT(30), <1>a, <1>7, TypesKept, FaultTyped
           DEF OtherTypes, DeviceTypes, WorkerTypes, RemoveSnapshot, CallRemoveLV,
               Goto, Enter, objVars
      <2> QED
        BY <2>1, <2>2, <2>3, <2>4, ObjectsKept DEF Shape
    <1>8. CASE DeleteUnmount
      <2>1. UNCHANGED objVars /\ operation' = operation
        BY <1>8 DEF DeleteUnmount, Unmount, envVars
      <2>2. CallStep
        BY ZenonT(30), <1>0, <1>8 DEF DeleteUnmount, Unmount, CallStep, Goto, Enter, Calls, DeletionCalls
      <2>3. DeviceStep /\ RepositoryStep /\ PodStep /\ DeletePodStep
        BY ZenonT(30), <1>a, <1>8
           DEF DeleteUnmount, Unmount, DeviceStep, RepositoryStep, PodStep,
               DeletePodStep, YetToWork, DeletionCalls, OtherTypes, PodTypes, devVars,
               podVars, dataVars
      <2>4. OtherTypes'
        BY ZenonT(30), <1>a, <1>8, TypesKept, FaultTyped
           DEF OtherTypes, DeviceTypes, WorkerTypes, DeleteUnmount, Unmount, Goto,
               Enter, objVars
      <2> QED
        BY <2>1, <2>2, <2>3, <2>4, ObjectsKept DEF Shape
    <1>9. CASE DeleteExecutor
      <2>1. UNCHANGED objVars /\ operation' = operation
        BY <1>9 DEF DeleteExecutor, YetToWork, envVars
      <2>2. CallStep
        BY <1>0, <1>9 DEF DeleteExecutor, YetToWork, CallStep, Goto, Enter, Calls, DeletionCalls
      <2>3. DeviceStep /\ RepositoryStep /\ PodStep /\ DeletePodStep
        <3>1. UNCHANGED <<lvm, remote, pod>>
          BY ZenonT(30), <1>9 DEF DeleteExecutor, devVars
        <3>2. \/ UNCHANGED <<dpod, overlap>>
              \/ /\ dpod' = [NoDeletePod EXCEPT !.at = "pending"]
                 /\ overlap' = (overlap \/ YetToWork(pod))
          BY ZenonT(30), <1>9 DEF DeleteExecutor
        <3>3. DeletePodStep
          <4>1. CASE UNCHANGED <<dpod, overlap>>
            BY ZenonT(30), <4>1 DEF DeletePodStep
          <4>2. CASE /\ dpod' = [NoDeletePod EXCEPT !.at = "pending"]
                     /\ overlap' = (overlap \/ YetToWork(pod))
            <5>1. dpod'.at = "pending"
              BY ZenonT(30), <4>2 DEF NoDeletePod
            <5>2. (overlap => overlap') /\ (overlap' \/ ~YetToWork(pod'))
              BY ZenonT(30), <4>2, <3>1 DEF YetToWork
            <5>3. rpc = "deleteExecutor"
              BY <1>9 DEF DeleteExecutor
            <5> QED
              BY ZenonT(30), <5>1, <5>2, <5>3 DEF DeletePodStep
          <4> QED
            BY <3>2, <4>1, <4>2
        <3> QED
          BY ZenonT(30), <3>1, <3>3 DEF DeviceStep, RepositoryStep, PodStep
      <2>4. OtherTypes'
        <3>1. PodTypes'
          BY ZenonT(30), <1>a, <1>9, PodsTyped DEF DeleteExecutor, OtherTypes, PodTypes
        <3>2. WorldTypes'
          BY ZenonT(30), <1>a, <1>9
             DEF DeleteExecutor, YetToWork, OtherTypes, WorldTypes, envVars
        <3>3. WorkerTypes'
          BY ZenonT(30), <1>a, <1>9, FaultTyped
             DEF DeleteExecutor, OtherTypes, WorkerTypes, Goto, Enter, objVars
        <3> QED
          BY ZenonT(30), <1>a, <1>9, <3>1, <3>2, <3>3, TypesKept DEF DeleteExecutor, OtherTypes
      <2> QED
        BY <2>1, <2>2, <2>3, <2>4, ObjectsKept DEF Shape
    <1>10. CASE DeletePodFirst
      <2>1. UNCHANGED objVars /\ operation' = operation
        BY <1>10 DEF DeletePodFirst, KillPod, envVars
      <2>2. CallStep
        BY <1>0, <1>10 DEF DeletePodFirst, KillPod, CallStep, Goto, Enter, Calls, DeletionCalls
      <2>3. DeviceStep /\ RepositoryStep /\ PodStep /\ DeletePodStep
        BY ZenonT(30), <1>a, <1>10, PodsTyped
           DEF DeletePodFirst, KillPod, DeviceStep, RepositoryStep, PodStep,
               DeletePodStep, YetToWork, DeletionCalls, OtherTypes, PodTypes, devVars,
               podVars, dataVars
      <2>4. OtherTypes'
        BY ZenonT(30), <1>a, <1>10, TypesKept, PodsTyped, FaultTyped
           DEF OtherTypes, PodTypes, WorkerTypes, DeletePodFirst, KillPod, Goto, Enter,
               objVars
      <2> QED
        BY <2>1, <2>2, <2>3, <2>4, ObjectsKept DEF Shape
    <1>11. CASE DeletionUnmount
      <2>1. UNCHANGED objVars /\ operation' = operation
        BY <1>11 DEF DeletionUnmount, Unmount, envVars
      <2>2. CallStep
        BY ZenonT(30), <1>0, <1>11 DEF DeletionUnmount, Unmount, CallStep, Goto, Enter, Calls, DeletionCalls
      <2>3. DeviceStep /\ RepositoryStep /\ PodStep /\ DeletePodStep
        BY ZenonT(30), <1>a, <1>11
           DEF DeletionUnmount, Unmount, DeviceStep, RepositoryStep, PodStep,
               DeletePodStep, YetToWork, DeletionCalls, OtherTypes, PodTypes, devVars,
               podVars, dataVars
      <2>4. OtherTypes'
        BY ZenonT(30), <1>a, <1>11, TypesKept, FaultTyped
           DEF OtherTypes, DeviceTypes, WorkerTypes, DeletionUnmount, Unmount, Goto,
               Enter, objVars
      <2> QED
        BY <2>1, <2>2, <2>3, <2>4, ObjectsKept DEF Shape
    <1>12. CASE RemoveLV
      <2>1. UNCHANGED objVars /\ operation' = operation
        BY ZenonT(30), <1>12 DEF RemoveLV, CallRemoveLV, envVars
      <2>2. CallStep
        BY ZenonT(30), <1>0, <1>12
           DEF RemoveLV, CallRemoveLV, CallStep, Goto, Enter, Calls, DeletionCalls
      <2>3. DeviceStep /\ RepositoryStep /\ PodStep /\ DeletePodStep
        <3>1. (lvm' = lvm \/ lvm' = FALSE) /\ UNCHANGED <<remote, pod, dpod, overlap>>
          BY ZenonT(30), <1>12 DEF RemoveLV, CallRemoveLV, podVars, dataVars
        <3>2. rpc \in DeletionCalls
          BY <1>12 DEF RemoveLV, DeletionCalls
        <3> QED
          BY ZenonT(30), <3>1, <3>2 DEF DeviceStep, RepositoryStep, PodStep, DeletePodStep
      <2>4. OtherTypes'
        BY ZenonT(30), <1>a, <1>12, TypesKept, FaultTyped
           DEF OtherTypes, DeviceTypes, WorkerTypes, RemoveLV, CallRemoveLV, Goto,
               Enter, objVars
      <2> QED
        BY <2>1, <2>2, <2>3, <2>4, ObjectsKept DEF Shape
    <1>13. CASE RemoveFinalizer
      <2>1. UNCHANGED <<ncache, devVars, podVars, dataVars, envVars, queued, shouldRestore>>
        BY <1>13 DEF RemoveFinalizer, Goto
      <2>2. CallStep
        BY ZenonT(30), <1>0, <1>13 DEF RemoveFinalizer, CallStep, Goto, Enter, Calls, DeletionCalls
      <2>3. ApiStep
        BY <1>13 DEF RemoveFinalizer, ApiStep, Put
      <2>4. CacheStep
        BY ZenonT(30), <1>13 DEF RemoveFinalizer, CacheStep, Put, SnapInv, CopiesInv
      <2>5. DeviceStep /\ RepositoryStep /\ PodStep /\ DeletePodStep /\ operation' = operation
        BY <2>1 DEF DeviceStep, RepositoryStep, PodStep, DeletePodStep, YetToWork,
           devVars, podVars, dataVars, envVars
      <2>6. fresh' \subseteq {"ncache", "pod"}
        BY ZenonT(30), <1>a, <1>13 DEF RemoveFinalizer, OtherTypes, WorkerTypes, Put
      <2>7. OtherTypes'
        BY ZenonT(30), <1>a, <1>13, <2>6, TypesKept, FaultTyped
           DEF OtherTypes, WorkerTypes, RemoveFinalizer, Goto, Enter
      <2> QED
        BY <2>2, <2>3, <2>4, <2>5, <2>7 DEF Shape
    <1>14. CASE NodeCacheSync
      <2>1. /\ UNCHANGED <<api, devVars, podVars, dataVars, envVars, faults, timer, rpc,
                           shouldRestore>>
            /\ queued' = TRUE /\ ncache' = api /\ fresh' = fresh \cup {"ncache"}
        BY <1>14 DEF NodeCacheSync
      <2>2. ApiStep /\ CacheStep
        BY <2>1 DEF ApiStep, CacheStep, SnapInv, CopiesInv
      <2>3. CallStep
        BY <1>0, <2>1 DEF CallStep, DeletionCalls
      <2>4. DeviceStep /\ RepositoryStep /\ PodStep /\ DeletePodStep /\ operation' = operation
        BY <2>1 DEF DeviceStep, RepositoryStep, PodStep, DeletePodStep, YetToWork,
           devVars, podVars, dataVars, envVars
      <2>5. OtherTypes'
        BY ZenonT(30), <1>a, <2>1, TypesKept DEF OtherTypes, WorkerTypes
      <2> QED
        BY <2>2, <2>3, <2>4, <2>5 DEF Shape
    <1>15. CASE TimerFires
      <2>1. UNCHANGED <<storeVars, rpc, shouldRestore>> /\ queued' = TRUE /\ timer' = FALSE
        BY <1>15 DEF TimerFires
      <2>2. CallStep
        BY <1>0, <2>1 DEF CallStep, DeletionCalls
      <2>3. DeviceStep /\ RepositoryStep /\ PodStep /\ DeletePodStep /\ operation' = operation
        BY <2>1 DEF DeviceStep, RepositoryStep, PodStep, DeletePodStep, YetToWork,
           storeVars, devVars, podVars, dataVars, envVars
      <2>4. OtherTypes'
        BY ZenonT(30), <1>a, <2>1, TypesKept DEF OtherTypes, WorkerTypes, storeVars, objVars
      <2>5. UNCHANGED objVars
        BY <2>1 DEF storeVars
      <2> QED
        BY <2>2, <2>3, <2>4, <2>5, ObjectsKept DEF Shape
    <1> QED
      BY <1>1, <1>2, <1>3, <1>4, <1>5, <1>6, <1>7, <1>8, <1>9, <1>10, <1>11, <1>12,
         <1>13, <1>14, <1>15

(* The snapshotter of a pod goes on. *)
LEMMA PodAtIs ==
    ASSUME pod \in Pod, podEvent \in BOOLEAN,
           NEW at \in {"working", "failing", "done", "succeeded", "failed"}, PodAt(at)
    PROVE  /\ pod' \in Pod /\ pod'.at = at /\ podEvent' \in BOOLEAN
           /\ UNCHANGED <<podSeen, dpod>>
    <1>1. [pod EXCEPT !.at = at] \in Pod /\ [pod EXCEPT !.at = at].at = at
      BY ZenonT(30) DEF Pod
    <1> QED
      BY ZenonT(30), <1>1 DEF PodAt

(* So does that of the delete pod. *)
LEMMA DeletePodAtIs ==
    ASSUME dpod \in DeletePod,
           NEW at \in {"working", "forgotten", "failing", "ended"}, DeletePodAt(at)
    PROVE  /\ dpod' \in DeletePod /\ dpod'.at = at
           /\ UNCHANGED <<pod, podSeen, podEvent>>
    <1>1. dpod.deleteEnsured \in Condition
      BY DEF DeletePod
    <1> QED
      BY ZenonT(30), <1>1 DEF DeletePodAt, DeletePod, Condition

(* updateLVStatusCondition of the delete command. *)
LEMMA DeleteConditionIs ==
    ASSUME api \in LogicalVolume \cup {None}, dpod \in DeletePod,
           NEW del \in {"Running", "Succeeded", "Failed"},
           NEW at \in {"working", "ended"}, DeleteCondition(del, at)
    PROVE  \/ UNCHANGED <<api, fresh>>
           \/ /\ api # None /\ api' \in LogicalVolume /\ fresh' = {}
              /\ api'.deleting = api.deleting /\ api'.phase = api.phase /\ api'.del = del
    <1>1. dpod.deleteEnsured \in Condition
      BY DEF DeletePod
    <1>2. \/ UNCHANGED <<api, fresh>>
          \/ /\ api # None /\ fresh' = {}
             /\ api' = [api EXCEPT !.del = del, !.deleteEnsured = dpod.deleteEnsured]
      BY ZenonT(30) DEF DeleteCondition, Put
    <1> DEFINE new == [api EXCEPT !.del = del, !.deleteEnsured = dpod.deleteEnsured]
    <1>3. api # None => /\ new \in LogicalVolume
                        /\ new.deleting = api.deleting /\ new.phase = api.phase /\ new.del = del
      BY ZenonT(30), <1>1 DEF LogicalVolume
    <1> QED
      BY ZenonT(30), <1>2, <1>3

(* A step outside the reconciler that leaves the devices alone. *)
LEMMA ReconcilerKept ==
    ASSUME SnapInv, UNCHANGED <<recVars, lvm>>
    PROVE  CallStep /\ DeviceStep /\ UNCHANGED <<queued, timer, shouldRestore>>
    BY DEF SnapInv, TypeOK, RecTypeOK, recVars, CallStep, DeviceStep, DeletionCalls

(* The steps of the executor pods and of their reconciler. *)
LEMMA SnapshotterShape ==
    ASSUME SnapInv, SnapshotterNext, UNCHANGED recVars
    PROVE  Shape
    <1> USE NoneAssumption
    <1>a. OtherTypes
      BY OtherTypesHold DEF SnapInv
    <1>b. pod \in Pod /\ podEvent \in BOOLEAN /\ dpod \in DeletePod
      BY ZenonT(30), <1>a DEF OtherTypes, PodTypes
    <1>0. /\ api \in LogicalVolume \cup {None} /\ ncache \in LogicalVolume \cup {None}
          /\ "ncache" \in fresh => ncache = api
          /\ "pod" \in fresh => api # None
      BY DEF SnapInv, TypeOK, SnapTypeOK, CopiesInv
    <1>1. CASE PodLoad
      <2>1. UNCHANGED <<ncache, operation, overlap, api, dpod, remote>>
        BY ZenonT(30), <1>1 DEF PodLoad, PodAt, objVars, podVars, dataVars, envVars
      <2>2. CallStep /\ DeviceStep /\ UNCHANGED <<queued, timer, shouldRestore>>
        BY ZenonT(30), <1>1, ReconcilerKept DEF PodLoad, PodAt, devVars
      <2>3. ApiStep
        BY <2>1 DEF ApiStep
      <2>4. CacheStep
        BY <1>0, <1>1, <2>1 DEF PodLoad, objVars, CacheStep
      <2>5. RepositoryStep
        BY <2>1 DEF RepositoryStep
      <2>6. PodStep
        <3>1. mounted \in BOOLEAN
          BY ZenonT(30), <1>a DEF OtherTypes, DeviceTypes
        <3>2. LET p == [pod EXCEPT !.at = "loaded", !.data = mounted]
              IN  p \in Pod /\ p.at = "loaded"
          BY ZenonT(30), <1>b, <3>1 DEF Pod
        <3>3. pod.at = "pending" /\ (pod'.at = "failed" \/ pod'.at = "loaded") /\ pod' \in Pod
          BY ZenonT(30), <1>b, <1>1, <3>2, PodAtIs DEF PodLoad
        <3> QED
          BY <3>3 DEF PodStep, YetToWork
      <2>7. DeletePodStep
        BY <2>1 DEF DeletePodStep
      <2>8. OtherTypes'
        <3>1. mounted \in BOOLEAN
          BY ZenonT(30), <1>a DEF OtherTypes, DeviceTypes
        <3>2. [pod EXCEPT !.at = "loaded", !.data = mounted] \in Pod
          BY ZenonT(30), <1>b, <3>1 DEF Pod
        <3>3. PodTypes'
          BY ZenonT(30), <1>a, <1>b, <1>1, <3>2, PodAtIs DEF PodLoad, OtherTypes, PodTypes
        <3>4. fresh' \subseteq {"ncache", "pod"}
          BY <1>a, <1>1 DEF PodLoad, OtherTypes, WorkerTypes
        <3> QED
          BY ZenonT(30), <1>a, <1>1, <2>2, <3>3, <3>4, TypesKept
             DEF PodLoad, OtherTypes, WorkerTypes
      <2> QED
        BY <2>1, <2>2, <2>3, <2>4, <2>5, <2>6, <2>7, <2>8 DEF Shape
    <1>2. CASE SetStatusRunning
      <2>1. UNCHANGED <<ncache, operation, overlap, dpod, remote>>
        BY ZenonT(30), <1>2
           DEF SetStatusRunning, Put, PodAt, objVars, podVars, dataVars, envVars
      <2>2. CallStep /\ DeviceStep /\ UNCHANGED <<queued, timer, shouldRestore>>
        BY ZenonT(30), <1>2, ReconcilerKept DEF SetStatusRunning, Put, devVars
      <2>3. ApiStep
        <3>1. api' = api \/ (api # None /\ Kept(api, api'))
          BY ZenonT(30), <1>0, <1>2, PodSetters DEF SetStatusRunning, Put
        <3> QED
          BY <3>1 DEF ApiStep, Kept
      <2>4. CacheStep
        <3>1. \/ UNCHANGED <<api, fresh>>
              \/ api' \in LogicalVolume /\ fresh' = {"pod"}
          BY ZenonT(30), <1>0, <1>2, PodSetters DEF SetStatusRunning, Put, Kept
        <3> QED
          BY <1>0, <2>1, <3>1 DEF CacheStep
      <2>5. RepositoryStep
        BY <2>1 DEF RepositoryStep
      <2>6. PodStep
        BY <1>b, <1>2, PodAtIs DEF SetStatusRunning, Put, PodStep, YetToWork
      <2>7. DeletePodStep
        BY <2>1 DEF DeletePodStep
      <2>8. OtherTypes'
        BY ZenonT(30), <1>a, <1>2, TypesKept, PodAtIs, FaultTyped, <2>2
           DEF OtherTypes, PodTypes, WorkerTypes, SetStatusRunning, Put
      <2> QED
        BY <2>1, <2>2, <2>3, <2>4, <2>5, <2>6, <2>7, <2>8 DEF Shape
    <1>3. CASE ReportProgress
      <2>1. UNCHANGED <<ncache, operation, overlap, pod, dpod, remote>>
        BY ZenonT(30), <1>3 DEF ReportProgress, Put, objVars, podVars, dataVars, envVars
      <2>2. CallStep /\ DeviceStep /\ UNCHANGED <<queued, timer, shouldRestore>>
        BY ZenonT(30), <1>3, ReconcilerKept DEF ReportProgress, Put, devVars
      <2>3. ApiStep
        BY ZenonT(30), <1>0, <1>3, PodSetters DEF ReportProgress, Put, ApiStep, Kept
      <2>4. CacheStep
        BY ZenonT(30), <1>0, <1>3, <2>1, PodSetters DEF ReportProgress, Put, CacheStep, Kept
      <2>5. RepositoryStep
        BY <2>1 DEF RepositoryStep
      <2>6. PodStep
        BY <2>1 DEF PodStep, YetToWork
      <2>7. DeletePodStep
        BY <2>1 DEF DeletePodStep
      <2>8. OtherTypes'
        BY ZenonT(30), <1>a, <1>3, TypesKept, FaultTyped, <2>2
           DEF OtherTypes, WorkerTypes, ReportProgress, Put
      <2> QED
        BY <2>1, <2>2, <2>3, <2>4, <2>5, <2>6, <2>7, <2>8 DEF Shape
    <1>4. CASE PerformBackup
      <2>1. UNCHANGED <<ncache, operation, overlap, api, dpod>>
        BY ZenonT(30), <1>4
           DEF PerformBackup, Work, ResticBackup, PodAt, objVars, podVars, dataVars, envVars
      <2>2. CallStep /\ DeviceStep /\ UNCHANGED <<queued, timer, shouldRestore>>
        BY ZenonT(30), <1>4, ReconcilerKept DEF PerformBackup, Work, ResticBackup, devVars
      <2>3. ApiStep
        BY <2>1 DEF ApiStep
      <2>4. CacheStep
        BY ZenonT(30), <1>0, <1>4, <2>1 DEF PerformBackup, objVars, CacheStep, Work
      <2>5. RepositoryStep
        <3>1. pod.at = "working" /\ (remote' = "data" \/ remote' = "empty" \/ remote' = remote)
          BY ZenonT(30), <1>4 DEF PerformBackup, Work, ResticBackup, dataVars
        <3> QED
          BY <3>1 DEF RepositoryStep
      <2>6. PodStep
        BY ZenonT(30), <1>b, <1>4, PodAtIs DEF PerformBackup, Work, ResticBackup, PodStep, YetToWork
      <2>7. DeletePodStep
        BY <2>1 DEF DeletePodStep
      <2>8. OtherTypes'
        <3>1. PodTypes'
          BY ZenonT(30), <1>a, <1>b, <1>4, PodAtIs DEF PerformBackup, Work, OtherTypes, PodTypes
        <3>2. WorldTypes'
          BY ZenonT(30), <1>a, <1>b, <1>4
             DEF PerformBackup, Work, ResticBackup, OtherTypes, WorldTypes, Pod, dataVars, envVars
        <3>3. WorkerTypes'
          BY ZenonT(30), <1>a, <1>4, <2>2, FaultTyped
             DEF PerformBackup, Work, OtherTypes, WorkerTypes, objVars
        <3> QED
          BY ZenonT(30), <1>a, <1>4, <3>1, <3>2, <3>3, TypesKept
             DEF PerformBackup, Work, OtherTypes
      <2> QED
        BY <2>1, <2>2, <2>3, <2>4, <2>5, <2>6, <2>7, <2>8 DEF Shape
    <1>5. CASE PerformRestore
      <2>1. UNCHANGED <<ncache, operation, overlap, api, dpod, remote>>
        BY ZenonT(30), <1>5
           DEF PerformRestore, Work, ResticRestore, PodAt, objVars, podVars, dataVars,
           envVars
      <2>2. CallStep /\ DeviceStep /\ UNCHANGED <<queued, timer, shouldRestore>>
        BY ZenonT(30), <1>5, ReconcilerKept DEF PerformRestore, Work, ResticRestore, devVars
      <2>3. ApiStep
        BY <2>1 DEF ApiStep
      <2>4. CacheStep
        BY ZenonT(30), <1>0, <1>5, <2>1 DEF PerformRestore, objVars, CacheStep, Work
      <2>5. RepositoryStep
        BY <2>1 DEF RepositoryStep
      <2>6. PodStep
        BY ZenonT(30), <1>b, <1>5, PodAtIs DEF PerformRestore, Work, ResticRestore, PodStep, YetToWork
      <2>7. DeletePodStep
        BY <2>1 DEF DeletePodStep
      <2>8. OtherTypes'
        <3>1. PodTypes'
          BY ZenonT(30), <1>a, <1>b, <1>5, PodAtIs
             DEF PerformRestore, Work, OtherTypes, PodTypes
        <3>2. WorldTypes'
          BY ZenonT(30), <1>a, <1>b, <1>5
             DEF PerformRestore, Work, ResticRestore, OtherTypes, WorldTypes, Pod, dataVars, envVars
        <3>3. WorkerTypes'
          BY ZenonT(30), <1>a, <1>5, <2>2, FaultTyped
             DEF PerformRestore, Work, OtherTypes, WorkerTypes, objVars
        <3> QED
          BY ZenonT(30), <1>a, <1>5, <3>1, <3>2, <3>3, TypesKept
             DEF PerformRestore, Work, OtherTypes
      <2> QED
        BY <2>1, <2>2, <2>3, <2>4, <2>5, <2>6, <2>7, <2>8 DEF Shape
    <1>6. CASE SetStatusFailed
      <2>1. UNCHANGED <<ncache, operation, overlap, dpod, remote>>
        BY ZenonT(30), <1>6 DEF SetStatusFailed, Put, PodAt, objVars, podVars, dataVars, envVars
      <2>2. CallStep /\ DeviceStep /\ UNCHANGED <<queued, timer, shouldRestore>>
        BY ZenonT(30), <1>6, ReconcilerKept DEF SetStatusFailed, Put, devVars
      <2>3. ApiStep
        <3>1. api' = api \/ (api # None /\ Kept(api, api'))
          BY ZenonT(30), <1>0, <1>6, PodSetters DEF SetStatusFailed, Put
        <3> QED
          BY <3>1 DEF ApiStep, Kept
      <2>4. CacheStep
        BY ZenonT(30), <1>0, <1>6, <2>1, PodSetters DEF SetStatusFailed, Put, CacheStep, Kept
      <2>5. RepositoryStep
        BY <2>1 DEF RepositoryStep
      <2>6. PodStep
        BY <1>b, <1>6, PodAtIs DEF SetStatusFailed, Put, PodStep, YetToWork
      <2>7. DeletePodStep
        BY <2>1 DEF DeletePodStep
      <2>8. OtherTypes'
        BY ZenonT(30), <1>a, <1>6, TypesKept, PodAtIs, FaultTyped, <2>2
           DEF OtherTypes, PodTypes, WorkerTypes, SetStatusFailed, Put
      <2> QED
        BY <2>1, <2>2, <2>3, <2>4, <2>5, <2>6, <2>7, <2>8 DEF Shape
    <1>7. CASE SetStatusSuccess
      <2>1. UNCHANGED <<ncache, operation, overlap, dpod, remote>>
        BY ZenonT(30), <1>7
           DEF SetStatusSuccess, Put, PodAt, objVars, podVars, dataVars, envVars
      <2>2. CallStep /\ DeviceStep /\ UNCHANGED <<queued, timer, shouldRestore>>
        BY ZenonT(30), <1>7, ReconcilerKept DEF SetStatusSuccess, Put, devVars
      <2>3. ApiStep
        <3>1. \/ api' = api
              \/ /\ api # None /\ pod.at = "done" /\ api' \in LogicalVolume
                 /\ api'.deleting = api.deleting /\ api'.del = api.del
          BY ZenonT(30), <1>0, <1>7, PodSetters DEF SetStatusSuccess, Put
        <3> QED
          BY <3>1 DEF ApiStep
      <2>4. CacheStep
        BY ZenonT(30), <1>0, <1>7, <2>1, PodSetters DEF SetStatusSuccess, Put, CacheStep, Kept
      <2>5. RepositoryStep
        BY <2>1 DEF RepositoryStep
      <2>6. PodStep
        BY <1>b, <1>7, PodAtIs DEF SetStatusSuccess, Put, PodStep, YetToWork
      <2>7. DeletePodStep
        BY <2>1 DEF DeletePodStep
      <2>8. OtherTypes'
        BY ZenonT(30), <1>a, <1>7, TypesKept, PodAtIs, FaultTyped, <2>2
           DEF OtherTypes, PodTypes, WorkerTypes, SetStatusSuccess, Put
      <2> QED
        BY <2>1, <2>2, <2>3, <2>4, <2>5, <2>6, <2>7, <2>8 DEF Shape
    <1>8. CASE PodLost
      <2>1. UNCHANGED <<ncache, operation, overlap, api, dpod, remote>>
        BY ZenonT(30), <1>8 DEF PodLost, objVars, podVars, dataVars, envVars
      <2>2. CallStep /\ DeviceStep /\ UNCHANGED <<queued, timer, shouldRestore>>
        BY ZenonT(30), <1>8, ReconcilerKept DEF PodLost, devVars
      <2>3. ApiStep
        BY <2>1 DEF ApiStep
      <2>4. CacheStep
        BY <1>0, <1>8, <2>1 DEF PodLost, objVars, CacheStep
      <2>5. RepositoryStep
        BY <2>1 DEF RepositoryStep
      <2>6. PodStep
        BY <1>b, <1>8, PodsTyped DEF PodLost, PodStep, YetToWork
      <2>7. DeletePodStep
        BY <2>1 DEF DeletePodStep
      <2>8. OtherTypes'
        BY ZenonT(30), <1>a, <1>8, TypesKept, PodsTyped, FaultTyped, <2>2
           DEF OtherTypes, PodTypes, WorkerTypes, PodLost, objVars
      <2> QED
        BY <2>1, <2>2, <2>3, <2>4, <2>5, <2>6, <2>7, <2>8 DEF Shape
    <1>9. CASE PodDies
      <2>1. UNCHANGED <<ncache, operation, overlap, api, dpod, remote>>
        BY ZenonT(30), <1>9 DEF PodDies, PodAt, objVars, podVars, dataVars, envVars
      <2>2. CallStep /\ DeviceStep /\ UNCHANGED <<queued, timer, shouldRestore>>
        BY ZenonT(30), <1>9, ReconcilerKept DEF PodDies, devVars
      <2>3. ApiStep
        BY <2>1 DEF ApiStep
      <2>4. CacheStep
        BY <1>0, <1>9, <2>1 DEF PodDies, objVars, CacheStep
      <2>5. RepositoryStep
        BY <2>1 DEF RepositoryStep
      <2>6. PodStep
        BY <1>b, <1>9, PodAtIs DEF PodDies, PodStep, YetToWork
      <2>7. DeletePodStep
        BY <2>1 DEF DeletePodStep
      <2>8. OtherTypes'
        BY ZenonT(30), <1>a, <1>9, TypesKept, PodAtIs, FaultTyped, <2>2
           DEF OtherTypes, PodTypes, WorkerTypes, PodDies, objVars
      <2> QED
        BY <2>1, <2>2, <2>3, <2>4, <2>5, <2>6, <2>7, <2>8 DEF Shape
    <1>10. CASE PodGone
      <2>1. UNCHANGED <<ncache, operation, overlap, api, dpod, remote>>
        BY ZenonT(30), <1>10 DEF PodGone, objVars, podVars, dataVars, envVars
      <2>2. CallStep /\ DeviceStep /\ UNCHANGED <<queued, timer, shouldRestore>>
        BY ZenonT(30), <1>10, ReconcilerKept DEF PodGone, devVars
      <2>3. ApiStep
        BY <2>1 DEF ApiStep
      <2>4. CacheStep
        BY <1>0, <1>10, <2>1 DEF PodGone, objVars, CacheStep
      <2>5. RepositoryStep
        BY <2>1 DEF RepositoryStep
      <2>6. PodStep
        BY <1>10 DEF PodGone, NoPod, PodStep, YetToWork
      <2>7. DeletePodStep
        BY <2>1 DEF DeletePodStep
      <2>8. OtherTypes'
        BY ZenonT(30), <1>a, <1>10, TypesKept, PodsTyped, FaultTyped, <2>2
           DEF OtherTypes, PodTypes, WorkerTypes, PodGone, objVars
      <2> QED
        BY <2>1, <2>2, <2>3, <2>4, <2>5, <2>6, <2>7, <2>8 DEF Shape
    <1>11. CASE DeleteLoad
      <2>1. UNCHANGED <<ncache, operation, overlap, api, pod, remote>>
        BY ZenonT(30), <1>11 DEF DeleteLoad, DeletePodAt, objVars, podVars, dataVars, envVars
      <2>2. CallStep /\ DeviceStep /\ UNCHANGED <<queued, timer, shouldRestore>>
        BY ZenonT(30), <1>11, ReconcilerKept DEF DeleteLoad, devVars
      <2>3. ApiStep
        BY <2>1 DEF ApiStep
      <2>4. CacheStep
        BY ZenonT(30), <1>0, <1>11, <2>1 DEF DeleteLoad, objVars, CacheStep
      <2>5. RepositoryStep
        BY <2>1 DEF RepositoryStep
      <2>6. PodStep
        BY <2>1 DEF PodStep, YetToWork
      <2>7. DeletePodStep
        <3>1. dpod.at = "pending" /\ (dpod'.at = "ended" \/ dpod'.at = "loaded")
          <4>1. \/ dpod'.at = "ended"
                \/ dpod' = [at |-> "loaded", deleteEnsured |-> api.deleteEnsured]
            BY ZenonT(30), <1>b, <1>11, DeletePodAtIs DEF DeleteLoad
          <4> QED
            BY <1>11, <4>1 DEF DeleteLoad
        <3> QED
          BY <2>1, <3>1 DEF DeletePodStep
      <2>8. OtherTypes'
        <3>1. api # None => [at |-> "loaded", deleteEnsured |-> api.deleteEnsured] \in DeletePod
          BY ZenonT(30), <1>0 DEF LogicalVolume, DeletePod
        <3>2. PodTypes'
          BY ZenonT(30), <1>a, <1>b, <1>11, <3>1, DeletePodAtIs
             DEF DeleteLoad, OtherTypes, PodTypes
        <3> QED
          BY ZenonT(30), <1>a, <1>11, <2>2, <3>2, TypesKept
             DEF DeleteLoad, OtherTypes, WorkerTypes, objVars
      <2> QED
        BY <2>1, <2>2, <2>3, <2>4, <2>5, <2>6, <2>7, <2>8 DEF Shape
    <1>12. CASE SetDeleteRunning
      <2>1. UNCHANGED <<ncache, operation, overlap, pod, remote>>
        BY ZenonT(30), <1>12
           DEF SetDeleteRunning, DeleteCondition, Put, DeletePodAt, objVars, podVars,
           dataVars, envVars
      <2>2. CallStep /\ DeviceStep /\ UNCHANGED <<queued, timer, shouldRestore>>
        BY ZenonT(30), <1>12, ReconcilerKept DEF SetDeleteRunning, DeleteCondition, Put, devVars
      <2>3. ApiStep
        BY ZenonT(30), <1>0, <1>b, <1>12, DeleteConditionIs DEF SetDeleteRunning, ApiStep
      <2>4. CacheStep
        BY <1>0, <1>b, <1>12, <2>1, DeleteConditionIs DEF SetDeleteRunning, CacheStep
      <2>5. RepositoryStep
        BY <2>1 DEF RepositoryStep
      <2>6. PodStep
        BY <2>1 DEF PodStep, YetToWork
      <2>7. DeletePodStep
        BY <1>b, <1>12, <2>1, DeletePodAtIs
           DEF SetDeleteRunning, DeleteCondition, Put, DeletePodStep
      <2>8. OtherTypes'
        BY ZenonT(30), <1>a, <1>12, TypesKept, DeletePodAtIs, FaultTyped, <2>2
           DEF OtherTypes, PodTypes, WorkerTypes, SetDeleteRunning, DeleteCondition, Put
      <2> QED
        BY <2>1, <2>2, <2>3, <2>4, <2>5, <2>6, <2>7, <2>8 DEF Shape
    <1>13. CASE DeleteWork
      <2>1. UNCHANGED <<ncache, operation, overlap, api, pod>>
        BY ZenonT(30), <1>13 DEF DeleteWork, DeletePodAt, objVars, podVars, dataVars, envVars
      <2>2. CallStep /\ DeviceStep /\ UNCHANGED <<queued, timer, shouldRestore>>
        BY ZenonT(30), <1>13, ReconcilerKept DEF DeleteWork, devVars
      <2>3. ApiStep
        BY <2>1 DEF ApiStep
      <2>4. CacheStep
        BY ZenonT(30), <1>0, <1>13, <2>1 DEF DeleteWork, objVars, CacheStep
      <2>5. RepositoryStep
        BY <1>13, <2>1 DEF DeleteWork, RepositoryStep
      <2>6. PodStep
        BY <2>1 DEF PodStep, YetToWork
      <2>7. DeletePodStep
        BY <1>b, <1>13, <2>1, DeletePodAtIs DEF DeleteWork, DeletePodStep
      <2>8. OtherTypes'
        <3>1. PodTypes'
          BY ZenonT(30), <1>a, <1>b, <1>13, DeletePodAtIs DEF DeleteWork, OtherTypes, PodTypes
        <3>2. WorldTypes'
          BY ZenonT(30), <1>a, <1>13 DEF DeleteWork, OtherTypes, WorldTypes, envVars
        <3>3. WorkerTypes'
          BY ZenonT(30), <1>a, <1>13, <2>2, FaultTyped
             DEF DeleteWork, OtherTypes, WorkerTypes, objVars
        <3> QED
          BY ZenonT(30), <1>a, <1>13, <3>1, <3>2, <3>3, TypesKept DEF DeleteWork, OtherTypes
      <2> QED
        BY <2>1, <2>2, <2>3, <2>4, <2>5, <2>6, <2>7, <2>8 DEF Shape
    <1>14. CASE SetDeleteSuccess
      <2>1. UNCHANGED <<ncache, operation, overlap, pod, remote>>
        BY ZenonT(30), <1>14
           DEF SetDeleteSuccess, DeleteCondition, Put, DeletePodAt, objVars, podVars,
           dataVars, envVars
      <2>2. CallStep /\ DeviceStep /\ UNCHANGED <<queued, timer, shouldRestore>>
        BY ZenonT(30), <1>14, ReconcilerKept DEF SetDeleteSuccess, DeleteCondition, Put, devVars
      <2>3. ApiStep
        BY <1>0, <1>b, <1>14, DeleteConditionIs DEF SetDeleteSuccess, ApiStep
      <2>4. CacheStep
        BY <1>0, <1>b, <1>14, <2>1, DeleteConditionIs DEF SetDeleteSuccess, CacheStep
      <2>5. RepositoryStep
        BY <2>1 DEF RepositoryStep
      <2>6. PodStep
        BY <2>1 DEF PodStep, YetToWork
      <2>7. DeletePodStep
        BY <1>b, <1>14, <2>1, DeletePodAtIs
           DEF SetDeleteSuccess, DeleteCondition, Put, DeletePodStep
      <2>8. OtherTypes'
        BY ZenonT(30), <1>a, <1>14, TypesKept, DeletePodAtIs, FaultTyped, <2>2
           DEF OtherTypes, PodTypes, WorkerTypes, SetDeleteSuccess, DeleteCondition, Put
      <2> QED
        BY <2>1, <2>2, <2>3, <2>4, <2>5, <2>6, <2>7, <2>8 DEF Shape
    <1>15. CASE HandleDeleteError
      <2>1. UNCHANGED <<ncache, operation, overlap, pod, remote>>
        BY ZenonT(30), <1>15
           DEF HandleDeleteError, DeleteCondition, Put, DeletePodAt, objVars, podVars,
           dataVars, envVars
      <2>2. CallStep /\ DeviceStep /\ UNCHANGED <<queued, timer, shouldRestore>>
        BY ZenonT(30), <1>15, ReconcilerKept
           DEF HandleDeleteError, DeleteCondition, Put, devVars
      <2>3. ApiStep
        BY ZenonT(30), <1>0, <1>b, <1>15, DeleteConditionIs DEF HandleDeleteError, ApiStep
      <2>4. CacheStep
        BY ZenonT(30), <1>0, <1>b, <1>15, <2>1, DeleteConditionIs DEF HandleDeleteError, CacheStep
      <2>5. RepositoryStep
        BY <2>1 DEF RepositoryStep
      <2>6. PodStep
        BY <2>1 DEF PodStep, YetToWork
      <2>7. DeletePodStep
        BY <1>b, <1>15, <2>1, DeletePodAtIs
           DEF HandleDeleteError, DeleteCondition, Put, DeletePodStep
      <2>8. OtherTypes'
        BY ZenonT(30), <1>a, <1>15, TypesKept, DeletePodAtIs, FaultTyped, <2>2
           DEF OtherTypes, PodTypes, WorkerTypes, HandleDeleteError, DeleteCondition,
               Put
      <2> QED
        BY <2>1, <2>2, <2>3, <2>4, <2>5, <2>6, <2>7, <2>8 DEF Shape
    <1>16. CASE DeletePodLost
      <2>1. UNCHANGED <<ncache, operation, overlap, api, pod, remote>>
        BY ZenonT(30), <1>16 DEF DeletePodLost, objVars, podVars, dataVars, envVars
      <2>2. CallStep /\ DeviceStep /\ UNCHANGED <<queued, timer, shouldRestore>>
        BY ZenonT(30), <1>16, ReconcilerKept DEF DeletePodLost, devVars
      <2>3. ApiStep
        BY <2>1 DEF ApiStep
      <2>4. CacheStep
        BY <1>0, <1>16, <2>1 DEF DeletePodLost, objVars, CacheStep
      <2>5. RepositoryStep
        BY <2>1 DEF RepositoryStep
      <2>6. PodStep
        BY <2>1 DEF PodStep, YetToWork
      <2>7. DeletePodStep
        BY ZenonT(30), <1>16, <2>1 DEF DeletePodLost, NoDeletePod, DeletePodStep
      <2>8. OtherTypes'
        BY ZenonT(30), <1>a, <1>16, TypesKept, PodsTyped, FaultTyped, <2>2
           DEF OtherTypes, PodTypes, WorkerTypes, DeletePodLost, objVars
      <2> QED
        BY <2>1, <2>2, <2>3, <2>4, <2>5, <2>6, <2>7, <2>8 DEF Shape
    <1>17. CASE PodCacheSync
      <2>1. UNCHANGED <<ncache, operation, overlap, api, pod, dpod, remote>>
        BY ZenonT(30), <1>17 DEF PodCacheSync, objVars, podVars, dataVars, envVars
      <2>2. CallStep /\ DeviceStep /\ UNCHANGED <<queued, timer, shouldRestore>>
        BY ZenonT(30), <1>17, ReconcilerKept DEF PodCacheSync, devVars
      <2>3. ApiStep
        BY <2>1 DEF ApiStep
      <2>4. CacheStep
        BY <1>0, <1>17, <2>1 DEF PodCacheSync, objVars, CacheStep
      <2>5. RepositoryStep
        BY <2>1 DEF RepositoryStep
      <2>6. PodStep
        BY <2>1 DEF PodStep, YetToWork
      <2>7. DeletePodStep
        BY <2>1 DEF DeletePodStep
      <2>8. OtherTypes'
        <3>1. View(pod) \in {"none", "live", "failed", "terminating"}
          BY ZenonT(30) DEF View
        <3>2. PodTypes'
          BY ZenonT(30), <1>a, <1>17, <3>1 DEF PodCacheSync, OtherTypes, PodTypes
        <3>3. WorkerTypes'
          BY ZenonT(30), <1>a, <1>b, <1>17, <2>2
             DEF PodCacheSync, OtherTypes, WorkerTypes, objVars
        <3> QED
          BY ZenonT(30), <1>a, <1>17, <3>2, <3>3, TypesKept DEF PodCacheSync, OtherTypes
      <2> QED
        BY <2>1, <2>2, <2>3, <2>4, <2>5, <2>6, <2>7, <2>8 DEF Shape
    <1>18. CASE PodReconcile
      <2>1. UNCHANGED <<ncache, operation, overlap, pod, dpod, remote>>
        BY ZenonT(30), <1>18 DEF PodReconcile, Put, objVars, podVars, dataVars, envVars
      <2>2. CallStep /\ DeviceStep /\ UNCHANGED <<queued, timer, shouldRestore>>
        BY ZenonT(30), <1>18, ReconcilerKept DEF PodReconcile, Put, devVars
      <2>3. ApiStep
        <3>1. api' = api \/ (api # None /\ Kept(api, api'))
          BY ZenonT(30), <1>0, <1>18, PodSetters DEF PodReconcile, Put
        <3> QED
          BY <3>1 DEF ApiStep, Kept
      <2>4. CacheStep
        BY ZenonT(30), <1>0, <1>18, <2>1, PodSetters DEF PodReconcile, Put, CacheStep, Kept
      <2>5. RepositoryStep
        BY <2>1 DEF RepositoryStep
      <2>6. PodStep
        BY <2>1 DEF PodStep, YetToWork
      <2>7. DeletePodStep
        BY <2>1 DEF DeletePodStep
      <2>8. OtherTypes'
        BY ZenonT(30), <1>a, <1>18, TypesKept, FaultTyped, <2>2
           DEF OtherTypes, WorkerTypes, PodReconcile, Put
      <2> QED
        BY <2>1, <2>2, <2>3, <2>4, <2>5, <2>6, <2>7, <2>8 DEF Shape
    <1> QED
      BY <1>1, <1>2, <1>3, <1>4, <1>5, <1>6, <1>7, <1>8, <1>9, <1>10, <1>11, <1>12,
         <1>13, <1>14, <1>15, <1>16, <1>17, <1>18
         DEF SnapshotterNext, PodProgress, DeletePodProgress

(* The steps of the CO and the user, and of a restart. *)
LEMMA EnvironmentShape ==
    ASSUME SnapInv,
           \/ NodeRestart \/ DeleteLV \/ PVAppears \/ SourceDeleted \/ StorageAppears
           \/ NodePublishVolume \/ NodeUnpublishVolume
    PROVE  Shape
    <1> USE NoneAssumption
    <1>a. OtherTypes
      BY OtherTypesHold DEF SnapInv
    <1>0. /\ api \in LogicalVolume \cup {None} /\ ncache \in LogicalVolume \cup {None}
          /\ "ncache" \in fresh => ncache = api
          /\ "pod" \in fresh => api # None
      BY DEF SnapInv, TypeOK, SnapTypeOK, CopiesInv
    <1>1. CASE NodeRestart
      <2>1. /\ UNCHANGED <<api, lvm, pod, dpod, remote, overlap, operation>>
            /\ rpc' = "idle" /\ ncache' = api /\ fresh' = fresh \cup {"ncache"}
        BY ZenonT(30), <1>1 DEF NodeRestart, devVars, dataVars, envVars
      <2>2. ApiStep /\ CacheStep /\ CallStep
        BY ZenonT(30), <1>0, <2>1 DEF ApiStep, CacheStep, CallStep, Calls, DeletionCalls
      <2>3. DeviceStep /\ RepositoryStep /\ PodStep /\ DeletePodStep
        BY ZenonT(30), <2>1 DEF DeviceStep, RepositoryStep, PodStep, DeletePodStep
      <2>4. PodTypes'
        <3>1. View(pod) \in {"none", "live", "failed", "terminating"}
          BY ZenonT(30) DEF View
        <3> QED
          BY ZenonT(30), <1>a, <1>1, <3>1 DEF NodeRestart, OtherTypes, PodTypes
      <2>5. WorkerTypes'
        BY ZenonT(30), <1>a, <1>1, FaultTyped DEF NodeRestart, OtherTypes, WorkerTypes
      <2>6. OtherTypes'
        BY ZenonT(30), <1>a, <1>1, <2>4, <2>5, TypesKept DEF NodeRestart, OtherTypes
      <2> QED
        BY ZenonT(30), <2>1, <2>2, <2>3, <2>6 DEF Shape
    <1>2. CASE DeleteLV
      <2>1. UNCHANGED <<ncache, lvm, pod, dpod, remote, overlap, operation>>
        BY ZenonT(30), <1>2 DEF DeleteLV, devVars, podVars, dataVars, envVars
      <2>2. /\ api # None /\ fresh' = {} /\ api' = [api EXCEPT !.deleting = TRUE]
            /\ api' \in LogicalVolume
        BY ZenonT(30), <1>0, <1>2, PodSetters DEF DeleteLV, Put
      <2>3. ApiStep
        BY ZenonT(30), <1>0, <2>2 DEF ApiStep, LogicalVolume
      <2>4. CacheStep
        BY <2>1, <2>2 DEF CacheStep
      <2>5. CallStep
        BY ZenonT(30), <1>2, <2>1, ReconcilerKept DEF DeleteLV
      <2>6. DeviceStep /\ RepositoryStep /\ PodStep /\ DeletePodStep
        BY ZenonT(30), <2>1 DEF DeviceStep, RepositoryStep, PodStep, DeletePodStep
      <2>7. OtherTypes'
        BY ZenonT(30), <1>a, <1>2, <2>2, TypesKept
           DEF DeleteLV, OtherTypes, WorkerTypes, recVars
      <2> QED
        BY ZenonT(30), <2>1, <2>3, <2>4, <2>5, <2>6, <2>7 DEF Shape
    <1>3. CASE PVAppears
      <2>1. UNCHANGED <<objVars, recVars, lvm, pod, dpod, remote, overlap, operation>>
        BY ZenonT(30), <1>3 DEF PVAppears, devVars, podVars, dataVars
      <2>2. ApiStep /\ CacheStep /\ CallStep
        BY ZenonT(30), <2>1, ObjectsKept, ReconcilerKept
      <2>3. DeviceStep /\ RepositoryStep /\ PodStep /\ DeletePodStep
        BY ZenonT(30), <2>1 DEF DeviceStep, RepositoryStep, PodStep, DeletePodStep
      <2>4. WorldTypes'
        BY ZenonT(30), <1>a, <1>3 DEF PVAppears, OtherTypes, WorldTypes, dataVars
      <2>5. WorkerTypes'
        BY ZenonT(30), <1>a, <1>3
           DEF PVAppears, OtherTypes, WorkerTypes, objVars, recVars
      <2>6. OtherTypes'
        BY ZenonT(30), <1>a, <1>3, <2>4, <2>5, TypesKept DEF PVAppears, OtherTypes
      <2> QED
        BY ZenonT(30), <2>1, <2>2, <2>3, <2>6 DEF Shape
    <1>4. CASE SourceDeleted
      <2>1. UNCHANGED <<objVars, recVars, lvm, pod, dpod, remote, overlap, operation>>
        BY ZenonT(30), <1>4 DEF SourceDeleted, devVars, podVars, dataVars
      <2>2. ApiStep /\ CacheStep /\ CallStep
        BY ZenonT(30), <2>1, ObjectsKept, ReconcilerKept
      <2>3. DeviceStep /\ RepositoryStep /\ PodStep /\ DeletePodStep
        BY ZenonT(30), <2>1 DEF DeviceStep, RepositoryStep, PodStep, DeletePodStep
      <2>4. WorldTypes'
        BY ZenonT(30), <1>a, <1>4 DEF SourceDeleted, OtherTypes, WorldTypes, dataVars
      <2>5. WorkerTypes'
        BY ZenonT(30), <1>a, <1>4, FaultTyped
           DEF SourceDeleted, OtherTypes, WorkerTypes, objVars, recVars
      <2>6. OtherTypes'
        BY ZenonT(30), <1>a, <1>4, <2>4, <2>5, TypesKept DEF SourceDeleted, OtherTypes
      <2> QED
        BY ZenonT(30), <2>1, <2>2, <2>3, <2>6 DEF Shape
    <1>5. CASE StorageAppears
      <2>1. UNCHANGED <<objVars, recVars, lvm, pod, dpod, remote, overlap, operation>>
        BY ZenonT(30), <1>5 DEF StorageAppears, devVars, podVars, dataVars
      <2>2. ApiStep /\ CacheStep /\ CallStep
        BY ZenonT(30), <2>1, ObjectsKept, ReconcilerKept
      <2>3. DeviceStep /\ RepositoryStep /\ PodStep /\ DeletePodStep
        BY ZenonT(30), <2>1 DEF DeviceStep, RepositoryStep, PodStep, DeletePodStep
      <2>4. WorldTypes'
        BY ZenonT(30), <1>a, <1>5 DEF StorageAppears, OtherTypes, WorldTypes, dataVars
      <2>5. WorkerTypes'
        BY ZenonT(30), <1>a, <1>5
           DEF StorageAppears, OtherTypes, WorkerTypes, objVars, recVars
      <2>6. OtherTypes'
        BY ZenonT(30), <1>a, <1>5, <2>4, <2>5, TypesKept DEF StorageAppears, OtherTypes
      <2> QED
        BY ZenonT(30), <2>1, <2>2, <2>3, <2>6 DEF Shape
    <1>6. CASE NodePublishVolume
      <2>1. UNCHANGED <<objVars, recVars, lvm, pod, dpod, remote, overlap, operation>>
        BY ZenonT(30), <1>6 DEF NodePublishVolume, podVars, dataVars, envVars
      <2>2. ApiStep /\ CacheStep /\ CallStep
        BY ZenonT(30), <2>1, ObjectsKept, ReconcilerKept
      <2>3. DeviceStep /\ RepositoryStep /\ PodStep /\ DeletePodStep
        BY ZenonT(30), <2>1 DEF DeviceStep, RepositoryStep, PodStep, DeletePodStep
      <2>4. DeviceTypes'
        BY ZenonT(30), <1>a, <1>6 DEF NodePublishVolume, OtherTypes, DeviceTypes
      <2>5. WorkerTypes'
        BY ZenonT(30), <1>a, <1>6
           DEF NodePublishVolume, OtherTypes, WorkerTypes, objVars, recVars
      <2>6. OtherTypes'
        BY ZenonT(30), <1>a, <1>6, <2>4, <2>5, TypesKept DEF NodePublishVolume, OtherTypes
      <2> QED
        BY ZenonT(30), <2>1, <2>2, <2>3, <2>6 DEF Shape
    <1>7. CASE NodeUnpublishVolume
      <2>1. UNCHANGED <<objVars, recVars, lvm, pod, dpod, remote, overlap, operation>>
        BY ZenonT(30), <1>7 DEF NodeUnpublishVolume, podVars, dataVars, envVars
      <2>2. ApiStep /\ CacheStep /\ CallStep
        BY ZenonT(30), <2>1, ObjectsKept, ReconcilerKept
      <2>3. DeviceStep /\ RepositoryStep /\ PodStep /\ DeletePodStep
        BY ZenonT(30), <2>1 DEF DeviceStep, RepositoryStep, PodStep, DeletePodStep
      <2>4. DeviceTypes'
        BY ZenonT(30), <1>a, <1>7 DEF NodeUnpublishVolume, OtherTypes, DeviceTypes
      <2>5. WorkerTypes'
        BY ZenonT(30), <1>a, <1>7
           DEF NodeUnpublishVolume, OtherTypes, WorkerTypes, objVars, recVars
      <2>6. OtherTypes'
        BY ZenonT(30), <1>a, <1>7, <2>4, <2>5, TypesKept DEF NodeUnpublishVolume, OtherTypes
      <2> QED
        BY ZenonT(30), <2>1, <2>2, <2>3, <2>6 DEF Shape
    <1> QED
      BY <1>1, <1>2, <1>3, <1>4, <1>5, <1>6, <1>7

(* A step that changes nothing. *)
LEMMA StutterShape ==
    ASSUME SnapInv, UNCHANGED vars
    PROVE  Shape
    <1>1. UNCHANGED <<objVars, devVars, podVars, dataVars, envVars, faults, recVars, pqueued>>
      BY DEF vars, storeVars
    <1>2. UNCHANGED <<lvm, pod, dpod, remote, overlap, operation>>
      BY ZenonT(30), <1>1 DEF devVars, podVars, dataVars, envVars
    <1>3. ApiStep /\ CacheStep /\ CallStep
      BY ZenonT(30), <1>1, <1>2, ObjectsKept, ReconcilerKept
    <1>4. DeviceStep /\ RepositoryStep /\ PodStep /\ DeletePodStep
      BY ZenonT(30), <1>2 DEF DeviceStep, RepositoryStep, PodStep, DeletePodStep
    <1>5. OtherTypes
      BY OtherTypesHold DEF SnapInv
    <1>6. WorkerTypes'
      BY ZenonT(30), <1>1, <1>5 DEF OtherTypes, WorkerTypes, objVars, recVars
    <1>7. OtherTypes'
      BY ZenonT(30), <1>1, <1>5, <1>6, TypesKept DEF OtherTypes
    <1> QED
      BY ZenonT(30), <1>2, <1>3, <1>4, <1>7 DEF Shape

-----------------------------------------------------------------------------
(* The initial state satisfies the invariant. *)
LEMMA InitSnapInv ==
    ASSUME Init
    PROVE  SnapInv
    <1> USE NoneAssumption
    <1>1. /\ api \in LogicalVolume /\ ~api.deleting /\ api.phase = "nil" /\ api.del = ""
          /\ ncache = api /\ rpc = "idle" /\ lvm = TRUE
          /\ pod.at = "none" /\ dpod.at = "none" /\ fresh = {"ncache"}
          /\ pod \in Pod /\ dpod \in DeletePod
      BY ZenonT(30) DEF Init, SnapInit, RecInit, LogicalVolume, Phase, Condition,
         Pod, NoPod, DeletePod, NoDeletePod
    <1>2. TypeOK
      <2>1. /\ storage \in BOOLEAN /\ (storage = TRUE \/ MaxFaults > 0)
            /\ source \in BOOLEAN /\ remote \in {"none", "data", "empty"}
            /\ faults = IF storage THEN MaxFaults ELSE MaxFaults - 1
        BY ZenonT(30) DEF Init, SnapInit
      <2>2. faults \in 0 .. MaxFaults
        BY <2>1, SnapAssumption
      <2>3. rpc \in Calls
        BY ZenonT(30), <1>1 DEF Calls
      <2> QED
        BY ZenonT(30), <1>1, <2>1, <2>2, <2>3
           DEF Init, SnapInit, RecInit, PodRecInit, TypeOK, SnapTypeOK, RecTypeOK, PodRecTypeOK
    <1>3. CopiesInv /\ DeletionInv
      BY ZenonT(30), <1>1 DEF CopiesInv, DeletionInv, Deleting, DeletionCalls
    <1>4. VolumeInv /\ BackupInv
      BY ZenonT(30), <1>1 DEF VolumeInv, NoOrphanLV, BackupInv
    <1>5. RepositoryInv
      BY ZenonT(30), <1>1 DEF RepositoryInv, DeleteConditionIsTrue
    <1> QED
      BY <1>2, <1>3, <1>4, <1>5 DEF SnapInv

(* The invariant is inductive. *)
THEOREM SnapInvariant ==
    Spec => []SnapInv
    <1>1. Init => SnapInv
      BY InitSnapInv
    <1>2. SnapInv /\ [Next]_vars => SnapInv'
      <2> SUFFICES ASSUME SnapInv, [Next]_vars
                   PROVE  Shape
        BY ShapeKeepsInv
      <2>1. CASE (ReconcileStep \/ NodeCacheSync \/ TimerFires) /\ UNCHANGED pqueued
        BY <2>1, StatusCallsShape, OtherCallsShape DEF ReconcileStep
      <2>2. CASE SnapshotterNext /\ UNCHANGED recVars
        BY <2>2, SnapshotterShape
      <2>3. CASE \/ NodeRestart \/ DeleteLV \/ PVAppears \/ SourceDeleted \/ StorageAppears
                 \/ NodePublishVolume \/ NodeUnpublishVolume
        BY <2>3, EnvironmentShape
      <2>4. CASE UNCHANGED vars
        BY <2>4, StutterShape
      <2> QED
        BY <2>1, <2>2, <2>3, <2>4 DEF Next
    <1> QED
      BY <1>1, <1>2, PTL DEF Spec

(* The variables have their types, whatever goes wrong. *)
THEOREM SnapTypes ==
    Spec => []TypeOK
    <1>1. SnapInv => TypeOK
      BY DEF SnapInv
    <1> QED
      BY <1>1, SnapInvariant, PTL

(* cleanupLVMSnapshotAfterBackup removes the thin snapshot of a CR that    *)
(* nobody deletes only after a backup has been written.                    *)
THEOREM RemovalFollowsBackup ==
    Spec => []BackupBeforeRemoval
    <1>1. SnapInv => BackupBeforeRemoval
      BY ZenonT(30) DEF SnapInv, BackupInv, BackupBeforeRemoval, Written, Deleting
    <1> QED
      BY <1>1, SnapInvariant, PTL

(* handleDeletion takes the finalizer away only when the volume is gone.   *)
THEOREM NoVolumeIsOrphaned ==
    Spec => []NoOrphanLV
    <1>1. SnapInv => NoOrphanLV
      BY DEF SnapInv, VolumeInv
    <1> QED
      BY <1>1, SnapInvariant, PTL

(* When the delete pod has reported success the repository is empty and    *)
(* stays so, unless createDeletePod overtook a backup that had yet to run. *)
THEOREM DeletionReportIsTrue ==
    Spec => []DeleteConditionIsTrue
    <1>1. SnapInv => DeleteConditionIsTrue
      BY ZenonT(30) DEF SnapInv, RepositoryInv, DeleteConditionIsTrue
    <1> QED
      BY <1>1, SnapInvariant, PTL

-----------------------------------------------------------------------------
(* The online snapshot implements AbstractSnapshot. *)

(* The calls that lead to a delete pod, and so to the repository. *)
CopyCalls == {"deleteUnmount", "deleteExecutor"}

(* A volume that is restored never counts as one that has a backup of its  *)
(* own (isLVHasSnapshot), nor as a thin snapshot that can go; so nobody    *)
(* touches the snapshot it is restored from.                               *)
RestoreInv ==
    operation = "Restore" =>
        /\ remote = "data" /\ dpod.at = "none"
        /\ api # None => ~api.snapshotID
        /\ ncache # None => ~ncache.snapshotID
        /\ rpc \notin CopyCalls \cup {"removeSnapshot"}

(* What the setters of the status leave alone, beyond Kept. *)
Same(lv, new) ==
    /\ new \in LogicalVolume
    /\ new.deleting = lv.deleting /\ new.snapshotID = lv.snapshotID

(* Only a backup gets a SnapshotID, and what asks for deletion writes no   *)
(* phase.                                                                  *)
IDStep ==
    \/ api' = api
    \/ api' = None
    \/ /\ api # None /\ api' \in LogicalVolume
       /\ api'.snapshotID = api.snapshotID \/ operation = "Backup"
       /\ api'.deleting = api.deleting \/ api'.phase = api.phase

(* The delete pod is made for a CR with a SnapshotID, and a thin snapshot  *)
(* is removed only after a backup.                                         *)
EnterStep ==
    /\ rpc' \in CopyCalls => rpc \in CopyCalls \/ (ncache # None /\ ncache.snapshotID)
    /\ rpc' = "removeSnapshot" => rpc' = rpc \/ operation = "Backup"

(* No step changes two of the CR, the volume and the repository. *)
AloneStep ==
    \/ UNCHANGED <<api, lvm>> /\ (remote' = remote \/ operation = "Backup" \/ dpod.at # "none")
    \/ UNCHANGED <<api, remote>>
    \/ UNCHANGED <<lvm, remote>>

Origin == IDStep /\ EnterStep /\ AloneStep

(* The setters of the reconciler write neither the SnapshotID nor the      *)
(* deletion timestamp.                                                     *)
LEMMA SettersSame ==
    ASSUME NEW lv \in LogicalVolume, NEW s \in Condition
    PROVE  /\ Same(lv, SetStorageFound(lv, s))
           /\ Same(lv, SetExecutorEnsured(lv, s))
           /\ Same(lv, SetExecutorCleanup(lv, s))
           /\ Same(lv, SetLVMSnapshotCleaned(lv, s))
           /\ Same(lv, SetDeleteExecutorEnsured(lv, s))
           /\ Same(lv, [lv EXCEPT !.removedMsg = TRUE])
    <1> DEFINE n == NonNil(lv)
    <1>1. Same(lv, n)
      BY ZenonT(30) DEF Same, NonNil, LogicalVolume, Phase
    <1>2. \A m \in LogicalVolume :
              /\ Same(m, [m EXCEPT !.found = s]) /\ Same(m, [m EXCEPT !.ensured = s])
              /\ Same(m, [m EXCEPT !.cleaned = s]) /\ Same(m, [m EXCEPT !.lvmCleaned = s])
              /\ Same(m, [m EXCEPT !.deleteEnsured = s])
              /\ Same(m, [m EXCEPT !.removedMsg = TRUE])
      BY ZenonT(60) DEF Same, LogicalVolume
    <1> HIDE DEF n
    <1> QED
      BY ZenonT(30), <1>1, <1>2
         DEF Same, n, SetStorageFound, SetExecutorEnsured, SetExecutorCleanup,
             SetLVMSnapshotCleaned, SetDeleteExecutorEnsured

(* Nor do the writes of a phase, by whomever, but for a backup's success. *)
LEMMA PhasesSame ==
    ASSUME NEW lv \in LogicalVolume
    PROVE  /\ \A ph \in {"Pending", "Failed"} : Same(lv, UpdateSnapshotOperationStatus(lv, ph))
           /\ Same(lv, [lv EXCEPT !.phase = "Running"])
           /\ Same(lv, [lv EXCEPT !.phase = "Failed"])
           /\ Same(lv, FailSnapshotOperation(lv))
           /\ Same(lv, IF lv.phase = "nil" THEN [lv EXCEPT !.phase = ""] ELSE lv)
           /\ Same(lv, RestoreSucceeded(lv))
    <1>1. \A ph \in Phase : Same(lv, [lv EXCEPT !.phase = ph])
      BY ZenonT(30) DEF Same, LogicalVolume
    <1>2. Same(lv, lv) /\ {"Pending", "Failed", "Running", "Succeeded", ""} \subseteq Phase
      BY ZenonT(30) DEF Same, Phase
    <1>3. Same(lv, FailSnapshotOperation(lv))
      BY ZenonT(30) DEF Same, FailSnapshotOperation, LogicalVolume, Phase
    <1> HIDE DEF Same
    <1> QED
      BY ZenonT(30), <1>1, <1>2, <1>3 DEF UpdateSnapshotOperationStatus, RestoreSucceeded

(* Which calls come after a reconcile. *)
LEMMA NextOrigins ==
    ASSUME NEW lv \in LogicalVolume, NEW restore \in BOOLEAN, operation \in {"Backup", "Restore"}
    PROVE  /\ SnapshotStep(lv, restore) \notin CopyCalls
           /\ SnapshotStep(lv, restore) = "removeSnapshot" => operation = "Backup"
           /\ DeletionStep(lv) \in CopyCalls => lv.snapshotID
           /\ DeletionStep(lv) # "removeSnapshot"
           /\ RemoveStep(lv) \notin CopyCalls \cup {"removeSnapshot"}
    BY ZenonT(30)
       DEF SnapshotStep, StartStep, CleanupStep, DeletionStep, RemoveStep, HasSnapshot, CopyCalls

(* A write of the status that goes on to no call of the two kinds. *)
LEMMA StatusWriteOrigin ==
    ASSUME SnapInv, NEW lv, NEW next, NEW onError, StatusWrite(lv, next, onError),
           ncache # None => Same(ncache, lv),
           {next, onError} \cap CopyCalls = {},
           onError # "removeSnapshot", next = "removeSnapshot" => operation = "Backup"
    PROVE  Origin
    <1>1. UNCHANGED <<lvm, remote>>
      BY ZenonT(30) DEF StatusWrite, devVars, dataVars
    <1>2. \/ api' = api
          \/ ncache # None /\ ncache = api /\ api' = lv
      BY ZenonT(30) DEF StatusWrite, Put, SnapInv, CopiesInv
    <1>3. (ncache # None /\ Goto(next)) \/ Goto(onError)
      BY ZenonT(30) DEF StatusWrite
    <1> QED
      BY ZenonT(30), <1>1, <1>2, <1>3
         DEF Origin, IDStep, EnterStep, AloneStep, Same, Goto, Enter, CopyCalls

(* The calls that write the status. *)
LEMMA StatusCallsOrigin ==
    ASSUME SnapInv,
           \/ InitializeSnapshotStatus \/ ValidateStorage \/ StorageNotFound
           \/ FailOperation \/ EnsuredTrue \/ EnsuredFalse
           \/ CleanedTrue \/ CleanedFalse \/ LVMCleaned \/ Message \/ DeleteEnsured
    PROVE  Origin
    <1> USE NoneAssumption
    <1>0. /\ ncache \in LogicalVolume \cup {None} /\ shouldRestore \in BOOLEAN
          /\ operation \in {"Backup", "Restore"}
      BY SnapAssumption DEF SnapInv, TypeOK, SnapTypeOK, RecTypeOK
    <1>a. /\ ncache # None =>
                 /\ \A s \in {"True", "False"} :
                       /\ Same(ncache, SetStorageFound(ncache, s))
                       /\ Same(ncache, SetExecutorEnsured(ncache, s))
                       /\ Same(ncache, SetExecutorCleanup(ncache, s))
                       /\ Same(ncache, SetLVMSnapshotCleaned(ncache, s))
                       /\ Same(ncache, SetDeleteExecutorEnsured(ncache, s))
                 /\ \A ph \in {"Pending", "Failed"} :
                       Same(ncache, UpdateSnapshotOperationStatus(ncache, ph))
                 /\ Same(ncache, [ncache EXCEPT !.removedMsg = TRUE])
      BY ZenonT(30), <1>0, SettersSame, PhasesSame DEF Condition
    <1>b. \A lv, next, onError :
              (/\ StatusWrite(lv, next, onError)
               /\ ncache # None => Same(ncache, lv)
               /\ next \notin CopyCalls /\ onError \notin CopyCalls
               /\ onError # "removeSnapshot"
               /\ next = "removeSnapshot" => operation = "Backup") => Origin
      BY StatusWriteOrigin
    <1> DEFINE Plain == {"storage", "storageFalse", "noStorage", "mount", "ensuredFalse",
                         "done", "error"}
    <1>c. \A lv : \A next, onError \in Plain :
              StatusWrite(lv, next, onError) /\ (ncache # None => Same(ncache, lv)) => Origin
      BY ZenonT(30), <1>b DEF CopyCalls
    <1>1. CASE InitializeSnapshotStatus
      BY ZenonT(30), <1>a, <1>c, <1>1 DEF InitializeSnapshotStatus
    <1>2. CASE ValidateStorage
      BY ZenonT(30), <1>a, <1>c, <1>2 DEF ValidateStorage
    <1>3. CASE StorageNotFound
      BY ZenonT(30), <1>a, <1>c, <1>3 DEF StorageNotFound
    <1>4. CASE FailOperation
      BY ZenonT(30), <1>a, <1>c, <1>4 DEF FailOperation
    <1>5. CASE EnsuredTrue
      BY ZenonT(30), <1>a, <1>c, <1>5 DEF EnsuredTrue
    <1>6. CASE EnsuredFalse
      <2> DEFINE next == IF rpc = "ensuredFalse" /\ operation = "Restore" THEN "error" ELSE "done"
      <2>1. next \in Plain /\ StatusWrite(SetExecutorEnsured(ncache, "False"), next, "error")
        BY ZenonT(30), <1>6 DEF EnsuredFalse
      <2> HIDE DEF next
      <2> QED
        BY ZenonT(30), <1>a, <1>c, <2>1
    <1>7. CASE CleanedTrue
      <2> DEFINE lv == SetExecutorCleanup(ncache, "True")
                 step == SnapshotStep(lv, shouldRestore)
      <2>1. StatusWrite(lv, step, "error")
        BY ZenonT(30), <1>7 DEF CleanedTrue
      <2>2. ncache # None =>
              /\ Same(ncache, lv) /\ step \notin CopyCalls
              /\ step = "removeSnapshot" => operation = "Backup"
        BY <1>0, <1>a, NextOrigins DEF Same
      <2> HIDE DEF lv, step
      <2>3. CASE ncache # None
        BY ZenonT(30), <1>b, <2>1, <2>2, <2>3 DEF CopyCalls
      <2>4. CASE ncache = None
        <3>1. UNCHANGED <<api, lvm, remote>> /\ Goto("error")
          BY ZenonT(30), <2>1, <2>4 DEF StatusWrite, devVars, dataVars
        <3> QED
          BY ZenonT(30), <3>1
             DEF Origin, IDStep, EnterStep, AloneStep, Goto, Enter, Calls, CopyCalls
      <2> QED
        BY <2>3, <2>4
    <1>8. CASE CleanedFalse
      BY ZenonT(30), <1>a, <1>c, <1>8 DEF CleanedFalse
    <1>9. CASE LVMCleaned
      BY ZenonT(30), <1>a, <1>c, <1>9 DEF LVMCleaned
    <1>10. CASE Message
      BY ZenonT(30), <1>a, <1>c, <1>10 DEF Message
    <1>11. CASE DeleteEnsured
      <2>1. \A lv : RemoveStep(lv) \notin CopyCalls \cup {"removeSnapshot"}
        BY ZenonT(30) DEF RemoveStep, CopyCalls
      <2>2. "error" \notin CopyCalls \cup {"removeSnapshot"}
        BY DEF CopyCalls
      <2>3. \/ StatusWrite(SetDeleteExecutorEnsured(ncache, "True"), RemoveStep(ncache), "error")
            \/ StatusWrite(SetDeleteExecutorEnsured(ncache, "False"), "error", "error")
        BY ZenonT(30), <1>11 DEF DeleteEnsured
      <2> QED
        BY ZenonT(30), <1>a, <1>b, <2>1, <2>2, <2>3
    <1> QED
      BY <1>1, <1>2, <1>3, <1>4, <1>5, <1>6, <1>7, <1>8, <1>9, <1>10, <1>11

(* The other calls of the reconciler, its cache and its timer. *)
LEMMA OtherCallsOrigin ==
    ASSUME SnapInv,
           \/ Reconcile \/ Mount \/ CreateSnapshotPod \/ CreateRestorePod
           \/ CleanUnmount \/ CleanPod \/ RemoveSnapshot
           \/ DeleteUnmount \/ DeleteExecutor \/ DeletePodFirst \/ DeletionUnmount
           \/ RemoveLV \/ RemoveFinalizer \/ NodeCacheSync \/ TimerFires
    PROVE  Origin
    <1> USE NoneAssumption
    <1>0. /\ ncache \in LogicalVolume \cup {None} /\ source \in BOOLEAN
          /\ operation \in {"Backup", "Restore"}
      BY SnapAssumption DEF SnapInv, TypeOK, SnapTypeOK
    <1>a. EnterStep /\ UNCHANGED <<api, remote>> => Origin
      BY ZenonT(30) DEF Origin, IDStep, AloneStep
    <1>1. CASE Reconcile
      <2>1. UNCHANGED <<api, remote>>
        BY ZenonT(30), <1>1 DEF Reconcile, storeVars, objVars, dataVars
      <2>2. EnterStep
        <3>1. CASE ncache = None
          BY ZenonT(30), <1>1, <3>1 DEF Reconcile, EnterStep, CopyCalls
        <3>2. CASE ncache # None /\ ncache.deleting
          <4>1. /\ DeletionStep(ncache) \in CopyCalls => ncache.snapshotID
                /\ DeletionStep(ncache) # "removeSnapshot"
            BY ZenonT(30), <1>0, <3>2, NextOrigins
          <4>2. Enter(DeletionStep(ncache))
            BY ZenonT(30), <1>1, <3>2 DEF Reconcile
          <4> QED
            BY ZenonT(30), <3>2, <4>1, <4>2 DEF Enter, EnterStep, CopyCalls
        <3>3. CASE ncache # None /\ ~ncache.deleting
          <4>1. /\ SnapshotStep(ncache, source) \notin CopyCalls
                /\ SnapshotStep(ncache, source) = "removeSnapshot" => operation = "Backup"
            BY ZenonT(30), <1>0, <3>3, NextOrigins
          <4>2. Enter(SnapshotStep(ncache, source))
            BY ZenonT(30), <1>1, <3>3 DEF Reconcile, RestoreCandidate
          <4> QED
            BY ZenonT(30), <3>3, <4>1, <4>2 DEF Enter, EnterStep, CopyCalls
        <3> QED
          BY <3>1, <3>2, <3>3
      <2> QED
        BY <1>a, <2>1, <2>2
    <1>2. CASE Mount
      <2>1. UNCHANGED <<api, remote>>
        BY ZenonT(30), <1>2 DEF Mount, objVars, dataVars
      <2>2. EnterStep
        BY ZenonT(30), <1>2 DEF Mount, EnterStep, Goto, Enter, Calls, CopyCalls
      <2> QED
        BY <1>a, <2>1, <2>2
    <1>3. CASE CreateSnapshotPod
      <2>1. UNCHANGED <<api, remote>>
        BY ZenonT(30), <1>3 DEF CreateSnapshotPod, EnsurePod, objVars, dataVars
      <2>2. EnterStep
        BY ZenonT(30), <1>3 DEF CreateSnapshotPod, EnsurePod, EnterStep, Goto, Enter, Calls, CopyCalls
      <2> QED
        BY <1>a, <2>1, <2>2
    <1>4. CASE CreateRestorePod
      <2>1. UNCHANGED <<api, remote>>
        BY ZenonT(30), <1>4 DEF CreateRestorePod, EnsurePod, objVars, dataVars
      <2>2. EnterStep
        BY ZenonT(30), <1>4 DEF CreateRestorePod, EnsurePod, EnterStep, Goto, Enter, Calls, CopyCalls
      <2> QED
        BY <1>a, <2>1, <2>2
    <1>5. CASE CleanUnmount
      <2>1. UNCHANGED <<api, remote>>
        BY ZenonT(30), <1>5 DEF CleanUnmount, Unmount, objVars, dataVars
      <2>2. EnterStep
        BY ZenonT(30), <1>5 DEF CleanUnmount, Unmount, EnterStep, Goto, Enter, Calls, CopyCalls
      <2> QED
        BY <1>a, <2>1, <2>2
    <1>6. CASE CleanPod
      <2>1. UNCHANGED <<api, remote>>
        BY ZenonT(30), <1>6 DEF CleanPod, KillPod, objVars, dataVars
      <2>2. EnterStep
        BY ZenonT(30), <1>6 DEF CleanPod, KillPod, EnterStep, Goto, Enter, Calls, CopyCalls
      <2> QED
        BY <1>a, <2>1, <2>2
    <1>7. CASE RemoveSnapshot
      <2>1. UNCHANGED <<api, remote>>
        BY ZenonT(30), <1>7 DEF RemoveSnapshot, CallRemoveLV, objVars, dataVars
      <2>2. EnterStep
        BY ZenonT(30), <1>7 DEF RemoveSnapshot, CallRemoveLV, EnterStep, Goto, Enter, Calls, CopyCalls
      <2> QED
        BY <1>a, <2>1, <2>2
    <1>8. CASE DeleteUnmount
      <2>1. UNCHANGED <<api, remote>>
        BY ZenonT(30), <1>8 DEF DeleteUnmount, Unmount, objVars, dataVars
      <2>2. EnterStep
        BY ZenonT(30), <1>8 DEF DeleteUnmount, Unmount, EnterStep, Goto, Enter, Calls, CopyCalls
      <2> QED
        BY <1>a, <2>1, <2>2
    <1>9. CASE DeleteExecutor
      <2>1. UNCHANGED <<api, remote>>
        BY ZenonT(30), <1>9 DEF DeleteExecutor, objVars, dataVars
      <2>2. EnterStep
        BY ZenonT(30), <1>9 DEF DeleteExecutor, EnterStep, Goto, Enter, Calls, CopyCalls
      <2> QED
        BY <1>a, <2>1, <2>2
    <1>10. CASE DeletePodFirst
      <2>1. UNCHANGED <<api, remote>>
        BY ZenonT(30), <1>10 DEF DeletePodFirst, KillPod, objVars, dataVars
      <2>2. EnterStep
        BY ZenonT(30), <1>10 DEF DeletePodFirst, KillPod, EnterStep, Goto, Enter, Calls, CopyCalls
      <2> QED
        BY <1>a, <2>1, <2>2
    <1>11. CASE DeletionUnmount
      <2>1. UNCHANGED <<api, remote>>
        BY ZenonT(30), <1>11 DEF DeletionUnmount, Unmount, objVars, dataVars
      <2>2. EnterStep
        BY ZenonT(30), <1>11 DEF DeletionUnmount, Unmount, EnterStep, Goto, Enter, Calls, CopyCalls
      <2> QED
        BY <1>a, <2>1, <2>2
    <1>12. CASE RemoveLV
      <2>1. UNCHANGED <<api, remote>>
        BY ZenonT(30), <1>12 DEF RemoveLV, CallRemoveLV, objVars, dataVars
      <2>2. EnterStep
        BY ZenonT(30), <1>12 DEF RemoveLV, CallRemoveLV, EnterStep, Goto, Enter, Calls, CopyCalls
      <2> QED
        BY <1>a, <2>1, <2>2
    <1>13. CASE RemoveFinalizer
      <2>1. UNCHANGED <<lvm, remote>> /\ (api' = api \/ api' = None)
        BY ZenonT(30), <1>13 DEF RemoveFinalizer, Put, devVars, dataVars
      <2>2. EnterStep
        BY ZenonT(30), <1>13 DEF RemoveFinalizer, EnterStep, Goto, Enter, Calls, CopyCalls
      <2> QED
        BY ZenonT(30), <2>1, <2>2 DEF Origin, IDStep, AloneStep
    <1>14. CASE NodeCacheSync
      <2>1. UNCHANGED <<api, remote, rpc>>
        BY ZenonT(30), <1>14 DEF NodeCacheSync, dataVars
      <2> QED
        BY ZenonT(30), <1>a, <2>1 DEF EnterStep
    <1>15. CASE TimerFires
      <2>1. UNCHANGED <<api, remote, rpc>>
        BY ZenonT(30), <1>15 DEF TimerFires, storeVars, objVars, dataVars
      <2> QED
        BY ZenonT(30), <1>a, <2>1 DEF EnterStep
    <1> QED
      BY <1>1, <1>2, <1>3, <1>4, <1>5, <1>6, <1>7, <1>8, <1>9, <1>10, <1>11, <1>12,
         <1>13, <1>14, <1>15

(* The steps of the executor pods and of their reconciler. *)
LEMMA SnapshotterOrigin ==
    ASSUME SnapInv, SnapshotterNext, UNCHANGED recVars
    PROVE  Origin
    <1> USE NoneAssumption
    <1>0. /\ api \in LogicalVolume \cup {None} /\ dpod \in DeletePod
          /\ operation \in {"Backup", "Restore"}
          /\ "ncache" \in fresh => ncache = api
          /\ "pod" \in fresh => api # None
      BY SnapAssumption DEF SnapInv, TypeOK, SnapTypeOK, CopiesInv
    <1>a. EnterStep
      BY ZenonT(30) DEF EnterStep, recVars
    <1>b. UNCHANGED <<api, remote>> => Origin
      BY ZenonT(30), <1>a DEF Origin, IDStep, AloneStep
    <1>c. UNCHANGED <<lvm, remote>> /\ (api' = api \/ (api # None /\ Same(api, api'))) => Origin
      BY ZenonT(30), <1>a DEF Origin, IDStep, AloneStep, Same
    <1>1. CASE PodLoad
      BY ZenonT(30), <1>b, <1>1 DEF PodLoad, dataVars
    <1>2. CASE PerformRestore
      BY ZenonT(30), <1>b, <1>2 DEF PerformRestore, Work, ResticRestore, objVars, dataVars
    <1>3. CASE PodLost
      BY ZenonT(30), <1>b, <1>3 DEF PodLost, objVars, dataVars
    <1>4. CASE PodDies
      BY ZenonT(30), <1>b, <1>4 DEF PodDies, objVars, dataVars
    <1>5. CASE PodGone
      BY ZenonT(30), <1>b, <1>5 DEF PodGone, dataVars
    <1>6. CASE DeleteLoad
      BY ZenonT(30), <1>b, <1>6 DEF DeleteLoad, objVars, dataVars
    <1>7. CASE DeletePodLost
      BY ZenonT(30), <1>b, <1>7 DEF DeletePodLost, objVars, dataVars
    <1>8. CASE PodCacheSync
      BY ZenonT(30), <1>b, <1>8 DEF PodCacheSync, objVars, dataVars
    <1>9. CASE SetStatusRunning
      <2>1. UNCHANGED <<lvm, remote>>
        BY ZenonT(30), <1>9 DEF SetStatusRunning, devVars, dataVars
      <2>2. api' = api \/ (api # None /\ Same(api, api'))
        BY ZenonT(30), <1>0, <1>9, PhasesSame DEF SetStatusRunning, Put
      <2> QED
        BY <1>c, <2>1, <2>2
    <1>10. CASE ReportProgress
      <2>1. UNCHANGED <<lvm, remote>>
        BY ZenonT(30), <1>10 DEF ReportProgress, devVars, dataVars
      <2>2. api' = api \/ (api # None /\ Same(api, api'))
        BY ZenonT(30), <1>0, <1>10, PhasesSame DEF ReportProgress, Put
      <2> QED
        BY <1>c, <2>1, <2>2
    <1>11. CASE SetStatusFailed
      <2>1. UNCHANGED <<lvm, remote>>
        BY ZenonT(30), <1>11 DEF SetStatusFailed, devVars, dataVars
      <2>2. api' = api \/ (api # None /\ Same(api, api'))
        BY ZenonT(30), <1>0, <1>11, PhasesSame DEF SetStatusFailed, Put
      <2> QED
        BY <1>c, <2>1, <2>2
    <1>12. CASE PodReconcile
      <2>1. UNCHANGED <<lvm, remote>>
        BY ZenonT(30), <1>12 DEF PodReconcile, devVars, dataVars
      <2>2. api' = api \/ (api # None /\ Same(api, api'))
        BY ZenonT(30), <1>0, <1>12, PhasesSame DEF PodReconcile, Put
      <2> QED
        BY <1>c, <2>1, <2>2
    <1>13. CASE SetStatusSuccess
      <2>1. UNCHANGED <<lvm, remote>>
        BY ZenonT(30), <1>13 DEF SetStatusSuccess, devVars, dataVars
      <2>2. CASE operation = "Backup"
        <3>1. \/ api' = api
              \/ api # None /\ api' \in LogicalVolume /\ api'.deleting = api.deleting
          BY ZenonT(30), <1>0, <1>13, <2>2, PodSetters DEF SetStatusSuccess, Put
        <3> QED
          BY ZenonT(30), <1>a, <2>1, <2>2, <3>1 DEF Origin, IDStep, AloneStep
      <2>3. CASE operation = "Restore"
        <3>1. api' = api \/ (api # None /\ Same(api, api'))
          BY ZenonT(30), <1>0, <1>13, <2>3, PhasesSame DEF SetStatusSuccess, Put
        <3> QED
          BY <1>c, <2>1, <3>1
      <2> QED
        BY <1>0, <2>2, <2>3
    <1>14. CASE PerformBackup
      BY ZenonT(30), <1>a, <1>14
         DEF PerformBackup, Work, objVars, devVars, Origin, IDStep, AloneStep
    <1>15. CASE DeleteWork
      <2>1. UNCHANGED <<api, lvm>> /\ dpod.at # "none"
        BY <1>15 DEF DeleteWork, objVars, devVars
      <2> QED
        BY ZenonT(30), <1>a, <2>1 DEF Origin, IDStep, AloneStep
    <1>16. ASSUME NEW del \in {"Running", "Succeeded", "Failed"},
                  NEW at \in {"working", "ended"}, DeleteCondition(del, at)
           PROVE  Origin
      <2> DEFINE new == [api EXCEPT !.del = del, !.deleteEnsured = dpod.deleteEnsured]
      <2>1. UNCHANGED <<lvm, remote>> /\ (api' = api \/ (api # None /\ api' = new))
        BY ZenonT(30), <1>16 DEF DeleteCondition, Put, devVars, dataVars
      <2>2. dpod.deleteEnsured \in Condition
        BY <1>0 DEF DeletePod
      <2>3. api # None => Same(api, new)
        BY ZenonT(30), <1>0, <2>2 DEF Same, LogicalVolume
      <2> HIDE DEF new
      <2> QED
        BY ZenonT(30), <1>c, <2>1, <2>3
    <1>17. CASE SetDeleteRunning \/ SetDeleteSuccess \/ HandleDeleteError
      BY ZenonT(30), <1>16, <1>17 DEF SetDeleteRunning, SetDeleteSuccess, HandleDeleteError
    <1> QED
      BY <1>1, <1>2, <1>3, <1>4, <1>5, <1>6, <1>7, <1>8, <1>9, <1>10, <1>11, <1>12,
         <1>13, <1>14, <1>15, <1>17
         DEF SnapshotterNext, PodProgress, DeletePodProgress

(* The steps of the CO and the user, of a restart, and no step. *)
LEMMA EnvironmentOrigin ==
    ASSUME SnapInv,
           \/ NodeRestart \/ DeleteLV \/ PVAppears \/ SourceDeleted \/ StorageAppears
           \/ NodePublishVolume \/ NodeUnpublishVolume \/ UNCHANGED vars
    PROVE  Origin
    <1> USE NoneAssumption
    <1>0. api \in LogicalVolume \cup {None}
      BY DEF SnapInv, TypeOK, SnapTypeOK
    <1>a. UNCHANGED <<api, remote, rpc>> => Origin
      BY ZenonT(30) DEF Origin, IDStep, AloneStep, EnterStep
    <1>1. CASE NodeRestart
      <2>1. UNCHANGED <<api, remote>> /\ rpc' = "idle"
        BY ZenonT(30), <1>1 DEF NodeRestart, dataVars
      <2> QED
        BY ZenonT(30), <2>1 DEF Origin, IDStep, AloneStep, EnterStep, CopyCalls
    <1>2. CASE DeleteLV
      <2>1. /\ UNCHANGED <<lvm, remote, rpc>>
            /\ api # None /\ api' = [api EXCEPT !.deleting = TRUE]
        BY ZenonT(30), <1>2 DEF DeleteLV, Put, devVars, dataVars, recVars
      <2>2. api' \in LogicalVolume /\ api'.snapshotID = api.snapshotID /\ api'.phase = api.phase
        BY ZenonT(30), <1>0, <2>1 DEF LogicalVolume
      <2> QED
        BY ZenonT(30), <2>1, <2>2 DEF Origin, IDStep, AloneStep, EnterStep
    <1>3. CASE \/ PVAppears \/ SourceDeleted \/ StorageAppears
               \/ NodePublishVolume \/ NodeUnpublishVolume
      BY ZenonT(30), <1>a, <1>3
         DEF PVAppears, SourceDeleted, StorageAppears, NodePublishVolume,
             NodeUnpublishVolume, objVars, dataVars, recVars
    <1>4. CASE UNCHANGED vars
      BY ZenonT(30), <1>a, <1>4 DEF vars, storeVars, objVars, dataVars, recVars
    <1> QED
      BY <1>1, <1>2, <1>3, <1>4

(* Every step has the shapes and the origins. *)
LEMMA EveryStep ==
    ASSUME SnapInv, [Next]_vars
    PROVE  Shape /\ Origin
    <1>1. CASE (ReconcileStep \/ NodeCacheSync \/ TimerFires) /\ UNCHANGED pqueued
      BY <1>1, StatusCallsShape, OtherCallsShape, StatusCallsOrigin, OtherCallsOrigin
         DEF ReconcileStep
    <1>2. CASE SnapshotterNext /\ UNCHANGED recVars
      BY <1>2, SnapshotterShape, SnapshotterOrigin
    <1>3. CASE \/ NodeRestart \/ DeleteLV \/ PVAppears \/ SourceDeleted \/ StorageAppears
               \/ NodePublishVolume \/ NodeUnpublishVolume
      BY <1>3, EnvironmentShape, EnvironmentOrigin
    <1>4. CASE UNCHANGED vars
      BY <1>4, StutterShape, EnvironmentOrigin
    <1> QED
      BY <1>1, <1>2, <1>3, <1>4 DEF Next

(* A restore stays away from the snapshot it is made from. *)
LEMMA RestoreStep ==
    ASSUME SnapInv, RestoreInv, [Next]_vars
    PROVE  RestoreInv'
    <1>0. Shape /\ Origin
      BY EveryStep
    <1>1. operation' = operation
      BY <1>0 DEF Shape
    <1> SUFFICES ASSUME operation = "Restore"
                 PROVE  RestoreInv'
      BY ZenonT(30), <1>1 DEF RestoreInv
    <1>2. /\ remote = "data" /\ dpod.at = "none"
          /\ api # None => ~api.snapshotID
          /\ ncache # None => ~ncache.snapshotID
          /\ rpc \notin CopyCalls \cup {"removeSnapshot"}
      BY DEF RestoreInv
    <1>3. remote' = "data"
      BY <1>0, <1>2 DEF Origin, AloneStep
    <1>4. dpod'.at = "none"
      BY <1>0, <1>2 DEF Shape, DeletePodStep, CopyCalls
    <1>5. api' # None => ~api'.snapshotID
      BY ZenonT(30), <1>0, <1>2 DEF Origin, IDStep
    <1>6. ncache' # None => ~ncache'.snapshotID
      BY ZenonT(30), <1>0, <1>2, <1>5 DEF Shape, CacheStep
    <1>7. rpc' \notin CopyCalls \cup {"removeSnapshot"}
      BY ZenonT(30), <1>0, <1>2 DEF Origin, EnterStep
    <1> QED
      BY ZenonT(30), <1>3, <1>4, <1>5, <1>6, <1>7 DEF RestoreInv

(* The state of the request, and whether it says Succeeded. *)
RequestIs == IF api = None THEN "gone" ELSE IF api.deleting THEN "ending" ELSE "held"

ReportedIs == api # None /\ api.phase = "Succeeded"

(* The volume goes: an abstract RemoveLocal. *)
LEMMA VolumeGoes ==
    ASSUME SnapInv, RestoreInv, Shape, Origin, lvm' # lvm
    PROVE  Abstract!RemoveLocal
    <1>1. UNCHANGED <<api, remote, operation>> /\ lvm' = FALSE
      BY DEF Origin, AloneStep, Shape, DeviceStep
    <1>2. operation \in {"Backup", "Restore"}
      BY SnapAssumption DEF SnapInv, TypeOK, SnapTypeOK
    <1>3. rpc \in DeletionCalls \/ rpc = "removeSnapshot"
      BY DEF Shape, DeviceStep
    <1>4. rpc \in DeletionCalls => Deleting(api)
      BY ZenonT(30) DEF SnapInv, DeletionInv, CopiesInv
    <1>5. rpc = "removeSnapshot" => operation = "Backup" /\ Written
      BY ZenonT(30), <1>2 DEF SnapInv, BackupInv, RestoreInv
    <1>6. RequestIs # "held" \/ (operation = "Backup" /\ remote # "none")
      BY <1>3, <1>4, <1>5 DEF Written, Deleting, RequestIs
    <1>7. RequestIs' = RequestIs /\ ReportedIs' = ReportedIs
      BY <1>1 DEF RequestIs, ReportedIs
    <1> QED
      BY ZenonT(30), <1>1, <1>6, <1>7
         DEF Abstract!RemoveLocal, Abstract!Saved, RequestIs, ReportedIs

(* The repository changes: an abstract Save or Forget. *)
LEMMA RepositoryChanges ==
    ASSUME SnapInv, RestoreInv, Shape, Origin, remote' # remote
    PROVE  Abstract!Save \/ Abstract!Forget
    <1>1. UNCHANGED <<api, lvm, operation>> /\ (operation = "Backup" \/ dpod.at # "none")
      BY DEF Origin, AloneStep, Shape
    <1>2. operation = "Backup"
      <2>1. operation \in {"Backup", "Restore"}
        BY SnapAssumption DEF SnapInv, TypeOK, SnapTypeOK
      <2> QED
        BY ZenonT(30), <1>1, <2>1 DEF RestoreInv
    <1>3. \/ remote' \in {"data", "empty"}
          \/ remote' = "none" /\ dpod.at = "working"
      BY DEF Shape, RepositoryStep
    <1>4. dpod.at = "working" => RequestIs # "held"
      BY DEF SnapInv, DeletionInv, CopiesInv, Deleting, RequestIs
    <1>5. RequestIs' = RequestIs /\ ReportedIs' = ReportedIs
      BY <1>1 DEF RequestIs, ReportedIs
    <1> QED
      BY ZenonT(30), <1>1, <1>2, <1>3, <1>4, <1>5
         DEF Abstract!Save, Abstract!Forget, RequestIs, ReportedIs

(* The CR changes: the request is asked to go, is released, or what it     *)
(* reports changes, if anything.                                           *)
LEMMA RequestChanges ==
    ASSUME SnapInv, Shape, Origin, UNCHANGED <<lvm, remote>>
    PROVE  \/ Abstract!AskToGo \/ Abstract!Report \/ Abstract!Retract \/ Abstract!Release
           \/ UNCHANGED Abstract!vars
    <1> USE NoneAssumption
    <1>0. /\ api \in LogicalVolume \cup {None} /\ UNCHANGED <<operation, lvm, remote>>
          /\ api \in LogicalVolume => api.deleting \in BOOLEAN
      BY ZenonT(30) DEF SnapInv, TypeOK, SnapTypeOK, Shape, LogicalVolume
    <1>1. CASE api' = api
      <2>1. RequestIs' = RequestIs /\ ReportedIs' = ReportedIs
        BY <1>1 DEF RequestIs, ReportedIs
      <2> QED
        BY ZenonT(30), <1>0, <2>1 DEF Abstract!vars, RequestIs, ReportedIs
    <1>2. CASE api' # api /\ api' = None
      <2>1. rpc = "removeFinalizer" /\ api # None
        BY <1>2 DEF Shape, ApiStep
      <2>2. ~lvm /\ Deleting(api)
        BY ZenonT(30), <2>1 DEF SnapInv, VolumeInv, DeletionInv, CopiesInv, DeletionCalls
      <2>3. RequestIs = "ending" /\ RequestIs' = "gone" /\ ReportedIs' = FALSE
        BY <1>2, <2>1, <2>2 DEF RequestIs, ReportedIs, Deleting
      <2> QED
        BY ZenonT(30), <1>0, <2>2, <2>3 DEF Abstract!Release, RequestIs, ReportedIs
    <1>3. CASE api' # api /\ api' # None
      <2>1. /\ api # None /\ api' \in LogicalVolume
            /\ api.deleting => api'.deleting
            /\ api'.phase = "Succeeded" => api.phase = "Succeeded" \/ pod.at = "done"
            /\ api'.deleting = api.deleting \/ api'.phase = api.phase
        BY ZenonT(30), <1>3 DEF Shape, ApiStep, Origin, IDStep
      <2>2. CASE api'.deleting = api.deleting
        <3>1. RequestIs' = RequestIs /\ RequestIs # "gone"
          BY <2>1, <2>2, <1>3 DEF RequestIs
        <3>2. CASE ReportedIs' = ReportedIs
          BY ZenonT(30), <1>0, <3>1, <3>2 DEF Abstract!vars, RequestIs, ReportedIs
        <3>3. CASE ReportedIs' = FALSE
          BY ZenonT(30), <1>0, <3>1, <3>3 DEF Abstract!Retract, RequestIs, ReportedIs
        <3>4. CASE ReportedIs' = TRUE /\ ReportedIs = FALSE
          <4>1. pod.at = "done"
            BY ZenonT(30), <2>1, <3>4 DEF ReportedIs
          <4>2. operation = "Backup" => remote # "none" \/ RequestIs # "held"
            BY <4>1 DEF SnapInv, BackupInv, Written, Deleting, RequestIs
          <4> QED
            BY ZenonT(30), <1>0, <3>1, <3>4, <4>2
               DEF Abstract!Report, Abstract!Saved, RequestIs, ReportedIs
        <3> QED
          BY ZenonT(30), <3>2, <3>3, <3>4 DEF ReportedIs
      <2>3. CASE api'.deleting # api.deleting
        <3>1. ~api.deleting /\ api'.deleting /\ api'.phase = api.phase
          <4>1. api.deleting \in BOOLEAN /\ api'.deleting \in BOOLEAN
            BY ZenonT(30), <1>0, <2>1 DEF LogicalVolume
          <4> QED
            BY <2>1, <2>3, <4>1
        <3>2. RequestIs = "held" /\ RequestIs' = "ending" /\ ReportedIs' = ReportedIs
          BY ZenonT(30), <1>3, <2>1, <3>1 DEF RequestIs, ReportedIs
        <3> QED
          BY ZenonT(30), <1>0, <3>2 DEF Abstract!AskToGo, RequestIs, ReportedIs
      <2> QED
        BY <2>2, <2>3
    <1> QED
      BY <1>1, <1>2, <1>3

(* Every step of the operation is a step of AbstractSnapshot or none. *)
LEMMA SnapshotRefines ==
    ASSUME SnapInv, RestoreInv, [Next]_vars
    PROVE  [Abstract!Next]_(Abstract!vars)
    <1>0. Shape /\ Origin
      BY EveryStep
    <1>1. CASE lvm' # lvm
      BY <1>0, <1>1, VolumeGoes DEF Abstract!Next
    <1>2. CASE remote' # remote
      BY <1>0, <1>2, RepositoryChanges DEF Abstract!Next
    <1>3. CASE UNCHANGED <<lvm, remote>>
      BY <1>0, <1>3, RequestChanges DEF Abstract!Next
    <1> QED
      BY <1>1, <1>2, <1>3

(* Whatever the caches, the pods and the faults do, an online snapshot     *)
(* keeps the promises of AbstractSnapshot: handleDeletion deletes a backup *)
(* only of a snapshot that is being deleted, and the deletion of a         *)
(* restored volume leaves the snapshot it was made from in the repository. *)
THEOREM SnapshotKeepsItsPromises ==
    Spec => ImplementsSnapshot
    <1>1. Init => RestoreInv /\ Abstract!Init
      <2> SUFFICES ASSUME Init
                   PROVE  RestoreInv /\ Abstract!Init
        OBVIOUS
      <2> USE NoneAssumption
      <2>1. /\ api \in LogicalVolume /\ ~api.deleting /\ api.phase = "nil" /\ ~api.snapshotID
            /\ ncache = api /\ rpc = "idle" /\ lvm = TRUE /\ dpod.at = "none"
            /\ operation \in Operations
            /\ remote = IF operation = "Restore" THEN "data" ELSE "none"
        BY ZenonT(30) DEF Init, SnapInit, RecInit, LogicalVolume, Phase, Condition, NoDeletePod
      <2>2. RestoreInv
        BY ZenonT(30), <2>1 DEF RestoreInv, CopyCalls
      <2>3. RequestIs = "held" /\ ReportedIs = FALSE
        BY ZenonT(30), <2>1 DEF RequestIs, ReportedIs
      <2>4. Abstract!Init
        BY ZenonT(30), <2>1, <2>3 DEF Abstract!Init, RequestIs, ReportedIs
      <2> QED
        BY <2>2, <2>4
    <1>2. SnapInv /\ RestoreInv /\ [Next]_vars => RestoreInv'
      BY RestoreStep
    <1>3. SnapInv /\ RestoreInv /\ [Next]_vars => [Abstract!Next]_(Abstract!vars)
      BY SnapshotRefines
    <1> QED
      BY <1>1, <1>2, <1>3, SnapInvariant, PTL DEF Spec, ImplementsSnapshot, Abstract!Spec
=============================================================================
