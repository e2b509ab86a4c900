--------------------------- MODULE SnapReconciler ---------------------------
(***************************************************************************)
(* LogicalVolumeReconciler of topolvm-node on a volume with an online      *)
(* snapshot operation: starting the operation, cleaning up after it, and   *)
(* the three ways of deletion.  A reconcile is cut at every call to the    *)
(* API server, to lvmd or to the mounter.                                  *)
(***************************************************************************)
EXTENDS SnapStore

VARIABLES queued,  \* is the CR's name in the work queue?
          timer,   \* will a RequeueAfter or an error's backoff put it there?
          rpc,     \* the call the reconcile is about to make, or "idle"
          shouldRestore  \* did the reconcile find the source of a restore?

recVars == <<queued, timer, rpc, shouldRestore>>

Calls == {"idle", "initialize", "storage", "storageFalse", "noStorage", "mount", "pod",
          "failOperation", "ensuredTrue", "ensuredFalse",
          "cleanUnmount", "cleanPod", "cleanedTrue", "cleanedFalse",
          "removeSnapshot", "lvmCleanedTrue", "lvmCleanedFalse", "message",
          "deleteUnmount", "deleteExecutor", "deleteTrue", "deleteFalse",
          "deletePod", "unmount", "RemoveLV", "RemoveLVOnly", "removeFinalizer"}

RecTypeOK ==
    /\ queued \in BOOLEAN /\ timer \in BOOLEAN
    /\ rpc \in Calls
    /\ shouldRestore \in BOOLEAN

RecInit ==
    /\ queued = TRUE /\ timer = FALSE
    /\ rpc = "idle" /\ shouldRestore = FALSE

(* On to the next call, or the end: "done", or "error" / "requeue", after  *)
(* which the name is queued again, later.  All that the reconcile takes    *)
(* from its copy of the CR is which call comes next.                       *)
Enter(call) ==
    /\ rpc' = IF call \in Calls THEN call ELSE "idle"
    /\ timer' = (timer \/ call \in {"error", "requeue"})

Goto(call) == Enter(call) /\ UNCHANGED shouldRestore

(* updateLVStatusCondition makes Status.Snapshot non-nil. *)
NonNil(lv) == IF lv.phase = "nil" THEN [lv EXCEPT !.phase = ""] ELSE lv

SetStorageFound(lv, status) == [NonNil(lv) EXCEPT !.found = status]

SetExecutorEnsured(lv, status) == [NonNil(lv) EXCEPT !.ensured = status]

SetExecutorCleanup(lv, status) == [NonNil(lv) EXCEPT !.cleaned = status]

SetLVMSnapshotCleaned(lv, status) == [NonNil(lv) EXCEPT !.lvmCleaned = status]

SetDeleteExecutorEnsured(lv, status) == [NonNil(lv) EXCEPT !.deleteEnsured = status]

UpdateSnapshotOperationStatus(lv, phase) == [lv EXCEPT !.phase = phase]

(* reconcileSnapshotRestore / reconcileSnapshotBackup: what is to be done  *)
(* about the operation.  A False condition counts as done as much as a     *)
(* True one.                                                               *)
StartStep(lv) ==
    IF lv.ensured # "" THEN "done"
    ELSE IF operation = "Restore" /\ ~pv THEN "requeue"
    ELSE IF lv.phase \in {"nil", ""} THEN "initialize"
    ELSE "storage"

(* Mutant: the thin snapshot is removed after a failed backup, too. *)
CleanupStepAnyPhase(lv) ==
    IF lv.cleaned = "" THEN "cleanUnmount"
    ELSE IF operation = "Restore" THEN "done"
    ELSE IF lv.lvmCleaned = "" THEN "removeSnapshot"
    ELSE IF ~lv.removedMsg THEN "message"
    ELSE "done"

(* Mutant: only a successful operation is cleaned up. *)
CleanupStepSucceeded(lv) ==
    IF lv.phase = "Failed" THEN "done"
    ELSE IF lv.cleaned = "" THEN "cleanUnmount"
    ELSE IF operation = "Restore" THEN "done"
    ELSE IF lv.lvmCleaned = "" THEN "removeSnapshot"
    ELSE IF ~lv.removedMsg THEN "message"
    ELSE "done"

CleanupStep(lv) ==
    IF lv.cleaned = "" THEN "cleanUnmount"
    ELSE IF operation = "Restore" THEN "done"
    ELSE IF lv.lvmCleaned = "" /\ lv.phase = "Succeeded" THEN "removeSnapshot"
    ELSE IF lv.lvmCleaned # "" /\ ~lv.removedMsg THEN "message"
    ELSE "done"

(* buildSnapshotContextFrRestore: the source can still be restored from. *)
RestoreCandidate == source

SnapshotStep(lv, restore) ==
    IF operation = "Restore" /\ ~restore THEN "done"
    ELSE IF Complete(lv) THEN CleanupStep(lv)
    ELSE StartStep(lv)

(* isLVHasSnapshot *)
HasSnapshot(lv) == lv.phase = "Succeeded" /\ lv.snapshotID

(* deletionWithSnapshot removes the volume, and the finalizer only when    *)
(* the delete pod has reported success.                                    *)
RemoveStep(lv) == IF lv.del = "Succeeded" THEN "RemoveLV" ELSE "RemoveLVOnly"

(* handleDeletion: there is a backup to delete, or an operation that may   *)
(* be in progress (snapshotOperationToCleanUp), or just a volume.          *)
DeletionStep(lv) ==
    IF HasSnapshot(lv) THEN IF lv.deleteEnsured = "" THEN "deleteUnmount" ELSE RemoveStep(lv)
    ELSE IF operation = "Backup" \/ RestoreCandidate THEN "deletePod"
    ELSE "RemoveLV"

(* Reconcile: Get from the cache. *)
Reconcile ==
    /\ rpc = "idle" /\ queued
    /\ queued' = FALSE
    /\ shouldRestore' = RestoreCandidate
    /\ IF ncache = None THEN UNCHANGED <<rpc, timer>>
       ELSE Enter(IF ncache.deleting THEN DeletionStep(ncache)
                  ELSE SnapshotStep(ncache, RestoreCandidate))
    /\ UNCHANGED storeVars

(* Get from the cache, change the copy, Status().Update: it succeeds only  *)
(* when the cache is up to date, and does nothing if nothing changed.  A   *)
(* conflict is one of the faults of the API.                               *)
StatusWrite(lv, next, onError) ==
    /\ \/ /\ "ncache" \in fresh /\ ncache # None
          /\ IF lv = ncache THEN UNCHANGED <<api, fresh>> ELSE Put(lv, {})
          /\ Goto(next)
          /\ UNCHANGED faults
       \/ /\ ncache = None
          /\ Goto(onError)
          /\ UNCHANGED <<api, fresh, faults>>
       \/ /\ Fault("api")
          /\ Goto(onError)
          /\ UNCHANGED <<api, fresh>>
    /\ UNCHANGED <<ncache, devVars, podVars, dataVars, envVars, queued>>

-----------------------------------------------------------------------------
(* backupSnapshot / restoreFromSnapshot *)

InitializeSnapshotStatus ==
    /\ rpc = "initialize"
    /\ StatusWrite(UpdateSnapshotOperationStatus(ncache, "Pending"), "storage", "error")

(* validateSnapshotStorageExists, then StorageFound = True, or ... *)
ValidateStorage ==
    /\ rpc = "storage" /\ storage
    /\ StatusWrite(SetStorageFound(ncache, "True"), "mount", "error")

(* ... handleSnapshotStorageNotFound: Failed, StorageFound = False and     *)
(* ExecutorEnsured = False, with no error and no requeue.                  *)
StorageNotFound ==
    \/ /\ rpc = "storage" /\ ~storage
       /\ StatusWrite(UpdateSnapshotOperationStatus(ncache, "Failed"),
                      "storageFalse", "storageFalse")
    \/ /\ rpc = "storageFalse"
       /\ StatusWrite(SetStorageFound(ncache, "False"), "noStorage", "error")

(* LVMount.Mount is idempotent; it fails when the volume is not there. *)
Mount ==
    /\ rpc = "mount"
    /\ \/ lvm /\ mounted' = TRUE /\ Goto("pod") /\ UNCHANGED faults
       \/ ~lvm /\ Goto("failOperation") /\ UNCHANGED <<mounted, faults>>
       \/ Fault("mount") /\ Goto("failOperation") /\ UNCHANGED mounted
    /\ UNCHANGED <<objVars, lvm, published, podVars, dataVars, envVars, queued>>

(* createSnapshotPod / createRestorePod: a pod of that name in the cache   *)
(* is taken as it is; one the cache does not show yet is AlreadyExists.    *)
EnsurePod ==
    /\ rpc = "pod"
    /\ \/ /\ podSeen # "none"
          /\ Goto("ensuredTrue")
          /\ UNCHANGED <<pod, podEvent, faults>>
       \/ /\ podSeen = "none" /\ pod.at = "none"
          /\ pod' = [NoPod EXCEPT !.at = "pending"]
          /\ podEvent' = TRUE
          /\ Goto("ensuredTrue")
          /\ UNCHANGED faults
       \/ /\ podSeen = "none" /\ pod.at # "none"
          /\ Goto("failOperation")
          /\ UNCHANGED <<pod, podEvent, faults>>
       \/ /\ Fault("podCreate")
          /\ Goto("failOperation")
          /\ UNCHANGED <<pod, podEvent>>
    /\ UNCHANGED <<objVars, devVars, podSeen, dpod, dataVars, envVars, queued>>

CreateSnapshotPod == operation = "Backup" /\ EnsurePod

CreateRestorePod == operation = "Restore" /\ EnsurePod

(* Phase Failed; an error of that write is only logged. *)
FailOperation ==
    /\ rpc = "failOperation"
    /\ StatusWrite(UpdateSnapshotOperationStatus(ncache, "Failed"), "ensuredFalse", "ensuredFalse")

EnsuredTrue ==
    /\ rpc = "ensuredTrue"
    /\ StatusWrite(SetExecutorEnsured(ncache, "True"), "done", "error")

EnsuredFalse ==
    /\ rpc \in {"ensuredFalse", "noStorage"}
    /\ StatusWrite(SetExecutorEnsured(ncache, "False"),
                   IF rpc = "ensuredFalse" /\ operation = "Restore" THEN "error" ELSE "done",
                   "error")

-----------------------------------------------------------------------------
(* After the operation: executeCleanerOperation, and for a backup          *)
(* cleanupLVMSnapshotAfterBackup and the status message                    *)

(* LVMount.Unmount, idempotent too. *)
Unmount(call, next, onError) ==
    /\ rpc = call
    /\ \/ mounted' = FALSE /\ Goto(next) /\ UNCHANGED faults
       \/ Fault("mount") /\ Goto(onError) /\ UNCHANGED mounted
    /\ UNCHANGED <<objVars, lvm, published, podVars, dataVars, envVars, queued>>

CleanUnmount == Unmount("cleanUnmount", "cleanPod", "cleanedFalse")

(* Delete of the pod; its deletion takes a while. *)
KillPod == /\ pod' = IF pod.at = "none" THEN pod ELSE [pod EXCEPT !.deleting = TRUE]
           /\ podEvent' = (podEvent \/ pod.at # "none")

CleanPod ==
    /\ rpc = "cleanPod"
    /\ \/ podSeen # "none" /\ KillPod /\ Goto("cleanedTrue") /\ UNCHANGED faults
       \/ podSeen = "none" /\ Goto("cleanedTrue") /\ UNCHANGED <<pod, podEvent, faults>>
       \/ Fault("podCreate") /\ Goto("cleanedFalse") /\ UNCHANGED <<pod, podEvent>>
    /\ UNCHANGED <<objVars, devVars, podSeen, dpod, dataVars, envVars, queued>>

CleanedTrue ==
    LET lv == SetExecutorCleanup(ncache, "True")
    IN rpc = "cleanedTrue" /\ StatusWrite(lv, SnapshotStep(lv, shouldRestore), "error")

CleanedFalse ==
    /\ rpc = "cleanedFalse"
    /\ StatusWrite(SetExecutorCleanup(ncache, "False"), "error", "error")

(* lvremove refuses a device that is in use; NotFound counts as removed.   *)
(* A call that reports an error may have had its effect.                   *)
CallRemoveLV(next, onError) ==
    /\ \/ ~InUse /\ lvm' = FALSE /\ Goto(next) /\ UNCHANGED faults
       \/ InUse /\ Goto(onError) /\ UNCHANGED <<lvm, faults>>
       \/ /\ Fault("lvmd") /\ Goto(onError)
          /\ lvm' \in IF InUse THEN {lvm} ELSE {lvm, FALSE}
    /\ UNCHANGED <<objVars, mounted, published, podVars, dataVars, envVars, queued>>

RemoveSnapshot ==
    rpc = "removeSnapshot" /\ CallRemoveLV("lvmCleanedTrue", "lvmCleanedFalse")

(* The RequeueAfter of the backup branch is dropped by reconcile. *)
LVMCleaned ==
    \/ /\ rpc = "lvmCleanedTrue"
       /\ StatusWrite(SetLVMSnapshotCleaned(ncache, "True"), "done", "error")
    \/ /\ rpc = "lvmCleanedFalse"
       /\ StatusWrite(SetLVMSnapshotCleaned(ncache, "False"), "error", "error")

Message ==
    rpc = "message" /\ StatusWrite([ncache EXCEPT !.removedMsg = TRUE], "done", "error")

-----------------------------------------------------------------------------
(* handleDeletion *)

DeleteUnmount == Unmount("deleteUnmount", "deleteExecutor", "deleteFalse")

(* createDeletePod: as EnsurePod, but whether the cache shows an existing  *)
(* pod is left open.                                                       *)
DeleteExecutor ==
    /\ rpc = "deleteExecutor"
    /\ \/ /\ dpod.at = "none"
          /\ dpod' = [NoDeletePod EXCEPT !.at = "pending"]
          /\ overlap' = (overlap \/ YetToWork(pod))
          /\ Goto("deleteTrue")
          /\ UNCHANGED faults
       \/ /\ dpod.at # "none"
          /\ Goto("deleteTrue") \/ Goto("deleteFalse")
          /\ UNCHANGED <<dpod, overlap, faults>>
       \/ /\ Fault("podCreate")
          /\ Goto("deleteFalse")
          /\ UNCHANGED <<dpod, overlap>>
    /\ UNCHANGED <<objVars, devVars, pod, podSeen, podEvent, remote, restored, envVars, queued>>

DeleteEnsured ==
    \/ /\ rpc = "deleteTrue"
       /\ StatusWrite(SetDeleteExecutorEnsured(ncache, "True"), RemoveStep(ncache), "error")
    \/ /\ rpc = "deleteFalse"
       /\ StatusWrite(SetDeleteExecutorEnsured(ncache, "False"), "error", "error")

(* Mutant: no requeue while the pod terminates. *)
DeletePodNoRequeue ==
    /\ rpc = "deletePod"
    /\ \/ /\ podSeen = "none"
          /\ Goto("unmount")
          /\ UNCHANGED <<pod, podEvent>>
       \/ /\ podSeen = "terminating"
          /\ Goto("done")
          /\ UNCHANGED <<pod, podEvent>>
       \/ /\ podSeen \in {"live", "failed"}
          /\ KillPod
          /\ Goto("done")
    /\ UNCHANGED <<objVars, devVars, podSeen, dpod, dataVars, envVars, faults, queued>>

(* deleteRunningSnapshotPod: the device can only be removed once the pod   *)
(* has disappeared.                                                        *)
DeletePodFirst ==
    /\ rpc = "deletePod"
    /\ \/ /\ podSeen = "none"
          /\ Goto("unmount")
          /\ UNCHANGED <<pod, podEvent, faults>>
       \/ /\ podSeen = "terminating"
          /\ Goto("requeue")
          /\ UNCHANGED <<pod, podEvent, faults>>
       \/ /\ podSeen \in {"live", "failed"}
          /\ KillPod
          /\ Goto("requeue")
          /\ UNCHANGED faults
       \/ /\ Fault("podCreate")
          /\ Goto("error")
          /\ UNCHANGED <<pod, podEvent>>
    /\ UNCHANGED <<objVars, devVars, podSeen, dpod, dataVars, envVars, queued>>

DeletionUnmount == Unmount("unmount", "RemoveLV", "error")

RemoveLV ==
    \/ rpc = "RemoveLV" /\ CallRemoveLV("removeFinalizer", "error")
    \/ rpc = "RemoveLVOnly" /\ CallRemoveLV("done", "error")

(* The CR disappears with its finalizer. *)
RemoveFinalizer ==
    /\ rpc = "removeFinalizer"
    /\ \/ /\ IF ncache = None THEN UNCHANGED <<api, fresh>> ELSE Put(None, {})
          /\ Goto("done")
          /\ UNCHANGED faults
       \/ /\ Fault("api")
          /\ Goto("error")
          /\ UNCHANGED <<api, fresh>>
    /\ UNCHANGED <<ncache, devVars, podVars, dataVars, envVars, queued>>

-----------------------------------------------------------------------------
NodeCacheSync ==
    /\ "ncache" \notin fresh
    /\ ncache' = api
    /\ fresh' = fresh \cup {"ncache"}
    /\ queued' = TRUE
    /\ UNCHANGED <<api, devVars, podVars, dataVars, envVars, faults,
                   timer, rpc, shouldRestore>>

TimerFires ==
    /\ timer
    /\ queued' = TRUE /\ timer' = FALSE
    /\ UNCHANGED <<storeVars, rpc, shouldRestore>>

ReconcileStep ==
    \/ Reconcile \/ InitializeSnapshotStatus \/ ValidateStorage \/ StorageNotFound
    \/ Mount \/ CreateSnapshotPod \/ CreateRestorePod
    \/ FailOperation \/ EnsuredTrue \/ EnsuredFalse
    \/ CleanUnmount \/ CleanPod \/ CleanedTrue \/ CleanedFalse
    \/ RemoveSnapshot \/ LVMCleaned \/ Message
    \/ DeleteUnmount \/ DeleteExecutor \/ DeleteEnsured
    \/ DeletePodFirst \/ DeletionUnmount \/ RemoveLV \/ RemoveFinalizer
=============================================================================
