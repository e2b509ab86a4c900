--------------------------- MODULE OnlineSnapshot ---------------------------
(***************************************************************************)
(* An online snapshot operation: the LogicalVolume reconciler              *)
(* (SnapReconciler), the executor pods and their reconciler (Snapshotter), *)
(* the CO and the user.                                                    *)
(***************************************************************************)
EXTENDS SnapReconciler, Snapshotter

vars == <<storeVars, recVars, pqueued>>

Init == SnapInit /\ RecInit /\ PodRecInit

(* topolvm-node starts again: both reconcilers forget what they were at,   *)
(* the informers list what there is now.                                   *)
NodeRestart ==
    /\ Fault("restart")
    /\ rpc' = "idle" /\ shouldRestore' = FALSE /\ timer' = FALSE
    /\ ncache' = api /\ fresh' = fresh \cup {"ncache"}
    /\ queued' = (api # None)
    /\ podSeen' = View(pod) /\ podEvent' = FALSE
    /\ pqueued' = (pod.at # "none")
    /\ UNCHANGED <<api, devVars, pod, dpod, dataVars, envVars>>

-----------------------------------------------------------------------------
(* The CO and the user *)

(* DeleteSnapshot, or DeleteVolume of a volume no workload uses. *)
DeleteLV ==
    /\ api # None /\ ~api.deleting /\ ~published
    /\ Put([api EXCEPT !.deleting = TRUE], {})
    /\ UNCHANGED <<ncache, devVars, podVars, dataVars, envVars, faults, recVars, pqueued>>

(* The provisioner makes the PersistentVolume after CreateVolume. *)
PVAppears ==
    /\ operation = "Restore" /\ ~pv
    /\ pv' = TRUE
    /\ UNCHANGED <<objVars, devVars, podVars, dataVars, source, storage, operation, faults,
                   recVars, pqueued>>

SourceDeleted ==
    /\ source /\ Fault("source")
    /\ source' = FALSE
    /\ UNCHANGED <<objVars, devVars, podVars, dataVars, pv, storage, operation, recVars, pqueued>>

StorageAppears ==
    /\ ~storage
    /\ storage' = TRUE
    /\ UNCHANGED <<objVars, devVars, podVars, dataVars, pv, source, operation, faults,
                   recVars, pqueued>>

(* NodePublishVolume's gate; the CR comes from the cache. *)
NodePublishVolume ==
    /\ pv /\ ~published
    /\ api # None /\ ~api.deleting
    /\ ncache # None /\ ncache.phase \in {"nil", "Succeeded"}
    /\ lvm
    /\ published' = TRUE
    /\ UNCHANGED <<objVars, lvm, mounted, podVars, dataVars, envVars, faults,
                   recVars, pqueued>>

NodeUnpublishVolume ==
    /\ published
    /\ published' = FALSE
    /\ UNCHANGED <<objVars, lvm, mounted, podVars, dataVars, envVars, faults,
                   recVars, pqueued>>

Next ==
    \/ (ReconcileStep \/ NodeCacheSync \/ TimerFires) /\ UNCHANGED pqueued
    \/ SnapshotterNext /\ UNCHANGED recVars
    \/ NodeRestart
    \/ DeleteLV \/ PVAppears \/ SourceDeleted \/ StorageAppears
    \/ NodePublishVolume \/ NodeUnpublishVolume

Spec == Init /\ [][Next]_vars

(* The worker takes what is queued, finishes what it began and is woken by *)
(* its delays; the watches deliver; the kubelet runs and stops pods; the   *)
(* worker of SnapshotPodReconciler works.                                  *)
Fairness ==
    /\ WF_vars((ReconcileStep \/ TimerFires) /\ UNCHANGED pqueued)
    /\ WF_vars(NodeCacheSync /\ UNCHANGED pqueued)
    /\ WF_vars((PodProgress \/ PodGone \/ DeletePodProgress) /\ UNCHANGED recVars)
    /\ WF_vars((PodCacheSync \/ PodReconcile) /\ UNCHANGED recVars)
    /\ WF_vars(PVAppears)

FairSpec == Spec /\ Fairness

TypeOK == SnapTypeOK /\ RecTypeOK /\ PodRecTypeOK

-----------------------------------------------------------------------------
(* Safety *)

(* The data of a snapshot nobody deletes is always somewhere: the thin     *)
(* snapshot is removed (cleanupLVMSnapshotAfterBackup) only when the       *)
(* repository has it.                                                      *)
DataKept ==
    (operation = "Backup" /\ api # None /\ ~api.deleting) => lvm \/ remote = "data"

(* The thin snapshot is removed (cleanupLVMSnapshotAfterBackup) only after *)
(* a backup has been written, if only an empty one (DataKept).             *)
BackupBeforeRemoval ==
    (operation = "Backup" /\ api # None /\ ~api.deleting /\ ~lvm) => remote # "none"

(* The delete pod's success is the truth: when the CR says the backup has  *)
(* been deleted, the repository does not hold it any more, nor again.      *)
(* Excepted is a delete pod made (createDeletePod) while a second backup   *)
(* pod has yet to do its work: nobody stops that one, and it may write to  *)
(* the repository after the delete pod has emptied it.                     *)
DeleteConditionIsTrue ==
    (api # None /\ api.del = "Succeeded" /\ ~overlap) => remote = "none"

(* No CR disappears over an existing volume, whichever way deletion takes. *)
NoOrphanLV == api = None => ~lvm

(* The thin snapshot, or the volume, its copy in the repository and what   *)
(* the CR says of them.                                                    *)
Abstract == INSTANCE AbstractSnapshot WITH
    purpose <- operation,
    request <- IF api = None THEN "gone" ELSE IF api.deleting THEN "ending" ELSE "held",
    local <- lvm, copy <- remote,
    reported <- api # None /\ api.phase = "Succeeded"

(* Through all copies, caches, pods and faults the operation keeps the     *)
(* promises of AbstractSnapshot: above all, handleDeletion of a volume     *)
(* made from a snapshot (isLVHasSnapshot) does not delete that snapshot    *)
(* from the repository, and no backup is deleted that is still wanted.     *)
ImplementsSnapshot == Abstract!Spec

-----------------------------------------------------------------------------
(* Liveness *)

(* A CR that is being deleted disappears. *)
DeletionCompletes == (api # None /\ api.deleting) ~> api = None

(* An operation whose executor pod was ensured comes to an end. *)
OperationEnds ==
    (api # None /\ api.ensured = "True") ~> (api = None \/ api.deleting \/ Complete(api))

(* What the operation held on the node is given back: the mount goes. *)
MountIsReleased == (mounted /\ (api = None \/ Complete(api))) ~> ~mounted

-----------------------------------------------------------------------------
(* What comments and documents say and the code does not keep (README.md) *)

(* Succeeded is final: neither SnapshotPodReconciler nor a later write     *)
(* takes it back.                                                          *)
SuccessIsFinal ==
    [][(api # None /\ api.phase = "Succeeded" /\ api' # None) => api'.phase = "Succeeded"]_vars

(* The workload only sees the volume once the data is restored. *)
PublishedIsRestored == (operation = "Restore" /\ published) => restored

(* The message "LVM snapshot removed after backup completion" is true. *)
MessageIsTrue == (api # None /\ api.removedMsg) => ~lvm

(* The condition SnapshotExecutorPodMissing and the phase Failed are never *)
(* seen one without the other: failSnapshotOperation writes both at once,  *)
(* and nobody else takes one of them back.                                 *)
PodMissingMeansFailed == (api # None /\ api.podMissing) => api.phase = "Failed"

(* The backup goes with its CR.  One that is written while handleDeletion  *)
(* takes it for an operation still in progress stays in the repository.    *)
BackupGoesToo == (operation = "Backup" /\ api = None) => remote = "none"

(* An operation that found no SnapshotBackupStorage recovers when it is there. *)
StorageRecovery ==
    (api # None /\ api.ensured = "False" /\ storage) ~>
        (api = None \/ api.deleting \/ api.ensured # "False")
=============================================================================
