----------------------------- MODULE LVLifecycle ----------------------------
(***************************************************************************)
(* The life of one volume: topolvm-controller (LVService) and topolvm-node *)
(* (LVReconciler) working on the same LogicalVolume through the API server *)
(* and their lagging caches, with errors, crashes and timeouts.            *)
(***************************************************************************)
EXTENDS LVReconciler, LVService

vars == <<storeVars, recVars, csiVars>>

Init == StoreInit /\ RecInit /\ CSIInit

Next ==
    \/ RecNext /\ UNCHANGED csiVars
    \/ CSINext /\ UNCHANGED recVars

(* A worker keeps taking names from the queue and finishes what it began,  *)
(* the watches deliver, pending calls poll, and the CO retries             *)
(* CreateVolume.  Expansion and deletion are up to the user.               *)
Fairness ==
    /\ WF_vars(ReconcileStep /\ UNCHANGED csiVars)
    /\ WF_vars(TimerFires /\ UNCHANGED csiVars)
    /\ WF_vars(NodeCacheSync /\ UNCHANGED csiVars)
    /\ WF_vars(ControllerCacheSync /\ UNCHANGED recVars)
    /\ WF_vars((Create \/ CreateVolumeOK \/ CreateVolumePanic \/ CreateVolumeError)
               /\ UNCHANGED recVars)
    /\ WF_vars((UpdateSpecSize \/ ExpandVolumeEnds \/ DeleteVolume \/ DeleteWait)
               /\ UNCHANGED recVars)
    /\ WF_vars(CallCreateVolume /\ UNCHANGED recVars)

Spec == Init /\ [][Next]_vars

FairSpec == Spec /\ Fairness

TypeOK == StoreTypeOK /\ RecTypeOK /\ CSITypeOK

-----------------------------------------------------------------------------
(* Safety *)

(* No LVM volume is ever left behind: as long as a volume exists on the    *)
(* node, the CR it was made for exists and still carries the finalizer, so *)
(* deletion cannot pass it by.  This is what ensureFinalizerAndLabels      *)
(* before createLV, and RemoveLV before removeFinalizer, are for; crashes  *)
(* between the steps, failed calls that took effect and stale caches must  *)
(* not break it.  The one exception are volumes in a volume group that     *)
(* lvmd could not find, which it answers as it answers for no volume.      *)
NoOrphanLV ==
    \A u \in UIDs \ missed : lvm[u] # 0 => /\ api # None
                                  /\ api.uid = u
                                  /\ api.finalizer

(* A volume DeleteVolume reported as deleted has no LVM volume and no CR:  *)
(* both the "not found" answers and the wait for the CR to disappear must  *)
(* be right, whatever the controller's cache shows.                        *)
DeletedVolumeIsGone ==
    \A u \in deleted : /\ lvm[u] = 0 \/ u \in missed
                       /\ api # None => api.uid # u

(* The status never promises more than LVM has: a CR with a VolumeID that  *)
(* is not being deleted has its LVM volume, at least as large as           *)
(* CurrentSize, although updateLVStatus writes back copies of any age.     *)
StatusIsBacked ==
    (api # None /\ ~api.deleting /\ api.volumeID # None) =>
        /\ api.volumeID = api.uid
        /\ lvm[api.uid] # 0
        /\ api.currentSize <= lvm[api.uid]

(* Once a CR has its VolumeID it keeps it: DeleteVolume finds the CR by    *)
(* VolumeID and takes "not found" for "already deleted", so a status write *)
(* that erased it would leak the volume.                                   *)
VolumeIDIsStable ==
    [][(api # None /\ api' # None /\ api'.uid = api.uid /\ api.volumeID # None)
            => api'.volumeID = api.volumeID]_vars

(* The life cycle implements the promise of AbstractVolume: sizes never    *)
(* shrink although stale reconciles ask for older sizes, a volume is       *)
(* removed only when its CR is being deleted, the CR outlives the volume,  *)
(* and DeleteVolume succeeds only when both are gone.                      *)
Abstract ==
    INSTANCE AbstractVolume WITH
        owner <- IF api = None THEN None ELSE api.uid,
        ending <- api # None /\ api.deleting,
        begun <- used, size <- lvm, lost <- missed,
        handle <- pv, retired <- deleted

ImplementsVolume == Abstract!Spec

-----------------------------------------------------------------------------
(* Liveness, once the faults are over *)

(* A CR that is being deleted disappears. *)
DeletionCompletes == (api # None /\ api.deleting) ~> (api = None \/ ~api.deleting)

(* The CO gets its volume: CreateVolume, retried, eventually succeeds, in  *)
(* spite of failed creations whose CR has to be deleted first and of the   *)
(* panics on a nil CurrentSize.                                            *)
ProvisioningSucceeds == <>(pv # None)

(* Spec.Size is eventually honoured: the status catches up with it (or the *)
(* CR goes away), although updates conflict and copies are stale.          *)
ExpansionCatchesUp ==
    (api # None /\ api.volumeID # None /\ api.currentSize < api.size) ~>
        (api = None \/ api.deleting \/ api.currentSize >= api.size)

-----------------------------------------------------------------------------
(* What comments and documents say and the code does not keep (README.md) *)

(* logicalvolume_service.go:399 "waits until the volume is fully           *)
(* provisioned or fails": the CR it succeeds with has its CurrentSize.     *)
WaitReturnsFullyProvisioned ==
    (create = "wait" /\ Get # None /\ Get.volumeID # None) => Get.currentSize # 0

(* logicalvolume_controller.go:419 "When lv.Status.Code is not codes.OK,   *)
(* CreateLV has already failed.  LogicalVolume CRD will be deleted soon":  *)
(* a CR whose creation failed is never provisioned after all.              *)
FailedCreationIsFinal ==
    [][(api # None /\ api' # None /\ api'.uid = api.uid
            /\ api.volumeID = None /\ api.code # "OK")
            => api'.volumeID = None]_vars

(* logicalvolume_controller.go:529 with a nil CurrentSize "the actual      *)
(* volume size is unknown": a capacity the CO was told is one LVM has.     *)
ReportedCapacityIsBacked ==
    (pv # None /\ api # None /\ ~api.deleting /\ api.uid = pv) => pvSize <= lvm[pv]
=============================================================================
