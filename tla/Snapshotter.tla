---------------------------- MODULE Snapshotter -----------------------------
(***************************************************************************)
(* The executor pods: topolvm-snapshotter's backup, restore and delete     *)
(* commands, which talk to the API server directly, what kubelet does to   *)
(* their pods (RestartPolicy Never), and SnapshotPodReconciler of          *)
(* topolvm-node, which notices when the backup or restore pod is lost.     *)
(***************************************************************************)
EXTENDS SnapStore

VARIABLE pqueued  \* is the pod's name in SnapshotPodReconciler's queue?

PodRecTypeOK == pqueued \in BOOLEAN

PodRecInit == pqueued = FALSE

(* Mutant: a pod that fails is no event. *)
PodAtSilently(at) == pod' = [pod EXCEPT !.at = at] /\ UNCHANGED <<podSeen, podEvent, dpod>>

(* The snapshotter goes on; a Failed phase is an event for the watch. *)
PodAt(at) ==
    /\ pod' = [pod EXCEPT !.at = at]
    /\ podEvent' = (podEvent \/ at = "failed")
    /\ UNCHANGED <<podSeen, dpod>>

(* The container starts: its hostPath volume shows what is mounted there   *)
(* now.  initialize loads the CR.                                          *)
PodLoad ==
    /\ pod.at = "pending" /\ ~pod.deleting
    /\ IF api = None
         THEN PodAt("failed") /\ UNCHANGED fresh
         ELSE /\ pod' = [pod EXCEPT !.at = "loaded", !.data = mounted]
              /\ fresh' = fresh \cup {"pod"}
              /\ UNCHANGED <<podSeen, podEvent, dpod>>
    /\ UNCHANGED <<api, ncache, devVars, dataVars, envVars, faults, pqueued>>

(* setStatusRunning: Status().Update of the loaded CR, so a conflict if    *)
(* anybody has written since; then the command fails.                      *)
SetStatusRunning ==
    /\ pod.at = "loaded"
    /\ \/ /\ "pod" \in fresh
          /\ Put([api EXCEPT !.phase = "Running"], {"pod"})
          /\ PodAt("working")
          /\ UNCHANGED faults
       \/ /\ "pod" \notin fresh
          /\ PodAt("failed")
          /\ UNCHANGED <<api, fresh, faults>>
       \/ /\ Fault("api")
          /\ PodAt("failed")
          /\ UNCHANGED <<api, fresh>>
    /\ UNCHANGED <<ncache, devVars, dataVars, envVars, pqueued>>

(* updateLogicalVolumeSnapshotStatus: a merge patch of the progress; the   *)
(* snapshotter's copy becomes the patched CR.                              *)
ReportProgress ==
    /\ pod.at = "working" /\ api # None
    /\ Put(IF api.phase = "nil" THEN [api EXCEPT !.phase = ""] ELSE api, {"pod"})
    /\ UNCHANGED <<ncache, devVars, podVars, dataVars, envVars, faults, pqueued>>

(* Restic on the directory of the pod's volume. *)
ResticBackup == remote' = (IF pod.data THEN "data" ELSE "empty") /\ UNCHANGED <<restored, overlap>>

ResticRestore == restored' = (restored \/ pod.data) /\ UNCHANGED <<remote, overlap>>

Work(result) ==
    /\ pod.at = "working"
    /\ \/ PodAt("done") /\ result /\ UNCHANGED faults
       \/ Fault("podFails") /\ PodAt("failing") /\ UNCHANGED dataVars
    /\ UNCHANGED <<objVars, devVars, envVars, pqueued>>

PerformBackup == operation = "Backup" /\ Work(ResticBackup)

PerformRestore == operation = "Restore" /\ Work(ResticRestore)

(* setStatusFailed: Status().Update of the copy; errors are only logged. *)
SetStatusFailed ==
    /\ pod.at = "failing"
    /\ PodAt("failed")
    /\ \/ "pod" \in fresh /\ Put([api EXCEPT !.phase = "Failed"], {}) /\ UNCHANGED faults
       \/ "pod" \notin fresh /\ UNCHANGED <<api, fresh, faults>>
       \/ Fault("api") /\ UNCHANGED <<api, fresh>>
    /\ UNCHANGED <<ncache, devVars, dataVars, envVars, pqueued>>

BackupSucceeded(lv) == [lv EXCEPT !.phase = "Succeeded", !.snapshotID = TRUE]

(* Mutant: the status names the snapshot that was restored. *)
RestoreSucceededWithID(lv) == [lv EXCEPT !.phase = "Succeeded", !.snapshotID = TRUE]

RestoreSucceeded(lv) == [lv EXCEPT !.phase = "Succeeded"]

(* setStatusSuccess fetches the CR again and updates it at once; a         *)
(* conflict in between is one of the faults of the API.                    *)
SetStatusSuccess ==
    /\ pod.at = "done"
    /\ \/ /\ api # None
          /\ Put(IF operation = "Backup" THEN BackupSucceeded(api) ELSE RestoreSucceeded(api), {})
          /\ PodAt("succeeded")
          /\ UNCHANGED faults
       \/ /\ api = None
          /\ PodAt("failed")
          /\ UNCHANGED <<api, fresh, faults>>
       \/ /\ Fault("api")
          /\ PodAt("failed")
          /\ UNCHANGED <<api, fresh>>
    /\ UNCHANGED <<ncache, devVars, dataVars, envVars, pqueued>>

(* Somebody deletes the pod, or its container dies. *)
PodLost ==
    /\ pod.at # "none" /\ ~pod.deleting
    /\ Fault("podLost")
    /\ pod' = [pod EXCEPT !.deleting = TRUE] /\ podEvent' = TRUE
    /\ UNCHANGED <<objVars, devVars, podSeen, dpod, dataVars, envVars, pqueued>>

PodDies ==
    /\ Running(pod)
    /\ Fault("podFails")
    /\ PodAt("failed")
    /\ UNCHANGED <<objVars, devVars, dataVars, envVars, pqueued>>

(* kubelet has stopped the containers of a pod that is being deleted. *)
PodGone ==
    /\ pod.deleting
    /\ pod' = NoPod /\ podEvent' = TRUE
    /\ fresh' = fresh \ {"pod"}
    /\ UNCHANGED <<api, ncache, devVars, podSeen, dpod, dataVars, envVars, faults, pqueued>>

-----------------------------------------------------------------------------
(* The delete command *)

DeletePodAt(at) ==
    /\ dpod' = [at |-> at, deleteEnsured |-> IF at = "ended" THEN "" ELSE dpod.deleteEnsured]
    /\ UNCHANGED <<pod, podSeen, podEvent>>

DeleteLoad ==
    /\ dpod.at = "pending"
    /\ IF api = None THEN DeletePodAt("ended")
       ELSE /\ dpod' = [at |-> "loaded", deleteEnsured |-> api.deleteEnsured]
            /\ UNCHANGED <<pod, podSeen, podEvent>>
    /\ UNCHANGED <<objVars, devVars, dataVars, envVars, faults, pqueued>>

(* Mutant: the condition and what comes next are swapped. *)
DeleteConditionSwapped(del, at) ==
    /\ api # None
    /\ Put([api EXCEPT !.del = at, !.deleteEnsured = dpod.deleteEnsured], {})
    /\ DeletePodAt(at)
    /\ UNCHANGED <<ncache, devVars, dataVars, envVars, faults, pqueued>>

(* updateLVStatusCondition of the snapshotter: the conditions of its copy  *)
(* replace the stored ones.  An error ends the pod one way or another.     *)
DeleteCondition(del, at) ==
    /\ \/ /\ api # None
          /\ Put([api EXCEPT !.del = del, !.deleteEnsured = dpod.deleteEnsured], {})
          /\ DeletePodAt(at)
          /\ UNCHANGED faults
       \/ /\ api = None
          /\ DeletePodAt("ended")
          /\ UNCHANGED <<api, fresh, faults>>
       \/ /\ Fault("api")
          /\ DeletePodAt("ended")
          /\ UNCHANGED <<api, fresh>>
    /\ UNCHANGED <<ncache, devVars, dataVars, envVars, pqueued>>

SetDeleteRunning == dpod.at = "loaded" /\ DeleteCondition("Running", "working")

(* Mutant: an error of the provider is not looked at. *)
DeleteWorkUnchecked ==
    /\ dpod.at = "working"
    /\ \/ remote' = "none" /\ UNCHANGED faults
       \/ Fault("podFails") /\ UNCHANGED remote
    /\ DeletePodAt("forgotten")
    /\ UNCHANGED <<objVars, devVars, restored, overlap, envVars, pqueued>>

(* provider.Delete *)
DeleteWork ==
    /\ dpod.at = "working"
    /\ \/ remote' = "none" /\ DeletePodAt("forgotten") /\ UNCHANGED faults
       \/ Fault("podFails") /\ DeletePodAt("failing") /\ UNCHANGED remote
    /\ UNCHANGED <<objVars, devVars, restored, overlap, envVars, pqueued>>

SetDeleteSuccess == dpod.at = "forgotten" /\ DeleteCondition("Succeeded", "ended")

HandleDeleteError == dpod.at = "failing" /\ DeleteCondition("Failed", "ended")

DeletePodLost ==
    /\ dpod.at # "none"
    /\ Fault("podLost")
    /\ dpod' = NoDeletePod
    /\ UNCHANGED <<objVars, devVars, pod, podSeen, podEvent, dataVars, envVars, pqueued>>

-----------------------------------------------------------------------------
(* SnapshotPodReconciler *)

(* The watch on the pods; what it reports passes snapshotPodPredicate. *)
PodCacheSync ==
    /\ podEvent \/ podSeen # View(pod)
    /\ podSeen' = View(pod)
    /\ pqueued' = (pqueued \/ podEvent)
    /\ podEvent' = FALSE
    /\ UNCHANGED <<objVars, devVars, pod, dpod, dataVars, envVars, faults>>

FailSnapshotOperation(lv) == [lv EXCEPT !.phase = "Failed", !.podMissing = TRUE]

(* Missing or failed, while the operation of a live CR is not complete?    *)
(* Then failSnapshotOperation: the CR again, the same question again, and  *)
(* one Status().Update with the phase and the condition.                   *)
PodReconcile ==
    LET lost == /\ podSeen \in {"none", "failed"}
                /\ ncache # None
                /\ ~ncache.deleting
                /\ ncache.phase \in {"Pending", "Running"}
    IN /\ pqueued
       /\ \/ /\ ~lost
             /\ pqueued' = FALSE
             /\ UNCHANGED <<api, fresh, faults>>
          \/ /\ lost /\ "ncache" \in fresh
             /\ Put(FailSnapshotOperation(api), {})
             /\ pqueued' = FALSE
             /\ UNCHANGED faults
          \/ /\ lost /\ Fault("api")
             /\ UNCHANGED <<api, fresh, pqueued>>
       /\ UNCHANGED <<ncache, devVars, podVars, dataVars, envVars>>

PodProgress ==
    \/ PodLoad \/ SetStatusRunning \/ PerformBackup \/ PerformRestore
    \/ SetStatusFailed \/ SetStatusSuccess

DeletePodProgress ==
    \/ DeleteLoad \/ SetDeleteRunning \/ DeleteWork \/ SetDeleteSuccess \/ HandleDeleteError

SnapshotterNext ==
    \/ PodProgress \/ ReportProgress \/ PodLost \/ PodDies \/ PodGone
    \/ DeletePodProgress \/ DeletePodLost
    \/ PodCacheSync \/ PodReconcile
=============================================================================
