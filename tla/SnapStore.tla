----------------------------- MODULE SnapStore ------------------------------
(***************************************************************************)
(* What an online snapshot operation shares: ONE LogicalVolume CR, which   *)
(* is either a snapshot being backed up or a new volume being restored,    *)
(* the caches of topolvm-node, the executor pods, the mount and the device *)
(* on the node, and the remote repository.  The volume has been created    *)
(* and is not expanded (see LVLifecycle for that); the operation is about  *)
(* to start.                                                               *)
(***************************************************************************)
EXTENDS Naturals

CONSTANTS Operations,  \* what the CR may be for: "Backup", "Restore"
          None,        \* no object
          FaultKinds,  \* what may go wrong
          MaxFaults    \* and how often

ASSUME SnapAssumption ==
    /\ Operations \subseteq {"Backup", "Restore"}
    /\ FaultKinds \subseteq {"api", "mount", "lvmd", "podCreate", "podLost",
                             "podFails", "restart", "source", "storage"}
    /\ MaxFaults \in Nat

VARIABLES api,       \* the CR in the API server, or None
          ncache,    \* the CR in the informer cache of topolvm-node
          fresh,     \* who holds the current resourceVersion: "ncache", "pod"
          lvm,       \* is the LVM volume there?
          mounted,   \* is it mounted by topolvm-node for the executor pod?
          published, \* is it published to a workload?
          pod,       \* the backup-<lv> or restore-<lv> pod
          podSeen,   \* that pod in the informer cache
          podEvent,  \* has something happened to it the watch has to report?
          dpod,      \* the delete-<lv> pod
          remote,    \* the repository: "none", "data" or "empty" (a backup of nothing)
          restored,  \* has the snapshot's data been written to the volume?
          pv,        \* does the PersistentVolume exist?
          source,    \* does the source's CR exist, with its backup Succeeded?
          storage,   \* does the SnapshotBackupStorage exist?
          operation, \* is the CR to be backed up or to be restored?
          overlap,   \* was the backup still to run when the delete pod was made?
          faults     \* how many more faults may happen

objVars == <<api, ncache, fresh>>
devVars == <<lvm, mounted, published>>
podVars == <<pod, podSeen, podEvent, dpod>>
dataVars == <<remote, restored, overlap>>
envVars == <<pv, source, storage, operation>>
storeVars == <<objVars, devVars, podVars, dataVars, envVars, faults>>

(* A condition is absent, True or False.  del is the reason of             *)
(* SnapshotDeleteEnsured; phase "nil" is a nil Status.Snapshot.            *)
Condition == {"", "True", "False"}

Phase == {"nil", "", "Pending", "Running", "Succeeded", "Failed"}

LogicalVolume ==
    [deleting: BOOLEAN, phase: Phase, snapshotID: BOOLEAN, found: Condition, ensured: Condition, cleaned: Condition,
     lvmCleaned: Condition, removedMsg: BOOLEAN, deleteEnsured: Condition,
     del: {"", "Running", "Succeeded", "Failed"}, podMissing: BOOLEAN]

ASSUME NoneAssumption == None \notin LogicalVolume

(* A pod: where its snapshotter is, whether it is being deleted and        *)
(* whether its hostPath volume shows the mounted device.                   *)
Pod == [at: {"none", "pending", "loaded", "working", "failing", "done",
             "succeeded", "failed"},
        deleting: BOOLEAN, data: BOOLEAN]

NoPod == [at |-> "none", deleting |-> FALSE, data |-> FALSE]

(* The delete pod, with the executor condition of the CR it has loaded. *)
DeletePod == [at: {"none", "pending", "loaded", "working", "forgotten", "failing", "ended"},
              deleteEnsured: Condition]

NoDeletePod == [at |-> "none", deleteEnsured |-> ""]

(* The pod as far as the controllers look at it. *)
View(p) == IF p.at = "none" THEN "none"
           ELSE IF p.at = "failed" THEN "failed"
           ELSE IF p.deleting THEN "terminating"
           ELSE "live"

SnapTypeOK ==
    /\ api \in LogicalVolume \cup {None}
    /\ ncache \in LogicalVolume \cup {None}
    /\ fresh \subseteq {"ncache", "pod"}
    /\ lvm \in BOOLEAN /\ mounted \in BOOLEAN /\ published \in BOOLEAN
    /\ pod \in Pod /\ dpod \in DeletePod
    /\ podSeen \in {"none", "live", "failed", "terminating"}
    /\ podEvent \in BOOLEAN
    /\ remote \in {"none", "data", "empty"}
    /\ restored \in BOOLEAN
    /\ pv \in BOOLEAN /\ source \in BOOLEAN /\ storage \in BOOLEAN
    /\ operation \in Operations
    /\ overlap \in BOOLEAN /\ faults \in 0 .. MaxFaults

SnapInit ==
    /\ operation \in Operations
    /\ api = [deleting |-> FALSE, phase |-> "nil", snapshotID |-> FALSE, found |-> "",
              ensured |-> "", cleaned |-> "", lvmCleaned |-> "", removedMsg |-> FALSE,
              deleteEnsured |-> "", del |-> "", podMissing |-> FALSE]
    /\ ncache = api /\ fresh = {"ncache"}
    /\ lvm = TRUE /\ mounted = FALSE /\ published = FALSE
    /\ pod = NoPod /\ podSeen = "none" /\ podEvent = FALSE /\ dpod = NoDeletePod
    /\ remote = IF operation = "Restore" THEN "data" ELSE "none"
    /\ restored = FALSE
    /\ pv = FALSE /\ source = (operation = "Restore")
    /\ storage \in IF "storage" \in FaultKinds /\ MaxFaults > 0 THEN BOOLEAN ELSE {TRUE}
    /\ overlap = FALSE
    /\ faults = IF storage THEN MaxFaults ELSE MaxFaults - 1

(* A write gives the CR a new resourceVersion; only holder, if any, has it. *)
Put(lv, holders) == api' = lv /\ fresh' = holders

Fault(kind) == kind \in FaultKinds /\ faults > 0 /\ faults' = faults - 1

(* isSnapshotOperationComplete *)
Complete(lv) == lv.phase \in {"Succeeded", "Failed"}

(* The containers that hold the volume, and so the device, open. *)
Running(p) == p.at \in {"loaded", "working", "failing", "done"}

(* Executor pods whose snapshotter has yet to do its work. *)
YetToWork(p) == p.at \in {"pending", "loaded", "working"}

InUse == mounted \/ published \/ Running(pod)
=============================================================================
