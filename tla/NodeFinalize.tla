---------------------------- MODULE NodeFinalize ----------------------------
(***************************************************************************)
(* NodeReconciler of topolvm-controller: what happens to the claims and    *)
(* the LogicalVolumes of a Node that is deleted, while volumes are still   *)
(* being provisioned, moved to another node, backed up, and reconciled by  *)
(* topolvm-node.  The lists come from informer caches and are worked off   *)
(* one object at a time.                                                   *)
(***************************************************************************)
EXTENDS Naturals, FiniteSets

CONSTANTS Volumes,           \* names of claims, and of their LogicalVolumes
          None,              \* no object
          SkipFlags,         \* values of the flag --skip-node-finalize
          MaxCreates,        \* how many LogicalVolumes are created
          MaxFaults          \* how many API calls fail or processes crash

ASSUME NodeAssumption ==
    /\ SkipFlags \subseteq BOOLEAN
    /\ MaxCreates \in Nat /\ MaxFaults \in Nat

VARIABLES skipNodeFinalize,  \* the flag of this topolvm-controller
          node,     \* the Node n1: "up", "deleting" or "gone"
          pvc,      \* the node each claim is bound to
          pvcSeen,  \* claims in the cache of topolvm-controller
          lv,       \* the LogicalVolumes
          lvSeen,   \* LogicalVolumes in the cache of topolvm-controller
          nodeSeen, \* LogicalVolumes in the caches of topolvm-node
          fpc,      \* NodeReconciler: "idle", "pvcs", "lvs" or "remove"
          claims,   \* claims it has listed and not deleted yet
          listed,   \* LogicalVolumes it has listed
          todo,     \* those it has not cleaned up yet
          unlocked, \* the one whose finalizer it has just removed, or None
          creates,  \* LogicalVolumes that may still be created
          faults    \* faults that may still happen

recVars  == <<fpc, claims, listed, todo, unlocked>>
objVars  == <<pvc, lv>>
seenVars == <<pvcSeen, lvSeen, nodeSeen>>
vars == <<skipNodeFinalize, node, objVars, seenVars, recVars, creates, faults>>

Nodes == {"n1", "n2"}

\* done: the snapshot of this volume has Succeeded and has a SnapshotID.
LogicalVolume ==
    [node : Nodes, uid : 0..MaxCreates, finalizer : BOOLEAN, pending : BOOLEAN,
     deleting : BOOLEAN, done : BOOLEAN]

ASSUME NoneAssumption == None \notin LogicalVolume /\ None \notin Volumes

Copies == [Volumes -> LogicalVolume \cup {None}]

TypeOK ==
    /\ skipNodeFinalize \in SkipFlags
    /\ node \in {"up", "deleting", "gone"}
    /\ \A claim \in {pvc, pvcSeen} : claim \in [Volumes -> Nodes \cup {"unselected", "none"}]
    /\ lv \in Copies /\ lvSeen \in Copies /\ nodeSeen \in Copies /\ listed \in Copies
    /\ fpc \in {"idle", "pvcs", "lvs", "remove"}
    /\ claims \subseteq Volumes /\ todo \subseteq Volumes
    /\ unlocked \in Volumes \cup {None}
    /\ \A v \in todo : listed[v] # None /\ listed[v].node = "n1"
    /\ creates \in 0..MaxCreates /\ faults \in 0..MaxFaults

Nothing == [v \in Volumes |-> None]

Init ==
    /\ skipNodeFinalize \in SkipFlags
    /\ node = "up"
    /\ pvc = [v \in Volumes |-> "unselected"] /\ pvcSeen = pvc
    /\ lv = Nothing /\ lvSeen = Nothing /\ nodeSeen = Nothing
    /\ fpc = "idle" /\ claims = {} /\ listed = Nothing /\ todo = {} /\ unlocked = None
    /\ creates = MaxCreates /\ faults = MaxFaults

Fault == faults > 0 /\ faults' = faults - 1

-----------------------------------------------------------------------------
(* The environment *)

DeleteNode ==
    /\ node = "up" /\ node' = "deleting"
    /\ UNCHANGED <<objVars, seenVars, recVars, creates, faults>>

\* The scheduler selects a node for a claim.
SelectNode(v) ==
    /\ pvc[v] = "unselected"
    /\ \E n \in Nodes :
          /\ n = "n1" => node = "up"
          /\ pvc' = [pvc EXCEPT ![v] = n]
    /\ UNCHANGED <<node, lv, seenVars, recVars, creates, faults>>

\* CreateVolume makes the LogicalVolume on the node selected for the claim.
CreateLogicalVolume(v) ==
    /\ pvc[v] \in Nodes /\ lv[v] = None
    /\ creates > 0 /\ creates' = creates - 1
    /\ lv' = [lv EXCEPT ![v] = [node |-> pvc[v], uid |-> creates, finalizer |-> FALSE,
                                pending |-> FALSE, deleting |-> FALSE, done |-> FALSE]]
    /\ UNCHANGED <<node, pvc, seenVars, recVars, faults>>

\* DELETE, by name: immediate without the finalizer.
Deleted(obj) == IF obj # None /\ obj.finalizer THEN [obj EXCEPT !.deleting = TRUE] ELSE None

\* Provisioning failed: the LogicalVolume is deleted and the claim is
\* scheduled again.
Reschedule(v) ==
    /\ lv[v] # None /\ ~lv[v].deleting /\ ~lv[v].done /\ pvc[v] = lv[v].node
    /\ Fault
    /\ lv' = [lv EXCEPT ![v] = Deleted(@)]
    /\ pvc' = [pvc EXCEPT ![v] = "unselected"]
    /\ UNCHANGED <<node, seenVars, recVars, creates>>

\* The snapshotter reports Succeeded.
BackupSucceeds(v) ==
    /\ lv[v] # None /\ lv[v].finalizer /\ ~lv[v].done
    /\ lv' = [lv EXCEPT ![v].done = TRUE]
    /\ UNCHANGED <<node, pvc, seenVars, recVars, creates, faults>>

ControllerCacheSync(v) ==
    /\ \/ pvcSeen' = [pvcSeen EXCEPT ![v] = pvc[v]] /\ UNCHANGED lvSeen
       \/ lvSeen' = [lvSeen EXCEPT ![v] = lv[v]] /\ UNCHANGED pvcSeen
    /\ UNCHANGED <<node, objVars, nodeSeen, recVars, creates, faults>>

NodeCacheSync(v) ==
    /\ nodeSeen' = [nodeSeen EXCEPT ![v] = lv[v]]
    /\ UNCHANGED <<node, objVars, pvcSeen, lvSeen, recVars, creates, faults>>

-----------------------------------------------------------------------------
(* topolvm-node, as far as it touches the finalizer.  A LogicalVolume that *)
(* is marked as pending deletion is left alone.                            *)

EnsureFinalizer(v) ==
    /\ nodeSeen[v] # None
    /\ ~nodeSeen[v].pending /\ ~nodeSeen[v].deleting /\ ~nodeSeen[v].finalizer
    /\ lv[v] # None
    /\ lv' = [lv EXCEPT ![v].finalizer = TRUE]
    /\ UNCHANGED <<node, pvc, seenVars, recVars, creates, faults>>

Unlocked(obj) == IF obj.deleting THEN None ELSE [obj EXCEPT !.finalizer = FALSE]

HandleDeletion(v) ==
    /\ nodeSeen[v] # None
    /\ ~nodeSeen[v].pending /\ nodeSeen[v].deleting /\ nodeSeen[v].finalizer
    /\ lv[v] # None
    /\ lv' = [lv EXCEPT ![v] = Unlocked(@)]
    /\ UNCHANGED <<node, pvc, seenVars, recVars, creates, faults>>

-----------------------------------------------------------------------------
(* NodeReconciler *)

\* An error is retried by the work queue, from the start.
ReconcileError ==
    /\ fpc' = "idle" /\ claims' = {} /\ listed' = Nothing /\ todo' = {} /\ unlocked' = None

ReconcileFails ==
    /\ fpc # "idle" /\ Fault
    /\ ReconcileError
    /\ UNCHANGED <<node, objVars, seenVars, creates>>

\* The claims of TopoLVM's storage classes whose selected node is n1.
Reconcile ==
    /\ fpc = "idle" /\ node = "deleting"
    /\ IF skipNodeFinalize
       THEN fpc' = "remove" /\ UNCHANGED claims
       ELSE fpc' = "pvcs" /\ claims' = {v \in Volumes : pvcSeen[v] = "n1"}
    /\ UNCHANGED <<node, objVars, seenVars, listed, todo, unlocked, creates, faults>>

\* A claim that is already gone is an error.
DeletePVC(v) ==
    /\ fpc = "pvcs" /\ v \in claims
    /\ IF pvc[v] = "none" THEN ReconcileError
       ELSE claims' = claims \ {v} /\ UNCHANGED <<fpc, listed, todo, unlocked>>
    /\ pvc' = [pvc EXCEPT ![v] = "none"]
    /\ UNCHANGED <<node, lv, seenVars, creates, faults>>

isLVHasSnapshot(obj) == obj.done

\* Mutant: the index by node is not used.
ListAllLogicalVolumes ==
    /\ fpc = "pvcs" /\ claims = {}
    /\ fpc' = "lvs"
    /\ listed' = [v \in Volumes |-> IF lvSeen[v] # None /\ ~isLVHasSnapshot(lvSeen[v]) THEN lvSeen[v] ELSE None]
    /\ todo' = {v \in Volumes : listed'[v] # None}
    /\ UNCHANGED <<node, objVars, seenVars, claims, unlocked, creates, faults>>

ListLogicalVolumes ==
    /\ fpc = "pvcs" /\ claims = {}
    /\ fpc' = "lvs"
    /\ listed' = [v \in Volumes |-> IF lvSeen[v] # None /\ lvSeen[v].node = "n1" /\ ~isLVHasSnapshot(lvSeen[v])
                                    THEN lvSeen[v] ELSE None]
    /\ todo' = {v \in Volumes : listed'[v] # None}
    /\ UNCHANGED <<node, objVars, seenVars, claims, unlocked, creates, faults>>

\* Mutant: the volume counts as cleaned up once its finalizer is removed.
CleanupPatchOnly(v) ==
    /\ fpc = "lvs" /\ v \in todo /\ unlocked = None /\ listed[v].finalizer
    /\ lv' = IF lv[v] = None THEN lv
             ELSE [lv EXCEPT ![v] = Unlocked([@ EXCEPT !.pending = TRUE])]
    /\ todo' = todo \ {v}
    /\ UNCHANGED <<node, pvc, seenVars, fpc, claims, listed, unlocked, creates, faults>>

\* cleanupLogicalVolume: one merge patch marks the LogicalVolume and removes
\* its finalizer ...
CleanupPatch(v) ==
    /\ fpc = "lvs" /\ v \in todo /\ unlocked = None /\ listed[v].finalizer
    /\ IF lv[v] = None
       THEN todo' = todo \ {v} /\ UNCHANGED <<lv, unlocked>>
       ELSE /\ lv' = [lv EXCEPT ![v] = Unlocked([@ EXCEPT !.pending = TRUE])]
            /\ unlocked' = v
            /\ UNCHANGED todo
    /\ UNCHANGED <<node, pvc, seenVars, fpc, claims, listed, creates, faults>>

\* ... and then it is deleted.
CleanupDelete(v) ==
    /\ fpc = "lvs" /\ v \in todo
    /\ unlocked = IF listed[v].finalizer THEN v ELSE None
    /\ lv' = [lv EXCEPT ![v] = Deleted(@)]
    /\ todo' = todo \ {v} /\ unlocked' = None
    /\ UNCHANGED <<node, pvc, seenVars, fpc, claims, listed, creates, faults>>

Finalized ==
    /\ fpc = "lvs" /\ todo = {}
    /\ fpc' = "remove"
    /\ UNCHANGED <<node, objVars, seenVars, claims, listed, todo, unlocked, creates, faults>>

\* Mutant: the patch is computed from the changed copy, and is empty.
RemoveFinalizerOnce ==
    /\ fpc = "remove"
    /\ ReconcileError
    /\ UNCHANGED <<node, objVars, seenVars, creates, faults>>

RemoveFinalizer ==
    /\ fpc = "remove"
    /\ node' = "gone"
    /\ ReconcileError
    /\ UNCHANGED <<objVars, seenVars, creates, faults>>

Finalize == \E v \in Volumes : DeletePVC(v) \/ CleanupPatch(v) \/ CleanupDelete(v)

Next ==
    /\ UNCHANGED skipNodeFinalize
    /\ \/ DeleteNode
       \/ \E v \in Volumes :
             \/ SelectNode(v) \/ CreateLogicalVolume(v) \/ Reschedule(v) \/ BackupSucceeds(v)
             \/ ControllerCacheSync(v) \/ NodeCacheSync(v)
             \/ EnsureFinalizer(v) \/ HandleDeletion(v)
             \/ DeletePVC(v) \/ CleanupPatch(v) \/ CleanupDelete(v)
       \/ Reconcile \/ ReconcileFails \/ ListLogicalVolumes \/ Finalized \/ RemoveFinalizer

Step(A) == A /\ UNCHANGED skipNodeFinalize

Spec == Init /\ [][Next]_vars

\* The worker finishes what it began and the work queue retries; the watches
\* deliver.  The rest may happen or not.
Fairness ==
    /\ WF_vars(Step(Reconcile)) /\ WF_vars(Step(ListLogicalVolumes))
    /\ WF_vars(Step(Finalized)) /\ WF_vars(Step(RemoveFinalizer)) /\ WF_vars(Step(Finalize))
    /\ \A v \in Volumes : WF_vars(Step(ControllerCacheSync(v) /\ lvSeen' = lvSeen))

FairSpec == Spec /\ Fairness

-----------------------------------------------------------------------------
(* Properties *)

\* doFinalize passes nothing by: when the Node's finalizer is about to be
\* removed, every LogicalVolume that was listed is gone, is on its way out, or
\* has been replaced, whatever failed and was retried on the way.
FinalizeIsComplete ==
    fpc = "remove" =>
        \A v \in Volumes :
            (listed[v] # None /\ lv[v] # None /\ lv[v].uid = listed[v].uid) => lv[v].deleting

\* A deleted Node disappears: doFinalize gets through in spite of errors, of
\* claims that are deleted already, and of stale lists.
FinalizeCompletes == node = "deleting" ~> node = "gone"

-----------------------------------------------------------------------------
(* What comments and documents say and the code does not keep (README.md) *)

\* node_controller.go:164: "Flag the LV as pending deletion, so the
\* LogicalVolumeReconciler doesn't re-add the finalizer before it sees the
\* deletion".
FinalizerStaysOff ==
    [][\A v \in Volumes :
         (lv[v] # None /\ lv[v].pending /\ lv'[v] # None /\ lv'[v].uid = lv[v].uid)
             => (lv'[v].finalizer => lv[v].finalizer)]_vars

\* docs/topolvm-controller.md:153: "The controller is to cleanup all PVCs and
\* LogicalVolumes associating to the deleting Node." Those of other nodes are
\* left alone.
OtherNodesAreSpared ==
    [][\A v \in Volumes :
         (v \in todo /\ v \notin todo' /\ lv[v] # None /\ lv[v].node # "n1") => lv'[v] = lv[v]]_vars

\* The same line: once the Node is gone, so are its claims and LogicalVolumes.
NodeGoneMeansClean ==
    (node = "gone" /\ ~skipNodeFinalize) =>
        \A v \in Volumes : pvc[v] # "n1" /\ (lv[v] # None => lv[v].node # "n1" \/ lv[v].deleting \/ lv[v].done)
=============================================================================
