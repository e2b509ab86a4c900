------------------------------ MODULE LVStore ------------------------------
(***************************************************************************)
(* What the processes of TopoLVM share about ONE volume: the LogicalVolume *)
(* custom resource (CR) in the Kubernetes API, the informer caches of      *)
(* topolvm-node and topolvm-controller, and the LVM volumes of the node.   *)
(*                                                                         *)
(* A CR is named after the PersistentVolumeClaim, so its name is fixed; a  *)
(* CR that is deleted and created again gets a new UID, and the LVM volume *)
(* of a CR is named after its UID.  Specs that EXTEND this module add the  *)
(* processes.                                                              *)
(***************************************************************************)
EXTENDS Naturals, FiniteSets

CONSTANTS UIDs,       \* the UIDs the API server can hand out (bounds re-creations)
          Sizes,      \* volume sizes, in units of 1 GiB
          None,       \* "no object" / an empty VolumeID
          MaxFaults   \* how many faults (errors, crashes, timeouts) may happen

ASSUME StoreAssumption ==
    /\ Sizes \subseteq Nat \ {0}
    /\ MaxFaults \in Nat

VARIABLES api,     \* the CR in the API server, or None
          ncache,  \* the CR in the informer cache of topolvm-node
          ccache,  \* the CR in the informer cache of topolvm-controller
          fresh,   \* the holders whose copy carries the current resourceVersion
          used,    \* the UIDs handed out so far
          lvm,     \* size of the LVM volume named u, 0 when there is none
          faults   \* how many more faults may happen

storeVars == <<api, ncache, ccache, fresh, used, lvm, faults>>

Holders == {"ncache", "ccache", "rec"}

(***************************************************************************)
(* The part of LogicalVolume the control flow depends on.  volumeID is the *)
(* LVM volume's name, i.e. a UID; code abstracts status.code to OK / error *)
(* and currentSize = 0 stands for a nil status.currentSize.                *)
(***************************************************************************)
LogicalVolume ==
    [uid: UIDs, finalizer: BOOLEAN, label: BOOLEAN, deleting: BOOLEAN,
     size: Sizes, volumeID: UIDs \cup {None}, code: {"OK", "Error"},
     currentSize: Sizes \cup {0}]

ASSUME NoneAssumption == None \notin UIDs /\ None \notin LogicalVolume

Copy == LogicalVolume \cup {None}

StoreTypeOK ==
    /\ api \in Copy /\ ncache \in Copy /\ ccache \in Copy
    /\ fresh \in SUBSET Holders
    /\ used \in SUBSET UIDs
    /\ lvm \in [UIDs -> Sizes \cup {0}]
    /\ faults \in Nat

StoreInit ==
    /\ api = None /\ ncache = None /\ ccache = None
    /\ fresh = {"ncache", "ccache"}
    /\ used = {}
    /\ lvm = [u \in UIDs |-> 0]
    /\ faults = MaxFaults

(* A write to the CR: a new resourceVersion, so every copy becomes stale;  *)
(* a write that changes nothing keeps the resourceVersion.                 *)
Put(obj) ==
    /\ api' = obj
    /\ fresh' = IF obj = api THEN fresh ELSE {}

(* The status subresource: only the status fields are written.             *)
WithStatus(obj, lv) ==
    [obj EXCEPT !.volumeID = lv.volumeID, !.code = lv.code,
                !.currentSize = lv.currentSize]

(* DELETE on the CR: immediate without finalizers, else deletionTimestamp. *)
(* The clients pass no preconditions, so it hits whatever bears the name.  *)
DeleteCR ==
    IF api = None THEN UNCHANGED <<api, fresh>>
    ELSE Put(IF api.finalizer THEN [api EXCEPT !.deleting = TRUE] ELSE None)

(* The environment may make a call fail as long as faults are left.        *)
Fault == faults > 0 /\ faults' = faults - 1
=============================================================================
