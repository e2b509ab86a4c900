----------------------------- MODULE LVService ------------------------------
(***************************************************************************)
(* LogicalVolumeService of topolvm-controller with the CSI calls that lead *)
(* to it: CreateVolume, ControllerExpandVolume and DeleteVolume, and the   *)
(* container orchestrator (CO) that makes them.  CreateVolume is locked by *)
(* name and the other two by volume ID, so one call of each kind may be in *)
(* progress at the same time.                                              *)
(***************************************************************************)
EXTENDS LVStore

CONSTANTS ClaimSize,  \* the capacity the claim asks for
          MaxExpands  \* how often the CO calls ControllerExpandVolume

ASSUME ClaimAssumption == ClaimSize \in Sizes /\ MaxExpands \in Nat

VARIABLES create,   \* CreateVolume: "idle", "create" or "wait"
          volOp,    \* the call on the volume ID: "idle", "expand", "expandWait",
                    \* "delete" or "deleteWait"
          expands,  \* how many more times the CO will ask for an expansion
          request,  \* the size ExpandVolume asks for
          pv,       \* the CO's PersistentVolume: its volume ID, or None
          pvSize,   \* the capacity the CO was last told the volume has
          deleted   \* the volume IDs DeleteVolume reported as deleted

csiVars == <<create, volOp, expands, request, pv, pvSize, deleted>>

CSITypeOK ==
    /\ create \in {"idle", "create", "wait"}
    /\ volOp \in {"idle", "expand", "expandWait", "delete", "deleteWait"}
    /\ expands \in Nat
    /\ request \in Sizes \cup {0}
    /\ pv \in UIDs \cup {None}
    /\ pvSize \in Sizes \cup {0}
    /\ deleted \in SUBSET UIDs
    /\ volOp # "idle" => pv # None
    /\ volOp \in {"expand", "expandWait"} => request # 0

CSIInit ==
    /\ create = "idle" /\ volOp = "idle" /\ expands = MaxExpands /\ request = 0
    /\ pv = None /\ pvSize = 0 /\ deleted = {}

(* retryMissingGetter.Get: the cache, and the API server if it has none. *)
Get == IF ccache # None THEN ccache ELSE api

(* volumeGetter.Get: by VolumeID, from the cache, else from the API. *)
InCache(id) == ccache # None /\ ccache.volumeID = id

(* Mutant of GetVolume: a miss in the cache is final. *)
GetVolumeCached(id) == IF InCache(id) THEN ccache ELSE None

GetVolume(id) ==
    IF InCache(id) THEN ccache
    ELSE IF api # None /\ api.volumeID = id THEN api
    ELSE None

-----------------------------------------------------------------------------
(* CreateVolume *)

(* The CO (re)tries until it has a PersistentVolume. *)
CallCreateVolume ==
    /\ create = "idle"
    /\ pv = None /\ deleted = {}
    /\ create' = "create"
    /\ UNCHANGED <<storeVars, volOp, expands, request, pv, pvSize, deleted>>

NewLV(uid) ==
    [uid |-> uid, finalizer |-> FALSE, label |-> FALSE, deleting |-> FALSE,
     size |-> ClaimSize, volumeID |-> None, code |-> "OK", currentSize |-> 0]

(* create: a compatible CR is accepted, even one that is being deleted. *)
Create ==
    /\ create = "create"
    /\ \/ /\ Get # None
          /\ create' = IF Get.size = ClaimSize THEN "wait" ELSE "idle"
          /\ UNCHANGED <<api, fresh, used>>
       \/ /\ Get = None
          /\ \E uid \in UIDs \ used :
               /\ Put(NewLV(uid))
               /\ used' = used \cup {uid}
          /\ create' = "wait"
    /\ UNCHANGED <<ncache, ccache, lvm, faults, volOp, expands, request, pv, pvSize, deleted>>

(* The process dies: calls are lost, the informer lists anew. *)
ControllerDies ==
    /\ create' = "idle" /\ volOp' = "idle" /\ request' = 0
    /\ ccache' = api
    /\ fresh' = fresh \cup {"ccache"}
    /\ UNCHANGED <<api, ncache, used, lvm, expands, pv, pvSize, deleted>>

(* waitForVolumeProvisioning found a VolumeID; CreateVolume answers with   *)
(* the size of status.currentSize.                                         *)
CreateVolumeOK ==
    /\ create = "wait"
    /\ Get # None /\ Get.volumeID # None /\ Get.currentSize # 0
    /\ pv' = Get.volumeID /\ pvSize' = Get.currentSize
    /\ create' = "idle"
    /\ UNCHANGED <<storeVars, volOp, expands, request, deleted>>

(* Evaluating CurrentSize.Value() on nil is a run-time panic. *)
CreateVolumePanic ==
    /\ create = "wait"
    /\ Get # None /\ Get.volumeID # None /\ Get.currentSize = 0
    /\ ControllerDies
    /\ UNCHANGED faults

(* Mutant of CreateVolumeError: the failed CR is left where it is. *)
CreateVolumeErrorKeeps ==
    /\ create = "wait"
    /\ Get # None => Get.volumeID = None /\ Get.code # "OK"
    /\ create' = "idle"
    /\ UNCHANGED <<storeVars, volOp, expands, request, pv, pvSize, deleted>>

(* The failed CR is deleted, an error of that is only logged. *)
CreateVolumeError ==
    /\ create = "wait"
    /\ \/ /\ Get = None
          /\ UNCHANGED <<api, fresh, faults>>
       \/ /\ Get # None /\ Get.volumeID = None /\ Get.code # "OK"
          /\ \/ DeleteCR /\ UNCHANGED faults
             \/ Fault /\ UNCHANGED <<api, fresh>>
    /\ create' = "idle"
    /\ UNCHANGED <<ncache, ccache, used, lvm, volOp, expands, request, pv, pvSize, deleted>>

-----------------------------------------------------------------------------
(* ControllerExpandVolume *)

(* A nil CurrentSize is taken to be Spec.Size; a request that is already   *)
(* satisfied is answered at once.  (The capacity check may also refuse.)   *)
CallExpandVolume ==
    /\ volOp = "idle" /\ pv # None
    /\ expands > 0 /\ expands' = expands - 1
    /\ \E size \in Sizes :
         LET lv == GetVolume(pv) IN
         /\ size > pvSize
         /\ lv # None
         /\ LET current == IF lv.currentSize = 0 THEN lv.size ELSE lv.currentSize IN
            \/ /\ size <= current
               /\ pvSize' = current
               /\ UNCHANGED <<volOp, request>>
            \/ /\ size > current
               /\ volOp' = "expand" /\ request' = size
               /\ UNCHANGED pvSize
    /\ UNCHANGED <<storeVars, create, pv, deleted>>

EndExpand == volOp' = "idle" /\ request' = 0

(* updateSpecSize: Update of the copy got by volume ID, again on conflict. *)
(* The resize-requested-at annotation makes it a change even when the size *)
(* is the same.                                                            *)
UpdateSpecSize ==
    /\ volOp = "expand"
    /\ \/ /\ GetVolume(pv) = None
          /\ EndExpand
          /\ UNCHANGED <<api, fresh>>
       \/ /\ GetVolume(pv) # None
          /\ InCache(pv) => "ccache" \in fresh
          /\ api' = [api EXCEPT !.size = request]
          /\ fresh' = {}
          /\ volOp' = "expandWait"
          /\ UNCHANGED request
    /\ UNCHANGED <<ncache, ccache, used, lvm, faults, create, expands, pv, pvSize, deleted>>

(* ExpandVolume's wait ends with an error or when CurrentSize is reached. *)
ExpandVolumeEnds ==
    /\ volOp = "expandWait"
    /\ \/ Get = None /\ UNCHANGED pvSize
       \/ Get # None /\ Get.code # "OK" /\ UNCHANGED pvSize
       \/ /\ Get # None /\ Get.code = "OK"
          /\ Get.currentSize >= request
          /\ pvSize' = Get.currentSize
    /\ EndExpand
    /\ UNCHANGED <<storeVars, create, expands, pv, deleted>>

-----------------------------------------------------------------------------
(* DeleteVolume *)

(* Mutant of CallDeleteVolume: an empty volume ID is not refused. *)
CallDeleteVolumeAny ==
    /\ volOp = "idle"
    /\ volOp' = "delete"
    /\ UNCHANGED <<storeVars, create, expands, request, pv, pvSize, deleted>>

CallDeleteVolume ==
    /\ volOp = "idle" /\ pv # None
    /\ volOp' = "delete"
    /\ UNCHANGED <<storeVars, create, expands, request, pv, pvSize, deleted>>

(* The CO drops the PersistentVolume once the driver says it is deleted. *)
ReportDeleted ==
    /\ deleted' = deleted \cup {pv}
    /\ pv' = None /\ pvSize' = 0
    /\ volOp' = "idle"

DeleteVolume ==
    /\ volOp = "delete"
    /\ \/ /\ GetVolume(pv) = None \/ api = None
          /\ ReportDeleted
          /\ UNCHANGED <<api, fresh>>
       \/ /\ GetVolume(pv) # None /\ api # None
          /\ DeleteCR
          /\ volOp' = "deleteWait"
          /\ UNCHANGED <<pv, pvSize, deleted>>
    /\ UNCHANGED <<ncache, ccache, used, lvm, faults, create, expands, request>>

DeleteWait ==
    /\ volOp = "deleteWait"
    /\ Get = None
    /\ ReportDeleted
    /\ UNCHANGED <<storeVars, create, expands, request>>

-----------------------------------------------------------------------------
(* The caller's deadline cancels the context a call waits on. *)
Timeout ==
    /\ Fault
    /\ \/ create # "idle" /\ create' = "idle" /\ UNCHANGED <<volOp, request>>
       \/ volOp # "idle" /\ EndExpand /\ UNCHANGED create
    /\ UNCHANGED <<api, ncache, ccache, fresh, used, lvm, expands, pv, pvSize, deleted>>

ControllerRestart == Fault /\ ControllerDies

ControllerCacheSync ==
    /\ "ccache" \notin fresh
    /\ ccache' = api
    /\ fresh' = fresh \cup {"ccache"}
    /\ UNCHANGED <<api, ncache, used, lvm, faults, csiVars>>

CSIProgress ==
    \/ Create \/ CreateVolumeOK \/ CreateVolumePanic \/ CreateVolumeError
    \/ UpdateSpecSize \/ ExpandVolumeEnds \/ DeleteVolume \/ DeleteWait

CSINext ==
    \/ CallCreateVolume \/ CallExpandVolume \/ CallDeleteVolume
    \/ CSIProgress \/ ControllerCacheSync \/ Timeout \/ ControllerRestart
=============================================================================
