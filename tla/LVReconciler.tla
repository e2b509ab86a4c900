---------------------------- MODULE LVReconciler ----------------------------
(***************************************************************************)
(* LogicalVolumeReconciler of topolvm-node for a volume without a snapshot *)
(* source: finalizer and label, createLV, expandLV, deletion.  One worker  *)
(* reconciles; a reconcile is cut at every call to the API server or to    *)
(* lvmd, and between the cuts it holds its own copy of the CR, taken from  *)
(* the informer cache, which may be stale.                                 *)
(***************************************************************************)
EXTENDS LVStore

VARIABLES queued,  \* is the CR's name in the controller's work queue?
          timer,   \* will a RequeueAfter or an error's backoff put it there?
          rpc,     \* the call the reconcile is about to make
          rlv,     \* the reconcile's copy of the CR
          missed   \* history: the volumes taken for removed while lvmd could
                   \* not find their volume group

recVars == <<queued, timer, rpc, rlv, missed>>

Calls == {"idle", "volumeExists", "CreateLV", "updateLVStatus", "failStatus",
          "ResizeLV", "expandError", "RemoveLV", "removeFinalizer"}

RecTypeOK ==
    /\ queued \in BOOLEAN /\ timer \in BOOLEAN
    /\ rpc \in Calls
    /\ rlv \in Copy
    /\ rpc # "idle" => rlv # None
    /\ missed \in SUBSET UIDs

RecInit == queued = FALSE /\ timer = FALSE /\ rpc = "idle" /\ rlv = None /\ missed = {}

(* Reconcile-time Get, then on to the first call. *)
Begin(call) ==
    /\ rpc' = call
    /\ rlv' = ncache
    /\ queued' = FALSE
    /\ fresh' = IF "ncache" \in fresh THEN fresh \cup {"rec"} ELSE fresh \ {"rec"}
    /\ UNCHANGED <<api, ncache, ccache, used, lvm, faults, timer, missed>>

(* The next call of the same reconcile, with lv as its copy of the CR. *)
Continue(call, lv) ==
    /\ rpc' = call
    /\ rlv' = lv
    /\ UNCHANGED <<queued, timer, missed>>

(* Mutant of Return: the error is swallowed, nothing is requeued. *)
ReturnDone(err) ==
    /\ rpc' = "idle"
    /\ rlv' = None
    /\ UNCHANGED <<queued, timer, missed>>

(* The reconcile returns; after an error the name is queued again, later. *)
Return(err) ==
    /\ rpc' = "idle"
    /\ rlv' = None
    /\ timer' = (timer \/ err)
    /\ UNCHANGED <<queued, missed>>

Idle == rpc = "idle" /\ queued

Live == ncache # None /\ ~ncache.deleting

(* Reconcile, handleDeletion, createLV and expandLV: the early returns. *)
ReconcileNothing ==
    /\ Idle
    /\ \/ ncache = None
       \/ /\ ncache # None
          /\ ncache.deleting
          /\ ~ncache.finalizer
       \/ /\ Live
          /\ ncache.finalizer /\ ncache.label
          /\ \/ ncache.volumeID = None /\ ncache.code # "OK"
             \/ /\ ncache.volumeID # None
                /\ ncache.currentSize # 0
                /\ ncache.size <= ncache.currentSize
    /\ queued' = FALSE
    /\ UNCHANGED <<storeVars, timer, rpc, rlv, missed>>

(* A merge patch carries no resourceVersion: it applies to the CR of that  *)
(* name whatever happened to it since the cached copy was made.            *)
EnsureFinalizer ==
    /\ Idle /\ Live
    /\ ~ncache.finalizer
    /\ IF api = None THEN UNCHANGED <<api, fresh>>
       ELSE Put([api EXCEPT !.finalizer = TRUE])
    /\ queued' = FALSE /\ timer' = TRUE
    /\ UNCHANGED <<ncache, ccache, used, lvm, faults, rpc, rlv, missed>>

EnsureLabel ==
    /\ Idle /\ Live
    /\ ncache.finalizer /\ ~ncache.label
    /\ IF api = None THEN UNCHANGED <<api, fresh>>
       ELSE Put([api EXCEPT !.label = TRUE])
    /\ queued' = FALSE /\ timer' = TRUE
    /\ UNCHANGED <<ncache, ccache, used, lvm, faults, rpc, rlv, missed>>

(* Mutant of StartCreate: the volume may be made before the finalizer is on. *)
StartCreateEarly ==
    /\ Idle /\ Live
    /\ ncache.volumeID = None /\ ncache.code = "OK"
    /\ Begin("volumeExists")

StartCreate ==
    /\ Idle /\ Live
    /\ ncache.finalizer /\ ncache.label
    /\ ncache.volumeID = None /\ ncache.code = "OK"
    /\ Begin("volumeExists")

(* Mutant of StartExpand: a nil CurrentSize is taken to need no resizing. *)
StartExpandKnown ==
    /\ Idle /\ Live
    /\ ncache.finalizer /\ ncache.label
    /\ ncache.volumeID # None
    /\ ncache.currentSize # 0 /\ ncache.size > ncache.currentSize
    /\ Begin("ResizeLV")

StartExpand ==
    /\ Idle /\ Live
    /\ ncache.finalizer /\ ncache.label
    /\ ncache.volumeID # None
    /\ ncache.currentSize = 0 \/ ncache.size > ncache.currentSize
    /\ Begin("ResizeLV")

StartDelete ==
    /\ Idle
    /\ ncache # None
    /\ ncache.deleting /\ ncache.finalizer
    /\ Begin("RemoveLV")

(* Mutant of Grown: lvresize to whatever is asked for. *)
GrownOrShrunk(uid, size) == size

(* ResizeLV of lvmd never shrinks a volume. *)
Grown(uid, size) == IF size <= lvm[uid] THEN lvm[uid] ELSE size

(* What the volumes look like when the call being made has had its effect; *)
(* a call that fails, or whose caller dies, may have had it all the same   *)
(* (in CreateLV, for one, the lookup after lvcreate can fail).             *)
Effect ==
    CASE rpc = "CreateLV" -> [lvm EXCEPT ![rlv.uid] = rlv.size]
      [] rpc = "ResizeLV" /\ lvm[rlv.uid] # 0 ->
             [lvm EXCEPT ![rlv.uid] = Grown(rlv.uid, rlv.size)]
      [] rpc = "RemoveLV" -> [lvm EXCEPT ![rlv.uid] = 0]
      [] OTHER -> lvm

(* createLV: GetLVList of lvmd.  A volume that exists is adopted, and its  *)
(* CurrentSize is deliberately left as it is in the copy.                  *)
VolumeExists ==
    /\ rpc = "volumeExists"
    /\ \/ /\ lvm[rlv.uid] # 0
          /\ Continue("updateLVStatus", [rlv EXCEPT !.volumeID = rlv.uid, !.code = "OK"])
          /\ UNCHANGED storeVars
       \/ /\ lvm[rlv.uid] = 0
          /\ Continue("CreateLV", rlv)
          /\ UNCHANGED storeVars
       \/ /\ Fault
          /\ Continue("failStatus", [rlv EXCEPT !.code = "Error"])
          /\ UNCHANGED <<api, ncache, ccache, fresh, used, lvm>>

(* CreateLV of lvmd. *)
CreateLV ==
    /\ rpc = "CreateLV"
    /\ \/ /\ lvm' = Effect
          /\ Continue("updateLVStatus", [rlv EXCEPT !.volumeID = rlv.uid,
                                         !.code = "OK", !.currentSize = rlv.size])
          /\ UNCHANGED faults
       \/ /\ Fault
          /\ lvm' \in {lvm, Effect}
          /\ Continue("failStatus", [rlv EXCEPT !.code = "Error"])
    /\ UNCHANGED <<api, ncache, ccache, fresh, used>>

(* Mutant of FailStatus: the error is written without the version check. *)
FailStatusUnchecked ==
    /\ rpc = "failStatus"
    /\ IF api = None THEN UNCHANGED <<api, fresh>> ELSE Put(WithStatus(api, rlv))
    /\ Return(TRUE)
    /\ UNCHANGED <<ncache, ccache, used, lvm, faults>>

(* createLV's error path: Status().Update of the Reconcile-time copy, so a *)
(* conflict unless that copy is still current; a failure is only logged.   *)
FailStatus ==
    /\ rpc = "failStatus"
    /\ \/ /\ "rec" \in fresh
          /\ Put(WithStatus(api, rlv))
          /\ UNCHANGED faults
       \/ /\ "rec" \notin fresh
          /\ UNCHANGED <<api, fresh, faults>>
       \/ /\ Fault
          /\ UNCHANGED <<api, fresh>>
    /\ Return(TRUE)
    /\ UNCHANGED <<ncache, ccache, used, lvm>>

(* updateLVStatus: Get from the cache, replace the whole status by that of *)
(* the in-memory copy, Status().Update.  It conflicts iff the cache lags;  *)
(* the age of the in-memory copy does not matter.                          *)
WriteStatus(ok) ==
    /\ \/ /\ "ncache" \in fresh /\ ncache # None
          /\ Put(WithStatus(api, rlv))
          /\ Return(~ok)
          /\ UNCHANGED faults
       \/ /\ ~("ncache" \in fresh /\ ncache # None)
          /\ Return(TRUE)
          /\ UNCHANGED <<api, fresh, faults>>
       \/ /\ Fault
          /\ Return(TRUE)
          /\ UNCHANGED <<api, fresh>>
    /\ UNCHANGED <<ncache, ccache, used, lvm>>

UpdateLVStatus == rpc = "updateLVStatus" /\ WriteStatus(TRUE)

ExpandError == rpc = "expandError" /\ WriteStatus(FALSE)

(* Mutant of ResizeLV: CurrentSize is set although the resize failed. *)
ResizeLVClaims ==
    /\ rpc = "ResizeLV"
    /\ Continue("updateLVStatus", [rlv EXCEPT !.code = "OK", !.currentSize = rlv.size])
    /\ \/ lvm' = Effect /\ UNCHANGED faults
       \/ Fault /\ lvm' \in {lvm, Effect}
    /\ UNCHANGED <<api, ncache, ccache, fresh, used>>

(* expandLV: ResizeLV of lvmd reports the size the volume now has. *)
ResizeLV ==
    /\ rpc = "ResizeLV"
    /\ \/ /\ lvm[rlv.uid] # 0
          /\ lvm' = Effect
          /\ Continue("updateLVStatus", [rlv EXCEPT !.code = "OK",
                            !.currentSize = Grown(rlv.uid, rlv.size)])
          /\ UNCHANGED faults
       \/ /\ lvm[rlv.uid] = 0
          /\ Continue("expandError", [rlv EXCEPT !.code = "Error"])
          /\ UNCHANGED <<lvm, faults>>
       \/ /\ Fault
          /\ lvm' \in {lvm, Effect}
          /\ Continue("expandError", [rlv EXCEPT !.code = "Error"])
    /\ UNCHANGED <<api, ncache, ccache, fresh, used>>

(* removeLVIfExists: NotFound counts as removed, and lvmd also says        *)
(* NotFound when it cannot resolve the device class or the volume group.   *)
RemoveLV ==
    /\ rpc = "RemoveLV"
    /\ \/ /\ lvm' = Effect
          /\ Continue("removeFinalizer", rlv)
          /\ UNCHANGED faults
       \/ /\ Fault
          /\ lvm[rlv.uid] # 0
          /\ missed' = missed \cup {rlv.uid}
          /\ rpc' = "removeFinalizer"
          /\ UNCHANGED <<lvm, rlv, queued, timer>>
       \/ /\ Fault
          /\ lvm' \in {lvm, Effect}
          /\ Return(TRUE)
    /\ UNCHANGED <<api, ncache, ccache, fresh, used>>

(* The finalizer goes: a CR that is being deleted disappears with it. *)
DropFinalizer ==
    IF api = None THEN UNCHANGED <<api, fresh>>
    ELSE Put(IF api.deleting THEN None ELSE [api EXCEPT !.finalizer = FALSE])

HasFinalizer(obj) == obj # None /\ obj.finalizer

RemoveFinalizer ==
    /\ rpc = "removeFinalizer"
    /\ \/ /\ HasFinalizer(ncache)
          /\ DropFinalizer
          /\ Return(api = None)
          /\ UNCHANGED faults
       \/ /\ ~HasFinalizer(ncache)
          /\ Return(FALSE)
          /\ UNCHANGED <<api, fresh, faults>>
       \/ /\ Fault
          /\ Return(TRUE)
          /\ UNCHANGED <<api, fresh>>
    /\ UNCHANGED <<ncache, ccache, used, lvm>>

(* The watch delivers the latest CR; the event filter lets it through. *)
NodeCacheSync ==
    /\ "ncache" \notin fresh
    /\ ncache' = api
    /\ fresh' = fresh \cup {"ncache"}
    /\ queued' = TRUE
    /\ UNCHANGED <<api, ccache, used, lvm, faults, timer, rpc, rlv, missed>>

(* The delay is over; the queue holds a name once. *)
TimerFires ==
    /\ timer
    /\ queued' = TRUE /\ timer' = FALSE
    /\ UNCHANGED <<storeVars, rpc, rlv, missed>>

(* topolvm-node dies and starts again: the copy and the queue are lost,    *)
(* the informer lists anew and enqueues what it finds.                     *)
NodeRestart ==
    /\ Fault
    /\ lvm' \in {lvm, Effect}
    /\ ncache' = api
    /\ fresh' = (fresh \ {"rec"}) \cup {"ncache"}
    /\ rpc' = "idle" /\ rlv' = None
    /\ queued' = (api # None) /\ timer' = FALSE
    /\ UNCHANGED <<api, ccache, used, missed>>

ReconcileStep ==
    \/ ReconcileNothing \/ EnsureFinalizer \/ EnsureLabel
    \/ StartCreate \/ StartExpand \/ StartDelete
    \/ VolumeExists \/ CreateLV \/ FailStatus \/ UpdateLVStatus
    \/ ResizeLV \/ ExpandError \/ RemoveLV \/ RemoveFinalizer

RecNext == ReconcileStep \/ TimerFires \/ NodeCacheSync \/ NodeRestart
=============================================================================
