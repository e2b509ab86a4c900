-------------------------- MODULE ControllerServer --------------------------
(***************************************************************************)
(* The CSI controller of topolvm-controller while a snapshot or a clone of *)
(* a volume is made: the gRPC handlers, which may be called again while an *)
(* earlier call is still inside, the two locks they take, the sizes they   *)
(* ask for, and their waits for topolvm-node (DerivedVolume).              *)
(***************************************************************************)
EXTENDS DerivedVolume, VolumeSize

CONSTANTS NameCalls,   \* calls of CreateVolume and CreateSnapshot
          IDCalls,     \* calls of the handlers that name a volume ID
          Requests,    \* what the derived volume is asked to be
          Minimum,     \* minimum allocation of the settings
          MaxExpands

ASSUME RequestAssumption ==
    /\ Requests \subseteq [kind : {"snapshot", "clone"}, required : Int64, limit : Int64]
    /\ Minimum \in Int64

VARIABLES npc, nid, nlocked, npanic,  \* lockByName
          ipc, iid, ilocked, ipanic,  \* lockByVolumeID
          live,     \* the calls whose context is not cancelled
          step,     \* where each call is in its handler
          size,     \* the size each call asks for
          csrc,     \* CurrentSize of the source in the cache of topolvm-controller, 0 for none
          request,  \* the CreateSnapshot or CreateVolume request for the derived volume
          answer,   \* its successful response, or None
          expands

nameLock == <<npc, nid, nlocked, npanic>>
idLock == <<ipc, iid, ilocked, ipanic>>
callVars == <<live, step, size>>
csiVars == <<csrc, request, answer, expands>>
vars == <<nodeVars, nameLock, idLock, callVars, csiVars>>

ByName == INSTANCE LockByID WITH
    Calls <- NameCalls, IDs <- {"derived"}, pc <- npc, id <- nid, locked <- nlocked, panic <- npanic
ByID == INSTANCE LockByID WITH
    Calls <- IDCalls, IDs <- {"source", "derived"},
    pc <- ipc, id <- iid, locked <- ilocked, panic <- ipanic

AllCalls == NameCalls \cup IDCalls

Init ==
    /\ NodeInit
    /\ ByName!Init
    /\ ByID!Init /\ iid = [c \in IDCalls |-> "source"]
    /\ live = {} /\ step = [c \in AllCalls |-> "idle"] /\ size = [c \in AllCalls |-> 0]
    /\ csrc = src.currentSize
    /\ request \in Requests
    /\ answer = None /\ expands = MaxExpands

\* volumeGetter.Get of the source: the cache, or the API server when the
\* cache does not have it; 0 is ErrVolumeNotFound.
GetSource == IF csrc # 0 THEN csrc ELSE SizeOf(src)

ControllerCacheSync ==
    /\ csrc # SizeOf(src)
    /\ csrc' = SizeOf(src)
    /\ UNCHANGED <<nodeVars, nameLock, idLock, callVars, request, answer, expands>>

\* The calls are alike: a new one takes the first that is free.
FirstIdle(c, calls, pc) == pc[c] = "idle" /\ c = CHOOSE d \in calls : pc[d] = "idle"

-----------------------------------------------------------------------------
(* CreateSnapshot, and CreateVolume with a source, under lockByName *)

\* external-provisioner and external-snapshotter call until they have an
\* answer, and never wait for two calls at once.
CallCreate(c) ==
    /\ answer = None /\ live \cap NameCalls = {}
    /\ FirstIdle(c, NameCalls, npc)
    /\ ByName!Call(c, "derived")
    /\ live' = live \cup {c} /\ step' = [step EXCEPT ![c] = "getSource"]
    /\ UNCHANGED <<nodeVars, idLock, size, csiVars>>

LockName(c) ==
    /\ ByName!TryLock(c)
    /\ UNCHANGED <<nodeVars, idLock, callVars, csiVars>>

\* The handler returns, and the deferred unlock runs.
ReturnCreate(c) ==
    /\ ByName!UnlockByID(c)
    /\ live' = live \ {c}
    /\ step' = [step EXCEPT ![c] = "idle"] /\ size' = [size EXCEPT ![c] = 0]
    /\ UNCHANGED <<idLock, csrc, request, expands>>

Running(c, at) ==
    /\ c \in live /\ step[c] = at
    /\ IF c \in NameCalls THEN npc[c] = "holding" ELSE ipc[c] = "holding"

\* The size CreateVolume asks for.
CloneSize ==
    convertRequestCapacityBytes(MinMaxAllocationsFromSettings(request.required, Minimum), request.limit)

\* A snapshot is as large as its source; a clone at least as large.
WantedSize ==
    IF GetSource = 0 THEN 0
    ELSE IF request.kind = "snapshot" THEN GetSource
    ELSE IF CloneSize.err # "none" \/ CloneSize.bytes < GetSource THEN 0
    ELSE CloneSize.bytes

CreateGetSource(c) ==
    /\ Running(c, "getSource")
    /\ IF WantedSize = 0
       THEN ReturnCreate(c) /\ UNCHANGED <<nodeVars, answer>>
       ELSE /\ step' = [step EXCEPT ![c] = "create"] /\ size' = [size EXCEPT ![c] = WantedSize]
            /\ UNCHANGED <<nodeVars, nameLock, idLock, live, csiVars>>

\* Mutant: any CR of the name will do.
IsCompatibleByName(lv, wanted) == TRUE

IsCompatibleWith(lv, wanted) == lv.size = wanted

\* create: a new CR, or one of an earlier call that asked for the same.
CreateCR(c) ==
    /\ Running(c, "create")
    /\ IF derived # None /\ ~IsCompatibleWith(derived, size[c])
       THEN ReturnCreate(c) /\ UNCHANGED <<nodeVars, answer>>
       ELSE /\ derived' = IF derived = None THEN NewDerived(size[c]) ELSE derived
            /\ step' = [step EXCEPT ![c] = "wait"]
            /\ UNCHANGED <<src, nsrc, dlvm, faults, nameLock, idLock, live, size, csiVars>>

\* Mutant: a failed CR is left to the next call.
DeleteFailedNever == UNCHANGED derived

DeleteFailed == derived' = [derived EXCEPT !.deleting = TRUE]

\* waitForVolumeProvisioning ends: the CR is gone, has its volume, or failed.
WaitCreate(c) ==
    /\ Running(c, "wait")
    /\ \/ /\ derived = None
          /\ UNCHANGED <<nodeVars, answer>>
       \/ /\ derived # None /\ derived.volumeID /\ derived.currentSize # 0
          /\ answer' = [bytes |-> derived.currentSize, base |-> dlvm.base]
          /\ UNCHANGED nodeVars
       \/ /\ derived # None /\ ~derived.volumeID /\ derived.code # "OK"
          /\ DeleteFailed
          /\ UNCHANGED <<src, nsrc, dlvm, faults, answer>>
    /\ ReturnCreate(c)

\* The volume has its ID but not its size: the handler dereferences the nil
\* CurrentSize, and the process starts again with its locks free.
Panic(c) ==
    /\ Running(c, "wait")
    /\ derived # None /\ derived.volumeID /\ derived.currentSize = 0
    /\ npc' = [d \in NameCalls |-> "idle"] /\ nlocked' = {}
    /\ ipc' = [d \in IDCalls |-> "idle"] /\ ilocked' = {}
    /\ live' = {} /\ step' = [d \in AllCalls |-> "idle"] /\ size' = [d \in AllCalls |-> 0]
    /\ csrc' = SizeOf(src)
    /\ UNCHANGED <<nodeVars, nid, npanic, iid, ipanic, request, answer, expands>>

-----------------------------------------------------------------------------
(* The handlers under lockByVolumeID *)

\* ControllerExpandVolume and DeleteVolume of the source,
\* ValidateVolumeCapabilities and DeleteSnapshot of the derived volume.
CallByID(c, op, wanted) ==
    /\ op \in {"expand", "delete", "validate", "deleteDerived"}
    /\ op = "expand" => expands > 0 /\ src # None /\ wanted > src.spec
    /\ op # "expand" => wanted = 0
    /\ op \in {"validate", "deleteDerived"} => answer # None /\ derived # None
    /\ op = "delete" => src # None
    /\ \A d \in live \cap IDCalls : step[d] # op
    /\ FirstIdle(c, IDCalls, ipc)
    /\ ByID!Call(c, IF op \in {"expand", "delete"} THEN "source" ELSE "derived")
    /\ live' = live \cup {c} /\ step' = [step EXCEPT ![c] = op]
    /\ size' = [size EXCEPT ![c] = wanted]
    /\ expands' = IF op = "expand" THEN expands - 1 ELSE expands
    /\ UNCHANGED <<nodeVars, nameLock, csrc, request, answer>>

LockID(c) ==
    /\ ByID!TryLock(c)
    /\ UNCHANGED <<nodeVars, nameLock, callVars, csiVars>>

ReturnByID(c) ==
    /\ ByID!UnlockByID(c)
    /\ live' = live \ {c}
    /\ step' = [step EXCEPT ![c] = "idle"] /\ size' = [size EXCEPT ![c] = 0]
    /\ UNCHANGED <<nameLock, csiVars>>

\* The write of a changed CR stands; the handler goes on to wait.
ThenWait(c, at) ==
    /\ step' = [step EXCEPT ![c] = at]
    /\ UNCHANGED <<nsrc, dlvm, faults, nameLock, idLock, live, size, csiVars>>

\* updateSpecSize, unless the volume is gone or large enough already, or
\* stale copies use up the retries.
ControllerExpandVolume(c) ==
    /\ Running(c, "expand")
    /\ IF src = None \/ csrc # SizeOf(src) \/ GetSource >= size[c]
       THEN ReturnByID(c) /\ UNCHANGED nodeVars
       ELSE /\ src' = [src EXCEPT !.spec = size[c]] /\ UNCHANGED derived
            /\ ThenWait(c, "waitExpand")

WaitExpand(c) ==
    /\ Running(c, "waitExpand")
    /\ IF src = None THEN TRUE ELSE src.currentSize >= size[c]
    /\ ReturnByID(c) /\ UNCHANGED nodeVars

DeleteVolume(c) ==
    /\ Running(c, "delete")
    /\ IF src = None THEN ReturnByID(c) /\ UNCHANGED nodeVars
       ELSE /\ src' = [src EXCEPT !.deleting = TRUE] /\ UNCHANGED derived
            /\ ThenWait(c, "waitDelete")

DeleteSnapshot(c) ==
    /\ Running(c, "deleteDerived")
    /\ IF derived = None THEN ReturnByID(c) /\ UNCHANGED nodeVars
       ELSE /\ derived' = [derived EXCEPT !.deleting = TRUE] /\ UNCHANGED src
            /\ ThenWait(c, "waitDelete")

WaitDelete(c) ==
    /\ Running(c, "waitDelete")
    /\ IF iid[c] = "source" THEN src = None ELSE derived = None
    /\ ReturnByID(c) /\ UNCHANGED nodeVars

ValidateVolumeCapabilities(c) ==
    /\ Running(c, "validate")
    /\ ReturnByID(c) /\ UNCHANGED nodeVars

-----------------------------------------------------------------------------
(* Contexts *)

\* Where a call was no longer matters once its context is cancelled.
Cancel(c) ==
    /\ live' = live \ {c}
    /\ step' = [step EXCEPT ![c] = "idle"] /\ size' = [size EXCEPT ![c] = 0]

\* The caller gives up early.  LockByID does not look at the context.
Timeout(c) ==
    /\ c \in live /\ Fault
    /\ Cancel(c)
    /\ UNCHANGED <<src, nsrc, derived, dlvm, nameLock, idLock, csiVars>>

\* The deadline of a call that waits for topolvm-node.
Deadline(c) ==
    /\ \/ Running(c, "wait") /\ Pending
       \/ Running(c, "waitExpand") \/ Running(c, "waitDelete")
    /\ Cancel(c)
    /\ UNCHANGED <<nodeVars, nameLock, idLock, csiVars>>

\* A cancelled call that holds its lock fails at its next request.
CancelledCreate(c) ==
    /\ c \notin live
    /\ ReturnCreate(c) /\ UNCHANGED <<nodeVars, answer>>

CancelledByID(c) ==
    /\ c \notin live
    /\ ReturnByID(c) /\ UNCHANGED nodeVars

-----------------------------------------------------------------------------
CreateStep(c) ==
    LockName(c) \/ CreateGetSource(c) \/ CreateCR(c) \/ WaitCreate(c) \/ Panic(c) \/ CancelledCreate(c)

ByIDStep(c) ==
    \/ LockID(c) \/ ControllerExpandVolume(c) \/ WaitExpand(c)
    \/ DeleteVolume(c) \/ DeleteSnapshot(c) \/ WaitDelete(c)
    \/ ValidateVolumeCapabilities(c) \/ CancelledByID(c)

NodeTurn(A) == A /\ UNCHANGED <<nameLock, idLock, callVars, csiVars>>

Next ==
    \/ NodeTurn(NodeStep) \/ ControllerCacheSync
    \/ \E c \in NameCalls : CallCreate(c) \/ CreateStep(c)
    \/ \E c \in IDCalls :
         \/ ByIDStep(c)
         \/ \E op \in {"expand", "delete", "validate", "deleteDerived"}, s \in SourceSizes \cup {0} :
              CallByID(c, op, s)
    \/ \E c \in AllCalls : Timeout(c) \/ Deadline(c)

Spec == Init /\ [][Next]_vars

\* The goroutines of the creating calls run, the deadlines come ("we assume context
\* gets canceled"), the sidecars call again, the caches follow, and
\* topolvm-node reconciles what it has been told of.
Fairness ==
    /\ \A c \in NameCalls : WF_vars(CreateStep(c) \/ Deadline(c))
    /\ WF_vars(\E c \in NameCalls : CallCreate(c))
    /\ WF_vars(ControllerCacheSync \/ NodeTurn(NodeCacheSync \/ ExpandSource \/ RemoveSource))
    /\ WF_vars(NodeTurn(Adopt \/ CreateLVSnapshot \/ ExpandDerived \/ RemoveDerived))

FairSpec == Spec /\ Fairness

-----------------------------------------------------------------------------
(* Properties *)

\* LockByID: a CreateSnapshot or CreateVolume that sleeps in cond.Wait is woken,
\* although the holder may be waiting for topolvm-node, its caller may have
\* given up, and the source may be gone.
WaitersAreWoken == \A c \in NameCalls : npc[c] = "parked" ~> npc[c] # "parked"

\* convertRequestCapacityBytes and IsCompatibleWith: the capacity CreateVolume
\* answers is within the range that was asked for, whichever call made the CR
\* and whatever a failed creation left behind.
AnswerFitsRequest ==
    (answer # None /\ request.kind = "clone") =>
        /\ answer.bytes >= request.required
        /\ request.limit # 0 => answer.bytes <= request.limit

\* CreateLVSnapshot of lvmd: an answered snapshot or clone holds all of its
\* source as it was when it was taken, although the controller and
\* topolvm-node both judge by copies that an expansion has overtaken.
AnswerIsWhole == answer # None => answer.bytes >= answer.base

\* The request cannot be met any more: the source is gone, or it has outgrown
\* the request or the CR that an earlier call left.
Hopeless ==
    \/ src = None
    \/ request.kind = "clone" /\ (CloneSize.err # "none" \/ CloneSize.bytes < src.currentSize)
    \/ request.kind = "snapshot" /\ derived # None /\ derived.size # src.currentSize

\* createAndWait: retried for long enough, the creation succeeds, failures and
\* lost calls notwithstanding, unless it has become hopeless.
CreationSucceeds == <>(answer # None \/ Hopeless)

\* The comment of createLV: a CR whose creation has failed "will be deleted
\* soon by the controller".  Not kept once the creation is hopeless.
FailedIsDeleted ==
    (derived # None /\ ~derived.volumeID /\ derived.code # "OK")
        ~> IF derived = None THEN TRUE ELSE derived.deleting

\* CreateLVSnapshot activates what it makes.  Not kept by a volume that is
\* adopted after a crash between lvcreate and lvchange.
AnswerIsActive == (answer # None /\ derived # None) => dlvm.active
=============================================================================
