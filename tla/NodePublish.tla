---------------------------- MODULE NodePublish -----------------------------
(***************************************************************************)
(* The CSI node server: one volume that kubelet publishes at the paths of  *)
(* its pods, expands, and unpublishes.  Calls wait for one lock, outlive   *)
(* kubelet's timeout, and are repeated; any step may fail, topolvm-node    *)
(* may restart, and the machine may reboot.  A volume made from a snapshot *)
(* is restored by the reconciler, which formats it without that lock.      *)
(***************************************************************************)
EXTENDS Naturals

CONSTANTS Targets,    \* target paths
          MaxSize,    \* the size up to which the volume is expanded
          MaxFaults   \* how many steps fail, calls time out, processes die

ASSUME PublishAssumption == Targets # {} /\ MaxSize \in Nat \ {0} /\ MaxFaults \in Nat

VARIABLES isBlock,    \* the volume is published as a device
          lvSize,     \* the size of the logical volume
          fs,         \* [type, size, data]: what is on the volume
          path,       \* target paths: "absent", "dir" or "file"
          mounts,     \* how many mounts are stacked on each target path
          want,       \* kubelet: "publish" or "unpublish" each target
          acked,      \* what kubelet has been told: "none", "publish", "unpublish"
          waiting,    \* calls that wait for the lock
          pc, cur,    \* the call that has the lock
          restoring,  \* Status.Snapshot of the volume has not Succeeded
          faults      \* faults that may still happen

diskVars    == <<lvSize, fs>>
mountVars   == <<path, mounts>>
kubeletVars == <<want, acked, waiting>>
vars == <<isBlock, diskVars, mountVars, kubeletVars, pc, cur, restoring, faults>>

\* live: kubelet is still waiting for the answer, and the context of the call
\* is not cancelled.
Calls == [op : {"publish", "unpublish", "expand"}, target : Targets, live : BOOLEAN]

Steps == {"idle", "lookup", "mkdir", "wipe", "format", "mount", "chmod", "resize",
          "create", "bind", "stat", "remove"}

NoCall == [op |-> "publish", target |-> CHOOSE t \in Targets : TRUE, live |-> FALSE]

NoFs == [type |-> "none", size |-> 0, data |-> FALSE]

Init ==
    /\ isBlock \in BOOLEAN /\ restoring \in BOOLEAN /\ (isBlock => ~restoring)
    /\ lvSize = 1 /\ fs = NoFs
    /\ path = [t \in Targets |-> "absent"] /\ mounts = [t \in Targets |-> 0]
    /\ want = [t \in Targets |-> "publish"] /\ acked = [t \in Targets |-> "none"]
    /\ waiting = {} /\ pc = "idle"
    /\ cur = NoCall
    /\ faults = MaxFaults

Fault == faults > 0 /\ faults' = faults - 1
NoFault == UNCHANGED faults

-----------------------------------------------------------------------------
(* kubelet and the machine *)

Expandable(t) == acked[t] = "publish" /\ ~isBlock /\ fs.size < lvSize

Live(t) == (pc # "idle" /\ cur.target = t /\ cur.live) \/ \E c \in waiting : c.target = t /\ c.live

\* One call at a time for a target, until it has succeeded.
Send(t) ==
    /\ ~Live(t)
    /\ \E op \in {"publish", "unpublish", "expand"} :
          /\ IF op = "expand" THEN want[t] = "publish" /\ Expandable(t)
             ELSE want[t] = op /\ acked[t] # op
          /\ waiting' = waiting \cup {[op |-> op, target |-> t, live |-> TRUE]}
    /\ UNCHANGED <<isBlock, restoring, diskVars, mountVars, want, acked, pc, cur>> /\ NoFault

\* kubelet gives up waiting; the call goes on, or goes on waiting for the lock.
Timeout ==
    /\ \/ /\ pc # "idle" /\ cur.live /\ cur' = [cur EXCEPT !.live = FALSE]
          /\ UNCHANGED waiting
       \/ /\ \E c \in waiting : c.live /\ waiting' = (waiting \ {c}) \cup {[c EXCEPT !.live = FALSE]}
          /\ UNCHANGED cur
    /\ Fault
    /\ UNCHANGED <<isBlock, restoring, diskVars, mountVars, want, acked, pc>>

DeletePod(t) ==
    /\ want[t] = "publish"
    /\ want' = [want EXCEPT ![t] = "unpublish"]
    /\ UNCHANGED <<isBlock, restoring, diskVars, mountVars, acked, waiting, pc, cur>> /\ NoFault

PodWrites ==
    /\ \E t \in Targets : acked[t] = "publish" /\ want[t] = "publish"
    /\ fs.type # "none" /\ ~fs.data
    /\ fs' = [fs EXCEPT !.data = TRUE]
    /\ UNCHANGED <<isBlock, restoring, lvSize, mountVars, kubeletVars, pc, cur>> /\ NoFault

\* LogicalVolumeReconciler expands the logical volume.
ExpandLV ==
    /\ lvSize < MaxSize /\ lvSize' = lvSize + 1
    /\ UNCHANGED <<isBlock, restoring, fs, mountVars, kubeletVars, pc, cur>> /\ NoFault

\* The volume is restored from a snapshot.  LVMount.Mount, of the reconciler, does
\* not take the lock: it formats what has no file system, and mounts it elsewhere.
RestoreMount ==
    /\ restoring /\ fs.type = "none"
    /\ fs' = [type |-> "ext4", size |-> lvSize, data |-> FALSE]
    /\ UNCHANGED <<isBlock, restoring, lvSize, mountVars, kubeletVars, pc, cur>> /\ NoFault

\* The pod of the restore has written the data and sets the phase to Succeeded.
RestoreSucceeds ==
    /\ restoring /\ fs.type # "none"
    /\ restoring' = FALSE /\ fs' = [fs EXCEPT !.data = TRUE]
    /\ UNCHANGED <<isBlock, lvSize, mountVars, kubeletVars, pc, cur>> /\ NoFault

\* topolvm-node dies.  kubelet's calls fail.
Crash ==
    /\ Fault
    /\ pc' = "idle" /\ waiting' = {} /\ cur' = NoCall
    /\ UNCHANGED <<isBlock, restoring, diskVars, mountVars, want, acked>>

\* The mounts are gone, the paths remain, and kubelet starts over.
Reboot ==
    /\ Fault
    /\ pc' = "idle" /\ waiting' = {} /\ cur' = NoCall
    /\ mounts' = [t \in Targets |-> 0]
    /\ acked' = [t \in Targets |-> IF acked[t] = "publish" THEN "none" ELSE acked[t]]
    /\ UNCHANGED <<isBlock, restoring, diskVars, path, want>>

-----------------------------------------------------------------------------
(* The handlers *)

t0 == cur.target

Error ==
    /\ pc' = "idle" /\ cur' = NoCall
    /\ UNCHANGED acked

\* An answer nobody waits for is lost.
Reply ==
    /\ pc' = "idle" /\ cur' = NoCall
    /\ acked' = IF cur.live /\ cur.op # "expand" THEN [acked EXCEPT ![t0] = cur.op] ELSE acked

GoTo(step) == pc' = step /\ UNCHANGED <<cur, acked>>

\* A handler takes the lock: the calls are served in any order.
Start(c) ==
    /\ pc = "idle" /\ c \in waiting
    /\ waiting' = waiting \ {c} /\ cur' = c
    /\ pc' = IF c.op = "unpublish" THEN "stat" ELSE "lookup"
    /\ UNCHANGED <<isBlock, restoring, diskVars, mountVars, want, acked>> /\ NoFault

\* Any step of a handler may fail.
StepFails ==
    /\ pc # "idle" /\ Fault /\ Error
    /\ UNCHANGED <<isBlock, restoring, diskVars, mountVars, want, waiting>>

\* Mutant: the volume is looked up without the context of the call.
LookupAnyway ==
    /\ pc = "lookup"
    /\ IF cur.op = "expand" THEN GoTo("resize")
       ELSE IF restoring THEN Error
       ELSE GoTo(IF isBlock THEN "create" ELSE "mkdir")
    /\ UNCHANGED <<isBlock, restoring, diskVars, mountVars, want, waiting>> /\ NoFault

\* Mutant: a volume is published while it is restored.
LookupUngated ==
    /\ pc = "lookup"
    /\ IF ~cur.live THEN Error
       ELSE IF cur.op = "expand" THEN GoTo("resize")
       ELSE GoTo(IF isBlock THEN "create" ELSE "mkdir")
    /\ UNCHANGED <<isBlock, restoring, diskVars, mountVars, want, waiting>> /\ NoFault

\* GetVolume and GetLVList fail when the context is cancelled; a volume that is
\* being restored, or whose restore has failed, is not published.
Lookup ==
    /\ pc = "lookup"
    /\ IF ~cur.live THEN Error
       ELSE IF cur.op = "expand" THEN GoTo("resize")
       ELSE IF restoring THEN Error
       ELSE GoTo(IF isBlock THEN "create" ELSE "mkdir")
    /\ UNCHANGED <<isBlock, restoring, diskVars, mountVars, want, waiting>> /\ NoFault

\* Mutant: a volume with a file system is taken for mounted.
MkdirNoMount ==
    /\ pc = "mkdir"
    /\ path' = [path EXCEPT ![t0] = "dir"]
    /\ GoTo(IF fs.type # "none" THEN "resize" ELSE "wipe")
    /\ UNCHANGED <<isBlock, restoring, diskVars, mounts, want, waiting>> /\ NoFault

\* MkdirAll, DetectFilesystem, IsMountPoint.
Mkdir ==
    /\ pc = "mkdir"
    /\ path' = [path EXCEPT ![t0] = "dir"]
    /\ GoTo(IF mounts[t0] > 0 THEN "resize" ELSE IF fs.type = "none" THEN "wipe" ELSE "mount")
    /\ UNCHANGED <<isBlock, restoring, diskVars, mounts, want, waiting>> /\ NoFault

Wipefs ==
    /\ pc = "wipe" /\ GoTo("format")
    /\ fs' = NoFs
    /\ UNCHANGED <<isBlock, restoring, lvSize, mountVars, want, waiting>> /\ NoFault

\* FormatAndMount formats what has no file system ...
Format ==
    /\ pc = "format" /\ GoTo("mount")
    /\ fs' = IF fs.type = "none" THEN [type |-> "ext4", size |-> lvSize, data |-> FALSE] ELSE fs
    /\ UNCHANGED <<isBlock, restoring, lvSize, mountVars, want, waiting>> /\ NoFault

\* ... and mounts it.
Mount ==
    /\ pc = "mount" /\ GoTo("chmod")
    /\ mounts' = [mounts EXCEPT ![t0] = @ + 1]
    /\ UNCHANGED <<isBlock, restoring, diskVars, path, want, waiting>> /\ NoFault

Chmod ==
    /\ pc = "chmod" /\ GoTo("resize")
    /\ UNCHANGED <<isBlock, restoring, diskVars, mountVars, want, waiting>> /\ NoFault

\* Mutant: the file system is not resized.
ResizeNot ==
    /\ pc = "resize" /\ Reply
    /\ UNCHANGED <<isBlock, restoring, diskVars, mountVars, want, waiting>> /\ NoFault

\* The last step of publishing, and all that NodeExpandVolume does.
Resize ==
    /\ pc = "resize" /\ Reply
    /\ fs' = [fs EXCEPT !.size = lvSize]
    /\ UNCHANGED <<isBlock, restoring, lvSize, mountVars, want, waiting>> /\ NoFault

\* nodePublishBlockVolume: a file, and a bind mount whether or not there is one.
Create ==
    /\ pc = "create" /\ GoTo("bind")
    /\ path' = [path EXCEPT ![t0] = "file"]
    /\ UNCHANGED <<isBlock, restoring, diskVars, mounts, want, waiting>> /\ NoFault

BindMount ==
    /\ pc = "bind" /\ Reply
    /\ mounts' = [mounts EXCEPT ![t0] = @ + 1]
    /\ UNCHANGED <<isBlock, restoring, diskVars, path, want, waiting>> /\ NoFault

\* Mutant: only a mount point can be unpublished.
UnmountStrict ==
    /\ pc = "stat"
    /\ IF path[t0] = "absent" THEN Reply /\ UNCHANGED mounts
       ELSE IF mounts[t0] = 0 THEN Error /\ UNCHANGED mounts
       ELSE GoTo("remove") /\ mounts' = [mounts EXCEPT ![t0] = @ - 1]
    /\ UNCHANGED <<isBlock, restoring, diskVars, path, want, waiting>> /\ NoFault

\* NodeUnpublishVolume: nothing to do without the path; CleanupMountPoint
\* unmounts once ...
Unmount ==
    /\ pc = "stat"
    /\ IF path[t0] = "absent" THEN Reply /\ UNCHANGED mounts
       ELSE GoTo("remove") /\ mounts' = [mounts EXCEPT ![t0] = IF @ > 0 THEN @ - 1 ELSE 0]
    /\ UNCHANGED <<isBlock, restoring, diskVars, path, want, waiting>> /\ NoFault

\* ... and removes the path, which fails if it is still a mount point.
RemovePath ==
    /\ pc = "remove"
    /\ IF mounts[t0] > 0 THEN Error /\ UNCHANGED path
       ELSE Reply /\ path' = [path EXCEPT ![t0] = "absent"]
    /\ UNCHANGED <<isBlock, restoring, diskVars, mounts, want, waiting>> /\ NoFault

Handler ==
    \/ Lookup \/ Mkdir \/ Wipefs \/ Format \/ Mount \/ Chmod \/ Resize
    \/ Create \/ BindMount \/ Unmount \/ RemovePath

Next ==
    \/ \E t \in Targets : Send(t) \/ DeletePod(t)
    \/ \E c \in Calls : Start(c)
    \/ Timeout \/ PodWrites \/ ExpandLV \/ Crash \/ Reboot \/ StepFails
    \/ RestoreMount \/ RestoreSucceeds
    \/ Lookup \/ Mkdir \/ Wipefs \/ Format \/ Mount \/ Chmod \/ Resize
    \/ Create \/ BindMount \/ Unmount \/ RemovePath

Spec == Init /\ [][Next]_vars

\* kubelet repeats a call until it succeeds, the lock is granted in the end to
\* a call kubelet waits for, and the handlers run to their end.
Fairness ==
    /\ \A t \in Targets :
          /\ WF_vars(Send(t))
          /\ SF_vars(\E c \in Calls : c.target = t /\ c.live /\ Start(c))
    /\ WF_vars(Handler)

FairSpec == Spec /\ Fairness

-----------------------------------------------------------------------------
(* Properties *)

\* What a pod has written, or a restore, stays, whatever is repeated, interrupted
\* or done at another path: wipefs and mkfs only reach a volume without a file
\* system, and one that is being restored is not published, so that no call has
\* found the volume empty before the restore and wipes it after.
DataIsKept == [][fs.data => fs'.data]_vars

\* A path kubelet believes to be published is one where the volume is mounted,
\* and has a file system unless it is published as a device.
PublishedIsMounted ==
    \A t \in Targets :
        acked[t] = "publish" /\ want[t] = "publish"
            => mounts[t] > 0 /\ (isBlock \/ fs.type # "none")

\* A path that was unpublished stays unmounted: a call to publish that has
\* waited for the lock past its time does not mount it again.
UnpublishedStaysUnmounted == \A t \in Targets : acked[t] = "unpublish" => mounts[t] = 0

\* A deleted pod's path is unpublished in the end, also when calls that were
\* repeated have stacked mounts on it, or an unpublish was interrupted.
TeardownCompletes == \A t \in Targets : want[t] = "unpublish" ~> acked[t] = "unpublish"

\* docs/design.md:123: the file system follows the logical volume. It has the
\* size of the volume in the end as long as a pod uses it.
FilesystemGrows ==
    (\E t \in Targets : acked[t] = "publish" /\ ~isBlock)
        ~> (fs.size = lvSize \/ \A t \in Targets : want[t] = "unpublish" \/ acked[t] = "none")
=============================================================================
