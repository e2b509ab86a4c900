-------------------------- MODULE NodePublishProofs --------------------------
(***************************************************************************)
(* Publishing is safe for any number of target paths, sizes and faults:    *)
(* no data is lost, a published path is mounted, an unpublished one is not.*)
(***************************************************************************)
EXTENDS NodePublish, TLAPS

Types ==
    /\ isBlock \in BOOLEAN /\ restoring \in BOOLEAN /\ faults \in Nat
    /\ lvSize \in Nat
    /\ fs \in [type : {"none", "ext4"}, size : Nat, data : BOOLEAN]
    /\ path \in [Targets -> {"absent", "dir", "file"}]
    /\ mounts \in [Targets -> Nat]
    /\ want \in [Targets -> {"publish", "unpublish"}]
    /\ acked \in [Targets -> {"none", "publish", "unpublish"}]
    /\ waiting \subseteq Calls /\ pc \in Steps /\ cur \in Calls

(* The steps of publishing once the volume has been looked up. *)
FsSteps == {"mkdir", "wipe", "format", "mount", "chmod"}
PublishSteps == FsSteps \cup {"create", "bind"}
Publishing == pc \in PublishSteps \/ (pc = "resize" /\ cur.op = "publish")

(* Each step belongs to one kind of call. *)
StepsOfCalls ==
    /\ pc \in PublishSteps => cur.op = "publish"
    /\ pc \in {"stat", "remove"} => cur.op = "unpublish"
    /\ pc \in {"lookup", "resize"} => cur.op # "unpublish"

(* The device.  A call that wipes it has found it empty, and no restore is  *)
(* under way that could fill it before it is wiped.                        *)
DataHasFs == fs.data => fs.type = "ext4"
WipesEmpty == pc = "wipe" => fs.type = "none"
NoRestore == Publishing => ~restoring
FsIsThere == pc \in {"mount", "chmod", "resize"} => fs.type = "ext4"
FsOrBlock ==
    /\ pc \in FsSteps \cup {"resize"} => ~isBlock
    /\ pc \in {"create", "bind"} => isBlock
FsOfExpand ==
    /\ \A t \in Targets : acked[t] = "publish" => isBlock \/ fs.type = "ext4"
    /\ \A c \in waiting : c.op = "expand" => ~isBlock /\ fs.type = "ext4"
    /\ pc # "idle" /\ cur.op = "expand" => ~isBlock /\ fs.type = "ext4"
MountedHasFs == \A t \in Targets : mounts[t] > 0 => isBlock \/ fs.type = "ext4"
DeviceInv ==
    /\ DataHasFs /\ WipesEmpty /\ NoRestore /\ FsIsThere /\ FsOrBlock
    /\ FsOfExpand /\ MountedHasFs

(* The calls.  kubelet waits for at most one call for a target; a call to   *)
(* unpublish, late or not, is for a pod that is deleted; and a target it    *)
(* waits to have published, or that a handler goes on publishing, has not  *)
(* been unpublished.                                                       *)
OneLive ==
    /\ \A c, d \in waiting : c.live /\ d.live /\ c.target = d.target => c = d
    /\ pc # "idle" /\ cur.live => \A c \in waiting : c.live => c.target # cur.target
UnpublishIsWanted ==
    /\ \A c \in waiting : c.op = "unpublish" => want[c.target] = "unpublish"
    /\ pc # "idle" /\ cur.op = "unpublish" => want[cur.target] = "unpublish"
    /\ \A t \in Targets : acked[t] = "unpublish" => want[t] = "unpublish"
LivePublish ==
    /\ \A c \in waiting : c.live /\ c.op = "publish" => acked[c.target] # "unpublish"
    /\ pc = "lookup" /\ cur.live /\ cur.op = "publish" => acked[cur.target] # "unpublish"
    /\ Publishing => acked[cur.target] # "unpublish"
CallInv == OneLive /\ UnpublishIsWanted /\ LivePublish

(* The mounts. *)
NoPathNoMount == \A t \in Targets : path[t] = "absent" => mounts[t] = 0
PathIsMade ==
    /\ pc \in {"wipe", "format", "mount", "chmod", "bind"} => path[cur.target] # "absent"
    /\ pc = "chmod" \/ (pc = "resize" /\ cur.op = "publish") => mounts[cur.target] > 0
MountInv == NoPathNoMount /\ PathIsMade /\ PublishedIsMounted /\ UnpublishedStaysUnmounted

PublishInv == Types /\ StepsOfCalls /\ DeviceInv /\ CallInv /\ MountInv

-----------------------------------------------------------------------------
(* Each of the parts of the invariant is kept by every step. *)

(* What stands for no call is of the type of calls. *)
LEMMA NoCallIsCall == NoCall \in Calls
    <1>1. (CHOOSE t \in Targets : TRUE) \in Targets BY PublishAssumption
    <1> QED BY <1>1 DEF NoCall, Calls

(* The types. *)
LEMMA TypesStep ==
    ASSUME Types, Next
    PROVE  Types'
    <1> USE DEF Types, diskVars, mountVars, kubeletVars, Fault, NoFault
    <1>0. NoCall \in Calls BY NoCallIsCall
    <1>1. CASE \E t \in Targets : Send(t)
      <2>1. PICK t \in Targets, op \in {"publish", "unpublish", "expand"} :
               waiting' = waiting \cup {[op |-> op, target |-> t, live |-> TRUE]}
        BY <1>1 DEF Send
      <2>2. [op |-> op, target |-> t, live |-> TRUE] \in Calls BY DEF Calls
      <2>3. waiting' \subseteq Calls BY ZenonT(30), <2>1, <2>2
      <2> QED BY <1>1, <2>3 DEF Send
    <1>2. CASE \E t \in Targets : DeletePod(t)
      BY <1>0, <1>2 DEF DeletePod, Calls, Steps
    <1>3. CASE \E c \in Calls : Start(c)
      BY <1>0, <1>3 DEF Start, Calls, Steps
    <1>4. CASE Timeout
      <2>1. CASE cur' = [cur EXCEPT !.live = FALSE] /\ UNCHANGED waiting
        <3>1. cur' \in Calls BY ZenonT(30), <2>1 DEF Calls
        <3> QED BY <1>4, <2>1, <3>1 DEF Timeout
      <2>2. CASE (\E c \in waiting : waiting' = (waiting \ {c}) \cup {[c EXCEPT !.live = FALSE]})
                 /\ UNCHANGED cur
        <3>1. PICK c \in waiting : waiting' = (waiting \ {c}) \cup {[c EXCEPT !.live = FALSE]}
          BY <2>2
        <3>2. [c EXCEPT !.live = FALSE] \in Calls BY ZenonT(30) DEF Calls
        <3>3. waiting' \subseteq Calls BY ZenonT(30), <3>1, <3>2
        <3> QED BY <1>4, <2>2, <3>3 DEF Timeout
      <2> QED BY <1>4, <2>1, <2>2 DEF Timeout
    <1>5. CASE PodWrites
      BY ZenonT(30), <1>0, <1>5 DEF PodWrites, Calls, Steps
    <1>6. CASE ExpandLV
      BY <1>0, <1>6 DEF ExpandLV, Calls, Steps
    <1>7. CASE Crash
      BY <1>0, <1>7 DEF Crash, Calls, Steps
    <1>8. CASE Reboot
      BY <1>0, <1>8 DEF Reboot, Calls, Steps
    <1>9. CASE StepFails
      BY <1>0, <1>9 DEF StepFails, Error, Calls, Steps
    <1>10. CASE RestoreMount
      BY <1>0, <1>10 DEF RestoreMount, Calls, Steps
    <1>11. CASE RestoreSucceeds
      BY ZenonT(30), <1>0, <1>11 DEF RestoreSucceeds, Calls, Steps
    <1>12. CASE Lookup
      BY <1>0, <1>12 DEF Lookup, Error, GoTo, Calls, Steps
    <1>13. CASE Mkdir
      BY <1>0, <1>13 DEF Mkdir, GoTo, t0, Calls, Steps
    <1>14. CASE Wipefs
      BY <1>0, <1>14 DEF Wipefs, GoTo, NoFs, Calls, Steps
    <1>15. CASE Format
      BY <1>0, <1>15 DEF Format, GoTo, Calls, Steps
    <1>16. CASE Mount
      BY <1>0, <1>16 DEF Mount, GoTo, t0, Calls, Steps
    <1>17. CASE Chmod
      BY <1>0, <1>17 DEF Chmod, GoTo, Calls, Steps
    <1>18. CASE Resize
      BY <1>0, <1>18 DEF Resize, Reply, t0, Calls, Steps
    <1>19. CASE Create
      BY <1>0, <1>19 DEF Create, GoTo, t0, Calls, Steps
    <1>20. CASE BindMount
      BY <1>0, <1>20 DEF BindMount, Reply, t0, Calls, Steps
    <1>21. CASE Unmount
      <2>1. cur.target \in Targets /\ cur.op \in {"publish", "unpublish", "expand"}
        BY DEF Calls
      <2>2. mounts' \in [Targets -> Nat]
        BY <1>21, <2>1 DEF Unmount, t0
      <2>3. acked' \in [Targets -> {"none", "publish", "unpublish"}]
        BY <1>21, <2>1 DEF Unmount, Reply, GoTo, t0
      <2> QED BY <1>0, <1>21, <2>2, <2>3 DEF Unmount, Reply, GoTo, Steps
    <1>22. CASE RemovePath
      <2>1. cur.target \in Targets /\ cur.op \in {"publish", "unpublish", "expand"}
        BY DEF Calls
      <2>2. path' \in [Targets -> {"absent", "dir", "file"}]
        BY <1>22, <2>1 DEF RemovePath, t0
      <2>3. acked' \in [Targets -> {"none", "publish", "unpublish"}]
        BY <1>22, <2>1 DEF RemovePath, Reply, Error, t0
      <2> QED BY <1>0, <1>22, <2>2, <2>3 DEF RemovePath, Reply, Error, Steps
    <1> QED BY ZenonT(30), <1>1, <1>2, <1>3, <1>4, <1>5, <1>6, <1>7, <1>8, <1>9, <1>10, <1>11,
       <1>12, <1>13, <1>14, <1>15, <1>16, <1>17, <1>18, <1>19, <1>20, <1>21, <1>22 DEF Next

(* The steps of a call. *)
LEMMA StepsStep ==
    ASSUME Types, StepsOfCalls, Next
    PROVE  StepsOfCalls'
    <1> USE DEF StepsOfCalls, PublishSteps, FsSteps, Types, Calls
    <1>1. CASE (\E t \in Targets : Send(t)) \/ (\E t \in Targets : DeletePod(t)) \/
             PodWrites \/ ExpandLV \/ RestoreMount \/ RestoreSucceeds
      BY <1>1 DEF Send, Expandable, DeletePod, PodWrites, ExpandLV, RestoreMount,
         RestoreSucceeds
    <1>2. CASE \E c \in Calls : Start(c)
      BY <1>2 DEF Start
    <1>3. CASE Timeout
      BY <1>3 DEF Timeout
    <1>4. CASE Crash \/ Reboot \/ StepFails
      BY <1>4 DEF Crash, Reboot, StepFails, Error
    <1>5. CASE Lookup
      BY <1>5 DEF Lookup, Error, GoTo
    <1>6. CASE Mkdir
      BY <1>6 DEF Mkdir, GoTo, t0
    <1>7. CASE Wipefs \/ Format \/ Mount \/ Chmod
      BY <1>7 DEF Wipefs, GoTo, NoFs, Format, Mount, t0, Chmod
    <1>8. CASE Create
      BY <1>8 DEF Create, GoTo, t0
    <1>9. CASE Resize \/ BindMount
      BY <1>9 DEF Resize, Reply, t0, BindMount
    <1>10. CASE Unmount
      BY <1>10 DEF Unmount, Reply, GoTo, t0
    <1>11. CASE RemovePath
      BY <1>11 DEF RemovePath, Reply, Error, t0
    <1> QED BY <1>1, <1>2, <1>3, <1>4, <1>5, <1>6, <1>7, <1>8, <1>9, <1>10, <1>11 DEF Next

(* What is on the device. *)
LEMMA DeviceStep ==
    ASSUME Types, StepsOfCalls, DeviceInv, Next
    PROVE  DeviceInv'
    <1> USE DEF DeviceInv, FsOfExpand, MountedHasFs, DataHasFs, WipesEmpty, NoRestore,
       FsIsThere, FsOrBlock, Publishing, StepsOfCalls, PublishSteps, FsSteps, Types,
       Calls, diskVars, mountVars, kubeletVars, Fault, NoFault
    <1>1. CASE \E t \in Targets : Send(t)
      BY <1>1 DEF Send, Expandable
    <1>2. CASE \E t \in Targets : DeletePod(t)
      BY <1>2 DEF DeletePod
    <1>3. CASE \E c \in Calls : Start(c)
      BY <1>3 DEF Start
    <1>4. CASE Timeout
      BY <1>4 DEF Timeout
    <1>5. CASE PodWrites
      BY <1>5 DEF PodWrites
    <1>6. CASE ExpandLV
      BY <1>6 DEF ExpandLV
    <1>7. CASE Crash
      BY <1>7 DEF Crash
    <1>8. CASE Reboot
      BY <1>8 DEF Reboot
    <1>9. CASE StepFails
      BY <1>9 DEF StepFails, Error
    <1>10. CASE RestoreMount
      BY <1>10 DEF RestoreMount
    <1>11. CASE RestoreSucceeds
      BY <1>11 DEF RestoreSucceeds
    <1>12. CASE Lookup
      BY <1>12 DEF Lookup, Error, GoTo
    <1>13. CASE Mkdir
      BY <1>13 DEF Mkdir, GoTo, t0
    <1>14. CASE Wipefs
      BY <1>14 DEF Wipefs, GoTo, NoFs
    <1>15. CASE Format
      BY <1>15 DEF Format, GoTo
    <1>16. CASE Mount
      BY <1>16 DEF Mount, GoTo, t0
    <1>17. CASE Chmod
      BY <1>17 DEF Chmod, GoTo
    <1>18. CASE Resize
      BY <1>18 DEF Resize, Reply, t0
    <1>19. CASE Create
      BY <1>19 DEF Create, GoTo, t0
    <1>20. CASE BindMount
      BY <1>20 DEF BindMount, Reply, t0
    <1>21. CASE Unmount
      BY <1>21 DEF Unmount, Reply, GoTo, t0
    <1>22. CASE RemovePath
      BY <1>22 DEF RemovePath, Reply, Error, t0
    <1> QED BY ZenonT(30), <1>1, <1>2, <1>3, <1>4, <1>5, <1>6, <1>7, <1>8, <1>9, <1>10, <1>11,
       <1>12, <1>13, <1>14, <1>15, <1>16, <1>17, <1>18, <1>19, <1>20, <1>21, <1>22 DEF Next

(* kubelet sends a call for a target it waits for no other call for. *)
LEMMA OneMoreLive ==
    ASSUME NEW t, NEW op, OneLive, ~Live(t), UNCHANGED <<pc, cur>>,
           waiting' = waiting \cup {[op |-> op, target |-> t, live |-> TRUE]}
    PROVE  OneLive'
    <1>1. \A c \in waiting : c.live => c.target # t BY DEF Live
    <1>2. pc # "idle" /\ cur.live => cur.target # t BY DEF Live
    <1>3. \A c \in waiting' :
             c \in waiting \/ (c = [op |-> op, target |-> t, live |-> TRUE] /\ c.target = t)
      OBVIOUS
    <1>4. ASSUME NEW c \in waiting', NEW d \in waiting', c.live, d.live, c.target = d.target
          PROVE  c = d
      <2>1. CASE c \in waiting /\ d \in waiting BY <1>4, <2>1 DEF OneLive
      <2>2. CASE c \notin waiting /\ d \in waiting BY <1>1, <1>3, <1>4, <2>2
      <2>3. CASE c \in waiting /\ d \notin waiting BY <1>1, <1>3, <1>4, <2>3
      <2>4. CASE c \notin waiting /\ d \notin waiting BY ZenonT(30), <1>3, <2>4
      <2> QED BY <2>1, <2>2, <2>3, <2>4
    <1>5. ASSUME NEW c \in waiting', pc # "idle", cur.live, c.live
          PROVE  c.target # cur.target
      <2>1. CASE c \in waiting BY <1>5, <2>1 DEF OneLive
      <2>2. CASE c \notin waiting BY <1>2, <1>3, <1>5, <2>2
      <2> QED BY <2>1, <2>2
    <1> QED BY <1>4, <1>5 DEF OneLive

(* The calls. *)
LEMMA CallStep ==
    ASSUME Types, StepsOfCalls, CallInv, Next
    PROVE  CallInv'
    <1> USE DEF CallInv, OneLive, UnpublishIsWanted, LivePublish, Publishing,
       StepsOfCalls, PublishSteps, FsSteps, Types, Calls, diskVars, mountVars,
       kubeletVars, Fault, NoFault
    <1>1. CASE \E t \in Targets : Send(t)
      <2>1. PICK t \in Targets, op \in {"publish", "unpublish", "expand"} :
               /\ ~Live(t)
               /\ op = "expand" => want[t] = "publish" /\ acked[t] = "publish"
               /\ op # "expand" => want[t] = op /\ acked[t] # op
               /\ waiting' = waiting \cup {[op |-> op, target |-> t, live |-> TRUE]}
               /\ UNCHANGED <<want, acked, pc, cur>>
        BY <1>1 DEF Send, Expandable
      <2>2. OneLive' BY ZenonT(30), <2>1, OneMoreLive
      <2>3. UnpublishIsWanted' BY <2>1
      <2>4. LivePublish' BY <2>1
      <2> QED BY ZenonT(30), <2>2, <2>3, <2>4
    <1>2. CASE \E t \in Targets : DeletePod(t)
      BY <1>2 DEF DeletePod, Live
    <1>3. CASE \E c \in Calls : Start(c)
      <2>1. PICK c \in waiting :
               /\ pc = "idle" /\ waiting' = waiting \ {c} /\ cur' = c
               /\ pc' = IF c.op = "unpublish" THEN "stat" ELSE "lookup"
               /\ UNCHANGED <<want, acked>>
        BY ZenonT(30), <1>3 DEF Start
      <2>2. OneLive' BY ZenonT(30), <2>1
      <2>3. UnpublishIsWanted' BY <2>1
      <2>4. LivePublish' BY <2>1
      <2> QED BY ZenonT(30), <2>2, <2>3, <2>4
    <1>4. CASE Timeout
      BY <1>4 DEF Timeout, Live
    <1>5. CASE PodWrites
      BY <1>5 DEF PodWrites, Live
    <1>6. CASE ExpandLV
      BY ZenonT(30), <1>6 DEF ExpandLV, Live
    <1>7. CASE Crash
      BY ZenonT(30), <1>7 DEF Crash, Live
    <1>8. CASE Reboot
      BY ZenonT(30), <1>8 DEF Reboot, Live
    <1>9. CASE StepFails
      BY ZenonT(30), <1>9 DEF StepFails, Error, Live
    <1>10. CASE RestoreMount
      BY ZenonT(30), <1>10 DEF RestoreMount, Live
    <1>11. CASE RestoreSucceeds
      BY <1>11 DEF RestoreSucceeds, Live
    <1>12. CASE Lookup
      <2>1. /\ pc = "lookup" /\ UNCHANGED <<want, acked, waiting>>
            /\ \/ pc' = "idle" /\ cur' = NoCall
               \/ pc' = "resize" /\ cur' = cur /\ cur.live /\ cur.op = "expand"
               \/ pc' \in {"create", "mkdir"} /\ cur' = cur /\ cur.live /\ cur.op # "expand"
        BY ZenonT(30), <1>12 DEF Lookup, Error, GoTo
      <2>2. OneLive' BY <2>1
      <2>3. UnpublishIsWanted' BY <2>1
      <2>4. LivePublish' BY <2>1
      <2> QED BY ZenonT(30), <2>2, <2>3, <2>4
    <1>13. CASE Mkdir
      BY ZenonT(30), <1>13 DEF Mkdir, GoTo, t0, Live
    <1>14. CASE Wipefs
      BY ZenonT(30), <1>14 DEF Wipefs, GoTo, NoFs, Live
    <1>15. CASE Format
      BY ZenonT(30), <1>15 DEF Format, GoTo, Live
    <1>16. CASE Mount
      BY ZenonT(30), <1>16 DEF Mount, GoTo, t0, Live
    <1>17. CASE Chmod
      BY ZenonT(30), <1>17 DEF Chmod, GoTo, Live
    <1>18. CASE Resize
      BY <1>18 DEF Resize, Reply, t0, Live
    <1>19. CASE Create
      BY ZenonT(30), <1>19 DEF Create, GoTo, t0, Live
    <1>20. CASE BindMount
      BY <1>20 DEF BindMount, Reply, t0, Live
    <1>21. CASE Unmount
      BY <1>21 DEF Unmount, Reply, GoTo, t0, Live
    <1>22. CASE RemovePath
      BY <1>22 DEF RemovePath, Reply, Error, t0, Live
    <1> QED BY ZenonT(30), <1>1, <1>2, <1>3, <1>4, <1>5, <1>6, <1>7, <1>8, <1>9, <1>10, <1>11,
       <1>12, <1>13, <1>14, <1>15, <1>16, <1>17, <1>18, <1>19, <1>20, <1>21, <1>22 DEF Next

(* The mounts. *)
LEMMA MountStep ==
    ASSUME Types, StepsOfCalls, DeviceInv, CallInv, MountInv, Next
    PROVE  MountInv'
    <1> USE DEF MountInv, NoPathNoMount, PathIsMade, PublishedIsMounted,
       UnpublishedStaysUnmounted, Types, Calls, diskVars, mountVars, kubeletVars, Fault,
       NoFault
    <1>1. CASE \E t \in Targets : Send(t)
      BY <1>1 DEF Send, Expandable
    <1>2. CASE \E t \in Targets : DeletePod(t)
      BY <1>2 DEF DeletePod
    <1>3. CASE \E c \in Calls : Start(c)
      BY <1>3 DEF Start
    <1>4. CASE Timeout
      BY <1>4 DEF Timeout
    <1>5. CASE PodWrites
      BY <1>5 DEF PodWrites
    <1>6. CASE ExpandLV
      BY ZenonT(30), <1>6 DEF ExpandLV
    <1>7. CASE Crash
      BY <1>7 DEF Crash
    <1>8. CASE Reboot
      BY ZenonT(30), <1>8 DEF Reboot
    <1>9. CASE StepFails
      BY ZenonT(30), <1>9 DEF StepFails, Error
    <1>10. CASE RestoreMount
      BY ZenonT(30), <1>10 DEF RestoreMount
    <1>11. CASE RestoreSucceeds
      BY <1>11 DEF RestoreSucceeds
    <1>12. CASE Lookup
      BY ZenonT(30), <1>12 DEF Lookup, Error, GoTo
    <1>13. CASE Mkdir
      BY ZenonT(30), <1>13 DEF Mkdir, GoTo, t0
    <1>14. CASE Wipefs
      <2>1. \A t \in Targets : acked[t] # "publish" \/ isBlock
        BY ZenonT(30), <1>14 DEF Wipefs, DeviceInv, WipesEmpty, FsOfExpand
      <2> QED BY ZenonT(30), <1>14, <2>1 DEF Wipefs, GoTo
    <1>15. CASE Format
      BY ZenonT(30), <1>15 DEF Format, GoTo
    <1>16. CASE Mount
      <2>1. cur.target \in Targets /\ cur.op = "publish" /\ acked[cur.target] # "unpublish"
        BY ZenonT(30), <1>16 DEF Mount, StepsOfCalls, PublishSteps, FsSteps, CallInv, LivePublish, Publishing
      <2>2. \A t \in Targets : mounts'[t] = IF t = cur.target THEN mounts[t] + 1 ELSE mounts[t]
        BY ZenonT(30), <1>16 DEF Mount, t0
      <2> QED BY <1>16, <2>1, <2>2 DEF Mount, GoTo
    <1>17. CASE Chmod
      BY ZenonT(30), <1>17 DEF Chmod, GoTo
    <1>18. CASE Resize
      <2>1. cur.target \in Targets /\ fs.type = "ext4" /\ cur.op # "unpublish"
        BY <1>18 DEF Resize, StepsOfCalls, DeviceInv, FsIsThere
      <2> QED BY <1>18, <2>1 DEF Resize, Reply, t0
    <1>19. CASE Create
      BY ZenonT(30), <1>19 DEF Create, GoTo, t0
    <1>20. CASE BindMount
      <2>1. /\ cur.target \in Targets /\ cur.op = "publish" /\ isBlock
            /\ acked[cur.target] # "unpublish"
        BY ZenonT(30), <1>20 DEF BindMount, StepsOfCalls, PublishSteps, FsSteps, CallInv, LivePublish,
                  Publishing, DeviceInv, FsOrBlock
      <2>2. \A t \in Targets : mounts'[t] = IF t = cur.target THEN mounts[t] + 1 ELSE mounts[t]
        BY <1>20 DEF BindMount, t0
      <2> QED BY <1>20, <2>1, <2>2 DEF BindMount, Reply, t0
    <1>21. CASE Unmount
      <2>1. cur.target \in Targets /\ cur.op = "unpublish" /\ want[cur.target] = "unpublish"
        BY ZenonT(30), <1>21 DEF Unmount, StepsOfCalls, CallInv, UnpublishIsWanted
      <2>2. CASE path[cur.target] = "absent"
        BY <1>21, <2>1, <2>2 DEF Unmount, Reply, t0
      <2>3. CASE path[cur.target] # "absent"
        <3>1. \A t \in Targets : mounts'[t] = IF t = cur.target /\ mounts[t] > 0
                                              THEN mounts[t] - 1 ELSE mounts[t]
          BY <1>21, <2>3 DEF Unmount, t0
        <3> QED BY <1>21, <2>1, <2>3, <3>1 DEF Unmount, GoTo, t0
      <2> QED BY ZenonT(30), <2>2, <2>3
    <1>22. CASE RemovePath
      <2>1. cur.target \in Targets /\ cur.op = "unpublish" /\ want[cur.target] = "unpublish"
        BY ZenonT(30), <1>22 DEF RemovePath, StepsOfCalls, CallInv, UnpublishIsWanted
      <2>2. CASE mounts[cur.target] > 0
        BY ZenonT(30), <1>22, <2>1, <2>2 DEF RemovePath, Error, t0
      <2>3. CASE mounts[cur.target] = 0
        BY <1>22, <2>1, <2>3 DEF RemovePath, Reply, t0
      <2>4. mounts[cur.target] > 0 \/ mounts[cur.target] = 0 BY <2>1
      <2> QED BY ZenonT(30), <2>2, <2>3, <2>4
    <1> QED BY ZenonT(30), <1>1, <1>2, <1>3, <1>4, <1>5, <1>6, <1>7, <1>8, <1>9, <1>10, <1>11,
       <1>12, <1>13, <1>14, <1>15, <1>16, <1>17, <1>18, <1>19, <1>20, <1>21, <1>22 DEF Next

(* The invariant holds before the first call. *)
LEMMA InitInv == Init => PublishInv
    <1> SUFFICES ASSUME Init PROVE PublishInv OBVIOUS
    <1>1. NoCall \in Calls BY NoCallIsCall
    <1>2. Types BY <1>1, PublishAssumption DEF Init, Types, NoFs, Steps
    <1>3. StepsOfCalls BY DEF Init, StepsOfCalls, PublishSteps, FsSteps
    <1>4. DeviceInv
      BY DEF Init, NoFs, DeviceInv, DataHasFs, WipesEmpty, NoRestore, FsIsThere, FsOrBlock,
             FsOfExpand, MountedHasFs, Publishing, PublishSteps, FsSteps
    <1>5. CallInv
      BY ZenonT(30) DEF Init, CallInv, OneLive, UnpublishIsWanted, LivePublish, Publishing,
             PublishSteps, FsSteps
    <1>6. MountInv
      BY DEF Init, MountInv, NoPathNoMount, PathIsMade, PublishedIsMounted,
             UnpublishedStaysUnmounted
    <1> QED BY <1>2, <1>3, <1>4, <1>5, <1>6 DEF PublishInv

(* It is about the variables of the specification only. *)
LEMMA StutterInv == PublishInv /\ UNCHANGED vars => PublishInv'
    <1> SUFFICES ASSUME PublishInv, UNCHANGED vars PROVE PublishInv' OBVIOUS
    <1> USE DEF PublishInv, vars, diskVars, mountVars, kubeletVars
    <1>1. Types' BY DEF Types
    <1>2. StepsOfCalls' BY DEF StepsOfCalls
    <1>3. DeviceInv'
      BY ZenonT(30) DEF DeviceInv, DataHasFs, WipesEmpty, NoRestore, FsIsThere, FsOrBlock,
             FsOfExpand, MountedHasFs, Publishing
    <1>4. CallInv' BY ZenonT(30) DEF CallInv, OneLive, UnpublishIsWanted, LivePublish, Publishing
    <1>5. MountInv'
      BY ZenonT(30) DEF MountInv, NoPathNoMount, PathIsMade, PublishedIsMounted, UnpublishedStaysUnmounted
    <1> QED BY <1>1, <1>2, <1>3, <1>4, <1>5

-----------------------------------------------------------------------------
(* The invariant holds: each handler of the node server (node.go) works on a *)
(* device, a path and calls that are as its earlier steps have left them.   *)
THEOREM PublishInvariant == Spec => []PublishInv
    <1>1. PublishInv /\ [Next]_vars => PublishInv'
      BY TypesStep, StepsStep, DeviceStep, CallStep, MountStep, StutterInv DEF PublishInv
    <1> QED BY InitInv, <1>1, PTL DEF Spec

(* A path kubelet was told is published is mounted, with a file system or as *)
(* a device, although calls that have timed out still wait for the lock     *)
(* (nodeServer).                                                            *)
THEOREM MountsAreAsTold == Spec => []PublishedIsMounted
    <1>1. PublishInv => PublishedIsMounted
      BY DEF PublishInv, MountInv
    <1> QED BY PublishInvariant, <1>1, PTL

(* A path kubelet was told is unpublished stays unmounted: a call to publish *)
(* that comes late to the lock (nodeServer) does not mount it again.        *)
THEOREM UnmountsAreAsTold == Spec => []UnpublishedStaysUnmounted
    <1>1. PublishInv => UnpublishedStaysUnmounted
      BY DEF PublishInv, MountInv
    <1> QED BY PublishInvariant, <1>1, PTL

(* wipefs and mkfs of nodePublishFilesystemVolume never reach data, of a pod *)
(* or of a restore that Status.Snapshot shows.                              *)
THEOREM DataStays == Spec => DataIsKept
    <1>1. PublishInv /\ [Next]_vars => [fs.data => fs'.data]_vars
      <2> SUFFICES ASSUME PublishInv, Next PROVE fs.data => fs'.data
        OBVIOUS
      <2> USE DEF PublishInv, Types, DeviceInv, DataHasFs, diskVars
      <2>1. CASE Wipefs BY <2>1 DEF Wipefs, WipesEmpty
      <2>2. CASE PodWrites \/ RestoreMount \/ RestoreSucceeds \/ Format \/ Resize
        BY <2>2 DEF PodWrites, RestoreMount, RestoreSucceeds, Format, Resize
      <2>3. CASE UNCHANGED fs BY <2>3
      <2> QED BY ZenonT(30), <2>1, <2>2, <2>3 DEF Next, Send, DeletePod, Start, Timeout, ExpandLV, Crash,
                 Reboot, StepFails, Lookup, Mkdir, Mount, Chmod, Create, BindMount, Unmount,
                 RemovePath
    <1> QED BY PublishInvariant, <1>1, PTL DEF Spec, DataIsKept
=============================================================================
