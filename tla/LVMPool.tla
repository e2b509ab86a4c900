------------------------------ MODULE LVMPool -------------------------------
(***************************************************************************)
(* lvmd's LVService on ONE device class: CreateLV, CreateLVSnapshot,       *)
(* ResizeLV and RemoveLV, each cut at the LVM commands it runs, on a thick *)
(* volume group or on an overprovisioned thin pool.  Nothing in lvmd locks *)
(* the pool: every handler first compares the request with the free bytes  *)
(* it reads and then runs its commands.  A handler that changed the pool   *)
(* and succeeds notifies the watchers (CapacityWatch).                     *)
(***************************************************************************)
EXTENDS Integers, FiniteSetsExt

CONSTANTS Clients,       \* callers of LVService
          Names,         \* names of logical volumes
          Type,          \* of the device class: "thick" or "thin"
          PoolSize,      \* bytes of the volume group or of the thin pool
          RatioNum,      \* the overprovision ratio, as a fraction
          RatioDen,
          Spare,         \* bytes kept back from the capacity that is reported
          SectorSize,    \* MinimumSectorSize
          Extent,        \* LVM rounds sizes up to physical extents
          Sizes,         \* sizes that are asked for
          MaxCalls,      \* bound on the number of calls
          MaxFaults      \* bound on the number of failing commands and crashes

ASSUME PoolAssumption ==
    /\ Type \in {"thick", "thin"} /\ Names # {} /\ IsFiniteSet(Names)
    /\ PoolSize \in Nat /\ Spare \in Nat /\ Extent \in Nat \ {0} /\ SectorSize \in Nat \ {0}
    /\ RatioDen \in Nat \ {0} /\ RatioNum \in Nat /\ RatioNum >= RatioDen
    /\ Sizes \subseteq Nat \ {0}
    /\ MaxCalls \in Nat /\ MaxFaults \in Nat

VARIABLES vol,        \* size of every logical volume, 0 when there is none
          call,       \* the handler each client is waiting for
          notified,   \* the token in the watcher's channel of capacity 1
          watching,   \* has the watcher registered its channel?
          unreported, \* has a handler changed the pool and failed since it was last read?
          calls,      \* calls made
          faults      \* faults that may still happen

poolVars == <<vol, call, notified, watching, unreported, calls, faults>>

Operations == {"CreateLV", "CreateLVSnapshot", "ResizeLV", "RemoveLV"}

Idle == [op |-> "none", name |-> CHOOSE n \in Names : TRUE,
         source |-> CHOOSE n \in Names : TRUE, size |-> 0, pc |-> "idle"]

Call == [op : Operations \cup {"none"}, name : Names, source : Names, size : Nat,
         pc : {"idle", "check", "command", "resize", "activate", "find", "notify"}]

PoolTypeOK ==
    /\ vol \in [Names -> Nat]
    /\ call \in [Clients -> Call]
    /\ notified \in BOOLEAN /\ watching \in BOOLEAN /\ unreported \in BOOLEAN
    /\ (notified => watching)
    /\ calls \in 0..MaxCalls /\ faults \in 0..MaxFaults

PoolInit ==
    /\ vol = [n \in Names |-> 0]
    /\ call = [c \in Clients |-> Idle]
    /\ unreported = FALSE
    /\ calls = 0 /\ faults = MaxFaults

-----------------------------------------------------------------------------
(* The pool. *)

RoundUp(size) == ((size + Extent - 1) \div Extent) * Extent

\* ThinPool.Usage adds up the virtual sizes; on a volume group they are real.
Total(sizes) == MapThenSumSet(LAMBDA n : sizes[n], Names)

VirtualBytes == Total(vol)

VirtualPoolSize == (RatioNum * PoolSize) \div RatioDen

\* Mutant: the difference of two uint64 without the comparison before it.
FreeBytesWraps == (VirtualPoolSize - VirtualBytes) % 65536

\* ThinPoolUsage.FreeBytes
FreeBytes == IF VirtualPoolSize <= VirtualBytes THEN 0 ELSE VirtualPoolSize - VirtualBytes

\* storagePool.Free: what CreateLV, CreateLVSnapshot and ResizeLV compare with.
Free == IF Type = "thin" THEN FreeBytes ELSE PoolSize - VirtualBytes

\* vgService.send: what the watcher is told.  The spare bytes of a volume
\* group are subtracted here and only here.
Reported == IF Type = "thin" THEN FreeBytes
            ELSE IF Free < Spare THEN 0 ELSE Free - Spare

\* Does LVM itself have the room?  A thin volume takes none.
HasRoom(bytes) == Type = "thin" \/ bytes <= PoolSize - VirtualBytes

-----------------------------------------------------------------------------
(* Steps of a handler. *)

Fault == faults > 0 /\ faults' = faults - 1

At(c, op, pc) == call[c].op = op /\ call[c].pc = pc

Goto(c, pc) == call' = [call EXCEPT ![c].pc = pc]

Return(c) == call' = [call EXCEPT ![c] = Idle]

\* An error after the pool was changed: nobody is notified.
ReturnSilently(c) == Return(c) /\ unreported' = TRUE

\* A channel that already holds a token is left alone.
notifyWatchers == notified' = watching

Request(c, op, name, source, size) ==
    /\ call[c].pc = "idle" /\ calls < MaxCalls
    /\ calls' = calls + 1
    /\ call' = [call EXCEPT ![c] = [op |-> op, name |-> name, source |-> source,
                                    size |-> size, pc |-> "check"]]
    /\ UNCHANGED <<vol, notified, watching, unreported, faults>>

\* The last step of every handler that succeeds.
Notify(c) ==
    /\ call[c].pc = "notify"
    /\ notifyWatchers
    /\ Return(c)
    /\ UNCHANGED <<vol, watching, unreported, calls, faults>>

Fails(c) == Fault /\ Return(c) /\ UNCHANGED <<vol, notified, watching, unreported, calls>>

FailsSilently(c) == Fault /\ ReturnSilently(c) /\ UNCHANGED <<vol, notified, watching, calls>>

Rejected(c) == Return(c) /\ UNCHANGED <<vol, notified, watching, unreported, calls, faults>>

RejectedSilently(c) ==
    ReturnSilently(c) /\ UNCHANGED <<vol, notified, watching, calls, faults>>

Continue(c, pc) == Goto(c, pc) /\ UNCHANGED <<vol, notified, watching, unreported, calls, faults>>

\* An LVM command that sets the size of the volume, then the step at pc.
Command(c, size, pc) ==
    /\ vol' = [vol EXCEPT ![call[c].name] = size]
    /\ Goto(c, pc)
    /\ UNCHANGED <<notified, watching, unreported, calls, faults>>

-----------------------------------------------------------------------------
(* CreateLV: free bytes, lvcreate, FindVolume, notify. *)

CreateLVCheck(c) ==
    /\ At(c, "CreateLV", "check")
    /\ \/ IF Free < call[c].size THEN Rejected(c) ELSE Continue(c, "command")
       \/ Fails(c)

\* Only VolumeGroup.CreateVolume insists on whole sectors.
CreateVolume(c) ==
    LET size == call[c].size IN
    /\ At(c, "CreateLV", "command")
    /\ \/ IF \/ Type = "thick" /\ size % SectorSize # 0
             \/ vol[call[c].name] # 0
             \/ ~HasRoom(RoundUp(size))
          THEN Rejected(c)
          ELSE Command(c, RoundUp(size), "find")
       \/ Fails(c)

CreateLVFind(c) ==
    /\ At(c, "CreateLV", "find")
    /\ \/ IF vol[call[c].name] = 0 THEN RejectedSilently(c) ELSE Continue(c, "notify")
       \/ FailsSilently(c)

-----------------------------------------------------------------------------
(* RemoveLV: lvremove, notify. *)

\* Mutant: nobody is notified of a removal.
RemoveLVSilent(c) ==
    /\ At(c, "RemoveLV", "check")
    /\ vol' = [vol EXCEPT ![call[c].name] = 0]
    /\ Return(c)
    /\ UNCHANGED <<notified, watching, unreported, calls, faults>>

RemoveLV(c) ==
    /\ At(c, "RemoveLV", "check")
    /\ \/ IF vol[call[c].name] = 0 THEN Rejected(c) ELSE Command(c, 0, "notify")
       \/ Fails(c)

-----------------------------------------------------------------------------
(* ResizeLV: the current size and the free bytes, lvresize, notify. *)

ResizeLVCheck(c) ==
    LET current == vol[call[c].name] IN
    /\ At(c, "ResizeLV", "check")
    /\ \/ IF \/ current = 0
             \/ call[c].size <= current
             \/ Free < call[c].size - current
          THEN Rejected(c)
          ELSE Continue(c, "command")
       \/ Fails(c)

\* lvresize -L refuses a size that is not larger than the one it finds.
ResizeVolume(c) ==
    LET current == vol[call[c].name]
        size    == RoundUp(call[c].size)
    IN
    /\ At(c, "ResizeLV", "command")
    /\ \/ IF current = 0 \/ size <= current \/ ~HasRoom(size - current)
          THEN Rejected(c)
          ELSE Command(c, size, "notify")
       \/ Fails(c)

-----------------------------------------------------------------------------
(* CreateLVSnapshot: the source and the free bytes, lvcreate -s, lvresize, *)
(* lvchange, notify.                                                       *)

\* Size 0 asks for the size of the source.
SnapshotCheck(c) ==
    LET sizeOnCreation == vol[call[c].source]
        desiredSize    == IF call[c].size = 0 THEN sizeOnCreation ELSE call[c].size
    IN
    /\ At(c, "CreateLVSnapshot", "check")
    /\ \/ IF \/ Type = "thick"
             \/ sizeOnCreation = 0
             \/ sizeOnCreation > desiredSize
             \/ Free < desiredSize
          THEN Rejected(c)
          ELSE /\ call' = [call EXCEPT ![c].pc = "command", ![c].size = desiredSize]
               /\ UNCHANGED <<vol, notified, watching, unreported, calls, faults>>
       \/ Fails(c)

\* The snapshot has the size its source has by now.
ThinSnapshot(c) ==
    /\ At(c, "CreateLVSnapshot", "command")
    /\ \/ IF vol[call[c].source] = 0 \/ vol[call[c].name] # 0
          THEN Rejected(c)
          ELSE Command(c, vol[call[c].source], "resize")
       \/ Fails(c)

\* Mutant: the snapshot keeps the size of its source.
SnapshotResizeSkipped(c) ==
    At(c, "CreateLVSnapshot", "resize") /\ Continue(c, "activate")

\* FindVolume and LogicalVolume.Resize.  A snapshot that cannot be resized stays.
SnapshotResize(c) ==
    LET current == vol[call[c].name] IN
    /\ At(c, "CreateLVSnapshot", "resize")
    /\ \/ IF current = 0 \/ current > call[c].size
          THEN RejectedSilently(c)
          ELSE Command(c, RoundUp(call[c].size), "activate")
       \/ FailsSilently(c)

\* A snapshot that cannot be activated is removed, if that can be done.
SnapshotActivate(c) ==
    /\ At(c, "CreateLVSnapshot", "activate")
    /\ \/ Continue(c, "notify")
       \/ /\ Fault
          /\ \/ vol' = [vol EXCEPT ![call[c].name] = 0]
             \/ UNCHANGED vol
          /\ ReturnSilently(c)
          /\ UNCHANGED <<notified, watching, calls>>

-----------------------------------------------------------------------------

PoolStep(c) ==
    \/ CreateLVCheck(c) \/ CreateVolume(c) \/ CreateLVFind(c)
    \/ RemoveLV(c)
    \/ ResizeLVCheck(c) \/ ResizeVolume(c)
    \/ SnapshotCheck(c) \/ ThinSnapshot(c) \/ SnapshotResize(c) \/ SnapshotActivate(c)
    \/ Notify(c)

NewRequest(c) ==
    \E name \in Names :
        \/ \E size \in Sizes : Request(c, "CreateLV", name, name, size)
        \/ \E size \in Sizes : Request(c, "ResizeLV", name, name, size)
        \/ Request(c, "RemoveLV", name, name, 0)
        \/ \E source \in Names \ {name}, size \in Sizes \cup {0} :
              Request(c, "CreateLVSnapshot", name, source, size)
=============================================================================
