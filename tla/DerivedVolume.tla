--------------------------- MODULE DerivedVolume ----------------------------
(***************************************************************************)
(* A thin volume and one volume made from it, a snapshot or a clone, as    *)
(* topolvm-node and lvmd keep them.  The life of each CR by itself is      *)
(* LVLifecycle's; here deletion is one step, and what counts is how the    *)
(* two depend on each other: the source may be expanded or deleted between *)
(* any two steps, and topolvm-node sees it through a cache.                *)
(***************************************************************************)
EXTENDS Integers

CONSTANTS None, SourceSizes,
          InitialSize, \* of the source
          MaxFaults    \* failing commands, lost status writes, crashes, early timeouts

ASSUME DerivedAssumption == SourceSizes \subseteq Nat \ {0} /\ InitialSize \in SourceSizes /\ MaxFaults \in Nat

VARIABLES src,     \* CR and LVM volume of the source, or None
          nsrc,    \* its CurrentSize in the cache of topolvm-node, 0 when it has no source
          derived, \* CR of the derived volume, or None
          dlvm,    \* its LVM volume, size 0 when there is none
          faults

nodeVars == <<src, nsrc, derived, dlvm, faults>>

Source == [spec : Nat, currentSize : Nat, lvm : Nat, deleting : BOOLEAN]

DerivedCR ==
    [size : Nat, volumeID : BOOLEAN, currentSize : Nat, code : {"OK", "Error"}, deleting : BOOLEAN]

ASSUME NoneAssumption == None \notin DerivedCR

NewDerived(size) ==
    [size |-> size, volumeID |-> FALSE, currentSize |-> 0, code |-> "OK", deleting |-> FALSE]

\* base is the size of the source when the snapshot was taken.
NoVolume == [size |-> 0, base |-> 0, active |-> FALSE]

SizeOf(copy) == IF copy = None THEN 0 ELSE copy.currentSize

NodeInit ==
    /\ src = [spec |-> InitialSize, currentSize |-> InitialSize, lvm |-> InitialSize,
              deleting |-> FALSE]
    /\ nsrc = src.currentSize
    /\ derived = None /\ dlvm = NoVolume
    /\ faults = MaxFaults

Fault == faults > 0 /\ faults' = faults - 1

-----------------------------------------------------------------------------
(* The source *)

\* expandLV: lvmd resizes, then the status is written, or not.
ExpandSource ==
    /\ src # None /\ ~src.deleting /\ src.spec > src.currentSize
    /\ \/ src' = [src EXCEPT !.lvm = src.spec, !.currentSize = src.spec] /\ UNCHANGED faults
       \/ src' = [src EXCEPT !.lvm = src.spec] /\ Fault
    /\ UNCHANGED <<nsrc, derived, dlvm>>

RemoveSource ==
    /\ src # None /\ src.deleting
    /\ src' = None
    /\ UNCHANGED <<nsrc, derived, dlvm, faults>>

NodeCacheSync ==
    /\ nsrc # SizeOf(src)
    /\ nsrc' = SizeOf(src)
    /\ UNCHANGED <<src, derived, dlvm, faults>>

-----------------------------------------------------------------------------
(* createLV for a CR with a source *)

Pending == derived # None /\ ~derived.deleting /\ derived.code = "OK" /\ ~derived.volumeID

\* A status write that fails is only logged or retried from the start.
WriteStatus(lv) == \/ derived' = lv /\ UNCHANGED faults
                   \/ UNCHANGED derived /\ Fault

\* volumeExists: lvmd does not answer.
VolumeExistsFails ==
    /\ Pending /\ Fault
    /\ derived' = [derived EXCEPT !.code = "Error"]
    /\ UNCHANGED <<src, nsrc, dlvm>>

\* volumeExists: a volume that is there is taken as it is, of unknown size.
Adopt ==
    /\ Pending /\ dlvm.size # 0
    /\ WriteStatus([derived EXCEPT !.volumeID = TRUE])
    /\ UNCHANGED <<src, nsrc, dlvm>>

\* The source is missing or too large: createLV returns an error and leaves
\* the CR as it is, to be tried again.
SourceRefused == nsrc = 0 \/ derived.size < nsrc

\* Mutant: lvmd resizes the snapshot to whatever is asked for.
TooSmallUnchecked == FALSE

\* lvmd: the snapshot has the size of its source to begin with.
TooSmall == src.lvm > derived.size

\* CreateLVSnapshot: lvcreate -s, lvresize, lvchange.
CreateLVSnapshot ==
    /\ Pending /\ dlvm.size = 0 /\ ~SourceRefused
    /\ \/ /\ src # None /\ ~TooSmall
          /\ dlvm' = [size |-> derived.size, base |-> src.lvm, active |-> TRUE]
          /\ WriteStatus([derived EXCEPT !.volumeID = TRUE, !.currentSize = derived.size])
       \/ /\ IF src = None THEN TRUE ELSE TooSmall
          /\ WriteStatus([derived EXCEPT !.code = "Error"])
          /\ UNCHANGED dlvm
    /\ UNCHANGED <<src, nsrc>>

\* The pool is full, a command fails or the process dies; what lvcreate made stays when it
\* cannot be removed, without its size or without being activated.
CreateLVSnapshotFails ==
    /\ Pending /\ dlvm.size = 0 /\ ~SourceRefused
    /\ src # None /\ ~TooSmall
    /\ Fault
    /\ \/ UNCHANGED dlvm
       \/ \E size \in {src.lvm, derived.size} :
            dlvm' = [size |-> size, base |-> src.lvm, active |-> FALSE]
    /\ derived' \in {derived, [derived EXCEPT !.code = "Error"]}
    /\ UNCHANGED <<src, nsrc>>

\* expandLV: a CurrentSize that is not known is found out by resizing.
ExpandDerived ==
    /\ derived # None /\ ~derived.deleting /\ derived.volumeID /\ derived.currentSize = 0
    /\ LET size == IF derived.size > dlvm.size THEN derived.size ELSE dlvm.size IN
       /\ dlvm' = [dlvm EXCEPT !.size = size]
       /\ WriteStatus([derived EXCEPT !.currentSize = size, !.code = "OK"])
    /\ UNCHANGED <<src, nsrc>>

\* ResizeLV fails: the code is set although the volume ID is there.
ExpandDerivedFails ==
    /\ derived # None /\ ~derived.deleting /\ derived.volumeID /\ derived.currentSize = 0
    /\ Fault
    /\ derived' = [derived EXCEPT !.code = "Error"]
    /\ UNCHANGED <<src, nsrc, dlvm>>

RemoveDerived ==
    /\ derived # None /\ derived.deleting
    /\ derived' = None /\ dlvm' = NoVolume
    /\ UNCHANGED <<src, nsrc, faults>>

NodeStep ==
    \/ ExpandSource \/ RemoveSource \/ NodeCacheSync
    \/ VolumeExistsFails \/ Adopt \/ CreateLVSnapshot \/ CreateLVSnapshotFails
    \/ ExpandDerived \/ ExpandDerivedFails \/ RemoveDerived
=============================================================================
