--------------------------- MODULE AbstractVolume ---------------------------
(***************************************************************************)
(* What TopoLVM promises about the volumes that are provided, one after    *)
(* the other, under one name: a volume is made once its request exists, it *)
(* only grows, it is removed only after it was asked to go, the request    *)
(* lasts as long as the volume, and nobody is told that a volume is        *)
(* deleted that is still there.  LVLifecycle implements it.                *)
(***************************************************************************)
EXTENDS Naturals

CONSTANTS UIDs, Sizes, None

VARIABLES owner,    \* the volume the current request is for, or None
          ending,   \* has it been asked to go?
          begun,    \* the volumes requested so far
          size,     \* what each volume has on the node, 0 for nothing
          lost,     \* the volumes the node lost sight of while removing them
          handle,   \* the volume the user was given, or None
          retired   \* the volumes the user was told are deleted

vars == <<owner, ending, begun, size, lost, handle, retired>>

Init ==
    /\ owner = None /\ ending = FALSE /\ begun = {}
    /\ size = [u \in UIDs |-> 0] /\ lost = {}
    /\ handle = None /\ retired = {}

Removed(u) == size[u] = 0 \/ u \in lost

Request(u) ==
    /\ owner = None /\ u \notin begun
    /\ owner' = u /\ ending' = FALSE /\ begun' = begun \cup {u}
    /\ UNCHANGED <<size, lost, handle, retired>>

AskToGo ==
    /\ owner # None
    /\ ending' = TRUE
    /\ UNCHANGED <<owner, begun, size, lost, handle, retired>>

\* A volume is made, or grows.
Provide(u, n) ==
    /\ owner = u /\ n >= size[u]
    /\ size' = [size EXCEPT ![u] = n]
    /\ UNCHANGED <<owner, ending, begun, lost, handle, retired>>

Remove(u) ==
    /\ (owner = u /\ ending) \/ u \in lost
    /\ size' = [size EXCEPT ![u] = 0]
    /\ UNCHANGED <<owner, ending, begun, lost, handle, retired>>

Lose(u) ==
    /\ owner = u /\ ending
    /\ lost' = lost \cup {u}
    /\ UNCHANGED <<owner, ending, begun, size, handle, retired>>

Release ==
    /\ owner # None /\ Removed(owner)
    /\ owner' = None /\ ending' = FALSE
    /\ UNCHANGED <<begun, size, lost, handle, retired>>

Give(u) ==
    /\ handle = None /\ u \in begun \ retired
    /\ handle' = u
    /\ UNCHANGED <<owner, ending, begun, size, lost, retired>>

ReportDeleted ==
    /\ handle # None /\ handle # owner /\ Removed(handle)
    /\ retired' = retired \cup {handle} /\ handle' = None
    /\ UNCHANGED <<owner, ending, begun, size, lost>>

Next ==
    \/ AskToGo \/ Release \/ ReportDeleted
    \/ \E u \in UIDs : \/ Request(u) \/ Remove(u) \/ Lose(u) \/ Give(u)
                       \/ \E n \in Sizes : Provide(u, n)

Spec == Init /\ [][Next]_vars
=============================================================================
