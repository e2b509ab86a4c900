---------------------------- MODULE MCPlacement -----------------------------
(* An instance of Placement for TLC: two pods race for the ssd space, where *)
(* no node has room for both; a third has a claim and a template in two     *)
(* classes, and fits on one of the nodes only, beside either of the others. *)
EXTENDS Placement, TLC

CONSTANTS p1, p2, p3, n1, n2, c1, c2, c3, c4, ssd, hdd

MCOwner == c1 :> p1 @@ c2 :> p2 @@ c3 :> p3 @@ c4 :> p3
MCRequest == c1 :> 8 @@ c2 :> 5 @@ c3 :> 0 @@ c4 :> 4
MCClass == c1 :> ssd @@ c2 :> ssd @@ c3 :> hdd @@ c4 :> ssd
MCCapacity == n1 :> (ssd :> 12 @@ hdd :> 12) @@ n2 :> (ssd :> 12 @@ hdd :> 8)

ASSUME InstanceIsExact == ExactSizes
=============================================================================
