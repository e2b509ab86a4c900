----------------------------- MODULE Placement ------------------------------
(***************************************************************************)
(* How a pod gets to a node that has room for its volumes: the webhook of  *)
(* topolvm-controller writes the requested sizes to the pod, the scheduler *)
(* extender compares them with the capacity annotations of the nodes, and  *)
(* CreateVolume allocates on the node that was selected.  Nobody reserves  *)
(* anything between these steps.                                           *)
(***************************************************************************)
EXTENDS VolumeSize, FiniteSetsExt

CONSTANTS Pods, Nodes, Classes, Claims,
          None,          \* no node
          OwnerOf,       \* the pod of each claim
          RequestOf,     \* the size each claim asks for, 0 for none
          ClassOf,       \* the device class of each claim
          Ephemeral,     \* claims made from a template of the pod
          Late,          \* claims that may be created after their pod
          Minimum,       \* the minimum allocation of the settings
          Capacity,      \* the initial capacity of each node
          MaxRestarts,   \* how often pods are deleted and created again
          MaxTimeouts    \* how often binding a scheduled pod times out

ASSUME PlacementAssumption ==
    /\ OwnerOf \in [Claims -> Pods] /\ ClassOf \in [Claims -> Classes]
    /\ RequestOf \in [Claims -> 0..MaxInt]
    /\ Ephemeral \subseteq Claims /\ Late \subseteq Claims
    /\ Minimum \in 0..MaxInt
    /\ Capacity \in [Nodes -> [Classes -> 0..MaxInt]]
    /\ MaxRestarts \in Nat /\ MaxTimeouts \in Nat
    /\ None \notin Nodes /\ {"absent", "pending"} \cap Nodes = {}

VARIABLES pod,        \* "new", "pending", "scheduled" or "running"
          requested,  \* the capacity annotations of each pod: class to size
          selected,   \* the node selected for each pod, or None
          claim,      \* "absent", "pending", or the node it is bound on
          free,       \* the free space of each volume group
          annotation, \* the capacity annotations of each node
          restarts, timeouts  \* what is left of the bounds

podVars == <<pod, requested, selected>>
placementVars == <<podVars, claim, free, annotation, restarts, timeouts>>

SumOver(S, size) == MapThenSumSet(LAMBDA c : size[c], S)
ClaimsOf(p) == {c \in Claims : OwnerOf[c] = p}
Bound(c) == claim[c] \in Nodes

Annotations == UNION {[S -> 0..MaxInt] : S \in SUBSET Classes}
NoAnnotation == [x \in {} |-> 0]

PlacementInit ==
    /\ pod = [p \in Pods |-> "new"]
    /\ requested = [p \in Pods |-> NoAnnotation]
    /\ selected = [p \in Pods |-> None]
    /\ claim = [c \in Claims |-> "absent"]
    /\ free = Capacity
    /\ annotation = [n \in Nodes |-> NoAnnotation]
    /\ restarts = MaxRestarts /\ timeouts = MaxTimeouts

-----------------------------------------------------------------------------
(* The pod webhook *)

\* Mutant: no request counts as nothing.
requestedSizeRaw(c) == RequestOf[c]

\* What a claim, or the template of one, asks for.
requestedSize(c) == IF RequestOf[c] # 0 THEN RequestOf[c] ELSE DefaultSize

\* A claim that does not exist yet is passed over; a template always counts.
Counted(p) == {c \in ClaimsOf(p) : c \in Ephemeral \/ claim[c] # "absent"}

\* Nothing is requested when one of the claims is bound already.
volumesCapacity(p) ==
    IF \E c \in Counted(p) \ Ephemeral : Bound(c) THEN NoAnnotation
    ELSE [dc \in {ClassOf[c] : c \in Counted(p)} |->
             SumOver({c \in Counted(p) : ClassOf[c] = dc}, [c \in Claims |-> requestedSize(c)])]

Handle(p) ==
    /\ pod[p] = "new"
    /\ \A c \in ClaimsOf(p) \ (Ephemeral \cup Late) : claim[c] # "absent"
    /\ pod' = [pod EXCEPT ![p] = "pending"]
    /\ requested' = [requested EXCEPT ![p] = volumesCapacity(p)]
    /\ UNCHANGED <<selected, claim, free, annotation, restarts, timeouts>>

-----------------------------------------------------------------------------
(* The scheduler extender *)

\* Mutant: a node must keep some free space.
filterNodeStrict(p, n) ==
    \A dc \in DOMAIN requested[p] :
        dc \in DOMAIN annotation[n] /\ annotation[n][dc] > requested[p][dc]

filterNode(p, n) ==
    \A dc \in DOMAIN requested[p] :
        dc \in DOMAIN annotation[n] /\ annotation[n][dc] >= requested[p][dc]

filterNodes(p) == {n \in Nodes : filterNode(p, n)}

\* kube-scheduler: the volumes of the pod pin it to their node, and any node
\* the extender has passed may be the best one.
Schedule(p) ==
    /\ pod[p] = "pending"
    /\ \A c \in ClaimsOf(p) : claim[c] # "absent"
    /\ \E n \in filterNodes(p) :
          /\ \A c \in ClaimsOf(p) : Bound(c) => claim[c] = n
          /\ selected' = [selected EXCEPT ![p] = n]
    /\ pod' = [pod EXCEPT ![p] = "scheduled"]
    /\ UNCHANGED <<requested, claim, free, annotation, restarts, timeouts>>

-----------------------------------------------------------------------------
(* Provisioning on the selected node *)

SizeOf(c) ==
    convertRequestCapacityBytes(MinMaxAllocationsFromSettings(RequestOf[c], Minimum), 0).bytes

VolumeSizes == [c \in Claims |-> SizeOf(c)]

Unplaced(p) ==
    /\ pod' = [pod EXCEPT ![p] = "pending"]
    /\ selected' = [selected EXCEPT ![p] = None]

\* Mutant: the volume goes to the roomiest node.
CreateVolumeRoomiest(c) ==
    LET p == OwnerOf[c]
        n == CHOOSE x \in Nodes : \A y \in Nodes : free[x][ClassOf[c]] >= free[y][ClassOf[c]]
    IN  /\ pod[p] = "scheduled" /\ claim[c] = "pending"
        /\ SizeOf(c) <= free[n][ClassOf[c]]
        /\ claim' = [claim EXCEPT ![c] = n]
        /\ free' = [free EXCEPT ![n][ClassOf[c]] = @ - SizeOf(c)]
        /\ UNCHANGED <<podVars, annotation, restarts, timeouts>>

\* lvmd compares the size with the free space of the moment; ResourceExhausted
\* makes external-provisioner give the pod back to the scheduler.
CreateVolumeOf(c) ==
    LET p == OwnerOf[c]
        n == selected[p]
    IN  /\ pod[p] = "scheduled" /\ claim[c] = "pending"
        /\ IF SizeOf(c) <= free[n][ClassOf[c]]
           THEN /\ claim' = [claim EXCEPT ![c] = n]
                /\ free' = [free EXCEPT ![n][ClassOf[c]] = @ - SizeOf(c)]
                /\ UNCHANGED <<pod, selected>>
           ELSE Unplaced(p) /\ UNCHANGED <<claim, free>>
        /\ UNCHANGED <<requested, annotation, restarts, timeouts>>

-----------------------------------------------------------------------------
(* The environment *)

CreateClaim(c) ==
    /\ claim[c] = "absent"
    /\ c \in Ephemeral => pod[OwnerOf[c]] # "new"
    /\ claim' = [claim EXCEPT ![c] = "pending"]
    /\ UNCHANGED <<podVars, free, annotation, restarts, timeouts>>

\* topolvm-node reports the capacity of its volume groups (CapacityWatch).
Report(n) ==
    /\ annotation[n] # free[n]
    /\ annotation' = [annotation EXCEPT ![n] = free[n]]
    /\ UNCHANGED <<podVars, claim, free, restarts, timeouts>>

Run(p) ==
    /\ pod[p] = "scheduled" /\ \A c \in ClaimsOf(p) : Bound(c)
    /\ pod' = [pod EXCEPT ![p] = "running"]
    /\ UNCHANGED <<requested, selected, claim, free, annotation, restarts, timeouts>>

\* The volumes are not bound in the time kube-scheduler allows.
BindTimeout(p) ==
    /\ pod[p] = "scheduled" /\ timeouts > 0
    /\ Unplaced(p)
    /\ timeouts' = timeouts - 1
    /\ UNCHANGED <<requested, claim, free, annotation, restarts>>

\* A pod is deleted and created again under the same name; the claims from
\* its templates, and their volumes, go with it.
Restart(p) ==
    LET gone == {c \in ClaimsOf(p) : c \in Ephemeral}
        Gone(n, dc) == {c \in gone : claim[c] = n /\ ClassOf[c] = dc}
    IN  /\ pod[p] = "running" /\ restarts > 0
        /\ pod' = [pod EXCEPT ![p] = "new"]
        /\ selected' = [selected EXCEPT ![p] = None]
        /\ requested' = [requested EXCEPT ![p] = NoAnnotation]
        /\ claim' = [c \in Claims |-> IF c \in gone THEN "absent" ELSE claim[c]]
        /\ free' = [n \in Nodes |-> [dc \in Classes |-> free[n][dc] + SumOver(Gone(n, dc), VolumeSizes)]]
        /\ restarts' = restarts - 1
        /\ UNCHANGED <<annotation, timeouts>>

PlacementNext ==
    \/ \E p \in Pods : Handle(p) \/ Schedule(p) \/ Run(p) \/ BindTimeout(p) \/ Restart(p)
    \/ \E c \in Claims : CreateClaim(c) \/ CreateVolumeOf(c)
    \/ \E n \in Nodes : Report(n)

PlacementSpec == PlacementInit /\ [][PlacementNext]_placementVars

\* Each of the processes involved gets on with its work; restarts and timeouts
\* may happen or not.
PlacementFairness ==
    /\ \A p \in Pods : WF_placementVars(Handle(p)) /\ WF_placementVars(Schedule(p)) /\ WF_placementVars(Run(p))
    /\ \A c \in Claims : WF_placementVars(CreateClaim(c)) /\ WF_placementVars(CreateVolumeOf(c))
    /\ \A n \in Nodes : WF_placementVars(Report(n))

FairPlacementSpec == PlacementSpec /\ PlacementFairness

-----------------------------------------------------------------------------
(* Properties *)

\* The sizes for which comparing what is requested with what is free decides:
\* the webhook adds requests up as they are, CreateVolume raises each of them to
\* the minimum allocation and rounds it up to sectors.
ExactSizes ==
    /\ IsFiniteSet(Claims)
    /\ \A n \in Nodes, dc \in Classes : Capacity[n][dc] % MinimumSectorSize = 0
    /\ \A c \in Claims : /\ Minimum <= requestedSize(c)
                         /\ requestedSize(c) + MinimumSectorSize - 1 <= MaxInt
    /\ \A c, d \in Claims :
          (/\ OwnerOf[c] = OwnerOf[d] /\ ClassOf[c] = ClassOf[d]
           /\ requestedSize(c) % MinimumSectorSize # 0 /\ requestedSize(d) % MinimumSectorSize # 0)
             => c = d

Needed(p, dc) == SumOver({c \in ClaimsOf(p) : ~Bound(c) /\ ClassOf[c] = dc}, VolumeSizes)

\* docs/topolvm-scheduler.md:40: "This verb filters out nodes whose volume
\* groups have not enough free space." A node that is selected for a pod while
\* its annotation is exact has room for the volumes the pod still needs, if
\* the webhook has written sizes to the pod and could see all of its claims.
SelectedNodeHasRoom ==
    [][\A p \in Pods :
         (/\ pod[p] = "pending" /\ pod'[p] = "scheduled"
          /\ requested[p] # NoAnnotation
          /\ ClaimsOf(p) \cap Late = {}
          /\ annotation[selected'[p]] = free[selected'[p]])
             => \A dc \in Classes : Needed(p, dc) <= free[selected'[p]][dc]]_placementVars

\* A running pod is on the node of all its volumes, also after it has been
\* scheduled again with some of them bound.
RunsWithItsVolumes ==
    \A p \in Pods : pod[p] = "running" => \A c \in ClaimsOf(p) : claim[c] = selected[p]

\* docs/design.md:65-68: the webhook's annotation and the nodes' annotations
\* place a pod. A pod with sizes, or with all its volumes, comes to run if
\* there is room for everything, however stale the annotations that it, or
\* another pod, was scheduled by. Excepted are behaviours in which a binding
\* times out: its pod may get its volume late, and then be kept from the
\* volume's node for lack of room.
PodsArePlaced ==
    \A p \in Pods :
        (pod[p] = "pending" /\ (requested[p] # NoAnnotation \/ \A c \in ClaimsOf(p) : Bound(c)))
            ~> (pod[p] = "running" \/ timeouts < MaxTimeouts)

-----------------------------------------------------------------------------
(* What comments and documents say and the code does not keep (README.md) *)

\* mutate_pod.go:204: "If the Pod has a bound PVC of TopoLVM, the pod will be
\* scheduled to the node of the existing PV."
PodsFollowTheirVolumes ==
    \A p \in Pods : (pod[p] = "pending" /\ \A c \in ClaimsOf(p) : Bound(c)) ~> pod[p] = "running"
=============================================================================
