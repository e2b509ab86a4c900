--------------------------- MODULE ClaimReconciler ---------------------------
(***************************************************************************)
(* PersistentVolumeClaimReconciler of topolvm-controller.  It takes two    *)
(* finalizers of former versions off the claims, and nudges the kubelet to *)
(* resize a file system: it annotates the pods of a claim whose condition  *)
(* FileSystemResizePending is true.  The annotation has the time to the    *)
(* nanosecond, the condition has it to the second.                         *)
(***************************************************************************)
EXTENDS Naturals, FiniteSets

CONSTANTS Claims, Pods,
          Related,            \* the claims of TopoLVM's storage classes
          ClaimsPerPod,       \* Bound: claims a pod uses
          TicksPerSecond,
          MaxTime,            \* Bound: the clock
          MaxDisturbances     \* Bound: writes of others to pods, restarts

ASSUME ReconcilerAssumption ==
    /\ IsFiniteSet(Claims) /\ Related \subseteq Claims
    /\ ClaimsPerPod \in Nat /\ TicksPerSecond \in Nat \ {0}
    /\ MaxTime \in Nat /\ MaxDisturbances \in Nat

VARIABLES claim,   \* the claims in the API server
          cache,   \* the informer's copy
          pod,     \* the pods in the API server
          queue,   \* the claims to reconcile
          worker,  \* the call of Reconcile that is annotating pods
          now, disturbances

claimVars == <<claim, cache, pod, queue, worker, now, disturbances>>

Finalizers == {"legacy", "topolvm"}
Times == 0..MaxTime
Never == 0
Idle == [on |-> FALSE]

\* The time of a condition is truncated to the second.
LastTransitionTime(t) == t - (t % TicksPerSecond)

\* Claims may have finalizers of former versions, and both of them.
ClaimInit ==
    /\ claim \in [Claims -> [exists : {TRUE}, deleting : {FALSE}, finalizers : {{}, Finalizers},
                             since : {Never}, expanded : {FALSE}]]
    /\ cache = claim /\ queue = Claims
    /\ pod \in [Pods -> [exists : {TRUE}, uses : {u \in SUBSET Claims : Cardinality(u) <= ClaimsPerPod},
                         requestedAt : {Never}]]
    /\ worker = Idle /\ now = TicksPerSecond /\ disturbances = 0

UsedBy(c) == {p \in Pods : pod[p].exists /\ c \in pod[p].uses}

-----------------------------------------------------------------------------
(* The reconciler *)

\* The claim is of a storage class of TopoLVM.
isPVCRelated(c) == c \in Related

\* The finalizers that are left: the second RemoveFinalizer of the || is not
\* called when the first returns true.
removeUnusedFinalizer(pvc) ==
    IF "legacy" \in pvc.finalizers THEN pvc.finalizers \ {"legacy"} ELSE {}

\* Mutant: only the first of the two finalizers is ever removed.
ReconcileLegacyOnly(c) ==
    LET pvc == cache[c]
        stale == "legacy" \in pvc.finalizers
        conflict == stale /\ pvc # claim[c]
        notify == ~pvc.deleting /\ pvc.since # Never /\ isPVCRelated(c)
    IN  /\ ~worker.on /\ c \in queue
        /\ queue' = IF pvc.exists /\ conflict THEN queue ELSE queue \ {c}
        /\ IF pvc.exists /\ ~conflict
           THEN /\ claim' = IF ~stale THEN claim ELSE [claim EXCEPT ![c].finalizers = @ \ {"legacy"}]
                /\ worker' = IF ~notify THEN Idle
                             ELSE [on |-> TRUE, claim |-> c, condTransitionAt |-> LastTransitionTime(pvc.since),
                                   todo |-> UsedBy(c), touched |-> {}]
           ELSE UNCHANGED <<claim, worker>>
        /\ UNCHANGED <<cache, pod, now, disturbances>>

\* Reconcile reads the claim from the cache and removes at most one finalizer; a
\* conflict is retried.  The pods to annotate are listed from the API server.
ReconcileClaim(c) ==
    LET pvc == cache[c]
        conflict == pvc.finalizers # {} /\ pvc # claim[c]
        notify == ~pvc.deleting /\ pvc.since # Never /\ isPVCRelated(c)
    IN  /\ ~worker.on /\ c \in queue
        /\ queue' = IF pvc.exists /\ conflict THEN queue ELSE queue \ {c}
        /\ IF pvc.exists /\ ~conflict
           THEN /\ claim' = IF pvc.finalizers = {} THEN claim ELSE [claim EXCEPT ![c].finalizers = removeUnusedFinalizer(pvc)]
                /\ worker' = IF ~notify THEN Idle
                             ELSE [on |-> TRUE, claim |-> c, condTransitionAt |-> LastTransitionTime(pvc.since),
                                   todo |-> UsedBy(c), touched |-> {}]
           ELSE UNCHANGED <<claim, worker>>
        /\ UNCHANGED <<cache, pod, now, disturbances>>

\* Mutant: a failed update of a pod is not returned as an error.
NotifyIgnoringErrors(p) ==
    /\ worker.on /\ p \in worker.todo
    /\ worker' = [worker EXCEPT !.todo = @ \ {p}]
    /\ pod' = IF pod[p].requestedAt > worker.condTransitionAt \/ p \in worker.touched THEN pod
              ELSE [pod EXCEPT ![p].requestedAt = now]
    /\ UNCHANGED <<claim, cache, queue, now, disturbances>>

\* One turn of the loop over the pods: skip a pod annotated since, annotate it,
\* or give up and retry because somebody wrote to the pod since it was listed.
notifyKubeletToResizeFS(p) ==
    /\ worker.on /\ p \in worker.todo
    /\ LET skip == pod[p].requestedAt > worker.condTransitionAt
           conflict == ~skip /\ p \in worker.touched
       IN  /\ worker' = IF conflict THEN Idle ELSE [worker EXCEPT !.todo = @ \ {p}]
           /\ queue' = IF conflict THEN queue \cup {worker.claim} ELSE queue
           /\ pod' = IF skip \/ conflict THEN pod ELSE [pod EXCEPT ![p].requestedAt = now]
    /\ UNCHANGED <<claim, cache, now, disturbances>>

\* Reconcile returns.
Return ==
    /\ worker.on /\ worker.todo = {}
    /\ worker' = Idle
    /\ UNCHANGED <<claim, cache, pod, queue, now, disturbances>>

\* The informer sees a new version of a claim; the end of a claim is filtered.
Deliver(c) ==
    /\ cache[c] # claim[c]
    /\ cache' = [cache EXCEPT ![c] = claim[c]]
    /\ queue' = IF claim[c].exists THEN queue \cup {c} ELSE queue
    /\ UNCHANGED <<claim, pod, worker, now, disturbances>>

-----------------------------------------------------------------------------
(* The others *)

\* external-resizer has expanded the volume: the file system is to be resized.
Expand(c) ==
    /\ claim[c].exists /\ ~claim[c].deleting /\ ~claim[c].expanded
    /\ claim' = [claim EXCEPT ![c].since = now, ![c].expanded = TRUE]
    /\ UNCHANGED <<cache, pod, queue, worker, now, disturbances>>

\* The kubelet has resized the file system.
Resized(c) ==
    /\ claim[c].exists /\ claim[c].since # Never
    /\ claim' = [claim EXCEPT ![c].since = Never]
    /\ UNCHANGED <<cache, pod, queue, worker, now, disturbances>>

\* The user deletes a claim.
DeleteClaim(c) ==
    /\ claim[c].exists /\ ~claim[c].deleting
    /\ claim' = [claim EXCEPT ![c].deleting = TRUE]
    /\ UNCHANGED <<cache, pod, queue, worker, now, disturbances>>

\* The API server removes a claim without finalizers; Kubernetes protects a
\* claim that pods use with a finalizer of its own.
RemoveClaim(c) ==
    /\ claim[c].exists /\ claim[c].deleting /\ claim[c].finalizers = {} /\ UsedBy(c) = {}
    /\ claim' = [claim EXCEPT ![c].exists = FALSE]
    /\ UNCHANGED <<cache, pod, queue, worker, now, disturbances>>

\* Somebody writes to a pod, or deletes it.
TouchPod(p, gone) ==
    /\ pod[p].exists /\ disturbances < MaxDisturbances
    /\ pod' = [pod EXCEPT ![p].exists = ~gone]
    /\ worker' = IF worker.on THEN [worker EXCEPT !.touched = @ \cup {p}] ELSE worker
    /\ disturbances' = disturbances + 1
    /\ UNCHANGED <<claim, cache, queue, now>>

\* topolvm-controller restarts, and lists the claims.
Restart ==
    /\ disturbances < MaxDisturbances
    /\ worker' = Idle /\ cache' = claim /\ queue' = {c \in Claims : claim[c].exists}
    /\ disturbances' = disturbances + 1
    /\ UNCHANGED <<claim, pod, now>>

Tick ==
    /\ now < MaxTime /\ now' = now + 1
    /\ UNCHANGED <<claim, cache, pod, queue, worker, disturbances>>

Controller ==
    \/ \E c \in Claims : ReconcileClaim(c) \/ Deliver(c)
    \/ \E p \in Pods : notifyKubeletToResizeFS(p)
    \/ Return

ClaimNext ==
    \/ Controller
    \/ \E c \in Claims : Expand(c) \/ Resized(c) \/ DeleteClaim(c) \/ RemoveClaim(c)
    \/ \E p \in Pods, gone \in BOOLEAN : TouchPod(p, gone)
    \/ Restart
    \/ Tick

ClaimSpec == ClaimInit /\ [][ClaimNext]_claimVars

\* The work queue is worked off, the informer delivers, the API server removes.
FairClaimSpec ==
    /\ ClaimSpec
    /\ WF_claimVars(Return)
    /\ \A c \in Claims : SF_claimVars(ReconcileClaim(c)) /\ WF_claimVars(Deliver(c)) /\ WF_claimVars(RemoveClaim(c))
    /\ \A p \in Pods : WF_claimVars(notifyKubeletToResizeFS(p))

-----------------------------------------------------------------------------
(* Properties *)

\* notifyKubeletToResizeFS: when the reconciler has come to rest, the pods of a
\* claim that waits for its file system have been annotated since it waits.
NudgeFollowsResize ==
    \A c \in Related :
        (claim[c].exists /\ ~claim[c].deleting /\ claim[c].since # Never
            /\ cache[c] = claim[c] /\ c \notin queue /\ ~worker.on)
        => \A p \in UsedBy(c) : pod[p].requestedAt >= claim[c].since

\* removeUnusedFinalizer: a deleted claim that no pod uses goes away, even with
\* both finalizers of former versions, one removed by each call.
UnusedClaimGoes ==
    \A c \in Claims : (claim[c].deleting /\ UsedBy(c) = {}) ~> ~claim[c].exists

-----------------------------------------------------------------------------
(* What comments and documents say and the code does not keep (README.md) *)

\* docs/topolvm-controller.md: the pods of a claim under deletion are deleted.
PodsOfDeletedClaimsGo ==
    \A c \in Claims : (c \in Related /\ claim[c].deleting) ~> UsedBy(c) = {}
=============================================================================
