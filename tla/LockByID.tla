------------------------------ MODULE LockByID ------------------------------
(***************************************************************************)
(* LockByID of the CSI controller: one lock per volume name or volume ID,  *)
(* on top of one condition variable.  Looking at the map and parking, and  *)
(* clearing the map and waking, are each atomic under the mutex of the     *)
(* condition variable.                                                     *)
(***************************************************************************)
EXTENDS Naturals

CONSTANTS Calls,  \* concurrent gRPC calls
          IDs     \* names or volume IDs

VARIABLES pc,      \* each call: "idle", "want", "parked" or "holding"
          id,      \* the ID each call locks
          locked,  \* the IDs in the map
          panic    \* UnlockByID has panicked

vars == <<pc, id, locked, panic>>

TypeOK ==
    /\ pc \in [Calls -> {"idle", "want", "parked", "holding"}]
    /\ id \in [Calls -> IDs]
    /\ locked \subseteq IDs
    /\ panic \in BOOLEAN

Init ==
    /\ pc = [c \in Calls |-> "idle"]
    /\ id \in [Calls -> IDs]
    /\ locked = {} /\ panic = FALSE

\* A handler of controllerServer is called.
Call(c, i) ==
    /\ pc[c] = "idle"
    /\ pc' = [pc EXCEPT ![c] = "want"] /\ id' = [id EXCEPT ![c] = i]
    /\ UNCHANGED <<locked, panic>>

\* One turn of the loop: take the lock, or park in cond.Wait.
TryLock(c) ==
    /\ pc[c] = "want"
    /\ IF id[c] \in locked
       THEN pc' = [pc EXCEPT ![c] = "parked"] /\ UNCHANGED locked
       ELSE pc' = [pc EXCEPT ![c] = "holding"] /\ locked' = locked \cup {id[c]}
    /\ UNCHANGED <<id, panic>>

\* Mutant: nobody is woken.
UnlockByIDSilent(c) ==
    /\ pc[c] = "holding"
    /\ locked' = locked \ {id[c]} /\ panic' = (panic \/ id[c] \notin locked)
    /\ pc' = [pc EXCEPT ![c] = "idle"]
    /\ UNCHANGED id

\* UnlockByID panics if the ID is not in the map, and wakes every parked call.
UnlockByID(c) ==
    /\ pc[c] = "holding"
    /\ locked' = locked \ {id[c]} /\ panic' = (panic \/ id[c] \notin locked)
    /\ pc' = [d \in Calls |-> IF d = c THEN "idle" ELSE IF pc[d] = "parked" THEN "want" ELSE pc[d]]
    /\ UNCHANGED id

Next ==
    \E c \in Calls : TryLock(c) \/ UnlockByID(c) \/ \E i \in IDs : Call(c, i)

Spec == Init /\ [][Next]_vars

-----------------------------------------------------------------------------
(* Properties *)

\* lock.go: two calls for the same volume never run at the same time.
MutualExclusion ==
    \A c, d \in Calls : (c # d /\ pc[c] = "holding" /\ pc[d] = "holding") => id[c] # id[d]

\* No wakeup is lost, although all IDs share one condition variable: a parked
\* call has somebody to wake it, the holder of its ID.
ParkedHasHolder ==
    \A c \in Calls : pc[c] = "parked" => \E d \in Calls : pc[d] = "holding" /\ id[d] = id[c]

\* The panic of UnlockByID ("BUG: try to unlock not taken lock") is not reached.
NoPanic == ~panic
=============================================================================
