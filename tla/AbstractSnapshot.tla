-------------------------- MODULE AbstractSnapshot --------------------------
(***************************************************************************)
(* What TopoLVM promises about the data of an online snapshot.  A thin     *)
(* snapshot that is backed up is given up only for a copy, or because it   *)
(* is not wanted any more; the copy is given up only then; the request     *)
(* outlives the volume; and a volume that is restored takes nothing from   *)
(* the copy it is made from, not even when it is deleted.  OnlineSnapshot  *)
(* implements it.                                                          *)
(***************************************************************************)

CONSTANT Operations  \* what the volume may be for: "Backup", "Restore"

VARIABLES purpose,   \* is it to be backed up or to be restored?
          request,   \* "held", "ending" (asked to go) or "gone"
          local,     \* is the volume on the node?
          copy,      \* what the repository has: "none", "data" or "empty"
          reported   \* does the request say that the operation has succeeded?

vars == <<purpose, request, local, copy, reported>>

Init ==
    /\ purpose \in Operations
    /\ request = "held" /\ local = TRUE /\ reported = FALSE
    /\ copy = IF purpose = "Restore" THEN "data" ELSE "none"

\* Something, if only a backup of nothing, is in the repository, or need not be.
Saved == copy # "none" \/ request # "held"

AskToGo ==
    /\ request = "held" /\ request' = "ending"
    /\ UNCHANGED <<purpose, local, copy, reported>>

Save ==
    /\ purpose = "Backup"
    /\ copy' \in {"data", "empty"}
    /\ UNCHANGED <<purpose, request, local, reported>>

Forget ==
    /\ purpose = "Backup" /\ request # "held"
    /\ copy' = "none"
    /\ UNCHANGED <<purpose, request, local, reported>>

Report ==
    /\ request # "gone" /\ (purpose = "Backup" => Saved)
    /\ reported' = TRUE
    /\ UNCHANGED <<purpose, request, local, copy>>

Retract ==
    /\ reported' = FALSE
    /\ UNCHANGED <<purpose, request, local, copy>>

RemoveLocal ==
    /\ request # "held" \/ (purpose = "Backup" /\ Saved)
    /\ local' = FALSE
    /\ UNCHANGED <<purpose, request, copy, reported>>

Release ==
    /\ request = "ending" /\ ~local
    /\ request' = "gone" /\ reported' = FALSE
    /\ UNCHANGED <<purpose, local, copy>>

Next == AskToGo \/ Save \/ Forget \/ Report \/ Retract \/ RemoveLocal \/ Release

Spec == Init /\ [][Next]_vars
=============================================================================
