------------------------- MODULE MCControllerServer -------------------------
EXTENDS ControllerServer

\* A snapshot, and clones that are rounded up to their limit, or refused
\* because of it.
MCRequests ==
    {[kind |-> "snapshot", required |-> 0, limit |-> 0]}
      \cup {[kind |-> "clone", required |-> r[1], limit |-> r[2]] : r \in {<<3, 3>>, <<3, 4>>}}
=============================================================================
