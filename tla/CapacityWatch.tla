--------------------------- MODULE CapacityWatch ----------------------------
(***************************************************************************)
(* How the free capacity of a pool becomes an annotation of the Node:      *)
(* vgService.Watch in lvmd waits for notifications and sends what it       *)
(* reads; metricsExporter in topolvm-node receives it and patches the      *)
(* Node.  lvmd is embedded in topolvm-node (the stream is an unbuffered    *)
(* channel, and Watch runs in a goroutine nobody waits for) or a process   *)
(* of its own (the stream is gRPC's and carries Watch's error).            *)
(***************************************************************************)
EXTENDS LVMPool, Sequences

CONSTANTS Embedded,   \* is lvmd embedded in topolvm-node?
          StreamCap   \* messages a gRPC stream buffers

ASSUME WatchAssumption == Embedded \in BOOLEAN /\ StreamCap \in Nat \ {0}

VARIABLES wpc,     \* Watch: "off", "list", "send", "wait" or "ended"
          wval,    \* the value it is about to send
          stream,  \* messages on the gRPC stream
          epc,     \* metricsExporter: "recv", "update" or "stopped"
          res,     \* the last value it received, -1 before the first
          node,    \* the Node: annotation (-1 for none), finalizer, deletion
          nodeSeen \* the Node in the informer cache of topolvm-node

watchVars == <<wpc, wval, stream, epc, res, node, nodeSeen>>
vars == <<poolVars, watchVars>>

Node == [capacity : Nat \cup {-1}, finalizer : BOOLEAN, deleting : BOOLEAN]

\* Shapes of the state, and Watch has registered its channel while it runs.
TypeOK ==
    /\ PoolTypeOK
    /\ wpc \in {"off", "list", "send", "wait", "ended"}
    /\ (watching <=> wpc \in {"list", "send", "wait"})
    /\ wval \in Nat /\ res \in Nat \cup {-1}
    /\ stream \in Seq(Nat) /\ Len(stream) <= StreamCap
    /\ epc \in {"recv", "update", "stopped"}
    /\ node \in Node /\ nodeSeen \in Node

Init ==
    /\ PoolInit
    /\ notified = FALSE /\ watching = FALSE
    /\ wpc = "off" /\ wval = 0 /\ stream = <<>>
    /\ epc = "recv" /\ res = -1
    /\ node = [capacity |-> -1, finalizer |-> FALSE, deleting |-> FALSE]
    /\ nodeSeen = node

-----------------------------------------------------------------------------
(* vgService.Watch *)

\* addWatcher comes before the first send.
WatchStart ==
    /\ wpc = "off"
    /\ wpc' = "list" /\ watching' = TRUE /\ notified' = FALSE
    /\ UNCHANGED <<vol, call, unreported, calls, faults, wval, stream, epc, res, node, nodeSeen>>

\* Mutant: the channel stays registered when Watch returns.
SendListKeeps ==
    /\ wpc = "list"
    /\ \/ /\ wpc' = "send" /\ wval' = Reported /\ unreported' = FALSE
          /\ UNCHANGED faults
       \/ Fault /\ wpc' = "ended" /\ UNCHANGED <<wval, unreported>>
    /\ UNCHANGED <<vol, call, calls, notified, watching, stream, epc, res, node, nodeSeen>>

\* send reads the pool; an error ends Watch, which removes its channel.
SendList ==
    /\ wpc = "list"
    /\ \/ /\ wpc' = "send" /\ wval' = Reported /\ unreported' = FALSE
          /\ UNCHANGED <<notified, watching, faults>>
       \/ /\ Fault
          /\ wpc' = "ended" /\ watching' = FALSE /\ notified' = FALSE
          /\ UNCHANGED <<wval, unreported>>
    /\ UNCHANGED <<vol, call, calls, stream, epc, res, node, nodeSeen>>

\* server.Send on a gRPC stream blocks while the stream is full.
StreamSend ==
    /\ ~Embedded /\ wpc = "send" /\ Len(stream) < StreamCap
    /\ stream' = Append(stream, wval) /\ wpc' = "wait" /\ wval' = 0
    /\ UNCHANGED <<poolVars, epc, res, node, nodeSeen>>

WatchWake ==
    /\ wpc = "wait" /\ notified
    /\ wpc' = "list" /\ notified' = FALSE
    /\ UNCHANGED <<vol, call, watching, unreported, calls, faults, wval, stream, epc, res, node, nodeSeen>>

\* Mutant: no ticker.
TickNever ==
    /\ FALSE
    /\ UNCHANGED vars

\* Every ten minutes the watchers are notified anyway.
Tick ==
    /\ notifyWatchers
    /\ UNCHANGED <<vol, call, watching, unreported, calls, faults, watchVars>>

-----------------------------------------------------------------------------
(* metricsExporter.updateNode *)

Recv ==
    /\ epc = "recv"
    /\ \/ /\ stream # <<>>
          /\ res' = Head(stream) /\ stream' = Tail(stream)
          /\ UNCHANGED <<wpc, wval>>
       \/ /\ Embedded /\ wpc = "send"
          /\ res' = wval /\ wpc' = "wait" /\ wval' = 0
          /\ UNCHANGED stream
    /\ epc' = "update"
    /\ UNCHANGED <<poolVars, node, nodeSeen>>

\* The process ends and is started again: its caches are read afresh and
\* Watch is called again.
Reset ==
    /\ wpc' = "off" /\ wval' = 0 /\ stream' = <<>> /\ watching' = FALSE /\ notified' = FALSE
    /\ epc' = "recv" /\ res' = -1 /\ nodeSeen' = node
    /\ UNCHANGED <<vol, calls, node>>

Killed == call' = [c \in Clients |-> Idle] /\ unreported' = FALSE

Survives == ~Embedded /\ UNCHANGED <<call, unreported>>

\* Watch's error reaches the exporter over gRPC, and topolvm-node exits.
RecvError ==
    /\ ~Embedded /\ epc = "recv" /\ stream = <<>> /\ wpc = "ended"
    /\ Reset /\ UNCHANGED <<call, unreported, faults>>

\* The merge patch holds the fields in which the cached Node differs.
Patched(seen) ==
    [node EXCEPT !.capacity  = IF seen.capacity = res THEN @ ELSE res,
                 !.finalizer = @ \/ ~seen.finalizer]

UpdateNode ==
    /\ epc = "update"
    /\ IF nodeSeen.deleting
       THEN epc' = "stopped" /\ UNCHANGED node
       ELSE epc' = "recv" /\ node' = Patched(nodeSeen)
    /\ UNCHANGED <<poolVars, wpc, wval, stream, res, nodeSeen>>

\* A Get or Patch that fails ends the exporter and with it topolvm-node.
UpdateNodeFails ==
    /\ epc = "update" /\ Fault
    /\ Reset /\ (Killed \/ Survives)

NodeCacheSync ==
    /\ nodeSeen' = node
    /\ UNCHANGED <<poolVars, wpc, wval, stream, epc, res, node>>

\* The finalizer keeps a deleted Node until topolvm-controller removes it.
NodeDelete ==
    /\ node.finalizer /\ ~node.deleting
    /\ node' = [node EXCEPT !.deleting = TRUE]
    /\ UNCHANGED <<poolVars, wpc, wval, stream, epc, res, nodeSeen>>

\* topolvm-node or lvmd crashes.
Crash == Fault /\ Reset /\ (Killed \/ Survives)

Next ==
    \/ \E c \in Clients : NewRequest(c) /\ UNCHANGED watchVars
    \/ \E c \in Clients : PoolStep(c) /\ UNCHANGED watchVars
    \/ WatchStart \/ SendList \/ StreamSend \/ WatchWake \/ Tick
    \/ Recv \/ RecvError \/ UpdateNode \/ UpdateNodeFails
    \/ NodeCacheSync \/ NodeDelete \/ Crash

Spec == Init /\ [][Next]_vars

\* Goroutines that can run do, handlers get on, the informer delivers, the
\* ticker ticks.  Requests, faults and the deletion of the Node need not happen.
Fairness ==
    /\ \A c \in Clients : WF_vars(PoolStep(c) /\ UNCHANGED watchVars)
    /\ WF_vars(WatchStart) /\ WF_vars(SendList) /\ WF_vars(StreamSend) /\ WF_vars(WatchWake)
    /\ WF_vars(Tick) /\ WF_vars(Recv) /\ WF_vars(RecvError) /\ WF_vars(UpdateNode)
    /\ WF_vars(NodeCacheSync)

FairSpec == Spec /\ Fairness

-----------------------------------------------------------------------------
(* Properties *)

\* The latest value on its way to the Node.
Newest == IF wpc = "send" THEN wval
          ELSE IF stream # <<>> THEN stream[Len(stream)] ELSE res

\* Clients whose handler has changed the pool and has not notified yet.
Unfinished == {c \in Clients : call[c].pc \in {"find", "resize", "activate", "notify"}}

\* No notification is lost, although notifyWatchers drops the ones that find
\* the channel full: when no handler owes one and the channel is empty, the
\* latest value Watch read is the capacity of the pool.  Changes by handlers
\* that failed halfway are excepted; they notify nobody.
NoLostWakeup ==
    wpc \in {"send", "wait"} /\ ~notified /\ ~unreported /\ Unfinished = {} => Newest = Reported

\* One caller never drives a thin pool past its overprovision limit by more
\* than what LVM adds when it rounds up to an extent: the comparisons with
\* FreeBytes in CreateLV, CreateLVSnapshot and ResizeLV hold it, also when an
\* earlier rounding has left the pool above the limit.
OvercommitBounded ==
    Type = "thin" => VirtualBytes < VirtualPoolSize + Extent

\* A handler that is about to report success has a volume of at least the
\* size that was asked for (CreateLV, ResizeLV), and a snapshot at least as
\* large as the request (CreateLVSnapshot, whose volume starts with the size
\* of its source and is resized).
SuccessHasSize ==
    \A c \in Clients : call[c].pc = "notify" => vol[call[c].name] >= call[c].size

\* The annotation catches up with the pool: updateNode receives every change
\* in the end, also those of failed handlers, and repairs what a patch
\* against a stale Node has left out.  A Node that is being deleted is given up.
CapacityConverges == <>[](node.deleting \/ node.capacity = Reported)

-----------------------------------------------------------------------------
(* What comments and documents say and the code does not keep (README.md) *)

\* docs/topolvm-node.md: "The value is the free storage capacity reported by
\* `LVMd` in bytes."  When the exporter waits for the next message, the
\* annotation is the value of the last one.
AnnotationIsReported ==
    epc = "recv" /\ res # -1 => node.capacity = res
=============================================================================
